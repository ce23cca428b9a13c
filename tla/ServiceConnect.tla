--------------------------- MODULE ServiceConnect ---------------------------
(***************************************************************************)
(* How Connect, ConnectProfile, Disconnect and DisconnectProfile of a      *)
(* BR/EDR device are carried out: the calls and the list of services that  *)
(* wait their turn (src/device.c), the states of the services              *)
(* (src/service.c), the connections of profiles that applications have     *)
(* registered (src/profile.c) and the SDP searches of one remote device    *)
(* (src/sdp-client.c).  The remote device, the kernel, the applications    *)
(* and the policy plugin are the environment.                              *)
(*                                                                         *)
(* A handler runs to its end, callbacks included, and is one action.  The  *)
(* operators take the state `d' of the daemon and give the next one.       *)
(***************************************************************************)
EXTENDS Naturals, Sequences, SequencesExt, FiniteSetsExt

CONSTANTS
    Services,    \* the profiles of the device as in dev->services, by priority
    Known,       \* those whose PSM or channel is known: no SDP search
    StartFails,  \* connections, and "browse", that may fail at the first call
    Incoming,    \* profiles the remote device connects to
    Policy,      \* profiles the policy plugin connects on its own
    Exits,       \* profiles whose application may exit
    MaxCalls,    \* D-Bus calls
    MaxOthers,   \* what others than the callers do: the last four, and lost links
    Steps        \* searches of one browse request (uuid_list)

Profile == ToSet(Services)
Call == 1..MaxCalls
Methods == {"Connect", "Disconnect"} \X {""}
           \cup {"ConnectProfile", "DisconnectProfile"} \X Profile

VARIABLES
    dev,     \* the daemon
    method   \* what each call asks for

vars == <<dev, method>>

\* "unknown": not discovered yet, "gone": unregistered; both have no btd_service.
States == {"unknown", "off", "connecting", "on", "disconnecting", "gone"}
\* An ext_io: waiting for authorization, for SDP, for the socket, for the answer
\* to NewConnection, connected, and waiting for that to RequestDisconnection.
Stages == {"auth", "search", "socket", "asking", "open", "closing"}

NoBrowse == [on |-> FALSE, msg |-> 0, step |-> 0, up |-> FALSE]

Init ==
    /\ \E r \in BOOLEAN :
        dev = [svc         |-> [p \in Profile |-> IF r THEN "off" ELSE "unknown"],
               conns       |-> [p \in Profile |-> <<>>],  \* ext->conns of the device
               searches    |-> <<>>,    \* context_list: who started each search
               browse      |-> NoBrowse,
               pending     |-> <<>>,    \* services to connect, the head is under way
               connect     |-> 0,       \* the call to answer when they are
               disconnect  |-> 0,
               disconnects |-> {},
               link        |-> FALSE,   \* bredr_state.connected
               timer       |-> FALSE,   \* disconn_timer
               down        |-> FALSE,   \* the kernel was told to disconnect
               resolved    |-> r,
               refreshed   |-> FALSE,
               told        |-> [i \in Call |-> "none"],
               others      |-> 0,
               \* what the exceptions of the properties look at
               dropped     |-> {},      \* calls whose message was freed
               stalled     |-> FALSE,   \* the head of pending was taken away
               crossed     |-> {},      \* profiles with two connections at once
               refused     |-> {},      \* RequestDisconnection answered with an error
               linkless    |-> {},      \* Disconnects without a link, by a service left on
               crowded     |-> FALSE]   \* two searches at once
    /\ method = [i \in Call |-> <<"", "">>]

-----------------------------------------------------------------------------
\* Answers and searches

\* Without a link too, as long as a service has not noticed that it is gone.
btd_device_is_connected(d) == d.link \/ \E p \in Profile : d.svc[p] = "on"

Reply(d, i, r) == [d EXCEPT !.told[i] = IF @ = "open" THEN r ELSE "twice"]

AnswerConnect(d, r) ==
    IF d.connect = 0 THEN d ELSE [Reply(d, d.connect, r) EXCEPT !.connect = 0]

bt_search(d, owner) ==
    [d EXCEPT !.searches = Append(@, owner), !.crowded = @ \/ d.searches # <<>>]

\* Mutant: the search goes on.
bt_cancel_discovery_not(d) == d

\* The first search of the device is cancelled, whoever waits for it.
bt_cancel_discovery(d) ==
    IF d.searches = <<>> THEN d ELSE [d EXCEPT !.searches = Tail(@)]

Served(d, owner) == [d EXCEPT !.searches = Remove(@, owner)]

device_browse_sdp(d, msg) ==
    bt_search([d EXCEPT !.browse = [on |-> TRUE, msg |-> msg, step |-> 1, up |-> d.link]],
              "browse")

\* A freed owner of a search is called back with it: nothing is promised then.
Dangling(d) ==
    \E o \in ToSet(d.searches) :
        IF o = "browse" THEN ~d.browse.on ELSE ~Contains(d.conns[o], "search")

-----------------------------------------------------------------------------
\* Connections of a profile (struct ext_io)

ext_io_new(d, p, stage) ==
    [d EXCEPT !.conns[p] = Append(@, stage),
              !.crossed = IF d.conns[p] = <<>> THEN @ ELSE @ \cup {p}]

ext_io_destroy(d, p, k) ==
    LET e == [d EXCEPT !.conns[p] = RemoveAt(@, k)]
    IN IF d.conns[p][k] = "search" THEN bt_cancel_discovery(e) ELSE e

ext_connect_dev(d, p) ==
    IF p \in Known THEN ext_io_new(d, p, "socket")
                   ELSE bt_search(ext_io_new(d, p, "search"), p)

-----------------------------------------------------------------------------
\* Connecting the services that wait

\* What btd_service_connect returns; `bad' are the connections that fail at once.
ConnectResult(d, p, bad) ==
    CASE d.svc[p] \in {"unknown", "gone"} -> "inval"
      [] d.svc[p] = "connecting"    -> "under way"
      [] d.svc[p] = "on"            -> "already"
      [] d.svc[p] = "disconnecting" -> "busy"
      [] d.svc[p] = "off" /\ d.conns[p] # <<>> -> "already"
      [] d.svc[p] = "off" /\ d.conns[p] = <<>> /\ p \in bad -> "fail"
      [] OTHER -> "started"

btd_service_connect(d, p, bad) ==
    IF ConnectResult(d, p, bad) = "started"
    THEN [ext_connect_dev(d, p) EXCEPT !.svc[p] = "connecting"] ELSE d

\* The services that cannot be connected are dropped until one can.
Startable(d, bad) ==
    {k \in DOMAIN d.pending :
        ConnectResult(d, d.pending[k], bad) \in {"started", "under way"}}
connect_next(d, bad) ==
    LET ready == Startable(d, bad)
        k == Min(ready)
    IN IF ready = {}
       THEN [d EXCEPT !.pending = <<>>, !.stalled = FALSE]
       ELSE [btd_service_connect(d, d.pending[k], bad)
                EXCEPT !.pending = SubSeq(@, k, Len(@)), !.stalled = FALSE]

\* Mutant: ConnectProfile is a success too if another service is connected.
pending_done_any(d, err, bad) ==
    LET e == [d EXCEPT !.pending = <<>>, !.stalled = FALSE]
        fine == err = "ok" \/ \E q \in Profile : d.svc[q] = "on"
    IN IF d.connect = 0 THEN e ELSE AnswerConnect(e, IF fine THEN "ok" ELSE "error")

\* The `done' part of device_profile_connected: Connect is a success if one
\* service is connected, and the services are looked up again behind it.
pending_done(d, err, bad) ==
    LET e == [d EXCEPT !.pending = <<>>, !.stalled = FALSE]
        fine == \/ err = "ok"
                \/ method[d.connect][1] = "Connect" /\ \E q \in Profile : d.svc[q] = "on"
    IN CASE d.connect = 0 -> e
         [] d.connect # 0 /\ ~fine -> AnswerConnect(e, "error")
         [] OTHER ->
              AnswerConnect(IF d.refreshed \/ d.browse.on \/ "browse" \in bad
                            THEN e ELSE device_browse_sdp(e, 0), "ok")

\* Mutant: the next service is not connected when one has failed.
device_profile_connected_stops(d, p, err, bad) ==
    LET e == [d EXCEPT !.pending = Remove(@, p)]
    IN IF err # "ok" THEN e
       ELSE IF d.pending = <<>> THEN pending_done(d, err, bad)
       ELSE IF d.pending[1] # p THEN e
       ELSE IF Startable(e, bad) = {} THEN pending_done(e, err, bad)
       ELSE connect_next(e, bad)

\* A service has left "connecting", well or not.
device_profile_connected(d, p, err, bad) ==
    LET hopeless == ~btd_device_is_connected(d) /\ err \in {"hostdown", "aborted"}
        e == [d EXCEPT !.pending = Remove(@, p)]
    IN IF d.pending = <<>> \/ hopeless THEN pending_done(d, err, bad)
       ELSE IF d.pending[1] # p THEN e
       ELSE IF Startable(e, bad) = {} THEN pending_done(e, err, bad)
       ELSE connect_next(e, bad)

\* Mutant: only a service that is connecting can be connected.
btd_service_connecting_complete_strict(d, p, err, bad) ==
    LET e == [d EXCEPT !.svc[p] = IF err = "ok" THEN "on" ELSE "off"]
    IN IF d.svc[p] = "connecting" THEN device_profile_connected(e, p, err, bad) ELSE d

\* A service that was disconnected meanwhile becomes connected all the same.
btd_service_connecting_complete(d, p, err, bad) ==
    LET e == [d EXCEPT !.svc[p] = IF err = "ok" THEN "on" ELSE "off"]
    IN IF d.svc[p] = "connecting" THEN device_profile_connected(e, p, err, bad)
       ELSE IF d.svc[p] = "off" THEN e
       ELSE d

-----------------------------------------------------------------------------
\* Disconnecting

\* Whatever profile it was that was disconnected, the waiting call is answered.
device_profile_disconnected(d, err) ==
    IF d.disconnect = 0 THEN d
    ELSE [Reply(d, d.disconnect, IF err = "ok" THEN "ok" ELSE "error")
            EXCEPT !.disconnect = 0]

\* "If disconnect fails, we assume it remains connected".
btd_service_disconnecting_complete(d, p, err) ==
    LET e == [d EXCEPT !.svc[p] = IF err = "ok" THEN "off" ELSE "on"]
    IN IF d.svc[p] = "disconnecting" THEN device_profile_disconnected(e, err)
       ELSE IF d.svc[p] = "on" THEN e
       ELSE d

\* ext_disconnect_dev looks at the first connection of the profile only.
Busy(d, p) == d.conns[p] # <<>> /\ d.conns[p][1] = "closing"
btd_service_disconnect(d, p) ==
    LET e == [d EXCEPT !.svc[p] = "disconnecting",
                       !.stalled = @ \/ (d.svc[p] = "connecting" /\ d.pending # <<>>
                                          /\ d.pending[1] = p)]
    IN IF d.svc[p] \notin {"connecting", "on"} THEN d
       ELSE IF Busy(d, p) THEN btd_service_disconnecting_complete(e, p, "busy")
       ELSE IF d.conns[p] # <<>> /\ d.conns[p][1] = "open"
            THEN [e EXCEPT !.conns[p][1] = "closing"]
       ELSE btd_service_disconnecting_complete(e, p, "ok")

\* browse_request_cancel frees the message of the call unanswered.
browse_request_cancel(d) ==
    IF ~d.browse.on THEN d
    ELSE [bt_cancel_discovery(d) EXCEPT !.browse = NoBrowse,
              !.dropped = @ \cup ({d.browse.msg} \ {0})]

\* The call is kept for device_remove_connection before it is known whether the
\* services that are disconnected here were all that was connected.
KeepDisconnect(d, i) ==
    LET kept == btd_device_is_connected(d)
    IN [d EXCEPT !.disconnects = IF kept THEN @ \cup {i} ELSE @,
                 !.linkless = IF ~d.link /\ (kept \/ d.timer) THEN @ \cup {i} ELSE @]
DisconnectServices(d) ==
    [FoldLeft(btd_service_disconnect, d, Services) EXCEPT !.pending = <<>>, !.stalled = FALSE]

\* Mutant: with the timer running there is nothing left to do.
device_request_disconnect_early(d, i) ==
    LET a == AnswerConnect(browse_request_cancel(d), "error")
        c == DisconnectServices(KeepDisconnect(a, i))
    IN IF a.timer THEN a
       ELSE IF btd_device_is_connected(c) THEN [c EXCEPT !.timer = TRUE]
       ELSE Reply(c, i, "ok")

device_request_disconnect(d, i) ==
    LET b == KeepDisconnect(AnswerConnect(browse_request_cancel(d), "error"), i)
        c == DisconnectServices(b)
    IN IF b.timer THEN b
       ELSE IF btd_device_is_connected(c) THEN [c EXCEPT !.timer = TRUE]
       ELSE Reply(c, i, "ok")

-----------------------------------------------------------------------------
\* The four methods

Present(d, p) == d.svc[p] \notin {"unknown", "gone"}

create_pending_list(d, m) ==
    IF m[1] = "Connect"
    THEN SelectSeq(Services, LAMBDA p : d.svc[p] = "off")
    ELSE IF Present(d, m[2]) THEN <<m[2]>> ELSE <<>>

connect_profiles(d, i, m, bad) ==
    LET list == create_pending_list(d, m)
        e == [d EXCEPT !.pending = list]
        last == ConnectResult(e, list[Len(list)], bad)
    IN IF d.pending # <<>> \/ d.connect # 0 \/ d.browse.on THEN Reply(d, i, "error")
       ELSE IF ~d.resolved \/ (list = <<>> /\ ~d.refreshed)
            THEN IF "browse" \in bad THEN Reply(d, i, "error") ELSE device_browse_sdp(d, i)
       ELSE IF list = <<>>
            THEN Reply(d, i, IF m[1] = "Connect" /\ \E q \in Profile : d.svc[q] = "on"
                             THEN "ok" ELSE "error")
       ELSE IF Startable(e, bad) # {} THEN [connect_next(e, bad) EXCEPT !.connect = i]
       ELSE Reply(connect_next(e, bad), i, IF last = "already" THEN "ok" ELSE "error")

disconnect_profile(d, i, p) ==
    LET e == btd_service_disconnect([d EXCEPT !.disconnect = i], p)
    IN IF ~Present(d, p) \/ d.disconnect # 0 THEN Reply(d, i, "error")
       ELSE IF d.svc[p] = "off" THEN Reply(d, i, "ok")
       ELSE IF d.svc[p] \in {"connecting", "on"} /\ Busy(d, p)
            THEN Reply([e EXCEPT !.disconnect = 0], i, "error")
       ELSE e

Bad == SUBSET StartFails
Alive == ~Dangling(dev)
Quiet == UNCHANGED method
Meddled(d) == [d EXCEPT !.others = @ + 1]
MayMeddle == Alive /\ dev.others < MaxOthers

Ask(i, m, bad) ==
    /\ Alive /\ dev.told[i] = "none" /\ \A j \in 1..(i - 1) : dev.told[j] # "none"
    /\ method' = [method EXCEPT ![i] = m]
    /\ LET d == [dev EXCEPT !.told[i] = "open"]
       IN dev' = CASE m[1] = "Disconnect" -> device_request_disconnect(d, i)
                   [] m[1] = "DisconnectProfile" -> disconnect_profile(d, i, m[2])
                   [] OTHER -> connect_profiles(d, i, m, bad)

-----------------------------------------------------------------------------
\* Handlers of the searches

\* browse_cb: one search after the other, then search_cb.
browse_cb ==
    /\ Alive /\ Contains(dev.searches, "browse") /\ dev.browse.up
    /\ dev.browse.step < Steps
    /\ dev' = bt_search(Served([dev EXCEPT !.browse.step = @ + 1], "browse"), "browse")
    /\ Quiet

\* search_cb, device_svc_resolved and browse_request_complete: a call that waited
\* for the services is carried out now.
search_cb(ok, bad) ==
    LET msg == dev.browse.msg
        d == [Served(dev, "browse") EXCEPT
                !.browse = NoBrowse, !.resolved = TRUE, !.refreshed = @ \/ dev.link,
                !.svc = [p \in Profile |-> IF ok /\ @[p] = "unknown" THEN "off" ELSE @[p]]]
        e == IF ok THEN d ELSE AnswerConnect(d, "error")
    IN /\ Alive /\ Contains(dev.searches, "browse")
       /\ ok => dev.browse.up /\ dev.browse.step = Steps
       /\ dev' = IF msg = 0 THEN e
                 ELSE IF ok THEN connect_profiles(e, msg, method[msg], bad)
                 ELSE Reply(e, msg, "error")
       /\ Quiet

\* record_cb: the search of a profile for its channel.
record_cb(p, ok, bad) ==
    LET k == SelectInSeq(dev.conns[p], LAMBDA s : s = "search")
        d == [Served(dev, p) EXCEPT !.conns[p][k] = "socket"]
    IN /\ Alive /\ Contains(dev.searches, p)
       /\ ok => dev.link
       /\ dev' = IF ok THEN d
                 ELSE ext_io_destroy(btd_service_connecting_complete(d, p, "eio", bad), p, k)
       /\ Quiet

-----------------------------------------------------------------------------
\* Handlers of the connections

\* ext_confirm: the service is created if it was not known.
ext_confirm(p) ==
    /\ MayMeddle /\ p \in Incoming /\ dev.svc[p] # "gone" /\ dev.link /\ Len(dev.conns[p]) < 2
    /\ dev' = [ext_io_new(Meddled(dev), p, "auth")
                 EXCEPT !.svc[p] = IF @ = "unknown" THEN "off" ELSE @]
    /\ Quiet

ext_auth(p, k, ok) ==
    /\ Alive /\ k \in DOMAIN dev.conns[p] /\ dev.conns[p][k] = "auth"
    /\ dev' = IF ok THEN [dev EXCEPT !.conns[p][k] = "socket"]
              ELSE ext_io_destroy(dev, p, k)
    /\ Quiet

\* ext_connect: service_set_connecting refuses while the service disconnects.
ext_connect(p, k, err, bad) ==
    LET d == [dev EXCEPT !.svc[p] = IF @ = "off" THEN "connecting" ELSE @]
        drop(e, x) == ext_io_destroy(btd_service_connecting_complete(e, p, x, bad), p, k)
    IN /\ Alive /\ k \in DOMAIN dev.conns[p] /\ dev.conns[p][k] = "socket"
       /\ err = "ok" => dev.link
       /\ err = "hostdown" => ~dev.link
       /\ dev' = IF err # "ok" THEN drop(dev, err)
                 ELSE IF dev.svc[p] = "disconnecting" THEN drop(dev, "eio")
                 ELSE [d EXCEPT !.conns[p][k] = "asking"]
       /\ Quiet

new_conn_reply(p, k, ok, bad) ==
    /\ Alive /\ k \in DOMAIN dev.conns[p] /\ dev.conns[p][k] = "asking"
    /\ dev' = IF ok
              THEN [btd_service_connecting_complete(dev, p, "ok", bad)
                      EXCEPT !.conns[p][k] = "open"]
              ELSE ext_io_destroy(btd_service_connecting_complete(dev, p, "refused", bad), p, k)
    /\ Quiet

ext_io_disconnected(p, k, bad) ==
    /\ Alive /\ k \in DOMAIN dev.conns[p] /\ dev.conns[p][k] \in {"asking", "open", "closing"}
    /\ dev' = ext_io_destroy(
                IF dev.svc[p] = "connecting"
                THEN btd_service_connecting_complete(dev, p, "eio", bad)
                ELSE btd_service_disconnecting_complete(dev, p, "ok"), p, k)
    /\ Quiet

disconn_reply(p, k, ok) ==
    /\ Alive /\ k \in DOMAIN dev.conns[p] /\ dev.conns[p][k] = "closing"
    /\ dev' = ext_io_destroy(
                IF ok THEN btd_service_disconnecting_complete(dev, p, "ok")
                ELSE [btd_service_disconnecting_complete(dev, p, "refused")
                        EXCEPT !.refused = @ \cup {p}], p, k)
    /\ Quiet

\* The application exits: device_remove_profile takes the service off the list
\* before service_remove reports it, and all its connections are freed.
ext_exited(p, bad) ==
    LET head == dev.pending # <<>> /\ dev.pending[1] = p
        a == [Meddled(dev) EXCEPT !.pending = Remove(@, p), !.svc[p] = "gone",
                         !.stalled = @ \/ head]
        b == CASE dev.svc[p] = "connecting" -> device_profile_connected(a, p, "aborted", bad)
               [] dev.svc[p] = "disconnecting" -> device_profile_disconnected(a, "aborted")
               [] OTHER -> a
        search == Contains(dev.conns[p], "search")
        c == [b EXCEPT !.conns[p] = <<>>]
    IN /\ MayMeddle /\ p \in Exits /\ dev.svc[p] # "gone"
       /\ dev' = IF search THEN bt_cancel_discovery(c) ELSE c
       /\ Quiet

-----------------------------------------------------------------------------
\* The link, the timer and the others who connect services

device_add_connection ==
    /\ Alive /\ ~dev.link
    /\ dev' = [dev EXCEPT !.link = TRUE, !.browse.up = dev.browse.on]
    /\ Quiet

disconnect_all ==
    /\ Alive /\ dev.timer
    /\ dev' = [dev EXCEPT !.timer = FALSE, !.down = dev.link]
    /\ Quiet

device_remove_connection ==
    LET d == AnswerConnect(dev, "error")
    IN /\ Alive /\ dev.link /\ (dev.down \/ dev.others < MaxOthers)
       /\ dev' = [d EXCEPT !.link = FALSE, !.refreshed = FALSE, !.timer = FALSE,
                           !.down = FALSE, !.disconnects = {},
                           !.others = IF dev.down THEN @ ELSE @ + 1,
                           !.told = [i \in Call |->
                                IF i \in d.disconnects
                                THEN IF @[i] = "open" THEN "ok" ELSE "twice" ELSE @[i]]]
       /\ Quiet

\* The policy plugin, or the adapter when it is switched on.
btd_device_connect_services(list, bad) ==
    /\ MayMeddle /\ Policy # {}
    /\ dev.pending = <<>> /\ dev.connect = 0 /\ ~dev.browse.on /\ dev.resolved
    /\ \A k \in DOMAIN list : Present(dev, list[k])
    /\ dev' = connect_next([Meddled(dev) EXCEPT !.pending = list], bad)
    /\ Quiet

policy_connect(p, bad) ==
    /\ MayMeddle /\ p \in Policy
    /\ ConnectResult(dev, p, bad) = "started"
    /\ dev' = btd_service_connect(Meddled(dev), p, bad)
    /\ Quiet

policy_disconnect(p) ==
    /\ MayMeddle /\ p \in Policy
    /\ dev' = btd_service_disconnect(Meddled(dev), p)
    /\ Quiet

device_discover_services ==
    /\ MayMeddle /\ Policy # {} /\ dev.link /\ ~dev.browse.on
    /\ dev' = device_browse_sdp(Meddled(dev), 0)
    /\ Quiet

Errors == {"ok", "hostdown", "refused"}
SearchEnds == browse_cb \/ \E ok \in BOOLEAN, bad \in Bad : search_cb(ok, bad)
RecordEnds(p) == \E ok \in BOOLEAN, bad \in Bad : record_cb(p, ok, bad)
SocketEnds(p, k) == \E err \in Errors, bad \in Bad : ext_connect(p, k, err, bad)
AuthEnds(p, k) == \E ok \in BOOLEAN : ext_auth(p, k, ok)
AnswerComes(p, k) ==
    \E ok \in BOOLEAN : disconn_reply(p, k, ok) \/ \E bad \in Bad : new_conn_reply(p, k, ok, bad)
HangsUp(p, k) == \E bad \in Bad : ext_io_disconnected(p, k, bad)

Lists == {create_pending_list(dev, <<"Connect", "">>)} \cup {<<p>> : p \in Policy}

Next ==
    \/ \E i \in Call, m \in Methods, bad \in Bad : Ask(i, m, bad)
    \/ SearchEnds
    \/ \E p \in Profile : RecordEnds(p) \/ ext_confirm(p) \/ policy_disconnect(p)
    \/ \E p \in Profile, bad \in Bad : ext_exited(p, bad) \/ policy_connect(p, bad)
    \/ \E p \in Profile, k \in 1..2 :
        SocketEnds(p, k) \/ AuthEnds(p, k) \/ AnswerComes(p, k) \/ HangsUp(p, k)
    \/ device_add_connection \/ disconnect_all \/ device_remove_connection
    \/ device_discover_services
    \/ \E list \in Lists, bad \in Bad : btd_device_connect_services(list, bad)

Spec == Init /\ [][Next]_vars

\* Searches, authorizations, sockets and D-Bus calls come to an end, well or not:
\* each has a time-out of its own.  A socket hangs up when the link is gone, and
\* the kernel drops the link when it was told to.
ConnEnds(p, k) ==
    SocketEnds(p, k) \/ AuthEnds(p, k) \/ AnswerComes(p, k) \/ (~dev.link /\ HangsUp(p, k))

\* What is due.  That some of it happens is enough: each of it happens a bounded
\* number of times before the others must act.
Due ==
    \/ SearchEnds \/ disconnect_all \/ (dev.down /\ device_remove_connection)
    \/ \E p \in Profile : RecordEnds(p) \/ \E k \in 1..2 : ConnEnds(p, k)

FairSpec == Spec /\ WF_vars(Due)

-----------------------------------------------------------------------------
\* Properties

TypeOK ==
    /\ dev.svc \in [Profile -> States] /\ dev.conns \in [Profile -> BoundedSeq(Stages, 2)]
    /\ ToSet(dev.searches) \subseteq Profile \cup {"browse"}
    /\ ToSet(dev.pending) \subseteq Profile /\ {dev.connect, dev.disconnect} \subseteq 0..MaxCalls
    /\ dev.disconnects \subseteq Call /\ dev.linkless \subseteq Call
    /\ dev.told \in [Call -> {"none", "open", "ok", "error", "twice"}]

\* The list of services to connect is driven by its head alone: as long as there
\* is one, its connection is under way, so that somebody will report it
\* (device_profile_connected).  The head can be lost in two ways: DisconnectProfile
\* of a service that is still connecting, and the end of its application.
PendingDriven ==
    dev.pending # <<>> => dev.svc[dev.pending[1]] = "connecting" \/ dev.stalled

\* What service.c says of a profile is what profile.c has: as long as a profile
\* never had two connections at once, a service that is connecting or
\* disconnecting has the one connection that will report it, a connection that
\* is open is known, and a service is connected only with one; except when the
\* application refuses to disconnect, for the connection is closed all the same.
Some(p, stages) == ToSet(dev.conns[p]) \cap stages # {}
SessionMatches ==
    \A p \in Profile \ dev.crossed :
        /\ dev.svc[p] = "connecting" => Some(p, {"search", "socket", "asking"})
        /\ dev.svc[p] = "disconnecting" <=> Some(p, {"closing"})
        /\ Some(p, {"open"}) => dev.svc[p] = "on"
        /\ dev.svc[p] = "on" => Some(p, {"open"}) \/ p \in dev.refused

\* bt_cancel_discovery is not told whose search it is to cancel: with one search
\* at a time nobody who was freed is called back, and nobody waits in vain.
Owned ==
    /\ ~Dangling(dev)
    /\ dev.browse.on => Contains(dev.searches, "browse")
    /\ \A p \in Profile : Some(p, {"search"}) => Contains(dev.searches, p)
SearchesOwned == dev.crowded \/ Owned

\* An answer is given once, and a success is one.  The exceptions: a connection
\* that waits for authorization or was given up passes for a connected profile
\* (-EALREADY of ext_connect_dev), a call whose profile was taken off the list is
\* answered by another profile, any profile that is disconnected answers
\* DisconnectProfile, a disconnection that fails at once is answered twice, and so
\* is a Disconnect that found a service connected without a link: at once, and
\* when the next link ends.
Leftover(p) == dev.svc[p] = "off" /\ dev.conns[p] # <<>>
Truth(i) ==
    LET p == method'[i][2]
    IN CASE method'[i][1] = "Connect" ->
              \E q \in Profile : dev'.svc[q] = "on" \/ Leftover(q)
         [] method'[i][1] = "ConnectProfile" -> dev'.svc[p] = "on" \/ Leftover(p)
         [] method'[i][1] = "Disconnect" -> ~dev'.link
         [] OTHER -> dev'.svc[p] = "off" \/ \E q \in Profile \ {p} : dev'.svc[q] # dev.svc[q]
RepliesTrue ==
    [][\A i \in Call : dev'.told[i] # dev.told[i] =>
         CASE dev'.told[i] = "ok" ->
                dev.told[i] \in {"none", "open"} /\ (Truth(i) \/ dev.stalled)
           [] dev'.told[i] = "twice" ->
                \/ /\ dev.told[i] = "none" /\ method'[i][1] = "DisconnectProfile"
                   /\ Busy(dev, method'[i][2])
                \/ dev.told[i] = "ok" /\ i \in dev.disconnects \cap dev.linkless
           [] OTHER -> dev.told[i] \in {"none", "open"}]_vars

\* Every call is answered.  The exceptions: Disconnect frees the message of a
\* Connect that waits for the services, the list has lost its head, the wrong
\* search of two was cancelled, and a Disconnect waits for the end of a link that
\* has gone before.
EveryCallAnswered ==
    \A i \in Call :
        dev.told[i] = "open" ~> \/ dev.told[i] # "open" \/ i \in dev.dropped
                              \/ dev.stalled \/ ~Owned \/ i \in dev.linkless
=============================================================================
