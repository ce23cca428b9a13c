---------------------------- MODULE GattLongWrite ----------------------------
(***************************************************************************)
(* Long and reliable writes: the client of src/shared/gatt-client.c, which *)
(* cuts a value into prepare write requests and has the server execute     *)
(* them, composed with the prepare queue of src/shared/gatt-server.c.  The *)
(* ATT bearer in between is the one of AttBearer, reduced to what matters  *)
(* here: one queue of requests, one request in flight on a channel, and    *)
(* bt_att_resend putting a continuation at the head of the queue.          *)
(*                                                                         *)
(* Offsets, lengths and MTUs are counted in units of the payload of one    *)
(* prepare write at the default MTU.                                       *)
(***************************************************************************)
EXTENDS SharedQueue

CONSTANTS
    Writes,     \* the calls of bt_gatt_client_write_long_value
    Cancelled,  \* those of them whose user may cancel them
    Session,    \* the caller of prepare_write and write_execute
    Handle,     \* [Writes \cup {Session} -> attributes]: what each one writes
    Reliable,   \* the attributes that allow reliable writes
    Length,     \* the length of every long value
    ChanMtu,    \* payload of a prepare write by channel; 1 is the fixed channel
    MaxPrep     \* server->max_prep_queue_len

ASSUME LongWriteAssumption ==
    /\ Session \notin Writes /\ Cancelled \subseteq Writes
    /\ Length \in Nat \ {0} /\ MaxPrep \in Nat
    /\ ChanMtu \in Seq(Nat \ {0}) /\ Len(ChanMtu) > 0

Callers == Writes \cup {Session}
Chan    == DOMAIN ChanMtu
Bytes   == 0 .. Length - 1
None    == [by |-> Session, op |-> "NONE", off |-> 0, n |-> 0]
\* CANCEL is the execute request with flag 0 of bt_gatt_client_cancel, DROP
\* the one that ends a long write that failed.
Pdus == [by : Callers, op : {"PREP", "EXEC", "DROP", "CANCEL", "NONE"},
         off : Nat, n : Nat]
Lesser(a, b) == IF a < b THEN a ELSE b
Greater(a, b) == IF a < b THEN b ELSE a

VARIABLES
    ctl,          \* "loop", or "next": start_next_long_write is to run
    phase,        \* the life of each struct long_write_op
    in_long_write, long_write_queue,
    session,      \* reliable_write_session_id # 0 unless "none"
    index, cur_length, success,    \* of each long_write_op
    cancelled,    \* writes cancelled after their first request was sent
    up, seen,     \* channels attached, channels attached so far
    mtu,          \* att->mtu
    req_queue, pending,            \* att->req_queue, chan->pending_req
    stage,        \* the request of a channel: on its way, being served, answered
    prep_queue,   \* server->prep_queue
    item,         \* what the execute walk of a channel is writing
    wrote,        \* history: the bytes of each caller put into its attribute
    told,         \* history: what the callback of each write said
    grown,        \* history: writes under way when the MTU grew
    stranded,     \* history: a cancelled session left writes in the queue
    unguarded     \* history: in_long_write cleared with a write under way

callVars == <<ctl, phase, in_long_write, long_write_queue, session>>
opVars   == <<index, cur_length, success, cancelled>>
attVars  == <<up, seen, mtu>>
srvVars  == <<prep_queue, item, wrote>>
histVars == <<told, grown, stranded, unguarded>>
vars == <<callVars, opVars, attVars, req_queue, pending, stage, srvVars, histVars>>

Prep(w, off, n) == [by |-> w, op |-> "PREP", off |-> off, n |-> n]
Pdu(w, op) == [by |-> w, op |-> op, off |-> 0, n |-> 0]
NoItem == [handle |-> Handle[Session], off |-> 0, n |-> 0, data |-> {}]

Init ==
    /\ ctl = "loop" /\ phase = [w \in Writes |-> "idle"]
    /\ in_long_write = FALSE /\ long_write_queue = <<>> /\ session = "none"
    /\ index = [w \in Writes |-> 0] /\ cur_length = [w \in Writes |-> 0]
    /\ success = [w \in Writes |-> TRUE] /\ cancelled = {}
    /\ up = {1} /\ seen = {1} /\ mtu = ChanMtu[1]
    /\ req_queue = <<>> /\ pending = [c \in Chan |-> None]
    /\ stage = [c \in Chan |-> "idle"]
    /\ prep_queue = <<>> /\ item = [c \in Chan |-> NoItem]
    /\ wrote = [w \in Callers |-> {}]
    /\ told = [w \in Writes |-> "nothing"] /\ grown = {}
    /\ stranded = FALSE /\ unguarded = FALSE

-----------------------------------------------------------------------------
(* The user of the client.                                                 *)

bt_gatt_client_write_long_value(w) ==
    /\ phase[w] = "idle"
    /\ IF in_long_write \/ session # "none"
       THEN /\ long_write_queue' = Append(long_write_queue, w)
            /\ phase' = [phase EXCEPT ![w] = "queued"]
            /\ UNCHANGED <<in_long_write, cur_length, req_queue>>
       ELSE /\ cur_length' = [cur_length EXCEPT ![w] = Lesser(Length, mtu)]
            /\ req_queue' = Append(req_queue, Prep(w, 0, cur_length'[w]))
            /\ phase' = [phase EXCEPT ![w] = "active"]
            /\ in_long_write' = TRUE
            /\ UNCHANGED long_write_queue
    /\ UNCHANGED <<ctl, session, index, success, cancelled, attVars, pending,
                   stage, srvVars, histVars>>

\* A queued write is taken out of the queue and that is all: its callback is
\* never run.  A write under way goes on: an execute request with flag 0 is
\* queued behind everything else.
cancel_long_write_req(w) ==
    /\ w \in Cancelled \ cancelled
    /\ \/ /\ phase[w] = "queued"
          /\ long_write_queue' = Without(long_write_queue, {w})
          /\ phase' = [phase EXCEPT ![w] = "dropped"]
          /\ UNCHANGED <<cancelled, req_queue>>
       \/ /\ phase[w] = "active"
          /\ req_queue' = Append(req_queue, Pdu(w, "CANCEL"))
          /\ cancelled' = cancelled \cup {w}
          /\ UNCHANGED <<long_write_queue, phase>>
    /\ UNCHANGED <<ctl, in_long_write, session, index, cur_length, success,
                   attVars, pending, stage, srvVars, histVars>>

\* Mutant: a session starts in the middle of a long write.
NoLongWrite_unchecked == TRUE
NoLongWrite == ~in_long_write

\* A session of one prepared write; its user waits for the callback of the
\* prepare before executing or cancelling.  Bound: no session follows one
\* that was executed.
bt_gatt_client_prepare_write ==
    /\ NoLongWrite /\ session = "none"
    /\ wrote[Session] = {}
    /\ session' = "preparing"
    /\ req_queue' = Append(req_queue, Prep(Session, 0, 1))
    /\ UNCHANGED <<ctl, phase, in_long_write, long_write_queue, opVars, attVars,
                   pending, stage, srvVars, histVars>>

bt_gatt_client_write_execute ==
    /\ NoLongWrite /\ session = "open"
    /\ session' = "executing"
    /\ req_queue' = Append(req_queue, Pdu(Session, "EXEC"))
    /\ UNCHANGED <<ctl, phase, in_long_write, long_write_queue, opVars, attVars,
                   pending, stage, srvVars, histVars>>

cancel_prep_write_session ==
    /\ session = "open"
    /\ session' = "cancelling"
    /\ req_queue' = Append(req_queue, Pdu(Session, "CANCEL"))
    /\ UNCHANGED <<ctl, phase, in_long_write, long_write_queue, opVars, attVars,
                   pending, stage, srvVars, histVars>>

-----------------------------------------------------------------------------
(* Callbacks of the client.                                                *)

\* The callback of a long write runs; start_next_long_write follows, after
\* whatever calls the callback makes.
Tell(w, verdict) ==
    /\ told' = [told EXCEPT ![w] = verdict]
    /\ phase' = [phase EXCEPT ![w] = "told"]
    /\ ctl' = "next"

\* Mutant: the continuation waits its turn.
bt_att_resend_behind(here, p) == here /\ req_queue' = Append(req_queue, p)

\* bt_att_resend needs the channel that still holds the request with the id;
\* it puts the new request in front of the queue.
bt_att_resend(here, p) == here /\ req_queue' = <<p>> \o req_queue

\* Mutant: a write that failed is not dropped at the server.
complete_write_long_op_undropped(w, here, ok) ==
    /\ success' = [success EXCEPT ![w] = ok]
    /\ IF here /\ ok
       THEN /\ bt_att_resend(here, Pdu(w, "EXEC"))
            /\ UNCHANGED <<told, phase, ctl>>
       ELSE Tell(w, "failure") /\ UNCHANGED req_queue
    /\ UNCHANGED <<in_long_write, session, stranded>>

complete_write_long_op(w, here, ok) ==
    /\ success' = [success EXCEPT ![w] = ok]
    /\ IF here
       THEN /\ bt_att_resend(here, Pdu(w, IF ok THEN "EXEC" ELSE "DROP"))
            /\ UNCHANGED <<told, phase, ctl>>
       ELSE Tell(w, "failure") /\ UNCHANGED req_queue
    /\ UNCHANGED <<in_long_write, session, stranded>>

AllPrepared(next) == next = Length

prepare_write_cb(w, here, ok) ==
    LET next == index[w] + cur_length[w]
    IN  IF ok /\ ~AllPrepared(next) /\ cur_length[w] >= mtu
        THEN /\ index' = [index EXCEPT ![w] = next]
             /\ cur_length' = [cur_length EXCEPT ![w] = Lesser(Length - next, mtu)]
             /\ bt_att_resend(here, Prep(w, next, cur_length'[w]))
             /\ UNCHANGED <<success, told, phase, ctl, in_long_write, session,
                            stranded>>
        ELSE /\ complete_write_long_op(w, here, ok)
             /\ UNCHANGED <<index, cur_length>>

execute_write_cb(w, ok) ==
    /\ Tell(w, IF ok /\ success[w] THEN "success" ELSE "failure")
    /\ UNCHANGED <<in_long_write, session, stranded, req_queue, index,
                   cur_length, success>>

cancel_long_write_cb ==
    /\ in_long_write' = (in_long_write /\ long_write_queue # <<>>)
    /\ UNCHANGED <<told, phase, ctl, session, stranded, req_queue, index,
                   cur_length, success>>

\* Mutant: the writes that waited for the session are forgotten.
exec_write_cb_alone ==
    /\ session' = "none"
    /\ UNCHANGED <<ctl, told, phase, in_long_write, stranded, req_queue, index,
                   cur_length, success>>

\* exec_write_cb of the client: the session ends once the callback has run.
exec_write_cb ==
    /\ session' = "ending" /\ ctl' = "next"
    /\ UNCHANGED <<told, phase, in_long_write, stranded, req_queue, index,
                   cur_length, success>>

cancel_prep_write_cb ==
    /\ session' = "none"
    /\ stranded' = (stranded \/ (long_write_queue # <<>> /\ ~in_long_write))
    /\ UNCHANGED <<told, phase, ctl, in_long_write, req_queue, index,
                   cur_length, success>>

prep_write_cb ==
    /\ session' = "open"
    /\ UNCHANGED <<told, phase, ctl, in_long_write, stranded, req_queue, index,
                   cur_length, success>>

\* The callback of request p; `here': its channel is still attached.
Callback(p, here, ok) ==
    CASE p.op = "PREP" /\ p.by # Session -> prepare_write_cb(p.by, here, ok)
      [] p.op \in {"EXEC", "DROP"} /\ p.by # Session -> execute_write_cb(p.by, ok)
      [] p.op = "CANCEL" /\ p.by # Session -> cancel_long_write_cb
      [] p.op = "PREP" /\ p.by = Session -> prep_write_cb
      [] p.op = "EXEC" /\ p.by = Session -> exec_write_cb
      [] p.op = "CANCEL" /\ p.by = Session -> cancel_prep_write_cb

\* start_next_long_write: req->att_id of a queued write is 0, with which
\* bt_att_resend fails, both for its first prepare write and for the execute
\* request: the write is told to have failed and the next one is started.
start_next_long_write ==
    /\ ctl = "next"
    /\ session' = IF session = "ending" THEN "none" ELSE session
    /\ IF long_write_queue = <<>>
       THEN /\ in_long_write' = FALSE /\ ctl' = "loop"
            /\ unguarded' = (unguarded \/ \E w \in Writes : phase[w] = "active")
            /\ UNCHANGED <<long_write_queue, told, phase, success>>
       ELSE LET w == Head(long_write_queue)
            IN  /\ long_write_queue' = Tail(long_write_queue)
                /\ success' = [success EXCEPT ![w] = FALSE]
                /\ Tell(w, "failure")
                /\ UNCHANGED <<in_long_write, unguarded>>
    /\ UNCHANGED <<index, cur_length, cancelled, attVars, req_queue, pending,
                   stage, srvVars, grown, stranded>>

-----------------------------------------------------------------------------
(* The bearer.                                                             *)

can_write_data(c) ==
    /\ ctl = "loop" /\ c \in up
    /\ pending[c] = None /\ req_queue # <<>>
    /\ Head(req_queue).n <= ChanMtu[c]
    /\ pending' = [pending EXCEPT ![c] = Head(req_queue)]
    /\ stage' = [stage EXCEPT ![c] = "sent"]
    /\ req_queue' = Tail(req_queue)
    /\ UNCHANGED <<callVars, opVars, attVars, srvVars, histVars>>

handle_rsp(c) ==
    /\ ctl = "loop" /\ stage[c] \in {"ok", "error"}
    /\ Callback(pending[c], TRUE, stage[c] = "ok")
    /\ pending' = [pending EXCEPT ![c] = None]
    /\ stage' = [stage EXCEPT ![c] = "idle"]
    /\ UNCHANGED <<long_write_queue, cancelled, attVars, srvVars, grown, unguarded>>

\* An EATT channel comes up; the MTU of the bearer is that of its widest one.
bt_att_attach_chan(c) ==
    /\ ctl = "loop" /\ c \notin seen
    /\ up' = up \cup {c} /\ seen' = seen \cup {c}
    /\ mtu' = Greater(mtu, ChanMtu[c])
    /\ grown' = IF mtu' > mtu
                THEN grown \cup {w \in Writes : phase[w] = "active"} ELSE grown
    /\ UNCHANGED <<callVars, opVars, req_queue, pending, stage, srvVars, told,
                   stranded, unguarded>>

\* A channel goes down and another one is left.  The losses that strike while
\* the server works on a request of the channel are left out.
disconnect_cb(c) ==
    /\ ctl = "loop" /\ c \in up /\ up # {c}
    /\ stage[c] \notin {"checking", "walking"}
    /\ up' = up \ {c}
    /\ pending' = [pending EXCEPT ![c] = None]
    /\ stage' = [stage EXCEPT ![c] = "idle"]
    /\ IF pending[c] # None
       THEN Callback(pending[c], FALSE, FALSE)
       ELSE UNCHANGED <<told, phase, ctl, in_long_write, session, stranded,
                        req_queue, index, cur_length, success>>
    /\ UNCHANGED <<long_write_queue, cancelled, seen, mtu, srvVars, grown,
                   unguarded>>

-----------------------------------------------------------------------------
(* The server.                                                             *)

\* A prepare that continues the last one is added to it.
store_prep_data(p) ==
    LET h    == Handle[p.by]
        data == {<<p.by, k>> : k \in p.off .. p.off + p.n - 1}
        last == prep_queue[Len(prep_queue)]
    IN  IF prep_queue # <<>> /\ last.handle = h /\ p.off = last.off + last.n
        THEN [prep_queue EXCEPT ![Len(prep_queue)] =
                 [last EXCEPT !.n = @ + p.n, !.data = @ \cup data]]
        ELSE Append(prep_queue, [handle |-> h, off |-> p.off, n |-> p.n,
                                 data |-> data])

Reply(c, answer) == stage' = [stage EXCEPT ![c] = answer]

\* exec_next_prep_write: the whole queue is written, whoever prepared it.
exec_next_prep_write(c) ==
    IF prep_queue = <<>>
    THEN /\ Reply(c, "ok") /\ item' = [item EXCEPT ![c] = NoItem]
         /\ UNCHANGED prep_queue
    ELSE /\ Reply(c, "walking")
         /\ item' = [item EXCEPT ![c] = Head(prep_queue)]
         /\ prep_queue' = Tail(prep_queue)

\* Prepares of several values need attributes that allow reliable writes.
Refused == /\ Len(prep_queue) > 1
           /\ \E i \in DOMAIN prep_queue : prep_queue[i].handle \notin Reliable

srv_prep_write(c) ==
    /\ stage[c] = "sent" /\ pending[c].op = "PREP"
    /\ Reply(c, IF Len(prep_queue) >= MaxPrep THEN "error" ELSE "checking")
    /\ UNCHANGED <<callVars, opVars, attVars, req_queue, pending, srvVars, histVars>>

\* The owner of the attribute has authorised the write, or refused it.
prep_write_complete_cb(c, err) ==
    /\ stage[c] = "checking"
    /\ prep_queue' = IF err THEN prep_queue ELSE store_prep_data(pending[c])
    /\ Reply(c, IF err THEN "error" ELSE "ok")
    /\ UNCHANGED <<callVars, opVars, attVars, req_queue, pending, item, wrote,
                   histVars>>

srv_exec_write(c) ==
    /\ stage[c] = "sent" /\ pending[c].op \in {"EXEC", "DROP", "CANCEL"}
    /\ IF pending[c].op # "EXEC" \/ Refused
       THEN /\ prep_queue' = <<>> /\ UNCHANGED item
            /\ Reply(c, IF pending[c].op # "EXEC" THEN "ok" ELSE "error")
       ELSE exec_next_prep_write(c)
    /\ UNCHANGED <<callVars, opVars, attVars, req_queue, pending, wrote, histVars>>

\* The owner of the attribute has taken the value, or refused it.
exec_write_complete_cb(c, err) ==
    /\ stage[c] = "walking"
    /\ IF err
       THEN /\ prep_queue' = <<>> /\ item' = [item EXCEPT ![c] = NoItem]
            /\ Reply(c, "error") /\ UNCHANGED wrote
       ELSE /\ wrote' = [w \in Callers |-> wrote[w] \cup
                            {k \in Bytes : <<w, k>> \in item[c].data}]
            /\ exec_next_prep_write(c)
    /\ UNCHANGED <<callVars, opVars, attVars, req_queue, pending, histVars>>

-----------------------------------------------------------------------------
User == \/ \E w \in Writes : bt_gatt_client_write_long_value(w)
        \/ \E w \in Writes : cancel_long_write_req(w)
        \/ bt_gatt_client_prepare_write
        \/ bt_gatt_client_write_execute
        \/ cancel_prep_write_session
Server(c) == \/ srv_prep_write(c)
             \/ \E err \in BOOLEAN : prep_write_complete_cb(c, err)
             \/ srv_exec_write(c)
             \/ \E err \in BOOLEAN : exec_write_complete_cb(c, err)
Next == \/ User
        \/ start_next_long_write
        \/ \E c \in Chan : can_write_data(c)
        \/ \E c \in Chan : handle_rsp(c)
        \/ \E c \in Chan : bt_att_attach_chan(c)
        \/ \E c \in Chan : disconnect_cb(c)
        \/ \E c \in Chan : Server(c)

Spec == Init /\ [][Next]_vars
\* The main loop runs what is due, and the server answers.
FairSpec == /\ Spec
            /\ WF_vars(start_next_long_write)
            /\ \A c \in Chan : /\ WF_vars(can_write_data(c))
                               /\ WF_vars(handle_rsp(c))
                               /\ WF_vars(Server(c))

-----------------------------------------------------------------------------
TypeOK ==
    /\ ctl \in {"loop", "next"}
    /\ phase \in [Writes -> {"idle", "queued", "active", "dropped", "told"}]
    /\ in_long_write \in BOOLEAN
    /\ \A i \in DOMAIN long_write_queue : phase[long_write_queue[i]] = "queued"
    /\ session \in {"none", "preparing", "open", "executing", "cancelling", "ending"}
    /\ \A w \in Writes : phase[w] = "active" =>
           cur_length[w] \in 1 .. Length - index[w]
    /\ up \subseteq seen /\ seen \subseteq Chan
    /\ \A c \in Chan : pending[c] = None <=> stage[c] = "idle"
    /\ \A c \in Chan \ up : pending[c] = None

\* With several channels, a cancellation overtakes the write it should end and
\* a write that in_long_write does not guard runs beside another one.
Overtaken == (cancelled # {} \/ unguarded) /\ seen # {1}
\* A channel that took a request of a long write with it.
Lost == seen # up

\* A long write whose callback reports success has been written from its first
\* byte to its last, unless the MTU grew or a cancellation overtook it.
WrittenWhole ==
    \A w \in Writes : told[w] = "success" /\ w \notin grown /\ ~Overtaken =>
        wrote[w] = Bytes

\* Prepared writes of different values never wait side by side at the server,
\* where one execute request would write them all.
OneWriterPrepares ==
    Overtaken \/ Lost \/
    Cardinality({d[1] : d \in UNION {prep_queue[i].data : i \in DOMAIN prep_queue}}) <= 1

\* What is prepared at the server belongs to a write that is still to execute
\* or to drop it: nothing is left over for the next one.
NoResidue ==
    Overtaken \/ Lost \/
    \A i \in DOMAIN prep_queue : \A d \in prep_queue[i].data :
        IF d[1] = Session THEN session # "none" ELSE phase[d[1]] = "active"

\* A long write that was accepted ends in its callback, unless it was
\* cancelled in the queue, waits for a session its user does not end or was
\* left in the queue by a cancelled session, or the only channel wide enough
\* for it is gone.
EveryWriteTold ==
    \A w \in Writes : phase[w] \in {"queued", "active"} ~>
        \/ phase[w] \in {"dropped", "told"}
        \/ session # "none" \/ stranded
        \/ \A c \in up : ChanMtu[c] < mtu
==============================================================================
