-------------------------------- MODULE PbAdv --------------------------------
(***************************************************************************)
(* Provisioning over advertisements: the acceptor of mesh/prov-acceptor.c  *)
(* and the initiator of mesh/prov-initiator.c, which drives the PB-ADV     *)
(* link of mesh/pb-adv.c through the remote provisioning server of its own *)
(* node (mesh/remprv-server.c; manager.c always names a server, and calls  *)
(* between client and server of one node are synchronous).                 *)
(*                                                                         *)
(* Advertisements are repeated without end until mesh_send_cancel and any  *)
(* one of them may be missed or heard many times; what is heard is handled *)
(* before the air changes.  An initiator and an acceptor run one session;  *)
(* the cryptography is reduced to whether both ends know what a            *)
(* confirmation value is computed from.                                    *)
(***************************************************************************)
EXTENDS Integers, Sequences, FiniteSets

CONSTANTS
    Starts,       \* the authentications tried: [oob : BOOLEAN, auth : 0 .. 3]
    AgentFails,   \* agents may answer with an error
    Refuses,      \* the acceptor's completion callback may return false
    Cancels       \* either user may give up

ASSUME PbAdvAssumption ==
    /\ Starts \subseteq [oob : BOOLEAN, auth : 0 .. 3]
    /\ {AgentFails, Refuses, Cancels} \subseteq BOOLEAN

Side == {"int", "acp"}
Other(s) == IF s = "int" THEN "acp" ELSE "int"

\* mesh/provision.h
INVITE == 0     CAPS == 1      START == 2    PUB_KEY == 3   INP_CMPLT == 4
CONFIRM == 5    RANDOM == 6    DATA == 7     COMPLETE == 8  FAILED == 9
NONE == 255
Type == INVITE .. FAILED
\* How many segments send_adv_segs cuts a PDU of each type into.
Segs(type) == IF type = PUB_KEY THEN 3 ELSE IF type = DATA THEN 2 ELSE 1

VARIABLES
    start,     \* the outcome of int_prov_start_auth
    adv,       \* the struct pb_adv_session of each side
    air,       \* what the radio of each side repeats
    rpb,       \* rpb_prov->state of the server, "none" when freed
    int,       \* the struct mesh_prov_initiator
    acp,       \* the struct mesh_prov_acceptor
    prompts,   \* requests to agents that are not answered
    told,      \* what each completion callback was told
    sent, got, \* history: the PDUs given to trans_tx and to rx_cb on each side
    crashed,   \* the daemons that called or read through a NULL pointer
    excuse     \* history: what went wrong apart from the radio

vars == <<start, adv, air, rpb, int, acp, prompts, told, sent, got, crashed, excuse>>

Pdu(op, trans) == [op |-> op, trans |-> trans, type |-> 0, seg |-> 0]
Segment(trans, type, seg) == [op |-> "SEG", trans |-> trans, type |-> type, seg |-> seg]
Segments(trans, type) == {Segment(trans, type, i) : i \in 0 .. Segs(type) - 1}
Unsaved == [i \in 0 .. 2 |-> NONE]

Session(s) ==
    [reg |-> TRUE, link |-> s = "int", opened |-> FALSE, timer |-> s = "int",
     trans |-> 0, acked |-> 0, peer |-> 0, last |-> 0,
     exp |-> {}, fcs |-> NONE, got |-> {}, sar |-> Unsaved]

\* pb_adv_reg on both sides: the acceptor listens, the initiator repeats its
\* open request.
Init ==
    /\ start \in Starts
    /\ adv = [s \in Side |-> Session(s)]
    /\ air = [int |-> {Pdu("OPEN_REQ", 0)}, acp |-> {}]
    /\ rpb = "OPENING"
    /\ int = [alive |-> TRUE, state |-> "IDLE", expected |-> 0, previous |-> -1]
    /\ acp = [alive |-> TRUE, expected |-> 0, previous |-> -1, out |-> NONE,
              ob |-> <<>>, failed |-> FALSE, cmplt |-> TRUE, timer |-> FALSE,
              priv |-> FALSE, remote |-> FALSE, auth |-> start.auth = 0, proof |-> FALSE]
    /\ prompts = {} /\ told = [s \in Side |-> "nothing"]
    /\ sent = [s \in Side |-> <<>>] /\ got = [s \in Side |-> <<>>]
    /\ crashed = {} /\ excuse = {}

-----------------------------------------------------------------------------
(* pb_adv_tx, send_ack, send_close_ind: what a handler does to the link.  Each *)
(* is given the session and the air as the handler has left them so far.    *)

Link(s, a, pdus) ==
    /\ adv' = [adv EXCEPT ![s] = a]
    /\ air' = [air EXCEPT ![s] = pdus]

Later(n, k) == (n + k) % 256

\* send_adv_segs cancels everything this side repeats, acknowledgements too.
Transmit(s, a, types) ==
    LET n == Later(a.trans, Len(types))
        type == types[Len(types)]
    IN /\ Link(s, [a EXCEPT !.trans = n, !.timer = TRUE], Segments(n, type))
       /\ sent' = [sent EXCEPT ![s] = @ \o types]

TransmitOrNot(s, a, pdus, types) ==
    IF types = <<>> THEN Link(s, a, pdus) /\ UNCHANGED sent ELSE Transmit(s, a, types)

\* pb_adv_unreg: the close indication is repeated ten times and no more.
Unregister(s) ==
    Link(s, [adv[s] EXCEPT !.reg = FALSE, !.timer = FALSE], {Pdu("CLOSE", 0)})

Fails(why) == excuse' = excuse \cup {why}

-----------------------------------------------------------------------------
(* The initiator.  rpr_tx hands a PDU to the server, whose state becomes    *)
(* OB_PKT_TX (OP_REM_PROV_PDU_SEND).                                        *)

\* Mutant: the initiator is freed, the link of its server is left open.
int_prov_close_orphans(outcome) ==
    /\ int' = [int EXCEPT !.alive = FALSE, !.state = "IDLE"]
    /\ told' = [told EXCEPT !.int = outcome]
    /\ prompts' = prompts \ {"pub_key", "int_auth", "data"}
    /\ UNCHANGED <<adv, air, rpb, sent>>
\* int_prov_close, OP_REM_PROV_LINK_CLOSE: the failure PDU that precedes it is
\* cancelled by the close indication.
int_prov_close(outcome) ==
    /\ Unregister("int") /\ rpb' = "none"
    /\ int' = [int EXCEPT !.alive = FALSE, !.state = "IDLE"]
    /\ told' = [told EXCEPT !.int = outcome]
    /\ prompts' = prompts \ {"pub_key", "int_auth", "data"}
    /\ UNCHANGED sent

Send(a, pdus, i, types) ==
    /\ TransmitOrNot("int", a, pdus, types)
    /\ int' = i /\ rpb' = IF types = <<>> THEN rpb ELSE "OB_PKT_TX"
    /\ UNCHANGED told

Confirming(i) ==
    [i EXCEPT !.state = "CONF_SENT", !.expected = CONFIRM]

\* int_prov_auth: no authentication goes on at once, a static or an output OOB
\* value is asked of the agent, for an input OOB value INP_CMPLT is awaited.
AuthNow(i) == IF start.auth = 0 THEN Confirming(i) ELSE [i EXCEPT !.state = "KEY_ACKED"]
AuthSends  == IF start.auth = 0 THEN <<CONFIRM>> ELSE <<>>
AuthAsks   == IF start.auth \in {1, 2} THEN {"int_auth"} ELSE {}

IntOutOfOrder(type) == type > int.expected \/ type < int.previous

int_prov_rx(type, a, pdus) ==
    LET i == [int EXCEPT !.previous = type] IN
    /\ \/ /\ type = int.previous
          /\ Send(a, pdus, int, <<>>) /\ UNCHANGED prompts
       \/ /\ type # int.previous /\ IntOutOfOrder(type)
          /\ int_prov_close("failed")
       \/ /\ type # int.previous /\ ~IntOutOfOrder(type)
          /\ \/ /\ type = CAPS
                /\ Send(a, pdus, [i EXCEPT !.state = "START_SENT",
                           !.expected = IF start.oob THEN CONFIRM ELSE PUB_KEY],
                        <<START>>)
                /\ prompts' = prompts \cup (IF start.oob THEN {"pub_key"} ELSE {})
             \/ /\ type = PUB_KEY /\ start.oob /\ int_prov_close("failed")
             \/ /\ type = PUB_KEY /\ ~start.oob
                /\ Send(a, pdus, AuthNow([i EXCEPT !.expected = CONFIRM]), AuthSends)
                /\ prompts' = prompts \cup AuthAsks
             \/ /\ type = INP_CMPLT
                /\ Send(a, pdus, Confirming(i), <<CONFIRM>>) /\ UNCHANGED prompts
             \/ /\ type = CONFIRM
                /\ Send(a, pdus, [i EXCEPT !.state = "RAND_SENT", !.expected = RANDOM],
                        <<RANDOM>>)
                /\ UNCHANGED prompts
             \/ /\ type = RANDOM /\ ~acp.proof /\ int_prov_close("failed")
             \/ /\ type = RANDOM /\ acp.proof
                /\ Send(a, pdus, [i EXCEPT !.state = "RAND_ACKED"], <<>>)
                /\ prompts' = prompts \cup {"data"}
             \/ type = COMPLETE /\ int_prov_close("success")
    /\ UNCHANGED <<start, acp, crashed, excuse>>

\* int_prov_ack: what an acknowledgement makes of the initiator, what it has it
\* send and what it has it ask the agent.
OnAck ==
    CASE int.state = "START_SENT" /\ start.oob ->
           [int |-> [int EXCEPT !.state = "START_ACKED"], sends |-> <<>>, asks |-> {}]
      [] int.state = "START_SENT" /\ ~start.oob ->
           [int |-> [int EXCEPT !.state = "KEY_SENT"], sends |-> <<PUB_KEY>>, asks |-> {}]
      [] int.state = "KEY_SENT" /\ start.oob ->
           [int |-> AuthNow(int), sends |-> AuthSends, asks |-> AuthAsks]
      [] OTHER -> [int |-> int, sends |-> <<>>, asks |-> {}]

\* srv_ack passes an acknowledgement on only while a PDU of the client is out.
srv_ack(a) ==
    /\ IF rpb = "OB_PKT_TX" /\ int.alive
       THEN /\ TransmitOrNot("int", a, {}, OnAck.sends)
            /\ int' = OnAck.int /\ prompts' = prompts \cup OnAck.asks
            /\ rpb' = IF OnAck.sends = <<>> THEN "ACTIVE" ELSE "OB_PKT_TX"
       ELSE /\ Link("int", a, {})
            /\ rpb' = IF rpb = "OB_PKT_TX" THEN "ACTIVE" ELSE rpb
            /\ UNCHANGED <<sent, int, prompts>>
    /\ UNCHANGED <<start, acp, told, crashed, excuse>>

\* The agent of the initiator and the application behind data_req_cb answer:
\* pub_key_cb, number_cb or static_cb, initiator_prov_data.  A public key may
\* come before the start PDU was heard, which is then never sent again.
AgentAnswers(p) ==
    /\ p \in prompts \cap {"pub_key", "int_auth", "data"}
    /\ prompts' = prompts \ {p}
    /\ CASE p = "pub_key"  -> Send(adv.int, {}, [int EXCEPT !.state = "KEY_SENT"], <<PUB_KEY>>)
         [] p = "int_auth" -> Send(adv.int, {}, Confirming(int), <<CONFIRM>>)
         [] p = "data"     -> Send(adv.int, {}, [int EXCEPT !.state = "DATA_SENT",
                                                    !.expected = COMPLETE], <<DATA>>)
    /\ IF p = "pub_key" /\ int.state = "START_SENT" THEN Fails("hasty") ELSE UNCHANGED excuse
    /\ UNCHANGED <<start, acp, got, crashed>>

\* An error is passed to the acceptor; the initiator goes on waiting.
AgentErrs(p) ==
    /\ AgentFails /\ p \in prompts \cap {"pub_key", "int_auth", "data"}
    /\ prompts' = prompts \ {p}
    /\ Send(adv.int, {}, int, <<FAILED>>) /\ Fails("agent")
    /\ UNCHANGED <<start, acp, got, crashed>>

\* initiate_to; the application leaves (prov_disc_cb, initiator_cancel), and
\* nobody tells the server.
initiate_to ==
    /\ int.alive /\ crashed = {}
    /\ int_prov_close("failed") /\ Fails("timer")
    /\ UNCHANGED <<start, acp, got, crashed>>
initiator_cancel ==
    /\ Cancels /\ int.alive
    /\ int' = [int EXCEPT !.alive = FALSE] /\ Fails("cancelled")
    /\ told' = [told EXCEPT !.int = "cancelled"]
    /\ prompts' = prompts \ {"pub_key", "int_auth", "data"}
    /\ UNCHANGED <<start, adv, air, rpb, acp, sent, got, crashed>>

-----------------------------------------------------------------------------
(* The acceptor.                                                            *)

\* prov_send: one PDU at a time, the next one goes when it is acknowledged.
Gated(p, type) ==
    IF p.out = NONE THEN [p EXCEPT !.out = type] ELSE [p EXCEPT !.ob = Append(@, type)]
Goes(p, type) == IF p.out = NONE THEN <<type>> ELSE <<>>

prov_send(a, pdus, p, type) ==
    TransmitOrNot("acp", a, pdus, Goes(p, type)) /\ acp' = Gated(p, type)
Quiet(a, pdus, p) ==
    Link("acp", a, pdus) /\ acp' = p /\ UNCHANGED sent

\* The label "failure" of acp_prov_rx, reached after first was sent.
failure(a, pdus, p, first) ==
    /\ TransmitOrNot("acp", a, pdus, first \o Goes(p, FAILED))
    /\ acp' = [Gated(p, FAILED) EXCEPT !.failed = TRUE, !.previous = -1,
                 !.cmplt = FALSE, !.timer = TRUE]
    /\ told' = IF p.cmplt THEN [told EXCEPT !.acp = "failed"] ELSE told

AcpOutOfOrder(type) == acp.failed \/ type > acp.expected \/ type < acp.previous

\* What the acceptor knows to compute a confirmation value from.
Knows == acp.priv /\ acp.auth

acp_prov_invite(a, pdus, p) ==
    /\ prov_send(a, pdus, [p EXCEPT !.expected = START], CAPS)
    /\ UNCHANGED <<prompts, told, excuse>>
acp_prov_start(a, pdus, p) ==
    /\ Quiet(a, pdus, [p EXCEPT !.expected = PUB_KEY, !.priv = ~start.oob])
    /\ prompts' = prompts \cup (IF start.oob THEN {"priv_key"} ELSE {})
    /\ UNCHANGED <<told, excuse>>
\* Without its own key the acceptor returns early: no authentication is asked
\* for, then or later.
acp_prov_pub_key(a, pdus, p) ==
    /\ UNCHANGED told
    /\ LET q == [p EXCEPT !.remote = TRUE, !.expected = CONFIRM] IN
       IF acp.priv
       THEN LET r == [q EXCEPT !.auth = start.auth \in {0, 2}] IN
            /\ IF start.oob THEN Quiet(a, pdus, r) ELSE prov_send(a, pdus, r, PUB_KEY)
            /\ prompts' = prompts \cup (IF start.auth \in {1, 3} THEN {"acp_auth"} ELSE {})
            /\ UNCHANGED excuse
       ELSE /\ Quiet(a, pdus, [q EXCEPT !.previous = acp.previous])
            /\ UNCHANGED prompts
            /\ IF start.auth = 0 THEN UNCHANGED excuse ELSE Fails("late")
acp_prov_confirm(a, pdus, p) ==
    /\ prov_send(a, pdus, [p EXCEPT !.expected = RANDOM, !.proof = Knows], CONFIRM)
    /\ IF Knows THEN UNCHANGED excuse ELSE Fails("late")
    /\ UNCHANGED <<prompts, told>>
acp_prov_random(a, pdus, p) ==
    /\ IF Knows THEN prov_send(a, pdus, [p EXCEPT !.expected = DATA], RANDOM) /\ UNCHANGED told
                ELSE failure(a, pdus, acp, <<>>)
    /\ UNCHANGED <<prompts, excuse>>
\* The completion is not gated; the callback may refuse the node.
acp_prov_data(a, pdus) ==
    /\ UNCHANGED prompts
    /\ \/ /\ Transmit("acp", a, <<COMPLETE>>)
          /\ acp' = [acp EXCEPT !.cmplt = FALSE, !.timer = TRUE]
          /\ told' = [told EXCEPT !.acp = "success"] /\ UNCHANGED excuse
       \/ /\ Refuses /\ failure(a, pdus, acp, <<COMPLETE>>) /\ Fails("refused")

acp_prov_rx(type, a, pdus) ==
    LET p == [acp EXCEPT !.previous = type] IN
    /\ \/ /\ type = acp.previous
          /\ Quiet(a, pdus, acp) /\ UNCHANGED <<prompts, told, excuse, crashed>>
       \/ /\ type # acp.previous /\ AcpOutOfOrder(type)
          /\ failure(a, pdus, acp, <<>>) /\ UNCHANGED <<prompts, excuse, crashed>>
       \/ /\ type # acp.previous /\ ~AcpOutOfOrder(type)
          /\ \/ type = INVITE  /\ acp_prov_invite(a, pdus, p)
             \/ type = START   /\ acp_prov_start(a, pdus, p)
             \/ type = PUB_KEY /\ acp_prov_pub_key(a, pdus, p)
             \/ type = CONFIRM /\ acp_prov_confirm(a, pdus, p)
             \/ type = RANDOM  /\ acp_prov_random(a, pdus, p)
             \/ type = DATA    /\ acp.cmplt /\ acp_prov_data(a, pdus)
             \/ /\ type = DATA /\ ~acp.cmplt
                /\ Quiet(a, pdus, acp) /\ UNCHANGED <<prompts, told, excuse>>
          /\ crashed' = IF type = DATA /\ ~acp.cmplt THEN crashed \cup {"acp"} ELSE crashed
    /\ UNCHANGED <<start, rpb, int>>

\* Mutant: what was put off is forgotten.
acp_prov_ack_forgets(a) ==
    /\ Quiet(a, {}, [acp EXCEPT !.out = NONE, !.ob = <<>>])
    /\ UNCHANGED <<start, rpb, int, prompts, told, crashed, excuse>>
acp_prov_ack(a) ==
    /\ LET p == [acp EXCEPT !.out = NONE] IN
       IF acp.out = NONE \/ acp.ob = <<>>
       THEN Quiet(a, {}, p)
       ELSE prov_send(a, {}, [p EXCEPT !.ob = Tail(@)], Head(acp.ob))
    /\ UNCHANGED <<start, rpb, int, prompts, told, crashed, excuse>>

\* priv_key_cb; static_cb and number_cb, of which an input OOB value is
\* reported to the initiator.
AcpAnswers(p) ==
    /\ p \in prompts \cap {"priv_key", "acp_auth"} /\ prompts' = prompts \ {p}
    /\ CASE p = "priv_key" -> Quiet(adv.acp, air.acp, [acp EXCEPT !.priv = TRUE])
         [] p = "acp_auth" /\ start.auth = 1 ->
              Quiet(adv.acp, air.acp, [acp EXCEPT !.auth = TRUE])
         [] p = "acp_auth" /\ start.auth = 3 ->
              prov_send(adv.acp, air.acp, [acp EXCEPT !.auth = TRUE], INP_CMPLT)
    /\ UNCHANGED <<start, rpb, int, told, got, crashed, excuse>>

AcpErrs(p) ==
    /\ AgentFails /\ p \in prompts \cap {"priv_key", "acp_auth"}
    /\ prompts' = prompts \ {p}
    /\ prov_send(adv.acp, air.acp, acp, FAILED) /\ Fails("agent")
    /\ UNCHANGED <<start, rpb, int, told, got, crashed>>

acceptor_free ==
    /\ Unregister("acp") /\ UNCHANGED sent
    /\ acp' = [acp EXCEPT !.alive = FALSE, !.cmplt = FALSE, !.timer = FALSE]
    /\ prompts' = prompts \ {"priv_key", "acp_auth"}

acp_prov_close ==
    /\ acceptor_free
    /\ told' = IF acp.cmplt THEN [told EXCEPT !.acp = "failed"] ELSE told
    /\ UNCHANGED <<start, rpb, int>>

\* prov_to: the user is told, the initiator is given a second to hear of it.
prov_to ==
    /\ acp.timer /\ acp.alive
    /\ IF acp.cmplt
       THEN /\ prov_send(adv.acp, air.acp, [acp EXCEPT !.cmplt = FALSE], FAILED)
            /\ told' = [told EXCEPT !.acp = "failed"] /\ UNCHANGED prompts
       ELSE acceptor_free /\ UNCHANGED told
    /\ Fails("timer")
    /\ UNCHANGED <<start, rpb, int, got, crashed>>

acceptor_cancel ==
    /\ Cancels /\ acp.alive
    /\ acceptor_free /\ told' = [told EXCEPT !.acp = IF @ = "nothing" THEN "cancelled" ELSE @]
    /\ Fails("cancelled")
    /\ UNCHANGED <<start, rpb, int, got, crashed>>

-----------------------------------------------------------------------------
(* pb_adv_packet: an advertisement of the other side is heard.              *)

Hears(s, m) ==
    m \in air[Other(s)] /\ adv[s].reg /\ s \notin crashed

\* Only the first confirmation opens the link (srv_open, int_prov_open).
open_cfm(m) ==
    /\ Hears("int", m) /\ m.op = "OPEN_CFM" /\ ~adv.int.opened
    /\ IF int.alive
       THEN Send([adv.int EXCEPT !.opened = TRUE, !.trans = 255], {},
                 [int EXCEPT !.state = "INVITE_SENT", !.expected = CAPS], <<INVITE>>)
       ELSE /\ Link("int", [adv.int EXCEPT !.opened = TRUE, !.trans = 255], air.int)
            /\ rpb' = "ACTIVE" /\ UNCHANGED <<int, told, sent>>
    /\ UNCHANGED <<start, acp, prompts, got, crashed, excuse>>

\* Every open request starts the numbering again and is confirmed, but what of
\* a PDU was put together is kept.
open_req(m) ==
    /\ Hears("acp", m) /\ m.op = "OPEN_REQ"
    /\ Link("acp", [adv.acp EXCEPT !.link = TRUE, !.opened = TRUE, !.last = 255,
                      !.peer = 0, !.trans = 127], {Pdu("OPEN_CFM", 0)})
    /\ acp' = IF adv.acp.link THEN acp ELSE [acp EXCEPT !.timer = TRUE]
    /\ UNCHANGED <<start, rpb, int, prompts, told, sent, got, crashed, excuse>>

\* Mutant: the reason 0 of a closed link is taken for success.
close_ind_succeeds(s, m) ==
    /\ Hears(s, m) /\ m.op = "CLOSE" /\ adv[s].link
    /\ \/ s = "acp" /\ acp_prov_close
       \/ /\ s = "int" /\ int.alive /\ int_prov_close("success")
          /\ UNCHANGED <<start, acp>>
    /\ UNCHANGED <<got, crashed, excuse>>
\* srv_close reports a state no client acts upon, so the initiator waits for its
\* timer; acp_prov_close frees the acceptor.
close_ind(s, m) ==
    /\ Hears(s, m) /\ m.op = "CLOSE" /\ adv[s].link
    /\ \/ s = "acp" /\ acp_prov_close
       \/ /\ s = "int"
          /\ rpb' = IF rpb = "OPENING" THEN rpb ELSE "CLOSING"
          /\ UNCHANGED <<start, adv, air, int, acp, prompts, told, sent>>
    /\ UNCHANGED <<got, crashed, excuse>>

\* Mutant: an acknowledgement of an earlier PDU counts.
Acknowledges_any(a, n) == TRUE
Acknowledges(a, n) == n = a.trans /\ a.acked <= n

ack(s, m) ==
    /\ Hears(s, m) /\ m.op = "ACK"
    /\ adv[s].opened /\ Acknowledges(adv[s], m.trans)
    /\ LET a == [adv[s] EXCEPT !.acked = m.trans] IN
       \/ s = "int" /\ srv_ack(a)
       \/ s = "acp" /\ acp_prov_ack(a)
    /\ UNCHANGED got

\* Which PDU of the other side has this transaction number.
Nth(s, n) == IF s = "acp" THEN n + 1 ELSE n - 127

\* The whole PDU has arrived: srv_rx or acp_prov_rx is given it.  A report to an
\* initiator that was freed reads through a NULL pointer (remprv_cli_pkt).
rx_cb(s, a, pdus) ==
    /\ got' = [got EXCEPT ![s] = Append(@, [nth |-> Nth(s, a.last), type |-> a.fcs])]
    /\ \/ s = "acp" /\ acp_prov_rx(a.fcs, a, pdus)
       \/ s = "int" /\ rpb # "OPENING" /\ int.alive /\ int_prov_rx(a.fcs, a, pdus)
       \/ /\ s = "int" /\ rpb # "OPENING" /\ ~int.alive
          /\ crashed' = crashed \cup {"int"} /\ Link("int", a, pdus)
          /\ UNCHANGED <<start, rpb, int, acp, prompts, told, sent, excuse>>

\* Mutant: a PDU that was passed up is put together again.
Repeated_not(a, n) == FALSE
Repeated(a, n) == n = a.last

Saved(a, m) ==
    LET b == [a EXCEPT !.peer = m.trans, !.got = @ \cup {m.seg}, !.sar[m.seg] = m.type]
    IN IF m.seg = 0 THEN [b EXCEPT !.exp = 0 .. Segs(m.type) - 1, !.fcs = m.type] ELSE b

\* mesh_crypto_check_fcs.
Whole(b) == b.got = b.exp /\ \A i \in b.exp : b.sar[i] = b.fcs

data(s, m) ==
    /\ Hears(s, m) /\ m.op = "SEG" /\ adv[s].opened
    /\ LET b == Saved(adv[s], m)
           acked == air[s] \cup {Pdu("ACK", m.trans)}
       IN \/ /\ Repeated(adv[s], m.trans) /\ air' = [air EXCEPT ![s] = acked]
             /\ UNCHANGED <<start, adv, rpb, int, acp, prompts, told, sent, got,
                            crashed, excuse>>
          \/ /\ ~Repeated(adv[s], m.trans) /\ ~Whole(b)
             /\ adv' = [adv EXCEPT ![s] = b]
             /\ UNCHANGED <<start, air, rpb, int, acp, prompts, told, sent, got,
                            crashed, excuse>>
          \/ /\ ~Repeated(adv[s], m.trans) /\ Whole(b)
             /\ rx_cb(s, [b EXCEPT !.got = {}, !.last = m.trans], acked)

\* The link gives up 30 s after the last PDU was sent, acknowledged or not.
tx_timeout(s) ==
    /\ adv[s].timer /\ adv[s].reg /\ s \notin crashed
    /\ \/ s = "acp" /\ acp_prov_close
       \/ /\ s = "int"
          /\ Link("int", [adv.int EXCEPT !.timer = FALSE], {})
          /\ rpb' = IF rpb = "OPENING" THEN rpb ELSE "CLOSING"
          /\ UNCHANGED <<start, int, acp, prompts, told, sent>>
    /\ Fails("timer") /\ UNCHANGED <<got, crashed>>

\* The tenth close indication is out.
close_ends(s) ==
    /\ Pdu("CLOSE", 0) \in air[s] /\ air' = [air EXCEPT ![s] = {}]
    /\ UNCHANGED <<start, adv, rpb, int, acp, prompts, told, sent, got, crashed, excuse>>

-----------------------------------------------------------------------------
Pdus == air.int \cup air.acp

Initiator ==
    /\ "int" \notin crashed
    /\ \/ \E p \in prompts : AgentAnswers(p) \/ AgentErrs(p)
       \/ initiate_to \/ initiator_cancel
Acceptor ==
    /\ "acp" \notin crashed
    /\ \/ \E p \in prompts : AcpAnswers(p) \/ AcpErrs(p)
       \/ prov_to \/ acceptor_cancel
Radio ==
    \/ \E m \in Pdus : open_cfm(m) \/ open_req(m)
    \/ \E s \in Side, m \in Pdus : close_ind(s, m) \/ ack(s, m) \/ data(s, m)
    \/ \E s \in Side : tx_timeout(s) \/ close_ends(s)

Next == Initiator \/ Acceptor \/ Radio
Spec == Init /\ [][Next]_vars

\* What is repeated without end is heard in the end, whatever else is on the
\* air; and so is an acknowledgement that is put on the air again and again.
\* Agents answer.  No timer is owed anything.
Fresh(s) == {m \in air[Other(s)] : m.op = "ACK" /\ m.trans = adv[s].trans
                                     /\ m.trans # adv[s].acked}
Fairness ==
    /\ WF_vars(\E m \in Pdus : open_cfm(m)) /\ WF_vars(\E m \in Pdus : open_req(m))
    /\ \A s \in Side :
         /\ \A i \in 0 .. 2 : WF_vars(\E m \in Pdus : m.seg = i /\ data(s, m))
         /\ SF_vars(\E m \in Fresh(s) : ack(s, m))
    /\ WF_vars(\E p \in prompts : AgentAnswers(p)) /\ WF_vars(\E p \in prompts : AcpAnswers(p))
FairSpec == Spec /\ Fairness

-----------------------------------------------------------------------------
(* Properties.                                                              *)

\* Types; transaction numbers are bytes.
TypeOK ==
    /\ start \in Starts /\ prompts \subseteq {"pub_key", "int_auth", "data",
                                              "priv_key", "acp_auth"}
    /\ rpb \in {"OPENING", "ACTIVE", "OB_PKT_TX", "CLOSING", "none"}
    /\ \A s \in Side : \A n \in {adv[s].trans, adv[s].acked, adv[s].peer, adv[s].last} :
         n \in 0 .. 255
    /\ \A s \in Side : adv[s].got \subseteq 0 .. 2 /\ adv[s].exp \subseteq 0 .. 2
    /\ acp.out \in Type \cup {NONE} /\ acp.ob \in Seq(Type)
    /\ \A p \in {int, acp} : p.expected \in Type /\ p.previous \in Type \cup {-1}
    /\ crashed \subseteq Side
    /\ \A s \in Side : told[s] \in {"nothing", "success", "failed", "cancelled"}

\* The provisioner is told of success only if the device was provisioned, and
\* the device is provisioned only with data the provisioner sent: no loss,
\* repetition, time-out, abort or closed link makes one side report what the
\* other never did.  The exception is a device whose application refuses the
\* node after COMPLETE was sent (acp_prov_rx, int_prov_close, srv_close).
Agreement ==
    /\ told.int = "success" => told.acp = "success" \/ "refused" \in excuse
    /\ told.acp = "success" => \E i \in DOMAIN sent.int : sent.int[i] = DATA

\* Each PDU is passed up at most once, in the order of sending and with the
\* content it was sent with, though segments are heard in any order, again and
\* again, and those of one PDU share a buffer with what is left of another
\* (pb_adv_packet: last_peer_trans_num, got_segs, exp_segs).
DeliveredInOrder ==
    \A s \in Side :
        /\ \A i \in DOMAIN got[s] : /\ got[s][i].nth \in DOMAIN sent[Other(s)]
                                    /\ sent[Other(s)][got[s][i].nth] = got[s][i].type
        /\ \A i, j \in DOMAIN got[s] : i < j => got[s][i].nth < got[s][j].nth

\* Sending cancels what was sent before, so both sides may send the next PDU
\* only when the one before was passed up: send_adv_segs, prov_send and its
\* queue, int_prov_ack.  Exceptions: an agent that answers before the start PDU
\* was heard or that fails, timers and a refused node replace what is on the
\* air.
NothingOverwritten ==
    excuse \cap {"hasty", "agent", "timer", "refused"} = {} =>
        \A s \in Side, i \in 1 .. 8 :
            i < Len(sent[s]) => \E j \in DOMAIN got[Other(s)] : got[Other(s)][j].nth = i

\* Neither daemon calls a completion callback it has cleared nor reads an
\* initiator it has freed.  Exceptions: data that come in the second after
\* prov_to has told the application (prov->cmplt of acp_prov_rx), and a report
\* after initiator_cancel (int_prov_rx).
NoNullUse ==
    /\ "acp" \in crashed => "timer" \in excuse
    /\ "int" \in crashed => "cancelled" \in excuse

\* The handshake does not jam: although every PDU sent takes the
\* acknowledgements of its side off the air, and the acceptor puts off what it
\* has to say until its last PDU is acknowledged, both sides get through unless
\* a timer fires, an agent fails or answers too early or too late, or somebody
\* gives up.
Completes == <>(told.int = "success" \/ excuse # {})

=============================================================================
