------------------------------- MODULE Gobex -------------------------------
(***************************************************************************)
(* OBEX transfers: gobex.c and gobex-transfer.c at both ends.              *)
(*                                                                         *)
(* The client puts or gets one object after the other, each in Chunks      *)
(* packets; the server is another GObex whose user accepts or refuses the  *)
(* first packet.  With a packet transport both ends negotiate single       *)
(* response mode (SRM): the sender of the body no longer waits for the     *)
(* other side, until SRMP asks it to.  A packet is encoded only when it    *)
(* is its turn to be written; the callback that then produces its body     *)
(* queues the packet after it, suspends the object, or gives up.           *)
(*                                                                         *)
(* Both ends are one struct _GObex and the transfer it is busy with; a     *)
(* handler of the main loop is one action.                                 *)
(***************************************************************************)
EXTENDS Naturals, Sequences, SequencesExt

CONSTANTS
    Ops,            \* what may be asked for: "PUT", "GET"
    Transports,     \* of TRUE (packets, SRM) and FALSE (stream)
    Chunks,         \* packets with data in an object
    Faults,         \* per transport, what may happen besides: a part of AllFaults
    MaxTransfers,   \* bound: transfers of the client
    MaxSuspends     \* bound: suspensions

\* decline: the server's user refuses an object or a packet of it; produce: the
\* data of an object cannot be read; consume: the client cannot store them;
\* wait: the server's object is not ready; cancel, pause, pause GET: what the
\* user of the client may do; late: a timer fires although the answer is under
\* way; hangup: the link breaks; race: and a write notices it first.
AllFaults == {"decline", "produce", "consume", "wait", "cancel", "pause", "pause GET",
              "late", "hangup", "race"}

ASSUME GobexAssumption ==
    /\ Ops \subseteq {"PUT", "GET"} /\ Ops # {}
    /\ Transports \subseteq BOOLEAN /\ Transports # {}
    /\ Chunks \in Nat \ {0}
    /\ Faults \in [BOOLEAN -> SUBSET AllFaults]
    /\ MaxTransfers \in Nat \ {0}
    /\ MaxSuspends \in Nat

Ends == {"client", "server"}
Other(e) == IF e = "client" THEN "server" ELSE "client"
Transfers == 1..MaxTransfers

\* A struct pending_pkt in tx_queue.  id is not 0 for a request that awaits its
\* answer, and cb is then its rsp_func; body: the packet asks transfer x for its
\* body when it is encoded; n is the client's transfer it is about.
Packet(op, id, cb, x, n, body) ==
    [op |-> op, id |-> id, cb |-> cb, x |-> x, n |-> n, body |-> body,
     srm |-> FALSE, srmp |-> FALSE]

\* obex->pending_req.
NoReq == [id |-> 0, op |-> "none", cb |-> "none", x |-> 0, n |-> 0,
          timer |-> FALSE, cancelled |-> FALSE, suspended |-> FALSE,
          freed |-> FALSE]

\* A packet on the link; of the transfer n, with the chunk data if that is not 0.
NoPacket == [op |-> "none", final |-> FALSE, srm |-> FALSE, srmp |-> FALSE,
             n |-> 0, data |-> 0]

\* struct transfer: x is its address, n the client's transfer it belongs to,
\* at the next chunk to produce or to consume.  Its user has cancelled it, has
\* paused it (TRANSFER_STATUS_SUSPENDED), or waits for its object.
NoTransfer == [x |-> 0, n |-> 0, req |-> 0, at |-> 0, mixed |-> FALSE,
               cancelled |-> FALSE, paused |-> FALSE, waits |-> FALSE]

VARIABLES
    obex,       \* both struct _GObex, and their transfers
    wire,       \* per end, what is on the way to it
    op,         \* what this client asks for
    transport,  \* use_srm
    link,       \* the connection holds
    suspends
vars == <<obex, wire, op, transport, link, suspends>>

\* srm: obex->srm is NULL, there, or there and enabled; srmp, srmpOut: its
\* fields; leaked: timers whose timeout_id was overwritten; idle: requests with
\* a cancel_complete; told: what complete_func of each transfer was told; broken:
\* what went wrong with the memory.
NewObex ==
    [io |-> TRUE, tx_queue |-> <<>>, write_source |-> FALSE,
     suspended |-> FALSE, srm |-> "null", srmp |-> "next", srmpOut |-> FALSE,
     pending_req |-> NoReq, leaked |-> 0, idle |-> <<>>, transfer |-> NoTransfer,
     next |-> 1, told |-> [n \in Transfers |-> "nothing"], broken |-> "nothing"]

Init ==
    /\ obex = [e \in Ends |-> NewObex]
    /\ wire = [e \in Ends |-> <<>>]
    /\ op \in Ops
    /\ transport \in Transports
    /\ link = TRUE
    /\ suspends = 0
-----------------------------------------------------------------------------
(***************************************************************************)
(* Single response mode.                                                   *)
(***************************************************************************)
g_obex_srm_enabled(o) == o.srm = "enabled"
g_obex_srm_active(o) == g_obex_srm_enabled(o) /\ o.srmp = "none"

SrmFree(o) == [o EXCEPT !.srm = "null", !.srmp = "next", !.srmpOut = FALSE]

\* set_srm with G_OBEX_SRM_ENABLE.
set_srm(o) == [o EXCEPT !.srm = IF @ = "null" THEN "there" ELSE "enabled"]

\* What was set to wait in one direction is not reset by the other.
set_srmp(o, srmp, outgoing) ==
    IF o.srm = "null" \/ (srmp = "none" /\ o.srmpOut # outgoing)
    THEN o
    ELSE [o EXCEPT !.srmp = srmp, !.srmpOut = outgoing]

\* check_srm_final: the last response ends the mode.
check_srm_final(o, p) ==
    IF g_obex_srm_enabled(o) /\ p.op \in {"SUCCESS", "ERROR"} THEN SrmFree(o) ELSE o

\* setup_srm for a packet that comes or goes.
setup_srm(o, p, outgoing) ==
    LET o1 == IF p.srm THEN set_srm(o)
              ELSE IF g_obex_srm_enabled(o) THEN o ELSE SrmFree(o)
        o2 == IF p.srmp THEN set_srmp(o1, "wait", outgoing)
              ELSE IF o1.pending_req.suspended THEN o1
              ELSE set_srmp(o1, "none", outgoing)
    IN  IF transport THEN check_srm_final(o2, p) ELSE o
\* While the pending request is suspended every packet says so.
WithSrmp(o, p) ==
    IF transport /\ o.pending_req.suspended THEN [p EXCEPT !.srmp = TRUE] ELSE p
-----------------------------------------------------------------------------
(***************************************************************************)
(* Sending.                                                                *)
(***************************************************************************)
enable_tx(o) ==
    IF o.suspended \/ ~o.io THEN o ELSE [o EXCEPT !.write_source = TRUE]

\* g_obex_send_internal, while the transport is connected.
g_obex_send_internal(o, p) ==
    LET q == IF p.op = "ABORT" THEN <<p>> \o o.tx_queue ELSE Append(o.tx_queue, p)
        o1 == [o EXCEPT !.tx_queue = q]
    IN  IF ~o.io THEN o
        ELSE IF o.pending_req = NoReq \/ p.id = 0 THEN enable_tx(o1) ELSE o1

\* g_obex_send: a response to a request that offered SRM accepts it.
g_obex_send(o, p) ==
    LET offered == p.op \in {"CONTINUE", "SUCCESS", "ERROR"} /\ o.srm = "there"
    IN  g_obex_send_internal(o, [p EXCEPT !.srm = transport /\ offered])

\* g_obex_send_req for transfer x = o.transfer: a GET or PUT offers SRM.
g_obex_send_req(o, what, cb, body) ==
    LET p == [Packet(what, o.next, cb, o.transfer.x, o.transfer.n, body)
                EXCEPT !.srm = transport /\ what # "ABORT" /\ ~g_obex_srm_enabled(o)]
    IN  [g_obex_send_internal([o EXCEPT !.next = @ + 1], p)
            EXCEPT !.transfer.req = o.next]

\* pending_req_abort.
pending_req_abort(o) ==
    IF o.pending_req.cancelled THEN o
    ELSE g_obex_send([o EXCEPT !.pending_req.cancelled = TRUE,
                               !.pending_req.timer = TRUE],
                     Packet("ABORT", 0, "none", 0, o.pending_req.n, FALSE))

\* g_obex_cancel_req: a pending request is aborted, a queued one taken out and
\* called back later; remove: its callback is forgotten.
g_obex_cancel_req(o, id, remove) ==
    IF o.pending_req # NoReq /\ o.pending_req.id = id
    THEN LET o1 == pending_req_abort(o)
         IN  IF remove THEN [o1 EXCEPT !.pending_req.cb = "none"] ELSE o1
    ELSE LET gone(p) == p.id = id
             o1 == [o EXCEPT !.tx_queue = SelectSeq(@, LAMBDA p : p.id # id)]
         IN  IF remove THEN o1
             ELSE [o1 EXCEPT !.idle = @ \o SelectSeq(o.tx_queue, gone)]

\* g_obex_suspend: a GET under SRM asks the other side to wait, everything else
\* stops its own writing.
g_obex_suspend(o) ==
    IF g_obex_srm_active(o) /\ o.pending_req # NoReq /\ o.pending_req.op = "GET"
    THEN g_obex_send([o EXCEPT !.pending_req.timer = FALSE,
                               !.pending_req.suspended = TRUE],
                     [Packet("GET", 0, "none", 0, o.pending_req.n, FALSE)
                        EXCEPT !.srmp = TRUE])
    ELSE [o EXCEPT !.suspended = TRUE, !.write_source = FALSE]

\* g_obex_srm_resume sets a new timer, whether or not there is one.
g_obex_srm_resume(o) ==
    g_obex_send([o EXCEPT !.leaked = IF o.pending_req.timer THEN @ + 1 ELSE @,
                          !.pending_req.timer = TRUE,
                          !.pending_req.suspended = FALSE],
                Packet("GET", 0, "none", 0, o.pending_req.n, FALSE))

\* Mutant: the writer is not enabled again.
g_obex_resume_quiet(o) == [o EXCEPT !.suspended = FALSE]

g_obex_resume(o) ==
    LET o1 == [o EXCEPT !.suspended = FALSE]
        o2 == IF ~g_obex_srm_active(o1) /\ o1.pending_req.op = "GET"
              THEN g_obex_srm_resume(o1) ELSE o1
    IN  IF o2.tx_queue # <<>> THEN enable_tx(o2) ELSE o2
-----------------------------------------------------------------------------
(***************************************************************************)
(* Transfers.                                                              *)
(***************************************************************************)
\* transfer_free.
transfer_free(o) ==
    LET o1 == IF o.transfer.req > 0 THEN g_obex_cancel_req(o, o.transfer.req, TRUE)
                                    ELSE o
    IN  [o1 EXCEPT !.transfer = NoTransfer]

Errors == {"failed", "refused"}

\* Mutant: after an error the queue is kept.
transfer_complete_keeps(o, how) ==
    transfer_free([o EXCEPT !.told[o.transfer.n] =
                      IF how \in Errors /\ o.transfer.cancelled THEN "cancelled" ELSE how])

\* transfer_complete: complete_func is told, after an error nothing of the
\* queue is sent any more; what was paused is resumed (xfer_complete).
transfer_complete(o, how) ==
    LET o1 == IF how \in Errors THEN [o EXCEPT !.tx_queue = <<>>] ELSE o
        o2 == [o1 EXCEPT !.told[o.transfer.n] =
                   IF how \in Errors /\ o.transfer.cancelled THEN "cancelled" ELSE how]
    IN  transfer_free(IF o.transfer.paused THEN g_obex_resume(o2) ELSE o2)

\* The callback of transfer x runs; if it is no longer there this is the end.
Alive(o, x) == o.transfer.x = x
Broken(o, what) == [o EXCEPT !.broken = what]

\* Data that arrives: the next chunk of this transfer, or something else.
Consumed(t, p) ==
    IF p.data = 0 THEN t
    ELSE [t EXCEPT !.mixed = @ \/ p.n # t.n \/ p.data # t.at, !.at = @ + 1]
\* What a transfer that ends well has transferred.
Outcome(t) == IF t.mixed \/ t.at # Chunks + 1 THEN "mixed" ELSE "done"

\* transfer_response: answer is a packet of the wire, or NoPacket for an error.
transfer_response(o, answer) ==
    LET o1 == [o EXCEPT !.transfer.req = 0]
        o2 == [o1 EXCEPT !.transfer = IF op = "GET" THEN Consumed(@, answer) ELSE @]
    IN  IF answer.op \in {"none", "ERROR"}
        THEN {transfer_complete(o1, IF answer.op = "none" THEN "failed" ELSE "refused")}
        ELSE (IF op = "GET" /\ answer.data # 0 /\ "consume" \in Faults[transport]
              THEN {transfer_complete(o1, "failed")} ELSE {})
             \cup
             (IF answer.op = "SUCCESS"
              THEN {transfer_complete(o2, IF op = "GET" THEN Outcome(o2.transfer)
                                          ELSE "done")}
              ELSE IF op = "PUT"
              THEN {g_obex_send_req(o2, "PUT", "transfer", TRUE)}
              ELSE IF ~g_obex_srm_active(o2)
              THEN {g_obex_send_req(o2, "GET", "transfer", FALSE)}
              ELSE {[o2 EXCEPT !.transfer.req = o.transfer.req]})

\* The rsp_func of request p is called with an answer.
CallBack(o, p, answer) ==
    CASE p.cb = "none" -> {o}
      [] p.cb # "none" /\ ~Alive(o, p.x) -> {Broken(o, "response")}
      [] p.cb = "transfer" /\ Alive(o, p.x) -> transfer_response(o, answer)
      [] p.cb = "abort" /\ Alive(o, p.x) ->
             {transfer_complete([o EXCEPT !.transfer.req = 0], "failed")}

\* put_get_data: the data of a PUT, data 0 being the end.
put_get_data(o) ==
    LET t == o.transfer
        o1 == [o EXCEPT !.transfer.at = @ + 1]
    IN  IF t.at > Chunks THEN {<<o, 0>>}
        ELSE {<<IF g_obex_srm_active(o1)
                THEN g_obex_send_req(o1, "PUT", "transfer", TRUE) ELSE o1, t.at>>}

\* Mutant: the last chunk is taken for the end.
get_get_data_short(o, p) ==
    LET t == o.transfer
        o1 == [o EXCEPT !.transfer.at = @ + 1]
    IN  IF t.at >= Chunks THEN {<<transfer_complete(o, "done"), 0>>}
        ELSE {<<IF g_obex_srm_active(o1)
                THEN g_obex_send(o1, Packet("CONTINUE", 0, "none", t.x, t.n, TRUE))
                ELSE o1, t.at>>}

\* get_get_data: the data of a response; with the end the transfer is complete.
get_get_data(o, p) ==
    LET t == o.transfer
        o1 == [o EXCEPT !.transfer.at = @ + 1]
    IN  IF t.at > Chunks THEN {<<transfer_complete(o, "done"), 0>>}
        ELSE {<<IF g_obex_srm_active(o1)
                THEN g_obex_send(o1, Packet("CONTINUE", 0, "none", t.x, t.n, TRUE))
                ELSE o1, t.at>>}

\* A data producer that fails: the client aborts the transfer, the server
\* answers with an error, and then its transfer is over.
ProducerFails(e, o) ==
    IF e = "client"
    THEN g_obex_send_req(o, "ABORT", "abort", FALSE)
    ELSE transfer_complete(
             g_obex_send(o, Packet("ERROR", 0, "none", 0, o.transfer.n, FALSE)),
             "failed")
-----------------------------------------------------------------------------
(***************************************************************************)
(* The write handler.                                                      *)
(***************************************************************************)
stop_tx(o) == [o EXCEPT !.write_source = FALSE]
Done(o) == IF o.tx_queue = <<>> THEN stop_tx(o) ELSE o

\* What g_obex_packet_encode makes of packet p with the data d.
Encoded(p, d) ==
    [op    |-> IF p.body /\ d = 0 /\ p.op = "CONTINUE" THEN "SUCCESS" ELSE p.op,
     final |-> ~p.body \/ d = 0,
     srm   |-> p.srm, srmp |-> p.srmp, n |-> p.n, data |-> d]

\* A request that has been encoded is the pending one from now on, whatever was
\* there before; a response may end SRM.
Launched(o, p, q) ==
    IF p.id > 0
    THEN [o EXCEPT !.pending_req = [NoReq EXCEPT !.id = p.id, !.op = p.op, !.cb = p.cb,
                                                 !.x = p.x, !.n = p.n, !.timer = TRUE]]
    ELSE check_srm_final(o, q)

\* The write succeeds, or it does not: the callback of the request is called and
\* the request freed, but pending_req is left as it is.
Write(e, o, p, q) ==
    IF link
    THEN {[o |-> Done(Launched(o, p, q)), out |-> <<q>>]}
    ELSE IF p.id = 0
    THEN {[o |-> stop_tx(Launched(o, p, q)), out |-> <<>>]}
    ELSE {[o |-> stop_tx([c EXCEPT !.pending_req.freed = (c.pending_req.id = p.id)]),
           out |-> <<>>]
             : c \in CallBack(Launched(o, p, q), p, NoPacket)}

\* The body of packet p is produced and the packet written; or the producer has
\* nothing yet, and the packet goes back to where it was; or it fails.
Produce(e, o, p) ==
    IF ~Alive(o, p.x)
    THEN {[o |-> Broken(o, "producer"), out |-> <<>>]}
    ELSE (UNION {Write(e, d[1], p, Encoded(p, d[2]))
                    : d \in IF e = "client" THEN put_get_data(o) ELSE get_get_data(o, p)})
         \cup (IF "produce" \in Faults[transport]
               THEN {[o |-> Done(ProducerFails(e, o)), out |-> <<>>]} ELSE {})

\* write_data: the packet at the head of tx_queue.
HeadOf(o) == WithSrmp(o, Head(o.tx_queue))
Popped(o) == [setup_srm(o, HeadOf(o), TRUE) EXCEPT !.tx_queue = Tail(@)]
MustWait(o) ==
    HeadOf(o).id > 0 /\ o.pending_req # NoReq /\ ~g_obex_srm_enabled(Popped(o))
write_data(e) ==
    LET o == obex[e]
        back == [Popped(o) EXCEPT !.tx_queue = <<HeadOf(o)>> \o @]
    IN
    /\ o.write_source /\ o.broken = "nothing"
    /\ link \/ "race" \in Faults[transport]
    /\ \E w \in IF o.tx_queue = <<>> THEN {[o |-> stop_tx(o), out |-> <<>>]}
                ELSE IF MustWait(o) THEN {[o |-> stop_tx(back), out |-> <<>>]}
                ELSE IF HeadOf(o).body THEN Produce(e, Popped(o), HeadOf(o))
                ELSE Write(e, Popped(o), HeadOf(o), Encoded(HeadOf(o), 0)) :
         /\ obex' = [obex EXCEPT ![e] = w.o]
         /\ wire' = [wire EXCEPT ![Other(e)] = @ \o w.out]
    /\ UNCHANGED <<op, transport, link, suspends>>

\* The object of the server has nothing yet (-EAGAIN): the packet goes back, and
\* nothing is sent until there is something.
write_data_eagain ==
    LET o == obex["server"]
        back == [Popped(o) EXCEPT !.tx_queue = <<HeadOf(o)>> \o @]
    IN
    /\ o.write_source /\ o.broken = "nothing"
    /\ o.tx_queue # <<>> /\ ~MustWait(o)
    /\ HeadOf(o).body /\ Alive(o, HeadOf(o).x)
    /\ "wait" \in Faults[transport] /\ suspends < MaxSuspends
    /\ suspends' = suspends + 1
    /\ obex' = [obex EXCEPT !["server"] =
                   [stop_tx(g_obex_suspend(back)) EXCEPT !.transfer.waits = TRUE]]
    /\ UNCHANGED <<wire, op, transport, link>>

\* The link is gone, and the poll says so.
write_data_hup(e) ==
    /\ obex[e].write_source /\ obex[e].broken = "nothing"
    /\ ~link
    /\ obex' = [obex EXCEPT ![e] = stop_tx(@)]
    /\ UNCHANGED <<wire, op, transport, link, suspends>>
-----------------------------------------------------------------------------
(***************************************************************************)
(* The read handler.                                                       *)
(***************************************************************************)
\* Mutant: a GET is answered once.
Continues_not(o, p) == FALSE

\* Under SRM a GET stays pending until its last response.
Continues(o, p) ==
    g_obex_srm_enabled(o) /\ o.pending_req.op = "GET" /\ p.op = "CONTINUE"

\* handle_response; answer NoPacket: the transport was lost.
handle_response(o, answer) ==
    LET o1 == IF answer = NoPacket THEN o ELSE setup_srm(o, answer, FALSE)
        p == o1.pending_req
        final == answer = NoPacket \/ ~Continues(o1, answer)
        o2 == IF final THEN [o1 EXCEPT !.pending_req = NoReq]
                       ELSE [o1 EXCEPT !.pending_req.timer = TRUE]
    IN  IF p.freed THEN {Broken(o, "freed request")}
        ELSE {IF answer # NoPacket /\ c.tx_queue # <<>> THEN enable_tx(c) ELSE c
                : c \in CallBack(o2, p, IF p.cancelled THEN NoPacket ELSE answer)}

\* The connection is given up: the pending request is told, then the user frees
\* everything (disconn_func).
Disconnected(o) ==
    {[NewObex EXCEPT !.io = FALSE, !.next = c.next, !.told = c.told, !.broken = c.broken]
        : c \in IF o.pending_req = NoReq THEN {o}
                ELSE handle_response([o EXCEPT !.io = FALSE], NoPacket)}

\* The user of the server, at the first packet of an object: obexd/src/obex.c.
\* g_obex_put_rsp and g_obex_get_rsp, or an error.
\* Mutant: the final bit is not looked at.
put_get_bytes_any(p) == "SUCCESS"

put_get_bytes(p) == IF p.final THEN "SUCCESS" ELSE "CONTINUE"
NewTransfer(o, n) ==
    [o EXCEPT !.next = @ + 1,
              !.transfer = [NoTransfer EXCEPT !.x = o.next, !.n = n, !.at = 1]]
Respond(o, what, n) == g_obex_send(o, Packet(what, 0, "none", 0, n, FALSE))

\* A packet with data for the transfer of the server: what is answered, unless
\* that may be left out, and the end of the transfer if this was the last one.
transfer_put_req(o, p, always) ==
    LET o1 == [o EXCEPT !.transfer = Consumed(@, p)]
        what == put_get_bytes(p)
        o2 == IF what = "CONTINUE" /\ g_obex_srm_active(o1) /\ ~always THEN o1
              ELSE Respond(o1, what, p.n)
    IN  {IF what = "CONTINUE" THEN o2 ELSE transfer_complete(o2, Outcome(o1.transfer))}
        \cup (IF "decline" \in Faults[transport] /\ p.data # 0
              THEN {transfer_complete(Respond(o, "ERROR", p.n), "declined")} ELSE {})
        \cup (IF "wait" \in Faults[transport] /\ p.data # 0 /\ ~o.suspended /\ suspends < MaxSuspends
              THEN {LET o3 == [g_obex_suspend(o1) EXCEPT !.transfer.waits = TRUE]
                    IN  IF what = "CONTINUE" /\ g_obex_srm_active(o1) /\ ~always THEN o3
                        ELSE Respond(o3, what, p.n)}
              ELSE {})

transfer_get_req(o, p) ==
    g_obex_send(o, Packet("CONTINUE", 0, "none", o.transfer.x, o.transfer.n, TRUE))

\* transfer_abort_req: the answer goes into the queue, and transfer_complete
\* empties that queue.
transfer_abort_req(o, p) == transfer_complete(Respond(o, "SUCCESS", p.n), "failed")

\* handle_request.
handle_request(o, p) ==
    LET o1 == setup_srm(o, p, FALSE)
        busy == o1.transfer # NoTransfer
    IN  CASE p.op = "ABORT" /\ busy  -> {transfer_abort_req(o1, p)}
          [] p.op = "ABORT" /\ ~busy -> {Respond(o1, "SUCCESS", p.n)}
          [] p.op = "PUT" /\ busy    -> transfer_put_req(o1, p, FALSE)
          [] p.op = "GET" /\ busy    -> {transfer_get_req(o1, p)}
          [] p.op # "ABORT" /\ ~busy ->
                 (IF p.op = "PUT" THEN transfer_put_req(NewTransfer(o1, p.n), p, TRUE)
                  ELSE {transfer_get_req(NewTransfer(o1, p.n), p)})
                 \cup (IF "decline" \in Faults[transport] THEN {Respond(o1, "ERROR", p.n)} ELSE {})

\* incoming_data: a response nobody waits for is ignored, unless its code looks
\* like a request's, which is an error and ends the connection.
incoming_data(e) ==
    LET o == obex[e]
        p == Head(wire[e])
        lost == o.pending_req = NoReq /\ p.op = "CONTINUE"
    IN
    /\ o.io /\ o.broken = "nothing"
    /\ wire[e] # <<>>
    /\ \E o1 \in IF lost THEN Disconnected(o)
                 ELSE IF o.pending_req # NoReq THEN handle_response(o, p)
                 ELSE IF p.op \in {"SUCCESS", "ERROR"} THEN {o}
                 ELSE handle_request(o, p) :
         /\ obex' = [obex EXCEPT ![e] = o1]
         /\ suspends' = IF o1.transfer.waits /\ ~o.transfer.waits THEN suspends + 1
                         ELSE suspends
    /\ wire' = [wire EXCEPT ![e] = Tail(@)]
    /\ link' = (link /\ ~lost)
    /\ UNCHANGED <<op, transport>>

incoming_data_hup(e) ==
    /\ obex[e].io /\ obex[e].broken = "nothing"
    /\ ~link
    /\ \E o1 \in Disconnected(obex[e]) : obex' = [obex EXCEPT ![e] = o1]
    /\ wire' = [wire EXCEPT ![e] = <<>>]
    /\ UNCHANGED <<op, transport, link, suspends>>
-----------------------------------------------------------------------------
(***************************************************************************)
(* Timers, the user of the client, the link.                               *)
(***************************************************************************)
MayResume(e) == obex[e].io /\ (obex[e].transfer.paused \/ obex[e].transfer.waits)
Idle(e) == wire[e] = <<>> /\ ~obex[e].write_source /\ obex[e].idle = <<>>
Quiet == link /\ \A e \in Ends : Idle(e) /\ ~MayResume(e)

\* req_timeout, of the timer the pending request knows of, or of one it does not.
req_timeout(leak) ==
    LET o == obex["client"]
        p == o.pending_req
        o1 == [o EXCEPT !.pending_req = NoReq,
                        !.leaked = IF leak /\ ~p.timer THEN @ - 1 ELSE @]
    IN
    /\ o.broken = "nothing"
    /\ IF leak THEN o.leaked > 0 ELSE p.timer
    /\ Quiet \/ "late" \in Faults[transport]
    /\ \E o2 \in IF p = NoReq THEN {Broken(o, "assertion")} ELSE CallBack(o1, p, NoPacket) :
         obex' = [obex EXCEPT !["client"] = o2]
    /\ UNCHANGED <<wire, op, transport, link, suspends>>

cancel_complete ==
    LET o == obex["client"] IN
    /\ o.broken = "nothing"
    /\ o.idle # <<>>
    /\ \E o1 \in CallBack([o EXCEPT !.idle = Tail(@)], Head(o.idle), NoPacket) :
         obex' = [obex EXCEPT !["client"] = o1]
    /\ UNCHANGED <<wire, op, transport, link, suspends>>

\* g_obex_put_req, g_obex_get_req: the next object.
g_obex_transfer_req(n) ==
    LET o == obex["client"] IN
    /\ o.io /\ o.broken = "nothing"
    /\ o.transfer = NoTransfer
    /\ o.told[n] = "nothing" /\ \A m \in 1..(n - 1) : o.told[m] # "nothing"
    /\ obex' = [obex EXCEPT !["client"] =
                   g_obex_send_req(NewTransfer(o, n), op, "transfer", op = "PUT")]
    /\ UNCHANGED <<wire, op, transport, link, suspends>>

\* g_obex_cancel_transfer, as obc_transfer_cancel calls it: once.
g_obex_cancel_transfer ==
    LET o == obex["client"]
        o1 == IF o.transfer.paused THEN g_obex_resume(o) ELSE o
    IN
    /\ "cancel" \in Faults[transport]
    /\ o.io /\ o.broken = "nothing"
    /\ o.transfer # NoTransfer /\ ~o.transfer.cancelled
    /\ obex' = [obex EXCEPT !["client"] =
                   g_obex_cancel_req([o1 EXCEPT !.transfer.cancelled = TRUE],
                                     o.transfer.req, FALSE)]
    /\ UNCHANGED <<wire, op, transport, link, suspends>>

\* obc_transfer_suspend.
obc_transfer_suspend ==
    LET o == obex["client"] IN
    /\ (IF op = "GET" THEN "pause GET" ELSE "pause") \in Faults[transport]
    /\ o.io /\ o.broken = "nothing"
    /\ o.transfer # NoTransfer /\ ~o.transfer.paused
    /\ suspends < MaxSuspends
    /\ suspends' = suspends + 1
    /\ obex' = [obex EXCEPT !["client"] =
                   [g_obex_suspend(o) EXCEPT !.transfer.paused = TRUE]]
    /\ UNCHANGED <<wire, op, transport, link>>

\* obc_transfer_resume of the client, handle_async_io of the server.
Resume(e) ==
    /\ MayResume(e) /\ obex[e].broken = "nothing"
    /\ obex' = [obex EXCEPT ![e] = [g_obex_resume(@) EXCEPT !.transfer.paused = FALSE,
                                                           !.transfer.waits = FALSE]]
    /\ UNCHANGED <<wire, op, transport, link, suspends>>

HangUp ==
    /\ "hangup" \in Faults[transport]
    /\ link
    /\ link' = FALSE
    /\ UNCHANGED <<obex, wire, op, transport, suspends>>
-----------------------------------------------------------------------------
Next ==
    \/ \E e \in Ends : write_data(e)
    \/ write_data_eagain
    \/ \E e \in Ends : write_data_hup(e)
    \/ \E e \in Ends : incoming_data(e)
    \/ \E e \in Ends : incoming_data_hup(e)
    \/ \E leak \in BOOLEAN : req_timeout(leak)
    \/ cancel_complete
    \/ \E n \in Transfers : g_obex_transfer_req(n)
    \/ g_obex_cancel_transfer
    \/ obc_transfer_suspend
    \/ \E e \in Ends : Resume(e)
    \/ HangUp

Spec == Init /\ [][Next]_vars

FairSpec ==
    /\ Spec
    /\ \A e \in Ends : /\ WF_vars(write_data(e))
                       /\ WF_vars(incoming_data(e))
                       /\ WF_vars(incoming_data_hup(e))
                       /\ WF_vars(Resume(e))
    /\ WF_vars(req_timeout(FALSE))
    /\ WF_vars(cancel_complete)
-----------------------------------------------------------------------------
(***************************************************************************)
(* What is promised.                                                       *)
(***************************************************************************)
Ops0 == {"none", "PUT", "GET", "ABORT", "CONTINUE", "SUCCESS", "ERROR"}
Told == {"nothing", "done", "failed", "refused", "cancelled", "declined", "mixed"}

\* Types: the values of every field, and that what is on the wire and in the
\* queues are packets.
TypeOK ==
    /\ op \in Ops /\ transport \in Transports /\ link \in BOOLEAN
    /\ suspends \in 0..MaxSuspends
    /\ \A e \in Ends :
         /\ obex[e].io \in BOOLEAN /\ obex[e].write_source \in BOOLEAN
         /\ obex[e].suspended \in BOOLEAN
         /\ obex[e].srm \in {"null", "there", "enabled"}
         /\ obex[e].srmp \in {"none", "wait", "next"}
         /\ obex[e].leaked \in Nat /\ obex[e].next \in Nat
         /\ obex[e].told \in [Transfers -> Told]
         /\ obex[e].transfer.n \in Transfers \cup {0}
         /\ obex[e].transfer.at \in Nat
         /\ DOMAIN obex[e].pending_req = DOMAIN NoReq
         /\ \A k \in DOMAIN obex[e].tx_queue :
              /\ obex[e].tx_queue[k].op \in Ops0 \ {"none"}
              /\ DOMAIN obex[e].tx_queue[k] = DOMAIN Packet("PUT", 0, "none", 0, 0, TRUE)
         /\ \A k \in DOMAIN wire[e] :
              wire[e][k].op \in Ops0 \ {"none"} /\ DOMAIN wire[e][k] = DOMAIN NoPacket

\* No callback runs for a transfer that was freed: neither the rsp_func of a
\* request nor the producer of a queued packet, although transfer_free looks for
\* one request only (gobex-transfer.c:52) and packets are encoded when it is
\* their turn; nor is a request used that was freed, and req_timeout finds one.
NotBroken == \A e \in Ends : obex[e].broken = "nothing"

\* An abort that was overtaken by the answer it wants to stop is not sent any
\* more (transfer_complete empties the queue), so the transfer of the server
\* lives on and takes the packets of the next: what the next two say of a
\* transfer is said while none was cancelled, that one and those before it.
Undisturbed(n) == \A m \in 1..n : obex["client"].told[m] # "cancelled"

\* What the client calls a success was one at the server too: an answer is never
\* taken for that of another request, although only their order relates them
\* (handle_response).
Agreement ==
    \A n \in Transfers :
        obex["client"].told[n] = "done" /\ Undisturbed(n) => obex["server"].told[n] = "done"

\* An object that was transferred has its own chunks, all of them and in order:
\* suspending, putting a packet back (-EAGAIN) and SRM neither lose one nor send
\* one twice.
NoMix ==
    \A n \in Transfers, e \in Ends : Undisturbed(n) => obex[e].told[n] # "mixed"

\* Every transfer of the client ends, well or not: no wake-up of the writer is
\* lost, and where the other side stays silent there is a timer.
EveryTransferEnds ==
    \A n \in Transfers : obex["client"].transfer.n = n ~> obex["client"].transfer.n # n

\* "Unexpected response -- fail silently" (incoming_data): neither end drops the
\* connection for what the other one sends, until a transfer is cancelled: the
\* answers to what was sent for it may come when nothing waits for them.
FailSilently ==
    [][ link' # link /\ Undisturbed(MaxTransfers)
        => \A e \in Ends : obex'[e].io = obex[e].io ]_vars
=============================================================================
