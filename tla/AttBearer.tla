------------------------------ MODULE AttBearer ------------------------------
(***************************************************************************)
(* The ATT bearer of src/shared/att.c: struct bt_att, its channels (the    *)
(* fixed LE channel and the EATT channels attached after it), the queues   *)
(* of operations waiting to be sent, the one request and the one           *)
(* indication a channel may have in flight, the writer that drains the     *)
(* queues, time-outs, the retry after a security error, cancellation and   *)
(* the clean-up when the last channel is gone.                             *)
(*                                                                         *)
(* bluetoothd is single threaded.  A step of the model is one main loop    *)
(* callback, cut where the code calls back into its user: `ctl' says which *)
(* callback is then running, and the user's API calls are enabled in every *)
(* control state, main loop events only when control is back in the loop.  *)
(*                                                                         *)
(* Channels are numbered in the order they are attached, as                *)
(* bt_att_attach_chan pushes a new channel at the head of att->chans: the  *)
(* tail of that queue is the smallest attached number and channel 1 is the *)
(* fixed channel.                                                          *)
(***************************************************************************)
EXTENDS SharedQueue

CONSTANTS
    NChans,       \* how many channels the life of the bearer sees
    MaxId,        \* bound on the ids bt_att_send hands out
    MaxLegs,      \* bound on the operations that reuse one id (bt_att_resend)
    MaxLen,       \* PDU length classes; a channel carries those up to its MTU
    MaxQueue,     \* bound on the PDUs queued because of unsolicited ones
    ClientKinds,  \* what the user sends: requests, indications, commands
    PeerKinds,    \* what the peer sends unasked
    Handled,      \* those of PeerKinds with a handler in att->notify_list
    Rogue,        \* the peer may violate the protocol
    MtuAlone      \* the user exchanges MTU with no request pending

ASSUME BearerAssumption ==
    /\ NChans \in Nat \ {0} /\ MaxId \in Nat \ {0} /\ MaxLegs \in Nat \ {0}
    /\ MaxLen \in Nat \ {0} /\ MaxQueue \in Nat
    /\ ClientKinds \subseteq {"REQ", "MTU", "IND", "CMD"}
    /\ PeerKinds \subseteq {"REQ", "IND", "NFY"}
    /\ Handled \subseteq PeerKinds
    /\ Rogue \in BOOLEAN /\ MtuAlone \in BOOLEAN

Chan == 1 .. NChans
Ids  == 1 .. MaxId
Lens == 1 .. MaxLen
Inst == Ids \X (1 .. MaxLegs)
Levels == 1 .. 4   \* BT_ATT_SECURITY_LOW, MEDIUM, HIGH, FIPS

\* struct att_send_op: `live' says that the callback is still to be run.
Ops(kinds) == [id : Ids, leg : 1 .. MaxLegs, kind : kinds, len : Lens,
               retry : BOOLEAN, live : BOOLEAN]
\* "RSP" and "CONF" come from bt_att_chan_send, which never sets op->id, and
\* from respond_not_supported; they keep id 0 and no callback here.
RspOp(kind) == [id |-> 0, leg |-> 0, kind |-> kind, len |-> 1,
                retry |-> FALSE, live |-> FALSE]
NoOp == [id |-> 0, leg |-> 0, kind |-> "NONE", len |-> 1,
         retry |-> FALSE, live |-> FALSE]

\* What the peer does with a request of ours: not answered yet, the matching
\* response, an error response with an encryption, an authentication or
\* another error code, a response that does not match.
Answers == {"ok", "enc", "auth", "err", "bad"}
Sent == [id : Ids, leg : 1 .. MaxLegs, ans : Answers \cup {"none"}]

VARIABLES
    link,      \* per channel: "new", "up", "down" (peer hung up), "shut", "gone"
    mtu,       \* chan->mtu
    attMtu,    \* att->mtu, the largest MTU ever attached
    sec,       \* security level of the channel's socket
    chanQ,     \* chan->queue
    pendReq,   \* chan->pending_req
    pendInd,   \* chan->pending_ind
    writer,    \* chan->writer_active
    inReq,     \* chan->in_req
    reqQ, indQ, writeQ, \* att->req_queue, ind_queue, write_queue
    nextId,    \* att->next_send_id
    ref,       \* the user still holds its reference
    ctl,       \* the callback control is in, and for which channel
    flush,     \* the queue queue_remove_all has detached and is destroying
    wire,      \* requests of ours in the peer's or the socket's hands, oldest first
    iwire,     \* the same for indications
    inbox,     \* unsolicited PDUs not read yet
    peerWait,  \* transactions the peer opened and still waits on
    owed,      \* the handler of a request has still to respond
    legs,      \* how many operations an id has had so far
    calls,     \* how often an operation's callback ran
    freed,     \* operations destroyed
    asked,     \* bt_att_cancel was called while the operation was outstanding
    silenced,  \* ... and returned true
    blamed     \* channels shut down because a request came while in_req was set

chanVars  == <<link, mtu, attMtu, sec, ref>>
queueVars == <<chanQ, reqQ, indQ, writeQ>>
pendVars  == <<pendReq, pendInd>>
peerVars  == <<wire, iwire, inbox, peerWait, owed>>
ghostVars == <<legs, calls, freed, asked, silenced, blamed>>
vars == <<chanVars, queueVars, pendVars, writer, inReq, nextId, ctl, flush,
          peerVars, ghostVars>>

\* `user` says that the user's code runs, in the main loop or in a callback;
\* `again` that the callback has called bt_att_resend.
Main == [pc |-> "main", chan |-> 1, user |-> TRUE, again |-> FALSE]
In(pc, c, user) == [pc |-> pc, chan |-> c, user |-> user, again |-> FALSE]

Attached == {c \in Chan : link[c] \in {"up", "down", "shut"}}
Oldest   == CHOOSE c \in Attached : \A d \in Attached : c <= d

InstOf(op) == <<op.id, op.leg>>
Instances(ops) == {InstOf(op) : op \in {o \in ops : o.id # 0}}
DropAt(q, i) == [j \in 1 .. (Len(q) - 1) |-> IF j < i THEN q[j] ELSE q[j + 1]]

\* Mutant: bt_att_disc_cancel returns true without taking the handlers away.
MuteAtForgotten(q, i) == q
\* cancel_att_send_op: the callback and the destructor are taken away.
MuteAt(q, i) == [q EXCEPT ![i].live = FALSE]

-----------------------------------------------------------------------------
(* The writer: wakeup_chan_writer installs it, can_write_data runs it.      *)

\* Mutant: wakeup_chan_writer overlooks the channel's own queue.
HasWorkButOwn(c) ==
    \/ writeQ # <<>>
    \/ pendReq[c] = NoOp /\ reqQ # <<>>
    \/ pendInd[c] = NoOp /\ indQ # <<>>

\* The condition under which wakeup_chan_writer sets the write handler.
HasWork(c) ==
    \/ chanQ[c] # <<>>
    \/ writeQ # <<>>
    \/ pendReq[c] = NoOp /\ reqQ # <<>>
    \/ pendInd[c] = NoOp /\ indQ # <<>>

\* Both are to be conjoined after the other primed variables.
wakeup_writer ==
    writer' = [c \in Chan |-> writer[c] \/ (c \in Attached /\ HasWork(c))']
wakeup_chan_writer(c) ==
    writer' = [k \in Chan |-> writer[k] \/ (k = c /\ HasWork(k)')]

Fits(q, c) == q # <<>> /\ Head(q).len <= mtu[c]

\* pick_next_send_op: the queue the next operation of channel c comes from.
PicksChan(c)  == chanQ[c] # <<>>
PicksWrite(c) == ~PicksChan(c) /\ Fits(writeQ, c)
\* Mutant: pick_next_send_op does not look at pending_req.
PicksReqAnyway(c) == ~PicksChan(c) /\ ~PicksWrite(c) /\ Fits(reqQ, c)
PicksReq(c)   == /\ ~PicksChan(c) /\ ~PicksWrite(c)
                 /\ pendReq[c] = NoOp /\ Fits(reqQ, c)
PicksInd(c)   == /\ ~PicksChan(c) /\ ~PicksWrite(c) /\ ~PicksReq(c)
                 /\ pendInd[c] = NoOp /\ Fits(indQ, c)
PicksNone(c)  == ~(PicksChan(c) \/ PicksWrite(c) \/ PicksReq(c) \/ PicksInd(c))

Picked(c) ==
    CASE PicksChan(c)  -> Head(chanQ[c])
      [] PicksWrite(c) -> Head(writeQ)
      [] PicksReq(c)   -> Head(reqQ)
      [] PicksInd(c)   -> Head(indQ)

\* pick_next_send_op pops the queue Picked(c) comes from.
pick_next_send_op(c) ==
    \/ /\ PicksChan(c)
       /\ chanQ' = [chanQ EXCEPT ![c] = Tail(@)]
       /\ UNCHANGED <<reqQ, indQ, writeQ>>
    \/ /\ PicksWrite(c)
       /\ writeQ' = Tail(writeQ)
       /\ UNCHANGED <<chanQ, reqQ, indQ>>
    \/ /\ PicksReq(c)
       /\ reqQ' = Tail(reqQ)
       /\ UNCHANGED <<chanQ, indQ, writeQ>>
    \/ /\ PicksInd(c)
       /\ indQ' = Tail(indQ)
       /\ UNCHANGED <<chanQ, reqQ, writeQ>>

-----------------------------------------------------------------------------
(* Callbacks and destruction of operations.                                 *)

\* op->callback, if bt_att_cancel has not taken it away.
Call(op) == calls' = IF op.live THEN [calls EXCEPT ![InstOf(op)] = @ + 1]
                                ELSE calls
\* destroy_att_send_op
Free(ops) == freed' = freed \cup Instances(ops)

AllOps(cs) == UNION {InSeq(chanQ[c]) \cup {pendReq[c], pendInd[c]} : c \in cs}
\* Mutant: bt_att_cancel_all and bt_att_free forget to destroy requests.
SharedOpsButReq == InSeq(indQ) \cup InSeq(writeQ)
SharedOps  == InSeq(reqQ) \cup InSeq(indQ) \cup InSeq(writeQ)

\* bt_att_free once the last reference is dropped: nothing is called back.
bt_att_free ==
    /\ Free(AllOps(Attached) \cup SharedOps)
    /\ link' = [c \in Chan |-> IF c \in Attached THEN "gone" ELSE link[c]]
    /\ chanQ' = [c \in Chan |-> <<>>]
    /\ reqQ' = <<>> /\ indQ' = <<>> /\ writeQ' = <<>>
    /\ pendReq' = [c \in Chan |-> NoOp]
    /\ pendInd' = [c \in Chan |-> NoOp]
    /\ writer' = [c \in Chan |-> FALSE]
    /\ inReq' = [c \in Chan |-> FALSE]
    /\ wire' = [c \in Chan |-> <<>>] /\ iwire' = [c \in Chan |-> <<>>]
    /\ inbox' = [c \in Chan |-> {}] /\ peerWait' = [c \in Chan |-> {}]
    /\ owed' = {}
    /\ UNCHANGED <<calls, legs, asked, silenced, blamed, nextId, mtu, attMtu, sec>>

-----------------------------------------------------------------------------
(* Main loop callbacks: the write watch.                                    *)

\* Nothing can be picked: the handler returns false, write_watch_destroy runs.
can_write_data_idle(c) ==
    /\ ctl = Main /\ c \in Attached /\ writer[c] /\ PicksNone(c)
    /\ writer' = [writer EXCEPT ![c] = FALSE]
    /\ UNCHANGED <<chanVars, queueVars, pendVars, inReq, nextId, ctl, flush,
                   peerVars, ghostVars>>

\* Mutant: in_req is cleared only when nothing else is queued on the channel.
InReqAfterLastRsp(c) == [inReq EXCEPT ![c] = Len(chanQ[c]) > 1]
\* can_write_data, case ATT_OP_TYPE_RSP: "Set in_req to false".
InReqAfterRsp(c) == [inReq EXCEPT ![c] = FALSE]

\* The PDU is written; a request or an indication stays pending and is timed.
can_write_data(c) ==
    LET op == Picked(c) IN
    /\ ctl = Main /\ link[c] = "up" /\ writer[c] /\ ~PicksNone(c)
    /\ pick_next_send_op(c)
    /\ \/ /\ op.kind \in {"REQ", "MTU"}
          /\ pendReq' = [pendReq EXCEPT ![c] = op]
          /\ wire' = [wire EXCEPT ![c] =
                        Append(@, [id |-> op.id, leg |-> op.leg, ans |-> "none"])]
          /\ UNCHANGED <<pendInd, inReq, iwire, peerWait, freed>>
       \/ /\ op.kind = "IND"
          /\ pendInd' = [pendInd EXCEPT ![c] = op]
          /\ iwire' = [iwire EXCEPT ![c] =
                        Append(@, [id |-> op.id, leg |-> op.leg, ans |-> "none"])]
          /\ UNCHANGED <<pendReq, inReq, wire, peerWait, freed>>
       \/ /\ op.kind = "RSP"
          /\ inReq' = InReqAfterRsp(c)
          /\ peerWait' = [peerWait EXCEPT ![c] = @ \ {"REQ"}]
          /\ UNCHANGED <<pendVars, wire, iwire, freed>>
       \/ /\ op.kind = "CONF"
          /\ peerWait' = [peerWait EXCEPT ![c] = @ \ {"IND"}]
          /\ UNCHANGED <<pendVars, inReq, wire, iwire, freed>>
       \/ /\ op.kind = "CMD"
          /\ Free({op})
          /\ UNCHANGED <<pendVars, inReq, wire, iwire, peerWait>>
    /\ UNCHANGED <<chanVars, writer, nextId, ctl, flush, inbox, owed,
                   legs, calls, asked, silenced, blamed>>

\* The write fails: the operation ends with an error, the handler stays.
can_write_data_fails(c) ==
    LET op == Picked(c) IN
    /\ ctl = Main /\ link[c] \in {"down", "shut"} /\ writer[c] /\ ~PicksNone(c)
    /\ pick_next_send_op(c)
    /\ Call(op) /\ Free({op})
    /\ UNCHANGED <<chanVars, pendVars, writer, inReq, nextId, ctl, flush,
                   peerVars, legs, asked, silenced, blamed>>

\* io-glib removes a watch that polls ERR or NVAL without calling the handler.
watch_callback_error(c) ==
    /\ ctl = Main /\ link[c] \in {"down", "shut"} /\ writer[c]
    /\ writer' = [writer EXCEPT ![c] = FALSE]
    /\ UNCHANGED <<chanVars, queueVars, pendVars, inReq, nextId, ctl, flush,
                   peerVars, ghostVars>>

-----------------------------------------------------------------------------
(* Main loop callbacks: the read watch.                                     *)

io_shutdown(c) == link' = [link EXCEPT ![c] = "shut"]

\* change_security: the level to ask for after error code `ecode`, 0 if none.
change_security(level, ecode) ==
    CASE ecode = "enc" /\ level < 2  -> 2
      [] ecode = "auth" /\ level < 2 -> 2
      [] ecode = "auth" /\ level \in 2 .. 3 -> level + 1
      [] OTHER -> 0

\* Mutant: the request goes back to the queue that is sent without a free slot.
handle_error_rsp_unordered(c, ecode) ==
    LET level == change_security(sec[c], ecode) IN
    /\ pendReq[c] # NoOp /\ ~pendReq[c].retry /\ level # 0
    /\ sec' = [sec EXCEPT ![c] = level]
    /\ writeQ' = <<[pendReq[c] EXCEPT !.retry = TRUE]>> \o writeQ
    /\ pendReq' = [pendReq EXCEPT ![c] = NoOp]
    /\ UNCHANGED <<link, mtu, attMtu, ref, chanQ, reqQ, indQ, pendInd, inReq,
                   nextId, ctl, flush, ghostVars>>
    /\ wakeup_chan_writer(c)

\* handle_error_rsp: raise security and put the request back, once.
handle_error_rsp(c, ecode) ==
    LET level == change_security(sec[c], ecode) IN
    /\ pendReq[c] # NoOp /\ ~pendReq[c].retry /\ level # 0
    /\ sec' = [sec EXCEPT ![c] = level]
    /\ chanQ' = [chanQ EXCEPT ![c] = <<[pendReq[c] EXCEPT !.retry = TRUE]>> \o @]
    /\ pendReq' = [pendReq EXCEPT ![c] = NoOp]
    /\ UNCHANGED <<link, mtu, attMtu, ref, reqQ, indQ, writeQ, pendInd, inReq,
                   nextId, ctl, flush, ghostVars>>
    /\ wakeup_chan_writer(c)

\* handle_rsp.  setsockopt may refuse the security level, so that an error
\* response the code could retry may still be delivered.
handle_rsp(c, ans) ==
    \/ /\ pendReq[c] = NoOp
       /\ io_shutdown(c)
       /\ UNCHANGED <<mtu, attMtu, sec, ref, queueVars, pendVars, writer, inReq,
                      nextId, ctl, flush, ghostVars>>
    \/ handle_error_rsp(c, ans)
    \/ /\ pendReq[c] # NoOp /\ pendReq[c].live
       /\ Call(pendReq[c])
       /\ ctl' = In("rsp", c, TRUE)
       /\ UNCHANGED <<chanVars, queueVars, pendVars, writer, inReq, nextId,
                      flush, legs, freed, asked, silenced, blamed>>
    \/ /\ pendReq[c] # NoOp /\ ~pendReq[c].live
       /\ Free({pendReq[c]})
       /\ pendReq' = [pendReq EXCEPT ![c] = NoOp]
       /\ UNCHANGED <<chanVars, queueVars, pendInd, inReq, nextId, ctl, flush,
                      legs, calls, asked, silenced, blamed>>
       /\ wakeup_chan_writer(c)

\* What the socket has buffered is read until disconnect_cb takes the channel
\* away, also after io_shutdown: a response may come after its time-out.
Readable(c) == ctl = Main /\ c \in Attached

read_rsp(c) ==
    /\ Readable(c) /\ wire[c] # <<>> /\ Head(wire[c]).ans # "none"
    /\ wire' = [wire EXCEPT ![c] = Tail(@)]
    /\ handle_rsp(c, Head(wire[c]).ans)
    /\ UNCHANGED <<iwire, inbox, peerWait, owed>>

\* handle_conf: the peer confirmed an indication.
handle_conf(c) ==
    \/ /\ pendInd[c] = NoOp
       /\ io_shutdown(c)
       /\ UNCHANGED <<mtu, attMtu, sec, ref, queueVars, pendVars, writer, inReq,
                      nextId, ctl, flush, ghostVars>>
    \/ /\ pendInd[c] # NoOp /\ pendInd[c].live
       /\ Call(pendInd[c])
       /\ ctl' = In("conf", c, TRUE)
       /\ UNCHANGED <<chanVars, queueVars, pendVars, writer, inReq, nextId,
                      flush, legs, freed, asked, silenced, blamed>>
    \/ /\ pendInd[c] # NoOp /\ ~pendInd[c].live
       /\ Free({pendInd[c]})
       /\ pendInd' = [pendInd EXCEPT ![c] = NoOp]
       /\ UNCHANGED <<chanVars, queueVars, pendReq, inReq, nextId, ctl, flush,
                      legs, calls, asked, silenced, blamed>>
       /\ wakeup_chan_writer(c)

read_conf(c) ==
    /\ Readable(c) /\ iwire[c] # <<>> /\ Head(iwire[c]).ans # "none"
    /\ iwire' = [iwire EXCEPT ![c] = Tail(@)]
    /\ handle_conf(c)
    /\ UNCHANGED <<wire, inbox, peerWait, owed>>

\* The user's response or confirmation callback has returned to handle_rsp or
\* handle_conf.  can_read_data holds a reference of its own meanwhile.
end_callback ==
    LET c == ctl.chan IN
    /\ ctl.pc \in {"rsp", "conf"}
    /\ ctl' = Main
    /\ UNCHANGED <<ref, flush>>
    /\ \/ /\ ref
          /\ \/ /\ ctl.pc = "rsp"
                /\ Free({pendReq[c]})
                /\ pendReq' = [pendReq EXCEPT ![c] = NoOp]
                /\ UNCHANGED pendInd
             \/ /\ ctl.pc = "conf"
                /\ Free({pendInd[c]})
                /\ pendInd' = [pendInd EXCEPT ![c] = NoOp]
                /\ UNCHANGED pendReq
          /\ UNCHANGED <<link, mtu, attMtu, sec, queueVars, inReq, nextId,
                         peerVars, legs, calls, asked, silenced, blamed>>
          /\ wakeup_chan_writer(c)
       \/ ~ref /\ bt_att_free

\* A response or confirmation nothing of ours asked for, or a malformed
\* confirmation, which handle_conf answers by shutting the bearer down.
read_stray(c) ==
    /\ Readable(c)
    /\ \/ /\ "RSP" \in inbox[c] /\ handle_rsp(c, "ok")
          /\ inbox' = [inbox EXCEPT ![c] = @ \ {"RSP"}]
       \/ /\ "CONF" \in inbox[c] /\ handle_conf(c)
          /\ inbox' = [inbox EXCEPT ![c] = @ \ {"CONF"}]
       \/ /\ "BADCONF" \in inbox[c] /\ io_shutdown(c)
          /\ inbox' = [inbox EXCEPT ![c] = @ \ {"BADCONF"}]
          /\ UNCHANGED <<mtu, attMtu, sec, ref, queueVars, pendVars, writer,
                         inReq, nextId, ctl, flush, ghostVars>>
    /\ UNCHANGED <<wire, iwire, peerWait, owed>>

\* respond_not_supported hands the error response to bt_att_send, so that it
\* goes into the queue all channels share.
respond_not_supported ==
    /\ writeQ' = Append(writeQ, RspOp("RSP"))
    /\ UNCHANGED <<chanQ, reqQ, indQ>>
    /\ wakeup_writer

\* A request.  If one is being served the bearer is shut down; otherwise its
\* handler is called, or the request is refused where there is none.
read_req(c) ==
    /\ Readable(c) /\ "REQ" \in inbox[c]
    /\ inbox' = [inbox EXCEPT ![c] = @ \ {"REQ"}]
    /\ UNCHANGED <<mtu, attMtu, sec, ref, pendVars, nextId, ctl, flush, wire,
                   iwire, peerWait, legs, calls, freed, asked, silenced>>
    /\ \/ /\ inReq[c]
          /\ io_shutdown(c)
          /\ blamed' = blamed \cup {c}
          /\ UNCHANGED <<queueVars, writer, inReq, owed>>
       \/ /\ ~inReq[c]
          /\ inReq' = [inReq EXCEPT ![c] = TRUE]
          /\ UNCHANGED <<link, blamed>>
          /\ \/ /\ "REQ" \in Handled
                /\ owed' = owed \cup {c}
                /\ UNCHANGED <<queueVars, writer>>
             \/ /\ "REQ" \notin Handled
                /\ UNCHANGED owed
                /\ respond_not_supported

\* An indication or a notification.  The indication's handler (notify_cb of
\* src/shared/gatt-client.c) confirms on the channel it came from.
read_unasked(c, kind) ==
    /\ Readable(c) /\ kind \in inbox[c] /\ kind \in {"IND", "NFY"}
    /\ inbox' = [inbox EXCEPT ![c] = @ \ {kind}]
    /\ UNCHANGED <<chanVars, pendVars, inReq, nextId, ctl, flush, wire, iwire,
                   peerWait, owed, ghostVars>>
    /\ \/ /\ kind \notin Handled
          /\ respond_not_supported
       \/ /\ kind \in Handled /\ kind = "IND"
          /\ chanQ' = [chanQ EXCEPT ![c] = Append(@, RspOp("CONF"))]
          /\ UNCHANGED <<reqQ, indQ, writeQ>>
          /\ wakeup_chan_writer(c)
       \/ /\ kind \in Handled /\ kind = "NFY"
          /\ UNCHANGED <<queueVars, writer>>

-----------------------------------------------------------------------------
(* Time-outs and disconnection.                                             *)

\* timeout_cb: the operation fails and the bearer is shut down.
timeout_cb(c) ==
    /\ ctl = Main /\ c \in Attached
    /\ \/ /\ pendReq[c] # NoOp
          /\ Call(pendReq[c]) /\ Free({pendReq[c]})
          /\ pendReq' = [pendReq EXCEPT ![c] = NoOp]
          /\ UNCHANGED pendInd
       \/ /\ pendInd[c] # NoOp
          /\ Call(pendInd[c]) /\ Free({pendInd[c]})
          /\ pendInd' = [pendInd EXCEPT ![c] = NoOp]
          /\ UNCHANGED pendReq
    /\ io_shutdown(c)
    /\ UNCHANGED <<mtu, attMtu, sec, ref, queueVars, writer, inReq, nextId, ctl,
                   flush, peerVars, legs, asked, silenced, blamed>>

\* disconnect_cb up to the callback of the pending request: the channel is
\* out of att->chans already.
disconnect_cb(c) ==
    /\ ctl = Main /\ link[c] \in {"down", "shut"}
    /\ link' = [link EXCEPT ![c] = "gone"]
    /\ Call(pendReq[c]) /\ Free({pendReq[c]})
    /\ pendReq' = [pendReq EXCEPT ![c] = NoOp]
    /\ ctl' = In("detach", c, pendReq[c].live)
    /\ UNCHANGED <<mtu, attMtu, sec, ref, queueVars, pendInd, writer, inReq,
                   nextId, flush, peerVars, legs, asked, silenced, blamed>>

\* ... from there to the end of bt_att_chan_free, which destroys what is left
\* in the channel's own queue, and on to the shared queues if that was the
\* last channel.
detach_chan ==
    LET c == ctl.chan IN
    /\ ctl.pc = "detach"
    /\ Call(pendInd[c])
    /\ Free({pendInd[c]} \cup InSeq(chanQ[c]))
    /\ pendInd' = [pendInd EXCEPT ![c] = NoOp]
    /\ chanQ' = [chanQ EXCEPT ![c] = <<>>]
    /\ writer' = [writer EXCEPT ![c] = FALSE]
    /\ inReq' = [inReq EXCEPT ![c] = FALSE]
    /\ wire' = [wire EXCEPT ![c] = <<>>]
    /\ iwire' = [iwire EXCEPT ![c] = <<>>]
    /\ inbox' = [inbox EXCEPT ![c] = {}]
    /\ peerWait' = [peerWait EXCEPT ![c] = {}]
    /\ owed' = owed \ {c}
    /\ \/ /\ Attached # {}
          /\ ctl' = Main
          /\ UNCHANGED <<flush, reqQ>>
       \/ /\ Attached = {}
          /\ ctl' = In("flush_req", c, pendInd[c].live)
          /\ flush' = reqQ /\ reqQ' = <<>>
    /\ UNCHANGED <<chanVars, pendReq, indQ, writeQ, nextId, legs, asked,
                   silenced, blamed>>

Flushing == ctl.pc \in {"flush_req", "flush_ind", "flush_write"}  \* att->in_disc

\* Mutant: the entry is destroyed without its callback.
disc_att_send_op_unheard ==
    /\ Flushing /\ flush # <<>>
    /\ Free({Head(flush)})
    /\ flush' = Tail(flush)
    /\ ctl' = [ctl EXCEPT !.user = FALSE]
    /\ UNCHANGED <<chanVars, queueVars, pendVars, writer, inReq, nextId,
                   peerVars, calls, legs, asked, silenced, blamed>>
\* queue_remove_all has emptied the queue before it calls disc_att_send_op on
\* each of the entries it held.
disc_att_send_op ==
    /\ Flushing /\ flush # <<>>
    /\ Call(Head(flush)) /\ Free({Head(flush)})
    /\ flush' = Tail(flush)
    /\ ctl' = [ctl EXCEPT !.user = Head(flush).live]
    /\ UNCHANGED <<chanVars, queueVars, pendVars, writer, inReq, nextId,
                   peerVars, legs, asked, silenced, blamed>>

\* The next queue is flushed, or disconnect_cb ends.
flush_next ==
    /\ Flushing /\ flush = <<>>
    /\ \/ /\ ctl.pc = "flush_req"
          /\ ctl' = [ctl EXCEPT !.pc = "flush_ind", !.user = FALSE]
          /\ flush' = indQ /\ indQ' = <<>>
          /\ UNCHANGED writeQ
       \/ /\ ctl.pc = "flush_ind"
          /\ ctl' = [ctl EXCEPT !.pc = "flush_write", !.user = FALSE]
          /\ flush' = writeQ /\ writeQ' = <<>>
          /\ UNCHANGED indQ
       \/ /\ ctl.pc = "flush_write"
          /\ ctl' = Main
          /\ UNCHANGED <<flush, indQ, writeQ>>
    /\ UNCHANGED <<chanVars, chanQ, reqQ, pendVars, writer, inReq, nextId,
                   peerVars, ghostVars>>

-----------------------------------------------------------------------------
(* The API the user calls, from the main loop or from any callback.         *)

UserRuns == ref /\ ctl.user

\* bt_att_send.  bt_att_set_retry(att, id, false) right after it, while the
\* request is queued, is the choice of `retry`.
bt_att_send(kind, len, retry) ==
    LET op == [id |-> nextId, leg |-> 1, kind |-> kind, len |-> len,
               retry |-> retry, live |-> kind # "CMD"]
    IN
    /\ UserRuns /\ Attached # {} /\ nextId <= MaxId
    /\ kind \in ClientKinds /\ len <= attMtu
    /\ retry => kind = "REQ"
    /\ nextId' = nextId + 1
    /\ legs' = [legs EXCEPT ![nextId] = 1]
    /\ \/ /\ kind = "MTU" /\ len = 1
          /\ MtuAlone => /\ pendReq[Oldest] = NoOp
                         /\ \A o \in InSeq(chanQ[Oldest]) : o.kind \in {"RSP", "CONF"}
          /\ chanQ' = [chanQ EXCEPT ![Oldest] = Append(@, op)]
          /\ UNCHANGED <<reqQ, indQ, writeQ>>
       \/ /\ kind = "REQ"
          /\ reqQ' = Append(reqQ, op)
          /\ UNCHANGED <<chanQ, indQ, writeQ>>
       \/ /\ kind = "IND"
          /\ indQ' = Append(indQ, op)
          /\ UNCHANGED <<chanQ, reqQ, writeQ>>
       \/ /\ kind = "CMD"
          /\ writeQ' = Append(writeQ, op)
          /\ UNCHANGED <<chanQ, reqQ, indQ>>
    /\ UNCHANGED <<chanVars, pendVars, inReq, ctl, flush, peerVars,
                   calls, freed, asked, silenced, blamed>>
    /\ wakeup_writer

\* bt_att_resend, called as its three callers do: once, from the response
\* callback of the request whose id it continues.  Only Read Blob, Prepare
\* Write and Execute Write go to the head of the queue.
bt_att_resend(len, front) ==
    LET old == pendReq[ctl.chan]
        op == [id |-> old.id, leg |-> legs[old.id] + 1, kind |-> "REQ",
               len |-> len, retry |-> FALSE, live |-> TRUE]
    IN
    /\ UserRuns /\ ctl.pc = "rsp" /\ ~ctl.again /\ old.kind = "REQ"
    /\ legs[old.id] < MaxLegs /\ len <= attMtu
    /\ ctl' = [ctl EXCEPT !.again = TRUE]
    /\ legs' = [legs EXCEPT ![old.id] = @ + 1]
    /\ reqQ' = IF front THEN <<op>> \o reqQ ELSE Append(reqQ, op)
    /\ UNCHANGED <<chanQ, indQ, writeQ>>
    /\ UNCHANGED <<chanVars, pendVars, inReq, nextId, flush, peerVars,
                   calls, freed, asked, silenced, blamed>>
    /\ wakeup_writer

\* bt_att_chan_send_rsp: the handler of a request answers, then or later.
bt_att_chan_send(c) ==
    /\ UserRuns /\ c \in owed /\ c \in Attached
    /\ owed' = owed \ {c}
    /\ chanQ' = [chanQ EXCEPT ![c] = Append(@, RspOp("RSP"))]
    /\ UNCHANGED <<reqQ, indQ, writeQ>>
    /\ UNCHANGED <<chanVars, pendVars, inReq, nextId, ctl, flush, wire, iwire,
                   inbox, peerWait, ghostVars>>
    /\ wakeup_chan_writer(c)

\* The parts of bt_att_cancel.  `gone` is what it destroys, `mute` the
\* operations it only takes the callback from.
CancelEffect(gone, mute, found) ==
    /\ Free(gone)
    /\ silenced' = IF found THEN silenced \cup Instances(gone \cup mute)
                            ELSE silenced
    /\ asked' = asked \cup Instances(gone \cup mute)

\* A pending operation keeps its slot until the peer answers: only its
\* handlers are removed.
cancel_pending(c, id) ==
    /\ c \in Attached
    /\ \/ /\ pendReq[c].id = id
          /\ CancelEffect({}, {pendReq[c]}, TRUE)
          /\ pendReq' = [pendReq EXCEPT ![c].live = FALSE]
          /\ UNCHANGED pendInd
       \/ /\ pendReq[c].id # id /\ pendInd[c].id = id
          /\ CancelEffect({}, {pendInd[c]}, TRUE)
          /\ pendInd' = [pendInd EXCEPT ![c].live = FALSE]
          /\ UNCHANGED pendReq
    /\ UNCHANGED <<queueVars, writer>>

PendingOn(c, id) == pendReq[c].id = id \/ pendInd[c].id = id
At(q, id) == {i \in DOMAIN q : q[i].id = id}

\* An operation in a channel's own queue is destroyed.
cancel_chan_queue(c, id) ==
    /\ c \in Attached /\ \A d \in Attached : ~PendingOn(d, id)
    /\ \E i \in At(chanQ[c], id) :
         /\ CancelEffect({chanQ[c][i]}, {}, TRUE)
         /\ chanQ' = [chanQ EXCEPT ![c] = DropAt(@, i)]
    /\ UNCHANGED <<reqQ, indQ, writeQ, pendVars>>
    /\ wakeup_chan_writer(c)

OnChannel(id) == \E c \in Attached : PendingOn(c, id) \/ At(chanQ[c], id) # {}

\* An operation in a shared queue is destroyed or, while disconnect_cb cleans
\* up, has its handlers removed (bt_att_disc_cancel).
cancel_shared(id) ==
    /\ ~OnChannel(id)
    /\ \/ \E i \in At(reqQ, id) :
            /\ IF Flushing THEN CancelEffect({}, {reqQ[i]}, TRUE)
                           ELSE CancelEffect({reqQ[i]}, {}, TRUE)
            /\ reqQ' = IF Flushing THEN MuteAt(reqQ, i) ELSE DropAt(reqQ, i)
            /\ UNCHANGED <<chanQ, indQ, writeQ>>
       \/ \E i \in At(indQ, id) :
            /\ IF Flushing THEN CancelEffect({}, {indQ[i]}, TRUE)
                           ELSE CancelEffect({indQ[i]}, {}, TRUE)
            /\ indQ' = IF Flushing THEN MuteAt(indQ, i) ELSE DropAt(indQ, i)
            /\ UNCHANGED <<chanQ, reqQ, writeQ>>
       \/ \E i \in At(writeQ, id) :
            /\ IF Flushing THEN CancelEffect({}, {writeQ[i]}, TRUE)
                           ELSE CancelEffect({writeQ[i]}, {}, TRUE)
            /\ writeQ' = IF Flushing THEN MuteAt(writeQ, i) ELSE DropAt(writeQ, i)
            /\ UNCHANGED <<chanQ, reqQ, indQ>>
    /\ UNCHANGED pendVars
    /\ wakeup_writer

Shared(id) == At(reqQ, id) # {} \/ At(indQ, id) # {} \/ At(writeQ, id) # {}

\* What disconnect_cb still has to call back: the entries queue_remove_all has
\* already detached and the indication of the channel being detached.
Detached == InSeq(flush) \cup
            (IF ctl.pc = "detach"
             THEN {pendInd[ctl.chan]} \cup InSeq(chanQ[ctl.chan]) ELSE {})

\* No queue holds the operation: bt_att_cancel returns false.
cancel_missing(id) ==
    /\ ~OnChannel(id) /\ ~Shared(id)
    /\ CancelEffect({}, {o \in Detached : o.id = id}, FALSE)
    /\ UNCHANGED <<queueVars, pendVars, writer>>

bt_att_cancel(id) ==
    /\ UserRuns /\ id < nextId
    /\ ctl.again => pendReq[ctl.chan].id # id
    /\ UNCHANGED <<chanVars, inReq, nextId, ctl, flush, peerVars, legs, calls,
                   blamed>>
    /\ \/ \E c \in Attached : cancel_pending(c, id) \/ cancel_chan_queue(c, id)
       \/ cancel_shared(id)
       \/ cancel_missing(id)

\* The channels' own queues are left alone.
bt_att_cancel_all ==
    /\ UserRuns
    /\ Free(SharedOps)
    /\ reqQ' = <<>> /\ indQ' = <<>> /\ writeQ' = <<>>
    /\ pendReq' = [c \in Chan |->
                     IF c \in Attached /\ pendReq[c] # NoOp
                     THEN [pendReq[c] EXCEPT !.live = FALSE] ELSE pendReq[c]]
    /\ pendInd' = [c \in Chan |->
                     IF c \in Attached /\ pendInd[c] # NoOp
                     THEN [pendInd[c] EXCEPT !.live = FALSE] ELSE pendInd[c]]
    /\ LET done == SharedOps \cup {pendReq[c] : c \in Attached}
                             \cup {pendInd[c] : c \in Attached}
       IN /\ asked' = asked \cup Instances(done)
          /\ silenced' = silenced \cup Instances(done)
    /\ UNCHANGED <<chanVars, chanQ, writer, inReq, nextId, ctl, flush, peerVars,
                   legs, calls, blamed>>

\* bt_att_set_mtu, called by the callback of the Exchange MTU request.
bt_att_set_mtu(m) ==
    /\ UserRuns /\ ctl.pc = "rsp" /\ pendReq[ctl.chan].kind = "MTU"
    /\ mtu' = [mtu EXCEPT ![Oldest] = m]
    /\ attMtu' = IF m > attMtu THEN m ELSE attMtu
    /\ UNCHANGED <<link, sec, ref, queueVars, pendVars, writer, inReq, nextId,
                   ctl, flush, peerVars, ghostVars>>

\* bt_att_attach_fd: an EATT channel joins, from the main loop.
bt_att_attach_chan(c, m) ==
    /\ UserRuns /\ ctl = Main /\ Attached # {}
    /\ link[c] = "new" /\ \A d \in Chan : d < c => link[d] # "new"
    /\ link' = [link EXCEPT ![c] = "up"]
    /\ mtu' = [mtu EXCEPT ![c] = m]
    /\ attMtu' = IF m > attMtu THEN m ELSE attMtu
    /\ UNCHANGED <<sec, ref, queueVars, pendVars>>
    /\ UNCHANGED <<inReq, nextId, ctl, flush, peerVars, ghostVars>>
    /\ wakeup_chan_writer(c)

\* bt_att_unref by the user.  Where the code runs on a reference of its own
\* the bearer outlives the call.
bt_att_unref ==
    /\ UserRuns /\ ref' = FALSE
    /\ \/ /\ ctl = Main
          /\ bt_att_free
       \/ /\ ctl.pc \in {"rsp", "conf"} \/ Flushing
          /\ UNCHANGED <<link, mtu, attMtu, sec, queueVars, pendVars, writer,
                         inReq, nextId, peerVars, ghostVars>>
    /\ UNCHANGED <<ctl, flush>>

-----------------------------------------------------------------------------
(* The peer and the link, not under src/: only what att.c can see of them.  *)

hang_up(c) ==
    /\ ctl = Main /\ link[c] = "up"
    /\ link' = [link EXCEPT ![c] = "down"]
    /\ UNCHANGED <<mtu, attMtu, sec, ref, queueVars, pendVars, writer, inReq,
                   nextId, ctl, flush, peerVars, ghostVars>>

\* The peer serves requests in order; `ans` is what it makes of this one.
peer_answers(c, ans) ==
    /\ ctl = Main /\ link[c] = "up"
    /\ ans = "bad" => Rogue
    /\ \/ /\ wire[c] # <<>> /\ Head(wire[c]).ans = "none"
          /\ wire' = [wire EXCEPT ![c][1].ans = ans]
          /\ UNCHANGED iwire
       \/ /\ iwire[c] # <<>> /\ Head(iwire[c]).ans = "none" /\ ans = "ok"
          /\ iwire' = [iwire EXCEPT ![c][1].ans = ans]
          /\ UNCHANGED wire
    /\ UNCHANGED <<chanVars, queueVars, pendVars, writer, inReq, nextId, ctl,
                   flush, inbox, peerWait, owed, ghostVars>>

\* A peer that keeps to the protocol has one request and one indication open.
peer_sends(c, kind) ==
    /\ ctl = Main /\ link[c] = "up" /\ kind \in PeerKinds
    /\ kind \notin inbox[c]
    /\ kind \in {"REQ", "IND"} => kind \notin peerWait[c] \/ Rogue
    /\ Len(writeQ) < MaxQueue
    /\ inbox' = [inbox EXCEPT ![c] = @ \cup {kind}]
    /\ peerWait' = [peerWait EXCEPT ![c] = @ \cup ({kind} \cap {"REQ", "IND"})]
    /\ UNCHANGED <<chanVars, queueVars, pendVars, writer, inReq, nextId, ctl,
                   flush, wire, iwire, owed, ghostVars>>

peer_strays(c, kind) ==
    /\ Rogue /\ ctl = Main /\ link[c] = "up" /\ kind \notin inbox[c]
    /\ inbox' = [inbox EXCEPT ![c] = @ \cup {kind}]
    /\ UNCHANGED <<chanVars, queueVars, pendVars, writer, inReq, nextId, ctl,
                   flush, wire, iwire, peerWait, owed, ghostVars>>

-----------------------------------------------------------------------------
\* bt_att_new: one channel, attached and idle, with the default MTU.
Init ==
    /\ link = [c \in Chan |-> IF c = 1 THEN "up" ELSE "new"]
    /\ mtu = [c \in Chan |-> 1] /\ attMtu = 1
    /\ sec = [c \in Chan |-> 1]
    /\ chanQ = [c \in Chan |-> <<>>]
    /\ pendReq = [c \in Chan |-> NoOp] /\ pendInd = [c \in Chan |-> NoOp]
    /\ writer = [c \in Chan |-> FALSE] /\ inReq = [c \in Chan |-> FALSE]
    /\ reqQ = <<>> /\ indQ = <<>> /\ writeQ = <<>>
    /\ nextId = 1 /\ ref = TRUE /\ ctl = Main /\ flush = <<>>
    /\ wire = [c \in Chan |-> <<>>] /\ iwire = [c \in Chan |-> <<>>]
    /\ inbox = [c \in Chan |-> {}] /\ peerWait = [c \in Chan |-> {}]
    /\ owed = {}
    /\ legs = [i \in Ids |-> 0] /\ calls = [x \in Inst |-> 0]
    /\ freed = {} /\ asked = {} /\ silenced = {} /\ blamed = {}

MainLoop(c) ==
    \/ can_write_data(c) \/ can_write_data_idle(c) \/ can_write_data_fails(c)
    \/ watch_callback_error(c)
    \/ read_rsp(c) \/ read_conf(c) \/ read_stray(c) \/ read_req(c)
    \/ \E kind \in {"IND", "NFY"} : read_unasked(c, kind)
    \/ timeout_cb(c) \/ disconnect_cb(c)

Continue == end_callback \/ detach_chan \/ disc_att_send_op \/ flush_next

User ==
    \/ \E kind \in ClientKinds, len \in Lens, retry \in BOOLEAN :
         bt_att_send(kind, len, retry)
    \/ \E len \in Lens, front \in BOOLEAN : bt_att_resend(len, front)
    \/ \E c \in Chan : bt_att_chan_send(c)
    \/ \E id \in Ids : bt_att_cancel(id)
    \/ bt_att_cancel_all
    \/ \E m \in Lens : bt_att_set_mtu(m)
    \/ \E c \in Chan, m \in Lens : bt_att_attach_chan(c, m)
    \/ bt_att_unref

Peer(c) ==
    \/ hang_up(c)
    \/ \E ans \in Answers : peer_answers(c, ans)
    \/ \E kind \in PeerKinds : peer_sends(c, kind)
    \/ \E kind \in {"RSP", "CONF", "BADCONF"} : peer_strays(c, kind)

Next == (\E c \in Chan : MainLoop(c) \/ Peer(c)) \/ Continue \/ User

Spec == Init /\ [][Next]_vars

\* The main loop serves every watch and every timer that stays ready, and
\* callbacks return.  The user, the peer and the read watch owe nothing: an
\* operation nobody answers is ended by its timer.
Fairness ==
    /\ \A c \in Chan :
         /\ WF_vars(can_write_data(c))
         /\ WF_vars(can_write_data_idle(c) \/ can_write_data_fails(c)
                    \/ watch_callback_error(c))
         /\ WF_vars(timeout_cb(c))
         /\ WF_vars(disconnect_cb(c))
    /\ WF_vars(Continue)

FairSpec == Spec /\ Fairness

-----------------------------------------------------------------------------
(* Properties.                                                              *)

ChanType ==
    /\ link \in [Chan -> {"new", "up", "down", "shut", "gone"}]
    /\ mtu \in [Chan -> Lens] /\ attMtu \in Lens
    /\ sec \in [Chan -> Levels] /\ ref \in BOOLEAN
\* What each queue and each pending slot may hold.
ChanOps  == Ops({"REQ", "MTU"}) \cup {RspOp("RSP"), RspOp("CONF")}
ReqOps   == Ops({"REQ"})
IndOps   == Ops({"IND"})
\* create_att_send_op takes no callback for a command.
Commands == {o \in Ops({"CMD"}) : ~o.live}
WriteOps == Commands \cup {RspOp("RSP")}
FlushOps == Ops({"REQ", "IND"}) \cup WriteOps
QueueType ==
    /\ chanQ \in [Chan -> Seq(ChanOps)]
    /\ reqQ \in Seq(ReqOps) /\ indQ \in Seq(IndOps) /\ writeQ \in Seq(WriteOps)
PendType ==
    /\ pendReq \in [Chan -> Ops({"REQ", "MTU"}) \cup {NoOp}]
    /\ pendInd \in [Chan -> Ops({"IND"}) \cup {NoOp}]
FlagType ==
    /\ writer \in [Chan -> BOOLEAN] /\ inReq \in [Chan -> BOOLEAN]
    /\ nextId \in 1 .. (MaxId + 1) /\ flush \in Seq(FlushOps)
    /\ ctl \in [pc : {"main", "rsp", "conf", "detach", "flush_req",
                      "flush_ind", "flush_write"},
                chan : Chan, user : BOOLEAN, again : BOOLEAN]
PeerType ==
    /\ wire \in [Chan -> Seq(Sent)] /\ iwire \in [Chan -> Seq(Sent)]
    /\ inbox \in [Chan -> SUBSET {"REQ", "IND", "NFY", "RSP", "CONF", "BADCONF"}]
    /\ peerWait \in [Chan -> SUBSET {"REQ", "IND"}]
    /\ owed \subseteq Chan
GhostType ==
    /\ legs \in [Ids -> 0 .. MaxLegs] /\ calls \in [Inst -> Nat]
    /\ freed \subseteq Inst /\ asked \subseteq Inst /\ silenced \subseteq asked
    /\ blamed \subseteq Chan

\* The types of the variables of struct bt_att and of struct bt_att_chan, and
\* which kinds of operation each queue and each pending slot may hold.
TypeOK == ChanType /\ QueueType /\ PendType /\ FlagType /\ PeerType /\ GhostType

\* What the peer has of ours is what the slots of the channel hold.
WireMatches(c) ==
    /\ Len(wire[c]) <= 1 /\ Len(iwire[c]) <= 1
    /\ wire[c] # <<>> => InstOf(pendReq[c]) = <<wire[c][1].id, wire[c][1].leg>>
    /\ iwire[c] # <<>> => InstOf(pendInd[c]) = <<iwire[c][1].id, iwire[c][1].leg>>

\* The sequential protocol as the peer sees it: on a channel that is up at most
\* one request and one indication of ours are unanswered, and what the peer
\* answers is what pending_req or pending_ind holds.  Cancelling, retrying,
\* timing out and failing writes must not let a second one out (can_write_data,
\* pick_next_send_op, bt_att_chan_cancel, handle_error_rsp, timeout_cb).
SequentialProtocol == \A c \in Chan : link[c] = "up" => WireMatches(c)

\* What makes it inductive: pick_next_send_op takes a request off chan->queue
\* without a look at pending_req, so such a request must have found the slot
\* empty and kept it so; and while a response callback runs, the slot is still
\* full though nothing is on the wire.
IsReq(o) == o.kind \in {"REQ", "MTU"}
SlotReserved(c) ==
    \A i \in DOMAIN chanQ[c] : IsReq(chanQ[c][i]) =>
        /\ pendReq[c] = NoOp
        /\ \A j \in DOMAIN chanQ[c] : IsReq(chanQ[c][j]) => j = i
Delivering(c) ==
    /\ ctl.pc = "rsp" /\ ctl.chan = c => wire[c] = <<>>
    /\ ctl.pc = "conf" /\ ctl.chan = c => iwire[c] = <<>>
SlotOK(c) ==
    /\ SlotReserved(c)
    /\ link[c] \in {"new", "up", "down"} => WireMatches(c) /\ Delivering(c)
    /\ inbox[c] \cap {"RSP", "CONF"} = {}
SlotInv == \A c \in Chan : SlotOK(c)

Created(x) == x[2] <= legs[x[1]]

\* Where an operation is: the positions of the queues, the pending slots and
\* the entries disconnect_cb is flushing that hold it.
Places(x) ==
    LET Pos(name, q) == {<<name, i>> : i \in {j \in DOMAIN q : InstOf(q[j]) = x}}
    IN Pos(<<"req">>, reqQ) \cup Pos(<<"ind">>, indQ) \cup Pos(<<"write">>, writeQ)
       \cup Pos(<<"flush">>, flush)
       \cup (UNION {Pos(<<"chan", c>>, chanQ[c]) : c \in Chan})
       \cup (UNION {Pos(<<"pend", c>>, <<pendReq[c], pendInd[c]>>) : c \in Chan})

\* No operation is leaked, queued twice or destroyed while still queued: an
\* operation bt_att_send or bt_att_resend created is in exactly one place until
\* it is destroyed and in none afterwards.
NoOpLostOrDoubled ==
    \A x \in Inst :
        Cardinality(Places(x)) = IF Created(x) /\ x \notin freed THEN 1 ELSE 0

\* wakeup_chan_writer loses no wake-up: with control in the main loop, a channel
\* that is up and could send something has its write handler installed, unless
\* its MTU is smaller than another's: such a channel may have lost its handler
\* to a PDU that did not fit.  Every path that queues an operation or frees a
\* slot must wake the right writers.
NoLostWakeup ==
    ctl = Main => \A c \in Chan :
        link[c] = "up" /\ mtu[c] = attMtu /\ ~PicksNone(c) => writer[c]

\* "the sequential protocol was violated" (can_read_data) is never concluded of
\* a peer that keeps to it.
NeverBlamed == blamed = {}

\* Two sentences of the source that the code does not keep, for the reader who
\* wants to see the counterexamples (README, section 5).
\* "Just cancel since disconnect_cb will be cleaning up" (bt_att_disc_cancel): a
\* cancelled operation stays silent also where bt_att_cancel is called while
\* disconnect_cb cleans up.
CancelSilences == [][\A x \in asked : calls'[x] = calls[x]]_vars

\* "Notify request callbacks" (disconnect_cb): the callback of every operation it
\* destroys is run, cancelled ones and commands apart.
DisconnectNotifies ==
    [][ctl.pc = "detach" =>
         \A o \in InSeq(chanQ[ctl.chan]) :
            o.live /\ InstOf(o) \in freed' => calls'[InstOf(o)] = 1]_vars

=============================================================================
