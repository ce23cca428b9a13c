---------------------------- MODULE AttRefinement ----------------------------
(***************************************************************************)
(* AttBearer implements AttTransaction.                                    *)
(***************************************************************************)
EXTENDS AttBearer

\* What the queues, the slots and disconnect_cb hold.
Entries == AllOps(Chan) \cup SharedOps \cup InSeq(flush)
Lives(x) == \E o \in Entries : o.live /\ InstOf(o) = x

StageOf(x) ==
    CASE x \in freed    -> "ended"
      [] x \in silenced \ freed -> "silent"
      [] x \notin freed \cup silenced /\ calls[x] > 0 -> "told"
      [] x \notin freed \cup silenced /\ calls[x] = 0 /\ Created(x) ->
           IF Lives(x) THEN "open" ELSE "mute"
      [] OTHER -> "none"

\* bt_att_chan_free destroys what is left in the channel's own queue.
Stranded ==
    IF ctl.pc = "detach" THEN Instances(InSeq(chanQ[ctl.chan])) ELSE {}

Slots == Chan \X {"REQ", "IND"}
InSlot(s) == InstOf(IF s[2] = "REQ" THEN pendReq[s[1]] ELSE pendInd[s[1]])

Transaction ==
    INSTANCE AttTransaction
        WITH Op <- Inst, Slot <- Slots, Nobody <- InstOf(NoOp),
             stage <- [x \in Inst |-> StageOf(x)],
             slot <- [s \in Slots |-> InSlot(s)],
             taken <- silenced, held <- ref, lost <- Stranded

\* Every step of the bearer is a step of the promise: through retries, time-outs,
\* write errors, cancelling from inside callbacks and the clean-up after the last
\* channel, a callback runs at most once and never after bt_att_cancel returned
\* true; an operation with a callback ends without it only where its user took it
\* back, let go of the bearer, or left it in the queue of a channel that is lost
\* (bt_att_chan_free); a slot is taken only when it is free; and whatever
\* bt_att_send accepted ends, whatever the peer does.
Transactions == Transaction!Spec

\* The safety part of it: what every single step of the bearer may do.
Safely == Transaction!Safe

=============================================================================
