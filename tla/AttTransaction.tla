--------------------------- MODULE AttTransaction ---------------------------
(***************************************************************************)
(* What the bearer of src/shared/att.c promises the code that uses it,     *)
(* whatever queues, channels, writers and retries it is made of.  An       *)
(* operation is accepted, with a callback or without one, and ends.  One   *)
(* with a callback does not end before the callback has run, once, unless  *)
(* its user took it back or let go of the bearer, or the only channel it   *)
(* could go to is lost.  The peer has one operation per slot: the next one *)
(* is not sent before the last is done with.                               *)
(*                                                                         *)
(* One step of the bearer may concern many operations, as all of them when *)
(* the connection is lost, so that a step is a step of every operation and *)
(* of every slot.                                                          *)
(***************************************************************************)
EXTENDS Naturals

CONSTANTS
    Op,      \* operations: one for each bt_att_send and bt_att_resend
    Slot,    \* a request and an indication for each channel
    Nobody   \* what an empty slot holds, not an operation

VARIABLES
    stage,   \* "none", "open", "mute" (no callback), "told", "silent", "ended"
    calls,   \* how often the callback of an operation ran
    slot,    \* the operation the peer has to answer
    taken,   \* operations bt_att_cancel returned true for
    held,    \* the user holds its reference to the bearer
    lost     \* operations that wait for a channel that is being destroyed

vars == <<stage, calls, slot, taken, held, lost>>

Init ==
    /\ stage = [x \in Op |-> "none"] /\ calls = [x \in Op |-> 0]
    /\ slot = [s \in Slot |-> Nobody]
    /\ taken = {} /\ held = TRUE /\ lost = {}

Moves(x, from, to, n) ==
    stage[x] \in from /\ stage'[x] \in to /\ calls'[x] = calls[x] + n

Accept(x) == Moves(x, {"none"}, {"open", "mute"}, 0)
\* The callback runs for an open operation only; afterwards it may be destroyed
\* in the same step or when the callback has returned.
Tell(x)     == Moves(x, {"open"}, {"told", "ended"}, 1)
TakeBack(x) == x \in taken' /\ Moves(x, {"open", "mute", "told"}, {"silent", "ended"}, 0)
End(x)      == Moves(x, {"mute", "told", "silent"}, {"ended"}, 0)
\* The callback is never run.
Drop(x)     == (~held' \/ x \in lost) /\ Moves(x, {"open"}, {"ended"}, 0)
Stay(x)     == stage'[x] = stage[x] /\ calls'[x] = calls[x]

\* An operation is sent that is in no slot and was not told of its end.  A
\* request taken back while it was out is sent again by the security retry.
Send(s) ==
    /\ slot[s] = Nobody /\ slot'[s] \in Op
    /\ \A t \in Slot : slot[t] # slot'[s]
    /\ stage[slot'[s]] \in {"open", "silent"}
\* A slot is free again when its operation has ended or is to be sent again.
Release(s) ==
    /\ slot[s] \in Op /\ slot'[s] = Nobody
    /\ \/ stage'[slot[s]] = "ended"
       \/ Stay(slot[s]) /\ stage[slot[s]] # "told"

Next ==
    /\ \A x \in Op : \/ Accept(x) \/ Tell(x) \/ TakeBack(x) \/ End(x) \/ Drop(x)
                     \/ Stay(x)
    /\ \A s \in Slot : Send(s) \/ Release(s) \/ slot'[s] = slot[s]
    /\ taken \subseteq taken' /\ (held' => held)

Safe == Init /\ [][Next]_vars

\* Nothing that was accepted is forgotten.
Ends == \A x \in Op : (stage[x] # "none") ~> (stage[x] = "ended")

Spec == Safe /\ Ends

=============================================================================
