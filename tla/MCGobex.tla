------------------------------ MODULE MCGobex ------------------------------
(* What may go wrong on a stream, and in single response mode.              *)
EXTENDS Gobex

MCFaults ==
    [t \in BOOLEAN |->
        IF t THEN {"wait", "pause", "hangup"}
        ELSE {"decline", "produce", "wait", "cancel", "pause", "hangup"}]
=============================================================================
