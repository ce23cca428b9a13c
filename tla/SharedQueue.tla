----------------------------- MODULE SharedQueue -----------------------------
(***************************************************************************)
(* struct queue of src/shared/queue.c as a sequence of the data its        *)
(* entries hold, head first.  The operators are written without recursion. *)
(***************************************************************************)
EXTENDS Integers, Sequences, FiniteSets

\* The data of the entries.
InSeq(q) == {q[i] : i \in DOMAIN q}

\* No datum is queued twice.
NoRepeat(q) == \A i, j \in DOMAIN q : q[i] = q[j] => i = j

\* How many places up to i are among `at'.
Rank(at, i) == Cardinality({k \in at : k <= i})

\* The entries of q at the places `at', in their order.
EntriesAt(q, at) ==
    [j \in 1 .. Cardinality(at) |-> q[CHOOSE i \in at : Rank(at, i) = j]]

\* queue_remove_if and queue_remove_all for the entries whose datum is in `gone':
\* the others keep their order.
Without(q, gone) ==
    LET kept == {i \in DOMAIN q : q[i] \notin gone}
    IN IF kept = DOMAIN q THEN q ELSE EntriesAt(q, kept)

=============================================================================
