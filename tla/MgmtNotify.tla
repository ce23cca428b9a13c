------------------------------ MODULE MgmtNotify ------------------------------
(***************************************************************************)
(* The event side of src/shared/mgmt.c: handlers registered for kernel     *)
(* events in notify_list, process_notify walking that list with            *)
(* queue_foreach of src/shared/queue.c while the handlers register and     *)
(* unregister handlers, and the clean-up of those that were marked removed *)
(* meanwhile.                                                              *)
(*                                                                         *)
(* A queue entry is in notify_list or it has been freed: queue_remove_if   *)
(* frees the entry at once, whatever queue_foreach still points to.  A     *)
(* step is one call of the user or one stretch of queue_foreach up to the  *)
(* next callback.  Destructors make no call.                               *)
(***************************************************************************)
EXTENDS SharedQueue

CONSTANTS
    MaxId,       \* bound on next_notify_id
    Event, Index,
    NONE,        \* MGMT_INDEX_NONE, a member of Index
    InCallback   \* whom a callback may name to mgmt_unregister: the handler it
                 \* belongs to ("self"), the one the walk turns to next
                 \* ("next"), any other ("other")

ASSUME NotifyAssumption ==
    /\ MaxId \in Nat \ {0} /\ NONE \in Index /\ Event # {}
    /\ InCallback \subseteq {"self", "next", "other"}

Id == 1 .. MaxId
Null == 0

VARIABLES
    next_notify_id,
    notify,              \* event and index of struct mgmt_notify, by id
    removed,             \* notify->removed
    notify_list,
    in_notify, need_notify_cleanup,
    user_ref, live,
    match,               \* event and index being handed out
    entry, next,         \* queue_foreach: whose callback runs, and the entry after
    broken,              \* queue_foreach has read a freed entry
    due, heard,          \* handlers the event is for, and those called, in order
    unregistered, destroyed,
    late                 \* handlers called after they were unregistered

walk   == <<match, entry, next, broken, due, heard, late>>
flags  == <<in_notify, need_notify_cleanup>>
vars == <<next_notify_id, notify, removed, notify_list, flags, user_ref, live,
          walk, unregistered, destroyed>>

Registered == InSeq(notify_list) \ removed
\* Where a handler is in the list, and the one after it.
Place(id) == CHOOSE i \in DOMAIN notify_list : notify_list[i] = id
After(id) == IF Place(id) < Len(notify_list) THEN notify_list[Place(id) + 1]
                                             ELSE Null

UserRuns == user_ref /\ ~broken

-----------------------------------------------------------------------------
(* process_notify and queue_foreach.                                        *)

\* Mutant: notify_handler does not look at notify->removed.
Wanted_removed_too(id, m) ==
    notify[id].event = m.event /\ notify[id].index \in {m.index, NONE}
\* notify_handler: whether the handler's callback is called.
Wanted(id, m) == /\ id \notin removed
                 /\ notify[id].event = m.event
                 /\ notify[id].index \in {m.index, NONE}

\* The places, from `first' on, of the handlers to call.
Ahead(first, m) == {i \in DOMAIN notify_list : /\ i >= Place(first)
                                               /\ Wanted(notify_list[i], m)}

\* mgmt_unref, the last one: unregister_all, then the queue goes.
free_mgmt ==
    /\ live' = FALSE /\ notify_list' = <<>>
    /\ unregistered' = unregistered \cup InSeq(notify_list)
    /\ destroyed' = destroyed \cup InSeq(notify_list)

\* The walk is over: process_notify cleans up, and the reference can_read_data
\* took on the client is dropped.
finish ==
    /\ entry' = Null /\ next' = Null /\ in_notify' = FALSE
    /\ need_notify_cleanup' = FALSE
    /\ IF user_ref
       THEN LET gone == IF need_notify_cleanup THEN InSeq(notify_list) \cap removed
                                               ELSE {}
            IN /\ notify_list' = Without(notify_list, gone)
               /\ destroyed' = destroyed \cup gone
               /\ UNCHANGED <<live, unregistered>>
       ELSE free_mgmt

\* queue_foreach goes on at `first', for the event m, after it has called the
\* handlers `before', up to the next callback or to the end.
foreach(first, m, before) ==
    \/ /\ \/ first = Null \/ notify_list = <<>>
          \/ first \in InSeq(notify_list) /\ Ahead(first, m) = {}
       /\ finish
       /\ heard' = before /\ UNCHANGED <<broken, late>>
    \/ /\ first # Null /\ notify_list # <<>> /\ first \notin InSeq(notify_list)
       /\ broken' = TRUE /\ heard' = before
       /\ UNCHANGED <<entry, next, flags, notify_list, live, unregistered,
                      destroyed, late>>
    \/ /\ first # Null /\ first \in InSeq(notify_list)
       /\ \E i \in Ahead(first, m) :
            /\ \A j \in Ahead(first, m) : i <= j
            /\ entry' = notify_list[i] /\ next' = After(notify_list[i])
            /\ heard' = Append(before, notify_list[i])
            /\ late' = late \cup ({notify_list[i]} \cap unregistered)
       /\ in_notify' = TRUE
       /\ UNCHANGED <<need_notify_cleanup, notify_list, live, broken,
                      unregistered, destroyed>>

\* can_read_data on an event that is not an answer; not from within a callback.
process_notify(ev, ix) ==
    LET m == [event |-> ev, index |-> ix]
    IN /\ live /\ ~in_notify /\ ~broken
       /\ match' = m
       /\ due' = {id \in Registered : Wanted(id, m)}
       /\ foreach(IF notify_list = <<>> THEN Null ELSE Head(notify_list), m, <<>>)
       /\ UNCHANGED <<next_notify_id, notify, removed, user_ref>>

\* Mutant: queue_foreach reads entry->next after the callback.
end_callback_next_late ==
    /\ in_notify /\ ~broken
    /\ foreach(IF entry \in InSeq(notify_list) THEN After(entry) ELSE Null,
            match, heard)
    /\ UNCHANGED <<next_notify_id, notify, removed, user_ref, match, due>>

\* The callback of `entry' returns.
end_callback ==
    /\ in_notify /\ ~broken
    /\ foreach(next, match, heard)
    /\ UNCHANGED <<next_notify_id, notify, removed, user_ref, match, due>>

-----------------------------------------------------------------------------
(* The user's calls.                                                        *)

mgmt_register(ev, ix) ==
    /\ UserRuns /\ next_notify_id <= MaxId
    /\ notify' = [notify EXCEPT ![next_notify_id] = [event |-> ev, index |-> ix]]
    /\ notify_list' = Append(notify_list, next_notify_id)
    /\ next_notify_id' = next_notify_id + 1
    /\ UNCHANGED <<removed, flags, user_ref, live, walk, unregistered, destroyed>>

Named(id) ==
    CASE id = entry -> "self"
      [] id # entry /\ id = next -> "next"
      [] OTHER -> "other"

\* mgmt_unregister unlinks the handler at once; inside process_notify it is then
\* marked for a clean-up that will not find it.
mgmt_unregister(id) ==
    /\ UserRuns /\ id \in InSeq(notify_list)
    /\ in_notify => Named(id) \in InCallback
    /\ notify_list' = Without(notify_list, {id})
    /\ unregistered' = unregistered \cup {id}
    /\ IF in_notify
       THEN /\ removed' = removed \cup {id} /\ need_notify_cleanup' = TRUE
            /\ UNCHANGED destroyed
       ELSE /\ destroyed' = destroyed \cup {id}
            /\ UNCHANGED <<removed, need_notify_cleanup>>
    /\ UNCHANGED <<next_notify_id, notify, in_notify, user_ref, live, walk>>

\* Mutant: the handlers are unlinked at once, also inside process_notify.
unregister_all_at_once(ids) ==
    /\ unregistered' = unregistered \cup ids
    /\ notify_list' = Without(notify_list, ids)
    /\ destroyed' = destroyed \cup ids
    /\ UNCHANGED <<next_notify_id, notify, removed, flags, user_ref, live, walk>>

\* queue_remove_all with destroy_notify, or mark_notify_removed for the clean-up.
unregister_all(ids) ==
    /\ unregistered' = unregistered \cup ids
    /\ IF in_notify
       THEN /\ removed' = removed \cup ids /\ need_notify_cleanup' = TRUE
            /\ UNCHANGED <<notify_list, destroyed>>
       ELSE /\ notify_list' = Without(notify_list, ids)
            /\ destroyed' = destroyed \cup ids
            /\ UNCHANGED <<removed, need_notify_cleanup>>
    /\ UNCHANGED <<next_notify_id, notify, in_notify, user_ref, live, walk>>

\* mgmt_unregister_index: inside process_notify MGMT_INDEX_NONE means all.
mgmt_unregister_index(ix) ==
    /\ UserRuns
    /\ unregister_all({id \in InSeq(notify_list) :
         notify[id].index = ix \/ (in_notify /\ ix = NONE)})

mgmt_unregister_all == UserRuns /\ unregister_all(InSeq(notify_list))

\* mgmt_unref by the user; inside process_notify can_read_data still has one.
mgmt_unref ==
    /\ UserRuns /\ user_ref' = FALSE
    /\ IF in_notify THEN UNCHANGED <<notify_list, live, unregistered, destroyed>>
                    ELSE free_mgmt
    /\ UNCHANGED <<next_notify_id, notify, removed, flags, walk>>

-----------------------------------------------------------------------------
Init ==
    /\ next_notify_id = 1
    /\ notify \in {[id \in Id |-> [event |-> ev, index |-> NONE]] : ev \in Event}
    /\ removed = {} /\ notify_list = <<>>
    /\ in_notify = FALSE /\ need_notify_cleanup = FALSE
    /\ user_ref = TRUE /\ live = TRUE
    /\ match \in {[event |-> ev, index |-> NONE] : ev \in Event}
    /\ entry = Null /\ next = Null /\ broken = FALSE
    /\ due = {} /\ heard = <<>> /\ late = {}
    /\ unregistered = {} /\ destroyed = {}

Next ==
    \/ \E ev \in Event, ix \in Index : process_notify(ev, ix) \/ mgmt_register(ev, ix)
    \/ end_callback
    \/ \E id \in Id : mgmt_unregister(id)
    \/ \E ix \in Index : mgmt_unregister_index(ix)
    \/ mgmt_unregister_all \/ mgmt_unref

Spec == Init /\ [][Next]_vars

-----------------------------------------------------------------------------
(* Properties.                                                              *)

\* queue_foreach keeps a pointer to the next entry over the callback: whichever
\* handlers callbacks unregister, themselves, others, a whole index or all, that
\* entry must not have been freed.  A callback that names the next handler to
\* mgmt_unregister does free it; InCallback leaves that out (queue_foreach,
\* queue_remove_if; unit/test-queue.c, foreach_remove_backward).
NextAlive ==
    in_notify /\ notify_list # <<>> /\ next # Null => next \in InSeq(notify_list)

\* The callback of a handler does not run once the handler is unregistered, even
\* if that was done from another handler's callback for the same event.
SilentAfterUnregister == late = {}

\* Every handler that was registered for an event when it came in is called for
\* it, once, unless it was unregistered before its turn: handlers that come and
\* go during the walk cost no other handler the event (process_notify).
EveryHandlerHears ==
    /\ ~in_notify /\ live => due \subseteq InSeq(heard) \cup unregistered
    /\ \A i, j \in DOMAIN heard : heard[i] = heard[j] => i = j

=============================================================================
