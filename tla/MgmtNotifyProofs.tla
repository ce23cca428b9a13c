--------------------------- MODULE MgmtNotifyProofs ---------------------------
(***************************************************************************)
(* Proofs about MgmtNotify, for any number of handlers, events and indexes *)
(* and any order of registrations, events and calls from callbacks.        *)
(*                                                                         *)
(* The argument is about the order of ids: handlers get increasing ids and *)
(* are appended to notify_list, so the list is increasing at all times and *)
(* what lies ahead of the walk is what has a larger id than the handler    *)
(* whose callback runs.                                                    *)
(***************************************************************************)
EXTENDS MgmtNotify, SharedQueueProofs

Types ==
    /\ next_notify_id \in 1 .. (MaxId + 1)
    /\ notify \in [Id -> [event : Event, index : Index]]
    /\ notify_list \in Seq(Id) /\ heard \in Seq(Id)
    /\ removed \subseteq Id /\ due \subseteq Id
    /\ unregistered \subseteq Id /\ destroyed \subseteq Id /\ late \subseteq Id
    /\ in_notify \in BOOLEAN /\ need_notify_cleanup \in BOOLEAN
    /\ user_ref \in BOOLEAN /\ live \in BOOLEAN /\ broken \in BOOLEAN
    /\ match \in [event : Event, index : Index]
    /\ entry \in Id \cup {Null} /\ next \in Id \cup {Null}

Increasing(q) == \A i, j \in DOMAIN q : i < j => q[i] < q[j]

\* The list itself: who is unregistered and still in it is marked removed.
ListInv ==
    /\ Increasing(notify_list)
    /\ \A id \in InSeq(notify_list) \cup unregistered : id < next_notify_id
    /\ removed \subseteq unregistered
    /\ unregistered \cap InSeq(notify_list) \subseteq removed
    /\ user_ref \/ in_notify => live
    /\ broken => in_notify
    /\ late = {}

\* While the handler of `entry' runs: those before it have heard the event, those
\* after it are still linked and not before `next', unless they were unregistered.
WalkInv ==
    in_notify /\ ~broken =>
      /\ entry \in Id /\ entry < next_notify_id
      /\ \A h \in InSeq(heard) : h <= entry
      /\ \A d \in due : Wanted(d, match) \/ d \in unregistered
      /\ \A d \in due : d <= entry => d \in InSeq(heard) \cup unregistered
      /\ \A d \in due : d > entry =>
            \/ d \in unregistered
            \/ d \in InSeq(notify_list) /\ next # Null /\ d >= next
      /\ next # Null => next > entry /\ next < next_notify_id

\* What has been heard of the latest event.
HeardInv ==
    /\ Increasing(heard)
    /\ \A d \in due : d < next_notify_id
    /\ ~in_notify /\ live => due \subseteq InSeq(heard) \cup unregistered

IInv == Types /\ ListInv /\ WalkInv /\ HeardInv

-----------------------------------------------------------------------------
(* Queues of increasing ids.                                                *)

\* A queue of increasing ids repeats none.
LEMMA IncreasingNoRepeat ==
    ASSUME NEW q \in Seq(Id), Increasing(q)
    PROVE  NoRepeat(q)
<1> SUFFICES ASSUME NEW i \in DOMAIN q, NEW j \in DOMAIN q, q[i] = q[j], i # j
             PROVE  FALSE
  BY DEF NoRepeat
<1>1. i \in Nat /\ j \in Nat /\ q[i] \in Int
  <2>1. q[i] \in Id
    OBVIOUS
  <2> QED
    BY <2>1 DEF Id
<1>2. i < j \/ j < i
  BY <1>1
<1> QED
  BY <1>1, <1>2 DEF Increasing

\* mgmt_register appends the largest id so far.
LEMMA IncreasingAppend ==
    ASSUME NEW q \in Seq(Id), Increasing(q), NEW x \in Id,
           \A y \in InSeq(q) : y < x
    PROVE  Increasing(Append(q, x))
<1>1. /\ DOMAIN Append(q, x) = 1 .. Len(q) + 1 /\ DOMAIN q = 1 .. Len(q)
      /\ \A i \in DOMAIN q : Append(q, x)[i] = q[i]
      /\ Append(q, x)[Len(q) + 1] = x /\ Len(q) \in Nat
  OBVIOUS
<1>2. \A i, j \in DOMAIN Append(q, x) : i < j =>
         i \in DOMAIN q /\ (j \in DOMAIN q \/ j = Len(q) + 1)
  BY <1>1
<1> QED
  BY <1>1, <1>2 DEF Increasing, InSeq

\* Unregistering keeps the order of the others.
LEMMA IncreasingWithout ==
    ASSUME NEW S, NEW q \in Seq(S), Increasing(q), NEW gone
    PROVE  Increasing(Without(q, gone))
BY WithoutKeeps DEF Increasing

\* Places and ids of notify_list are in the same order.
LEMMA ListOrder ==
    ASSUME Types, Increasing(notify_list),
           NEW i \in DOMAIN notify_list, NEW j \in DOMAIN notify_list
    PROVE  /\ i \in Nat /\ j \in Nat
           /\ notify_list[i] \in Id /\ notify_list[i] \in Nat
           /\ notify_list[j] \in Id /\ notify_list[j] \in Nat
           /\ i < j <=> notify_list[i] < notify_list[j]
           /\ i <= j <=> notify_list[i] <= notify_list[j]
<1>1. i \in Nat /\ j \in Nat /\ notify_list[i] \in Id /\ notify_list[j] \in Id
  BY DEF Types
<1>2. notify_list[i] \in Nat /\ notify_list[j] \in Nat
  BY <1>1 DEF Id
<1>3. CASE i < j
  BY <1>1, <1>2, <1>3 DEF Increasing
<1>4. CASE j < i
  BY <1>1, <1>2, <1>4 DEF Increasing
<1>5. CASE i = j
  BY <1>1, <1>2, <1>5
<1> QED
  BY <1>1, <1>2, <1>3, <1>4, <1>5

-----------------------------------------------------------------------------
(* The walk.                                                                *)

\* queue_foreach finds each handler at its own place, and after it the one with
\* the next larger id.
LEMMA PlaceIs ==
    ASSUME Types, Increasing(notify_list), NEW i \in DOMAIN notify_list
    PROVE  /\ Place(notify_list[i]) = i
           /\ After(notify_list[i]) =
                 IF i < Len(notify_list) THEN notify_list[i + 1] ELSE Null
<1>1. notify_list \in Seq(Id)
  BY DEF Types
<1>2. NoRepeat(notify_list)
  BY <1>1, IncreasingNoRepeat
<1>3. Place(notify_list[i]) = i
  BY <1>2 DEF Place, NoRepeat
<1> QED
  BY <1>3 DEF After

\* One stretch of queue_foreach, from process_notify or from the return of a
\* callback.  `before' was called already; every handler that is due was called,
\* unregistered, or is linked at `first' or after it.
LEMMA ForeachKeeps ==
    ASSUME NotifyAssumption, Types, ListInv, live, ~broken,
           NEW STATE first, first \in Id \cup {Null},
           NEW STATE m, m \in [event : Event, index : Index],
           NEW STATE before, before \in Seq(Id), Increasing(before),
           foreach(first, m, before), match' = m, due' \subseteq Id,
           UNCHANGED <<next_notify_id, notify, removed, user_ref>>,
           first # Null =>
              first < next_notify_id /\ \A h \in InSeq(before) : h < first,
           \A d \in due' :
              /\ d < next_notify_id
              /\ Wanted(d, m) \/ d \in unregistered
              /\ \/ d \in InSeq(before) \cup unregistered
                 \/ d \in InSeq(notify_list) /\ first # Null /\ d >= first,
           in_notify \/ first = Null \/ first \in InSeq(notify_list)
    PROVE  IInv'
<1> USE DEF Id, Null
<1>1. CASE /\ \/ first = Null \/ notify_list = <<>>
              \/ first \in InSeq(notify_list) /\ Ahead(first, m) = {}
           /\ finish
           /\ heard' = before /\ UNCHANGED <<broken, late>>
  <2>1. due' \subseteq InSeq(heard') \cup unregistered
    <3> SUFFICES ASSUME NEW d \in due', d \notin InSeq(before) \cup unregistered
                 PROVE  FALSE
      BY <1>1
    <3>1. /\ Wanted(d, m) /\ first # Null /\ d >= first /\ d \in InSeq(notify_list)
          /\ notify_list # <<>>
      BY DEF InSeq
    <3>2. PICK i \in DOMAIN notify_list : notify_list[i] = d
      BY <3>1 DEF InSeq
    <3>3. PICK k \in DOMAIN notify_list : notify_list[k] = first
      BY <1>1, <3>1 DEF InSeq
    <3>4. Place(first) = k
      BY <3>3, PlaceIs DEF ListInv
    <3>5. i >= k
      BY <3>1, <3>2, <3>3, ListOrder DEF ListInv
    <3>6. i \in Ahead(first, m)
      BY <3>1, <3>2, <3>4, <3>5 DEF Ahead
    <3> QED
      BY <1>1, <3>1, <3>6
  <2>2. CASE user_ref
    <3> DEFINE gone == IF need_notify_cleanup THEN InSeq(notify_list) \cap removed
                                              ELSE {}
    <3>1. /\ notify_list' = Without(notify_list, gone)
          /\ destroyed' = destroyed \cup gone
          /\ UNCHANGED <<live, unregistered>>
          /\ entry' = Null /\ next' = Null /\ in_notify' = FALSE
          /\ need_notify_cleanup' = FALSE
      BY <1>1, <2>2 DEF finish
    <3>2. /\ notify_list' \in Seq(Id) /\ Increasing(notify_list')
          /\ InSeq(notify_list') \subseteq InSeq(notify_list)
      BY <3>1, WithoutKeeps, IncreasingWithout DEF Types, ListInv
    <3> QED
      BY <1>1, <2>1, <2>2, <3>1, <3>2
         DEF IInv, Types, ListInv, WalkInv, HeardInv, flags
  <2>3. CASE ~user_ref
    <3>1. /\ live' = FALSE /\ notify_list' = <<>>
          /\ unregistered' = unregistered \cup InSeq(notify_list)
          /\ destroyed' = destroyed \cup InSeq(notify_list)
          /\ entry' = Null /\ next' = Null /\ in_notify' = FALSE
          /\ need_notify_cleanup' = FALSE
      BY <1>1, <2>3 DEF finish, free_mgmt
    <3>2. /\ InSeq(notify_list') = {} /\ Increasing(notify_list')
          /\ notify_list' \in Seq(Id) /\ InSeq(notify_list) \subseteq Id
      BY <3>1 DEF InSeq, Increasing, Types
    <3>3. Types'
      BY <1>1, <3>1, <3>2 DEF Types
    <3>4. ListInv'
      BY <1>1, <2>3, <3>1, <3>2 DEF ListInv
    <3> QED
      BY <1>1, <3>1, <3>3, <3>4 DEF IInv, WalkInv, HeardInv
  <2> QED
    BY <2>2, <2>3
<1>2. CASE /\ first # Null /\ notify_list # <<>> /\ first \notin InSeq(notify_list)
           /\ broken' = TRUE /\ heard' = before
           /\ UNCHANGED <<entry, next, flags, notify_list, live, unregistered,
                          destroyed, late>>
  BY <1>2 DEF IInv, Types, ListInv, WalkInv, HeardInv, flags
<1>3. CASE /\ first # Null /\ first \in InSeq(notify_list)
           /\ \E i \in Ahead(first, m) :
                /\ \A j \in Ahead(first, m) : i <= j
                /\ entry' = notify_list[i] /\ next' = After(notify_list[i])
                /\ heard' = Append(before, notify_list[i])
                /\ late' = late \cup ({notify_list[i]} \cap unregistered)
           /\ in_notify' = TRUE
           /\ UNCHANGED <<need_notify_cleanup, notify_list, live, broken,
                          unregistered, destroyed>>
  <2>1. PICK i \in Ahead(first, m) :
           /\ \A j \in Ahead(first, m) : i <= j
           /\ entry' = notify_list[i] /\ next' = After(notify_list[i])
           /\ heard' = Append(before, notify_list[i])
           /\ late' = late \cup ({notify_list[i]} \cap unregistered)
    BY <1>3
  <2> DEFINE hit == notify_list[i]
  <2>2. PICK k \in DOMAIN notify_list : notify_list[k] = first
    BY <1>3 DEF InSeq
  <2>3. Place(first) = k
    BY <2>2, PlaceIs DEF ListInv
  <2>4. i \in DOMAIN notify_list /\ i >= k /\ Wanted(hit, m)
    BY <2>3 DEF Ahead
  <2>5. /\ hit \in Id /\ hit \in InSeq(notify_list) /\ hit < next_notify_id
        /\ first <= hit
    <3>1. hit \in Id /\ first <= hit
      BY <2>2, <2>4, ListOrder DEF ListInv
    <3>2. hit \in InSeq(notify_list)
      BY <2>4 DEF InSeq
    <3> QED
      BY <3>1, <3>2 DEF ListInv
  <2>6. hit \notin unregistered
    BY <2>4, <2>5 DEF Wanted, ListInv
  <2>7. next' = IF i < Len(notify_list) THEN notify_list[i + 1] ELSE Null
    BY <2>1, <2>4, PlaceIs DEF ListInv
  <2>8. /\ next' \in Id \cup {Null}
        /\ next' # Null => next' > hit /\ next' < next_notify_id
    BY <2>7, <2>4 DEF Types, ListInv, Increasing, InSeq
  <2>12. InSeq(before) \subseteq Nat /\ first \in Nat /\ hit \in Nat
    BY <2>5 DEF InSeq
  <2>9. /\ heard' \in Seq(Id) /\ Increasing(heard')
        /\ InSeq(heard') = InSeq(before) \cup {hit}
    <3>1. \A h \in InSeq(before) : h < hit
      BY <1>3, <2>5, <2>12
    <3> QED
      BY <2>1, <2>5, <3>1, AppendKeeps, IncreasingAppend
  <2>10. \A h \in InSeq(heard') : h <= hit
    BY <1>3, <2>5, <2>9, <2>12
  <2>11. ASSUME NEW d \in due', d \notin InSeq(before) \cup unregistered
         PROVE  /\ d >= hit
                /\ d > hit => next' # Null /\ d >= next' /\ d \in InSeq(notify_list)
    <3>1. Wanted(d, m) /\ d >= first /\ d \in InSeq(notify_list)
      BY <2>11
    <3>2. PICK j \in DOMAIN notify_list : notify_list[j] = d
      BY <3>1 DEF InSeq
    <3>3. j >= k
      BY <3>1, <3>2, <2>2, ListOrder DEF ListInv
    <3>4. j \in Ahead(first, m)
      BY <3>1, <3>2, <3>3, <2>3 DEF Ahead
    <3>5. i <= j
      BY <2>1, <3>4
    <3>6. d >= hit
      BY <3>2, <3>5, <2>4, ListOrder DEF ListInv
    <3>7. ASSUME d > hit
          PROVE  next' # Null /\ d >= next'
      <4>0. i < j
        BY <3>2, <3>7, <2>4, ListOrder DEF ListInv
      <4>1. i < j /\ i < Len(notify_list) /\ i + 1 \in DOMAIN notify_list
        BY <3>2, <4>0, <2>4 DEF Types
      <4>2. next' = notify_list[i + 1]
        BY <2>7, <4>1
      <4>3. i + 1 <= j
        BY <4>1, <3>2, <2>4 DEF Types
      <4>4. notify_list[i + 1] \in Id /\ notify_list[i + 1] <= d
        BY <3>2, <4>1, <4>3, ListOrder DEF ListInv
      <4> QED
        BY <4>2, <4>4
    <3> QED
      BY <3>1, <3>6, <3>7
  <2>16. Types'
    BY <1>3, <2>1, <2>5, <2>8, <2>9 DEF Types, flags
  <2>13. ListInv'
    BY <1>3, <2>1, <2>6 DEF ListInv, flags
  <2>14. WalkInv'
    BY <1>3, <2>1, <2>5, <2>8, <2>9, <2>10, <2>11 DEF WalkInv, Wanted
  <2>15. HeardInv'
    BY <1>3, <2>9 DEF HeardInv
  <2> QED
    BY <2>16, <2>13, <2>14, <2>15 DEF IInv
<1> QED
  BY <1>1, <1>2, <1>3 DEF foreach

-----------------------------------------------------------------------------
(* The invariant.                                                           *)

\* A client that was just made satisfies the invariant.
LEMMA InitIInv ==
    ASSUME NotifyAssumption, Init
    PROVE  IInv
<1>1. Types
  <2>1. <<>> \in Seq(Id)
    OBVIOUS
  <2>2. match \in [event : Event, index : Index]
    BY DEF NotifyAssumption, Init
  <2>3. notify \in [Id -> [event : Event, index : Index]]
    BY DEF NotifyAssumption, Init
  <2>4. next_notify_id \in 1 .. (MaxId + 1)
    BY DEF NotifyAssumption, Init
  <2> QED
    BY <2>1, <2>2, <2>3, <2>4 DEF Init, Types
<1>2. InSeq(notify_list) = {} /\ Increasing(notify_list) /\ Increasing(heard)
  BY DEF Init, InSeq, Increasing
<1> QED
  BY <1>1, <1>2 DEF Init, IInv, ListInv, WalkInv, HeardInv

\* process_notify starts the walk at the head of the list.
LEMMA ProcessNotifyKeeps ==
    ASSUME NotifyAssumption, IInv, NEW ev \in Event, NEW ix \in Index,
           process_notify(ev, ix)
    PROVE  IInv'
<1> DEFINE m == [event |-> ev, index |-> ix]
           first == IF notify_list = <<>> THEN Null ELSE Head(notify_list)
<1>1. /\ live /\ ~in_notify /\ ~broken /\ match' = m
      /\ due' = {id \in Registered : Wanted(id, m)}
      /\ foreach(first, m, <<>>)
      /\ UNCHANGED <<next_notify_id, notify, removed, user_ref>>
  BY DEF process_notify
<1>2. m \in [event : Event, index : Index] /\ <<>> \in Seq(Id)
  OBVIOUS
<1>3. Increasing(<<>>) /\ InSeq(<<>>) = {}
  BY DEF Increasing, InSeq
<1>4. /\ first \in Id \cup {Null}
      /\ first # Null => first \in InSeq(notify_list) /\ first < next_notify_id
  BY DEF IInv, Types, ListInv, InSeq
<1>5. ASSUME NEW d \in due'
      PROVE  /\ d \in Id /\ d < next_notify_id /\ Wanted(d, m)
             /\ d \in InSeq(notify_list) /\ first # Null /\ d >= first
  <2>1. d \in InSeq(notify_list) /\ Wanted(d, m)
    BY <1>1 DEF Registered
  <2>2. PICK i \in DOMAIN notify_list : notify_list[i] = d
    BY <2>1 DEF InSeq
  <2>3. notify_list # <<>> /\ 1 \in DOMAIN notify_list /\ 1 <= i
    BY <2>2 DEF IInv, Types
  <2>4. notify_list[1] <= d /\ d \in Id /\ notify_list[1] \in Id
    BY <2>2, <2>3, ListOrder DEF IInv, ListInv
  <2>5. first = notify_list[1]
    BY <2>3 DEF IInv, Types
  <2> QED
    BY <2>1, <2>4, <2>5 DEF IInv, ListInv, Id, Null
<1>6. due' \subseteq Id
  BY <1>5
<1> HIDE DEF m, first
<1> QED
  BY <1>1, <1>2, <1>3, <1>4, <1>5, <1>6, ForeachKeeps DEF IInv

\* The walk goes on at the entry it remembered before the callback.
LEMMA EndCallbackKeeps ==
    ASSUME NotifyAssumption, IInv, end_callback
    PROVE  IInv'
<1>1. /\ in_notify /\ ~broken /\ foreach(next, match, heard)
      /\ UNCHANGED <<next_notify_id, notify, removed, user_ref, match, due>>
  BY DEF end_callback
<1>2. /\ next \in Id \cup {Null} /\ match \in [event : Event, index : Index]
      /\ heard \in Seq(Id) /\ Increasing(heard) /\ live /\ due' \subseteq Id
  BY <1>1 DEF IInv, Types, ListInv, HeardInv
<1>3. next # Null => next < next_notify_id /\ \A h \in InSeq(heard) : h < next
  <2> SUFFICES ASSUME next # Null
               PROVE  next < next_notify_id /\ \A h \in InSeq(heard) : h < next
    OBVIOUS
  <2>1. /\ next > entry /\ next < next_notify_id /\ entry \in Nat /\ next \in Nat
        /\ \A h \in InSeq(heard) : h <= entry
    BY <1>1, <1>2 DEF IInv, WalkInv, Id
  <2>2. \A h \in InSeq(heard) : h \in Nat
    BY <1>2 DEF InSeq, Id
  <2> QED
    BY <2>1, <2>2
<1>4. ASSUME NEW d \in due'
      PROVE  /\ d < next_notify_id
             /\ Wanted(d, match) \/ d \in unregistered
             /\ \/ d \in InSeq(heard) \cup unregistered
                \/ d \in InSeq(notify_list) /\ next # Null /\ d >= next
  <2>1. d \in due /\ d \in Nat /\ entry \in Nat
    BY <1>1 DEF IInv, Types, WalkInv, Id
  <2>2. d <= entry \/ d > entry
    BY <2>1
  <2> QED
    BY <1>1, <2>1, <2>2 DEF IInv, WalkInv, HeardInv
<1> QED
  BY <1>1, <1>2, <1>3, <1>4, ForeachKeeps DEF IInv

\* A handler that is registered gets the largest id and goes to the tail.
LEMMA RegisterKeeps ==
    ASSUME NotifyAssumption, IInv, NEW ev \in Event, NEW ix \in Index,
           mgmt_register(ev, ix)
    PROVE  IInv'
<1>1. /\ user_ref /\ ~broken /\ next_notify_id \in Id
      /\ notify' = [notify EXCEPT ![next_notify_id] = [event |-> ev, index |-> ix]]
      /\ notify_list' = Append(notify_list, next_notify_id)
      /\ next_notify_id' = next_notify_id + 1
      /\ UNCHANGED <<removed, flags, user_ref, live, walk, unregistered, destroyed>>
  BY DEF mgmt_register, UserRuns, NotifyAssumption, IInv, Types, Id
<1>2. /\ notify_list' \in Seq(Id) /\ Increasing(notify_list')
      /\ InSeq(notify_list') = InSeq(notify_list) \cup {next_notify_id}
  BY <1>1, AppendKeeps, IncreasingAppend DEF IInv, Types, ListInv
<1>3. /\ next_notify_id \in Nat /\ next_notify_id' \in 1 .. (MaxId + 1)
      /\ next_notify_id < next_notify_id'
      /\ \A id \in Id : id < next_notify_id => id < next_notify_id' /\ id # next_notify_id
  BY <1>1 DEF NotifyAssumption, Id
<1>4. /\ \A id \in InSeq(notify_list) : id \in Id
      /\ \A id \in unregistered : id \in Id
  BY DEF IInv, Types, InSeq
<1>5. Types'
  BY <1>1, <1>2, <1>3 DEF IInv, Types, flags, walk
<1>6. next_notify_id \notin unregistered
  BY <1>3 DEF IInv, ListInv
<1>7. ListInv'
  <2>1. Increasing(notify_list')
    BY <1>2
  <2>2. \A id \in InSeq(notify_list') \cup unregistered' : id < next_notify_id'
    <3> SUFFICES ASSUME NEW id \in InSeq(notify_list') \cup unregistered'
                 PROVE  id < next_notify_id'
      OBVIOUS
    <3>1. id = next_notify_id \/ (id \in Id /\ id < next_notify_id)
      BY <1>1, <1>2, <1>4 DEF IInv, ListInv
    <3> QED
      BY <1>3, <3>1
  <2>3. /\ removed' \subseteq unregistered'
        /\ unregistered' \cap InSeq(notify_list') \subseteq removed'
    BY <1>1, <1>2, <1>6 DEF IInv, ListInv
  <2> QED
    BY <1>1, <2>1, <2>2, <2>3 DEF IInv, ListInv, flags, walk
<1>8. WalkInv'
  BY <1>1, <1>2, <1>3 DEF IInv, Types, WalkInv, HeardInv, Wanted, flags, walk
<1>9. HeardInv'
  BY <1>1, <1>3 DEF IInv, Types, HeardInv, flags, walk
<1> QED
  BY <1>5, <1>7, <1>8, <1>9 DEF IInv

\* Unlinking the handlers `gone' with their unregistration, as every call that
\* unregisters does outside a walk, and mgmt_unregister inside one as well.
LEMMA UnlinkKeeps ==
    ASSUME IInv, NEW STATE gone, ~broken,
           notify_list' = Without(notify_list, gone),
           unregistered' = unregistered \cup gone, gone \subseteq InSeq(notify_list),
           removed \subseteq removed', removed' \subseteq removed \cup gone,
           need_notify_cleanup' \in BOOLEAN,
           destroyed' \subseteq destroyed \cup gone,
           UNCHANGED <<next_notify_id, notify, in_notify, user_ref, live, walk>>
    PROVE  IInv'
<1>1. /\ notify_list' \in Seq(Id) /\ Increasing(notify_list')
      /\ InSeq(notify_list') = InSeq(notify_list) \ gone
  BY WithoutKeeps, IncreasingWithout DEF IInv, Types, ListInv
<1>2. gone \subseteq Id
  BY DEF IInv, Types, InSeq
<1>3. Types'
  BY <1>1, <1>2 DEF IInv, Types, walk
<1>4. ListInv'
  BY <1>1 DEF IInv, ListInv, walk
<1>5. WalkInv'
  BY <1>1, <1>2 DEF IInv, WalkInv, Wanted, walk
<1>6. HeardInv'
  BY DEF IInv, HeardInv, walk
<1> QED
  BY <1>3, <1>4, <1>5, <1>6 DEF IInv

\* Inside a walk whole groups of handlers are only marked.
LEMMA MarkKeeps ==
    ASSUME IInv, NEW STATE ids, ~broken, ids \subseteq InSeq(notify_list),
           removed' = removed \cup ids, unregistered' = unregistered \cup ids,
           need_notify_cleanup' = TRUE,
           UNCHANGED <<next_notify_id, notify, notify_list, destroyed, in_notify,
                       user_ref, live, walk>>
    PROVE  IInv'
<1>1. ids \subseteq Id
  BY DEF IInv, Types, InSeq
<1>2. Types'
  BY <1>1 DEF IInv, Types, walk
<1>3. ListInv'
  BY DEF IInv, ListInv, walk
<1>4. WalkInv'
  BY DEF IInv, WalkInv, Wanted, walk
<1>5. HeardInv'
  BY DEF IInv, HeardInv, walk
<1> QED
  BY <1>2, <1>3, <1>4, <1>5 DEF IInv

\* The calls that unregister.
LEMMA UnregisterKeeps ==
    ASSUME IInv, NEW id \in Id, mgmt_unregister(id)
    PROVE  IInv'
<1>1. /\ ~broken /\ {id} \subseteq InSeq(notify_list)
      /\ notify_list' = Without(notify_list, {id})
      /\ unregistered' = unregistered \cup {id}
      /\ UNCHANGED <<next_notify_id, notify, in_notify, user_ref, live, walk>>
  BY DEF mgmt_unregister, UserRuns
<1>2. /\ removed \subseteq removed' /\ removed' \subseteq removed \cup {id}
      /\ need_notify_cleanup' \in BOOLEAN /\ destroyed' \subseteq destroyed \cup {id}
  BY DEF mgmt_unregister, IInv, Types
<1> QED
  BY <1>1, <1>2, UnlinkKeeps

LEMMA UnregisterAllKeeps ==
    ASSUME IInv, NEW STATE ids, UserRuns, ids \subseteq InSeq(notify_list),
           unregister_all(ids)
    PROVE  IInv'
<1>1. CASE in_notify
  BY <1>1, MarkKeeps DEF unregister_all, UserRuns
<1>2. CASE ~in_notify
  <2>1. /\ ~broken /\ notify_list' = Without(notify_list, ids)
        /\ unregistered' = unregistered \cup ids
        /\ removed' = removed /\ need_notify_cleanup' \in BOOLEAN
        /\ destroyed' = destroyed \cup ids
        /\ UNCHANGED <<next_notify_id, notify, in_notify, user_ref, live, walk>>
    BY <1>2 DEF unregister_all, UserRuns, IInv, Types
  <2> QED
    BY <2>1, UnlinkKeeps
<1> QED
  BY <1>1, <1>2

\* The user's last reference goes; the walk keeps one of its own.
LEMMA UnrefKeeps ==
    ASSUME IInv, mgmt_unref
    PROVE  IInv'
<1>1. /\ user_ref /\ ~broken /\ user_ref' = FALSE
      /\ UNCHANGED <<next_notify_id, notify, removed, flags, walk>>
  BY DEF mgmt_unref, UserRuns
<1>2. CASE in_notify
  BY <1>1, <1>2 DEF mgmt_unref, IInv, Types, ListInv, WalkInv, HeardInv, Wanted,
                    flags, walk
<1>3. CASE ~in_notify
  <2>1. /\ live' = FALSE /\ notify_list' = <<>>
        /\ unregistered' = unregistered \cup InSeq(notify_list)
        /\ destroyed' = destroyed \cup InSeq(notify_list)
    BY <1>3 DEF mgmt_unref, free_mgmt
  <2>2. /\ InSeq(notify_list') = {} /\ Increasing(notify_list')
        /\ notify_list' \in Seq(Id) /\ InSeq(notify_list) \subseteq Id
    BY <2>1 DEF InSeq, Increasing, IInv, Types
  <2>3. Types'
    BY <1>1, <2>1, <2>2 DEF IInv, Types, flags, walk
  <2>4. ListInv'
    BY <1>1, <1>3, <2>1, <2>2 DEF IInv, ListInv, flags, walk
  <2> QED
    BY <1>1, <1>3, <2>1, <2>3, <2>4 DEF IInv, WalkInv, HeardInv, flags, walk
<1> QED
  BY <1>2, <1>3

\* Every step keeps the invariant.
LEMMA NextIInv ==
    ASSUME NotifyAssumption, IInv, [Next]_vars
    PROVE  IInv'
<1>1. ASSUME NEW ev \in Event, NEW ix \in Index, process_notify(ev, ix)
      PROVE  IInv'
  BY <1>1, ProcessNotifyKeeps
<1>2. ASSUME NEW ev \in Event, NEW ix \in Index, mgmt_register(ev, ix)
      PROVE  IInv'
  BY <1>2, RegisterKeeps
<1>3. CASE end_callback
  BY <1>3, EndCallbackKeeps
<1>4. ASSUME NEW id \in Id, mgmt_unregister(id)
      PROVE  IInv'
  BY <1>4, UnregisterKeeps
<1>5. ASSUME NEW ix \in Index, mgmt_unregister_index(ix)
      PROVE  IInv'
  <2> DEFINE ids == {id \in InSeq(notify_list) :
                        notify[id].index = ix \/ (in_notify /\ ix = NONE)}
  <2>1. UserRuns /\ unregister_all(ids) /\ ids \subseteq InSeq(notify_list)
    BY <1>5 DEF mgmt_unregister_index
  <2> HIDE DEF ids
  <2> QED
    BY <2>1, UnregisterAllKeeps
<1>6. CASE mgmt_unregister_all
  BY <1>6, UnregisterAllKeeps DEF mgmt_unregister_all
<1>7. CASE mgmt_unref
  BY <1>7, UnrefKeeps
<1>8. CASE UNCHANGED vars
  BY <1>8 DEF vars, flags, walk, IInv, Types, ListInv, WalkInv, HeardInv, Wanted
<1> QED
  BY <1>1, <1>2, <1>3, <1>4, <1>5, <1>6, <1>7, <1>8 DEF Next

\* A handler is not called once it was unregistered, whatever other handlers'
\* callbacks did in between (process_notify, mgmt_unregister*).
THEOREM SilentHolds == Spec => []SilentAfterUnregister
<1>1. Init => IInv
  BY NotifyAssumption, InitIInv
<1>2. IInv /\ [Next]_vars => IInv'
  BY NotifyAssumption, NextIInv
<1>3. IInv => SilentAfterUnregister
  BY DEF IInv, ListInv, SilentAfterUnregister
<1> QED
  BY <1>1, <1>2, <1>3, PTL DEF Spec

\* No handler misses an event because of handlers that come and go during the
\* walk, and none is called for it twice (process_notify, queue_foreach).
THEOREM HearsHolds == Spec => []EveryHandlerHears
<1>1. Init => IInv
  BY NotifyAssumption, InitIInv
<1>2. IInv /\ [Next]_vars => IInv'
  BY NotifyAssumption, NextIInv
<1>3. IInv => EveryHandlerHears
  <2> SUFFICES ASSUME IInv
               PROVE  EveryHandlerHears
    OBVIOUS
  <2>1. NoRepeat(heard)
    BY IncreasingNoRepeat DEF IInv, Types, HeardInv
  <2> QED
    BY <2>1 DEF EveryHandlerHears, IInv, HeardInv, NoRepeat
<1> QED
  BY <1>1, <1>2, <1>3, PTL DEF Spec

-----------------------------------------------------------------------------
(* The entry that queue_foreach remembers.                                  *)

\* While no callback names the next handler to mgmt_unregister, that handler is
\* linked.
Linked == ~broken /\ (in_notify /\ next # Null => next \in InSeq(notify_list))

\* A stretch of the walk that starts at a linked handler ends at one.
LEMMA ForeachLinked ==
    ASSUME Types, ListInv, ~broken, NEW STATE first, NEW STATE m, NEW STATE before,
           first = Null \/ first \in InSeq(notify_list), foreach(first, m, before)
    PROVE  Linked'
<1>1. CASE finish /\ UNCHANGED broken
  BY <1>1 DEF finish, Linked
<1>2. CASE /\ \E i \in Ahead(first, m) : next' = After(notify_list[i])
           /\ UNCHANGED <<notify_list, broken>>
  <2>1. PICK i \in Ahead(first, m) : next' = After(notify_list[i])
    BY <1>2
  <2>2. i \in DOMAIN notify_list
    BY DEF Ahead
  <2>3. next' = IF i < Len(notify_list) THEN notify_list[i + 1] ELSE Null
    BY <2>1, <2>2, PlaceIs DEF ListInv
  <2>4. next' # Null => next' \in InSeq(notify_list)
    <3>1. i < Len(notify_list) => i + 1 \in DOMAIN notify_list
      BY <2>2 DEF Types
    <3> QED
      BY <2>3, <3>1 DEF InSeq
  <2> QED
    BY <1>2, <2>4 DEF Linked
<1> QED
  BY <1>1, <1>2 DEF foreach, Null

\* Every step keeps the next handler linked.
LEMMA NextLinked ==
    ASSUME "next" \notin InCallback, IInv, Linked, [Next]_vars
    PROVE  Linked'
<1>1. ASSUME NEW ev \in Event, NEW ix \in Index, process_notify(ev, ix)
      PROVE  Linked'
  <2> DEFINE first == IF notify_list = <<>> THEN Null ELSE Head(notify_list)
  <2>1. foreach(first, [event |-> ev, index |-> ix], <<>>)
    BY <1>1 DEF process_notify
  <2>2. first = Null \/ first \in InSeq(notify_list)
    BY DEF IInv, Types, InSeq
  <2> HIDE DEF first
  <2> QED
    BY <2>1, <2>2, ForeachLinked DEF IInv, Linked
<1>2. ASSUME NEW ev \in Event, NEW ix \in Index, mgmt_register(ev, ix)
      PROVE  Linked'
  <2>1. next_notify_id \in Id
    BY <1>2, NotifyAssumption DEF mgmt_register, IInv, Types, Id
  <2> QED
    BY <1>2, <2>1, AppendKeeps DEF mgmt_register, IInv, Types, Linked, flags, walk
<1>3. CASE end_callback
  BY <1>3, ForeachLinked DEF end_callback, IInv, Linked
<1>4. ASSUME NEW id \in Id, mgmt_unregister(id)
      PROVE  Linked'
  <2>1. InSeq(notify_list') = InSeq(notify_list) \ {id}
    BY <1>4, WithoutKeeps DEF mgmt_unregister, IInv, Types
  <2>2. in_notify /\ next # Null => id # next
    BY <1>4, NotifyAssumption
       DEF mgmt_unregister, Named, IInv, WalkInv, Linked, Id
  <2> QED
    BY <1>4, <2>1, <2>2 DEF mgmt_unregister, Linked, walk
<1>6. ASSUME NEW ix \in Index, mgmt_unregister_index(ix)
      PROVE  Linked'
  BY <1>6 DEF mgmt_unregister_index, unregister_all, Linked, walk
<1>7. CASE mgmt_unregister_all
  BY <1>7 DEF mgmt_unregister_all, unregister_all, Linked, walk
<1>8. CASE mgmt_unref
  BY <1>8 DEF mgmt_unref, Linked, flags, walk
<1>9. CASE UNCHANGED vars
  BY <1>9 DEF vars, flags, walk, Linked
<1> QED
  BY <1>1, <1>2, <1>3, <1>4, <1>6, <1>7, <1>8, <1>9 DEF Next

\* queue_foreach never steps on a freed entry, as long as no callback hands the
\* next handler itself to mgmt_unregister: itself, earlier and later handlers,
\* whole indexes and all of them are safe (mgmt_unregister*, process_notify).
THEOREM NextAliveHolds ==
    ASSUME "next" \notin InCallback
    PROVE  Spec => []NextAlive
<1>1. Init => IInv /\ Linked
  BY NotifyAssumption, InitIInv DEF Init, Linked
<1>2. IInv /\ Linked /\ [Next]_vars => (IInv /\ Linked)'
  BY NotifyAssumption, NextIInv, NextLinked
<1>3. Linked => NextAlive
  BY DEF Linked, NextAlive
<1> QED
  BY <1>1, <1>2, <1>3, PTL DEF Spec

=============================================================================
