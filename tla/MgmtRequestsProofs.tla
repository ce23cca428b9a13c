-------------------------- MODULE MgmtRequestsProofs --------------------------
(***************************************************************************)
(* Proofs about MgmtRequests, for any number of requests, opcodes, indexes *)
(* and nested callbacks, and whatever the kernel and the user do.          *)
(*                                                                         *)
(* The argument is one of ownership: a request that was made and is not    *)
(* destroyed is in one of the three queues or its callback is running, and *)
(* who is in a queue has not been told anything.  As long as nothing was   *)
(* given up, the kernel holds what pending_list holds, in the same order.  *)
(***************************************************************************)
EXTENDS MgmtRequests, SharedQueueProofs

Frame == [fn : {"write", "nowait", "complete", "timeout"}, id : Id]
Ends == {"no", "answer", "stale", "foreign", "timeout", "failed", "twice"}

Types ==
    /\ next_request_id \in 1 .. (MaxId + 1)
    /\ request_queue \in Seq(Id) /\ reply_queue \in Seq(Id)
    /\ pending_list \in Seq(Id) /\ kernel \in Seq(Id)
    /\ frames \in Seq(Frame)
    /\ timer \subseteq Id /\ cancelled \subseteq Id /\ destroyed \subseteq Id
    /\ ended \in [Id -> Ends] /\ early \in Nat

FrameIds(f) == {f[i].id : i \in DOMAIN f}
DistinctIds(f) == \A i, j \in DOMAIN f : f[i].id = f[j].id => i = j
Waiting == Queued \cup InSeq(pending_list)

\* One owner for each request that was made and is not destroyed.
OwnInv ==
    /\ NoRepeat(request_queue) /\ NoRepeat(reply_queue) /\ NoRepeat(pending_list)
    /\ DistinctIds(frames)
    /\ InSeq(request_queue) \cap InSeq(reply_queue) = {}
    /\ Queued \cap InSeq(pending_list) = {}
    /\ Waiting \cap Running = {}
    /\ \A id \in Id : id \in Waiting \cup Running <=>
                         id < next_request_id /\ id \notin destroyed
    /\ timer \subseteq InSeq(pending_list) \cup Running

\* Who waits, is not made yet or was cancelled has not been called back.
ToldInv ==
    /\ cancelled \subseteq destroyed
    /\ \A id \in destroyed : id < next_request_id
    /\ \A id \in Id : ended[id] # "twice"
    /\ \A id \in Id :
          id \in Waiting \cup cancelled \/ id >= next_request_id => ended[id] = "no"

NothingGivenUp ==
    cancelled = {} /\ ~forgotten /\ early = 0 /\ \A id \in Id : ended[id] # "timeout"

\* The kernel and pending_list agree until something is given up.
MatchInv ==
    NothingGivenUp => /\ kernel = pending_list
                      /\ \A id \in Id : ended[id] \notin {"stale", "foreign"}

IInv == Types /\ OwnInv /\ ToldInv /\ MatchInv

-----------------------------------------------------------------------------
(* The stack of callbacks.                                                  *)

\* A callback that starts adds its request to those being called.
LEMMA PushFrame ==
    ASSUME NEW f \in Seq(Frame), NEW x \in Frame
    PROVE  /\ Append(f, x) \in Seq(Frame)
           /\ FrameIds(Append(f, x)) = FrameIds(f) \cup {x.id}
           /\ DistinctIds(f) /\ x.id \notin FrameIds(f) => DistinctIds(Append(f, x))
<1>1. /\ Append(f, x) \in Seq(Frame) /\ DOMAIN Append(f, x) = 1 .. Len(f) + 1
      /\ \A i \in DOMAIN f : Append(f, x)[i] = f[i]
      /\ Append(f, x)[Len(f) + 1] = x /\ Len(f) \in Nat /\ DOMAIN f = 1 .. Len(f)
  OBVIOUS
<1>2. \A i \in DOMAIN Append(f, x) : i \in DOMAIN f \/ i = Len(f) + 1
  BY <1>1
<1>3. DOMAIN f \subseteq DOMAIN Append(f, x) /\ Len(f) + 1 \in DOMAIN Append(f, x)
  BY <1>1
<1>4. FrameIds(Append(f, x)) = FrameIds(f) \cup {x.id}
  BY <1>1, <1>2, <1>3 DEF FrameIds
<1>5. DistinctIds(f) /\ x.id \notin FrameIds(f) => DistinctIds(Append(f, x))
  BY <1>1, <1>2 DEF DistinctIds, FrameIds
<1> QED
  BY <1>1, <1>4, <1>5

\* A callback that returns takes its request off the stack, and no other.
LEMMA PopFrame ==
    ASSUME NEW f \in Seq(Frame), f # <<>>, DistinctIds(f)
    PROVE  /\ f[Len(f)] \in Frame
           /\ f[Len(f)].id \in FrameIds(f)
           /\ SubSeq(f, 1, Len(f) - 1) \in Seq(Frame)
           /\ FrameIds(SubSeq(f, 1, Len(f) - 1)) = FrameIds(f) \ {f[Len(f)].id}
           /\ DistinctIds(SubSeq(f, 1, Len(f) - 1))
<1> DEFINE g == SubSeq(f, 1, Len(f) - 1)
           n == Len(f)
<1>1. n \in Nat \ {0} /\ DOMAIN f = 1 .. n /\ f[n] \in Frame
  OBVIOUS
<1>2. /\ g \in Seq(Frame) /\ DOMAIN g = 1 .. n - 1
      /\ \A i \in DOMAIN g : g[i] = f[i]
  BY <1>1
<1>3. /\ \A i \in DOMAIN g : i \in DOMAIN f /\ i # n
      /\ \A i \in DOMAIN f : i \in DOMAIN g \/ i = n
      /\ n \in DOMAIN f
  BY <1>1, <1>2
<1> HIDE DEF g, n
<1>4. \A i \in DOMAIN g : f[i].id # f[n].id
  BY <1>3 DEF DistinctIds
<1>5. FrameIds(g) \subseteq FrameIds(f) \ {f[n].id}
  BY <1>2, <1>3, <1>4 DEF FrameIds
<1>6. FrameIds(f) \ {f[n].id} \subseteq FrameIds(g)
  BY <1>2, <1>3 DEF FrameIds
<1>7. DistinctIds(g)
  BY <1>2, <1>3 DEF DistinctIds
<1>8. f[n].id \in FrameIds(f)
  BY <1>3 DEF FrameIds
<1> QED
  BY <1>1, <1>2, <1>5, <1>6, <1>7, <1>8 DEF g, n

\* The running requests are those of the stack.
LEMMA RunningIs == Running = FrameIds(frames)
BY DEF Running, FrameIds

\* request->callback is called for a request nobody has called back yet.
LEMMA CallIs ==
    ASSUME Types, DistinctIds(frames),
           NEW STATE fn, fn \in {"write", "nowait", "complete", "timeout"},
           NEW STATE id, id \in Id, id \notin Running, ended[id] = "no",
           NEW STATE how, how \in Ends \ {"no", "twice"}, Call(fn, id, how)
    PROVE  /\ frames' \in Seq(Frame) /\ DistinctIds(frames')
           /\ Running' = Running \cup {id}
           /\ ended' = [ended EXCEPT ![id] = how] /\ ended' \in [Id -> Ends]
<1> DEFINE x == [fn |-> fn, id |-> id]
<1>1. x \in Frame /\ x.id = id
  BY DEF Frame
<1>2. frames' = Append(frames, x)
  BY DEF Call
<1>3. ended' = [ended EXCEPT ![id] = how]
  BY DEF Call, Types
<1> HIDE DEF x
<1>4. /\ frames' \in Seq(Frame) /\ DistinctIds(frames')
      /\ FrameIds(frames') = FrameIds(frames) \cup {id}
  BY <1>1, <1>2, PushFrame, RunningIs DEF Types
<1>5. Running' = Running \cup {id}
  BY <1>4 DEF Running, FrameIds
<1>6. ended' \in [Id -> Ends]
  BY <1>3 DEF Types
<1> QED
  BY <1>3, <1>4, <1>5, <1>6

-----------------------------------------------------------------------------
(* Writing.                                                                 *)

\* The head of a queue is written: it goes to pending_list and to the kernel.
LEMMA SentKeeps ==
    ASSUME IInv, NEW STATE id, id \in Id, NEW STATE timeout,
           \/ id \in Queued
           \/ id = next_request_id /\ id \notin Running,
           Queued' = Queued \ {id},
           request_queue' \in Seq(Id), reply_queue' \in Seq(Id),
           NoRepeat(request_queue'), NoRepeat(reply_queue'),
           InSeq(request_queue') \cap InSeq(reply_queue') = {},
           next_request_id' \in 1 .. (MaxId + 1),
           id = next_request_id => next_request_id' = next_request_id + 1,
           id # next_request_id => next_request_id' = next_request_id,
           send_request_ok(id, timeout),
           UNCHANGED <<cancelled, destroyed, forgotten, early>>
    PROVE  IInv'
<1>1. /\ pending_list' = Append(pending_list, id)
      /\ timer' \subseteq timer \cup {id}
      /\ kernel' = Append(kernel, id)
      /\ UNCHANGED <<frames, ended>>
  BY DEF send_request_ok
<1>2. id \notin InSeq(pending_list) /\ id \notin Running /\ id \notin destroyed
  BY DEF IInv, OwnInv, ToldInv, Waiting, Id
<1>3. /\ pending_list' \in Seq(Id) /\ NoRepeat(pending_list')
      /\ InSeq(pending_list') = InSeq(pending_list) \cup {id}
      /\ kernel' \in Seq(Id)
  BY <1>1, <1>2, AppendKeeps DEF IInv, Types, OwnInv
<1>4. Running' = Running
  BY <1>1 DEF Running
<1>9. \A j \in Id : /\ j < next_request_id => j < next_request_id'
                    /\ j < next_request_id' => j < next_request_id \/ j = id
                    /\ id < next_request_id'
  <2>1. next_request_id \in Nat /\ \A j \in Id : j \in Nat
    BY DEF IInv, Types, Id
  <2>2. CASE id = next_request_id
    BY <2>1, <2>2
  <2>3. CASE id # next_request_id
    <3>1. id < next_request_id
      BY <2>3 DEF IInv, OwnInv, Waiting
    <3> QED
      BY <2>1, <2>3, <3>1
  <2> QED
    BY <2>2, <2>3
<1>5. Types'
  BY <1>1, <1>3 DEF IInv, Types
<1>6. OwnInv'
  <2>1. DistinctIds(frames')
    BY <1>1 DEF IInv, OwnInv
  <2>2. Waiting' \cup Running' = Waiting \cup Running \cup {id}
    BY <1>3, <1>4 DEF Waiting
  <2>3. \A j \in Id : j \in Waiting' \cup Running' <=>
                         j < next_request_id' /\ j \notin destroyed'
    <3>1. \A j \in Id : j \in Waiting \cup Running <=>
                            j < next_request_id /\ j \notin destroyed
      BY DEF IInv, OwnInv
    <3>2. destroyed' = destroyed
      OBVIOUS
    <3> QED
      BY <1>2, <1>9, <2>2, <3>1, <3>2
  <2>4. Queued' \cap InSeq(pending_list') = {} /\ Waiting' \cap Running' = {}
    BY <1>2, <1>3, <1>4 DEF IInv, OwnInv, Waiting
  <2>5. timer' \subseteq InSeq(pending_list') \cup Running'
    BY <1>1, <1>3, <1>4 DEF IInv, OwnInv
  <2> QED
    BY <1>3, <2>1, <2>3, <2>4, <2>5 DEF OwnInv
<1>7. ToldInv'
  <2>1. Waiting' \subseteq Waiting \cup {id}
    BY <1>3 DEF Waiting
  <2>2. ended[id] = "no"
    BY DEF IInv, ToldInv, Waiting, Id
  <2> QED
    BY <1>1, <1>9, <2>1, <2>2 DEF IInv, ToldInv, Types, Id
<1>8. MatchInv'
  BY <1>1 DEF IInv, MatchInv, NothingGivenUp
<1> QED
  BY <1>5, <1>6, <1>7, <1>8 DEF IInv

\* send_request could not write: the request's callback is run instead.
LEMMA FailedKeeps ==
    ASSUME IInv, NEW STATE id, id \in Id, NEW STATE fn, fn \in {"write", "nowait"},
           \/ id \in Queued
           \/ id = next_request_id /\ id \notin Running,
           Queued' = Queued \ {id},
           request_queue' \in Seq(Id), reply_queue' \in Seq(Id),
           NoRepeat(request_queue'), NoRepeat(reply_queue'),
           InSeq(request_queue') \cap InSeq(reply_queue') = {},
           next_request_id' \in 1 .. (MaxId + 1),
           id = next_request_id => next_request_id' = next_request_id + 1,
           id # next_request_id => next_request_id' = next_request_id,
           send_request_fails(id, fn),
           UNCHANGED <<cancelled, destroyed, forgotten, early>>
    PROVE  IInv'
<1>1. Call(fn, id, "failed") /\ UNCHANGED <<pending_list, timer, kernel>>
  BY DEF send_request_fails
<1>2. /\ id \notin InSeq(pending_list) /\ id \notin Running /\ id \notin destroyed
      /\ ended[id] = "no"
  BY DEF IInv, OwnInv, ToldInv, Waiting, Id
<1>3. /\ frames' \in Seq(Frame) /\ DistinctIds(frames')
      /\ Running' = Running \cup {id}
      /\ ended' = [ended EXCEPT ![id] = "failed"] /\ ended' \in [Id -> Ends]
  <2> DEFINE how == "failed"
  <2>1. how \in Ends \ {"no", "twice"} /\ fn \in {"write", "nowait", "complete", "timeout"}
    BY DEF Ends
  <2>2. Types /\ DistinctIds(frames) /\ Call(fn, id, how)
    BY <1>1 DEF IInv, OwnInv
  <2> HIDE DEF how
  <2>3. /\ frames' \in Seq(Frame) /\ DistinctIds(frames')
        /\ Running' = Running \cup {id}
        /\ ended' = [ended EXCEPT ![id] = how] /\ ended' \in [Id -> Ends]
    BY <1>2, <2>1, <2>2, CallIs, ZenonT(60)
  <2> QED
    BY <2>3 DEF how
<1>4. \A j \in Id : /\ j < next_request_id => j < next_request_id'
                    /\ j < next_request_id' => j < next_request_id \/ j = id
                    /\ id < next_request_id'
  <2>1. next_request_id \in Nat /\ \A j \in Id : j \in Nat
    BY DEF IInv, Types, Id
  <2>2. CASE id = next_request_id
    BY <2>1, <2>2
  <2>3. CASE id # next_request_id
    <3>1. id < next_request_id
      BY <2>3 DEF IInv, OwnInv, Waiting
    <3> QED
      BY <2>1, <2>3, <3>1
  <2> QED
    BY <2>2, <2>3
<1>5. Types'
  BY <1>1, <1>3 DEF IInv, Types
<1>6. Waiting' = Waiting \ {id}
  BY <1>1, <1>2 DEF Waiting
<1>7. OwnInv'
  <2>1. Waiting' \cup Running' = Waiting \cup Running \cup {id}
    BY <1>3, <1>6
  <2>2. \A j \in Id : j \in Waiting' \cup Running' <=>
                         j < next_request_id' /\ j \notin destroyed'
    <3>1. \A j \in Id : j \in Waiting \cup Running <=>
                            j < next_request_id /\ j \notin destroyed
      BY DEF IInv, OwnInv
    <3>2. destroyed' = destroyed
      OBVIOUS
    <3> QED
      BY <1>2, <1>4, <2>1, <3>1, <3>2
  <2>3. Queued' \cap InSeq(pending_list') = {} /\ Waiting' \cap Running' = {}
    BY <1>1, <1>3, <1>6 DEF IInv, OwnInv
  <2>4. timer' \subseteq InSeq(pending_list') \cup Running'
    BY <1>1, <1>3 DEF IInv, OwnInv
  <2>5. NoRepeat(pending_list')
    BY <1>1 DEF IInv, OwnInv
  <2> QED
    BY <1>3, <2>2, <2>3, <2>4, <2>5 DEF OwnInv
<1>8. ToldInv'
  <2>1. id \notin cancelled' /\ \A j \in Id : j >= next_request_id' => j >= next_request_id /\ j # id
    BY <1>2, <1>4 DEF IInv, Types, ToldInv, Id
  <2> QED
    BY <1>3, <1>4, <1>6, <2>1 DEF IInv, ToldInv, Types, Id
<1>9. MatchInv'
  BY <1>1, <1>2, <1>3 DEF IInv, MatchInv, NothingGivenUp, Types
<1> QED
  BY <1>5, <1>7, <1>8, <1>9 DEF IInv

\* can_write_data takes the head of reply_queue or else of request_queue.
LEMMA WriterKeeps ==
    ASSUME MgmtAssumption, IInv, Writer
    PROVE  IInv'
<1>1. CASE can_write_data_reply
  <2> DEFINE h == Head(reply_queue)
  <2>1. /\ h \in Id /\ reply_queue' \in Seq(Id) /\ NoRepeat(reply_queue')
        /\ InSeq(reply_queue) = InSeq(reply_queue') \cup {h}
        /\ h \notin InSeq(reply_queue')
    BY <1>1, TailKeeps DEF can_write_data_reply, IInv, Types, OwnInv
  <2>2. /\ request_queue' = request_queue /\ request_queue' \in Seq(Id)
        /\ NoRepeat(request_queue')
        /\ next_request_id' = next_request_id
        /\ next_request_id \in 1 .. (MaxId + 1)
        /\ UNCHANGED <<cancelled, destroyed, forgotten, early>>
    BY <1>1 DEF can_write_data_reply, IInv, Types, OwnInv
  <2>3. /\ h \in Queued /\ h # next_request_id
        /\ Queued' = Queued \ {h}
        /\ InSeq(request_queue') \cap InSeq(reply_queue') = {}
    BY <2>1, <2>2 DEF IInv, OwnInv, Queued, Waiting, Id
  <2>4. \/ send_request_ok(h, request[h].timeout)
        \/ send_request_fails(h, "write")
    BY <1>1 DEF can_write_data_reply
  <2> HIDE DEF h
  <2> QED
    BY <2>1, <2>2, <2>3, <2>4, SentKeeps, FailedKeeps
<1>2. CASE can_write_data_command
  <2> DEFINE h == Head(request_queue)
  <2>1. /\ h \in Id /\ request_queue' \in Seq(Id) /\ NoRepeat(request_queue')
        /\ InSeq(request_queue) = InSeq(request_queue') \cup {h}
        /\ h \notin InSeq(request_queue')
    BY <1>2, TailKeeps DEF can_write_data_command, IInv, Types, OwnInv
  <2>2. /\ reply_queue' = reply_queue /\ reply_queue' \in Seq(Id)
        /\ NoRepeat(reply_queue')
        /\ next_request_id' = next_request_id
        /\ next_request_id \in 1 .. (MaxId + 1)
        /\ UNCHANGED <<cancelled, destroyed, forgotten, early>>
    BY <1>2 DEF can_write_data_command, IInv, Types, OwnInv
  <2>3. /\ h \in Queued /\ h # next_request_id
        /\ Queued' = Queued \ {h}
        /\ InSeq(request_queue') \cap InSeq(reply_queue') = {}
    BY <2>1, <2>2 DEF IInv, OwnInv, Queued, Waiting, Id
  <2>4. \/ send_request_ok(h, request[h].timeout)
        \/ send_request_fails(h, "write")
    BY <1>2 DEF can_write_data_command
  <2> HIDE DEF h
  <2> QED
    BY <2>1, <2>2, <2>3, <2>4, SentKeeps, FailedKeeps
<1>3. CASE can_write_data_idle
  BY <1>3 DEF can_write_data_idle, queues, ghosts, IInv, Types, OwnInv, ToldInv,
              MatchInv, NothingGivenUp, Waiting, Queued, Running
<1> QED
  BY <1>1, <1>2, <1>3 DEF Writer

-----------------------------------------------------------------------------
(* Answers and time-outs.                                                   *)

\* A request leaves pending_list and its callback is run, with `how'.
LEMMA CompletedKeeps ==
    ASSUME IInv, NEW STATE r, r \in InSeq(pending_list),
           NEW STATE fn, fn \in {"complete", "timeout"},
           NEW STATE how, how \in Ends \ {"no", "twice"}, Call(fn, r, how),
           pending_list' = Without(pending_list, {r}),
           timer' \subseteq timer, kernel' \in Seq(Id), early' \in Nat,
           UNCHANGED <<next_request_id, request_queue, reply_queue, cancelled,
                       destroyed>>
    PROVE  Types' /\ OwnInv' /\ ToldInv'
           /\ r \in Id /\ ended[r] = "no" /\ ended' = [ended EXCEPT ![r] = how]
<1>1. /\ r \in Id /\ r \notin Running /\ r \notin destroyed /\ r \notin Queued
      /\ ended[r] = "no"
  BY DEF IInv, Types, OwnInv, ToldInv, Waiting, InSeq
<1>2. /\ frames' \in Seq(Frame) /\ DistinctIds(frames')
      /\ Running' = Running \cup {r}
      /\ ended' = [ended EXCEPT ![r] = how] /\ ended' \in [Id -> Ends]
  <2>1. Types /\ DistinctIds(frames)
    BY DEF IInv, OwnInv
  <2>2. fn \in {"write", "nowait", "complete", "timeout"}
    OBVIOUS
  <2> QED
    BY <1>1, <2>1, <2>2, CallIs
<1>3. /\ pending_list' \in Seq(Id) /\ NoRepeat(pending_list')
      /\ InSeq(pending_list') = InSeq(pending_list) \ {r}
  BY WithoutKeeps DEF IInv, Types, OwnInv
<1>4. Types'
  BY <1>2, <1>3 DEF IInv, Types
<1>5. Queued' = Queued /\ Waiting' = Waiting \ {r}
  BY <1>1, <1>3 DEF Queued, Waiting
<1>6. OwnInv'
  BY <1>1, <1>2, <1>3, <1>5 DEF IInv, OwnInv, Waiting
<1>7. ToldInv'
  <2>1. r \notin cancelled /\ ~(r >= next_request_id)
    BY <1>1 DEF IInv, Types, OwnInv, ToldInv, Waiting, Id
  <2> QED
    BY <1>1, <1>2, <1>5, <2>1 DEF IInv, Types, ToldInv
<1> QED
  BY <1>1, <1>2, <1>4, <1>6, <1>7

\* queue_remove_if finds the first entry that matches.
LEMMA FirstIs ==
    ASSUME Types, NEW STATE ids, ids \subseteq InSeq(pending_list), ids # {}
    PROVE  /\ First(ids) \in ids
           /\ \A i \in DOMAIN pending_list :
                 /\ pending_list[i] \in ids
                 /\ \A j \in 1 .. (i - 1) : pending_list[j] \notin ids
                 => First(ids) = pending_list[i]
<1> DEFINE at == {i \in DOMAIN pending_list : pending_list[i] \in ids}
           Is(i) == /\ pending_list[i] \in ids
                    /\ \A j \in 1 .. (i - 1) : pending_list[j] \notin ids
<1>1. /\ DOMAIN pending_list = 1 .. Len(pending_list)
      /\ Len(pending_list) \in Nat
  BY DEF Types
<1>2. at \subseteq 1 .. Len(pending_list) /\ at # {}
  BY <1>1 DEF InSeq
<1>3. PICK f \in at : \A j \in at : f <= j
  BY <1>1, <1>2, FirstPlace
<1>4. f \in DOMAIN pending_list /\ Is(f)
  <2> SUFFICES ASSUME NEW j \in 1 .. (f - 1), pending_list[j] \in ids
               PROVE  FALSE
    OBVIOUS
  <2>1. j \in DOMAIN pending_list /\ ~(f <= j)
    BY <1>1
  <2> QED
    BY <1>3, <2>1
<1>5. ASSUME NEW i \in DOMAIN pending_list, NEW k \in DOMAIN pending_list,
             Is(i), Is(k)
      PROVE  i = k
  <2>1. i \in Nat \ {0} /\ k \in Nat \ {0}
    BY <1>1
  <2>2. ~(i < k) /\ ~(k < i)
    BY <1>5, <2>1
  <2> QED
    BY <2>1, <2>2
<1>6. \A i \in DOMAIN pending_list : Is(i) => First(ids) = pending_list[i]
  <2> SUFFICES ASSUME NEW i \in DOMAIN pending_list, Is(i)
               PROVE  First(ids) = pending_list[i]
    OBVIOUS
  <2> DEFINE c == CHOOSE k \in DOMAIN pending_list : Is(k)
  <2>1. c \in DOMAIN pending_list /\ Is(c)
    OBVIOUS
  <2> HIDE DEF c
  <2>2. c = i
    BY <2>1, <1>5
  <2>3. First(ids) = pending_list[c]
    BY DEF First, c
  <2> QED
    BY <2>2, <2>3
<1> QED
  BY <1>4, <1>6

\* An answer goes to a request of pending_list; if nothing was given up, to the
\* request it answers.
LEMMA RequestCompleteKeeps ==
    ASSUME IInv, NEW id \in Id, request_complete(id)
    PROVE  IInv'
<1>1. /\ id \in InSeq(kernel)
      /\ UNCHANGED <<next_request_id, request, request_queue, reply_queue, timer,
                     user_ref, live, cancelled, destroyed, forgotten>>
  BY DEF request_complete
<1>2. PICK k \in DOMAIN kernel :
         /\ kernel[k] = id
         /\ \A j \in 1 .. (k - 1) :
              \/ request[kernel[j]].opcode # request[id].opcode
              \/ request[kernel[j]].index # request[id].index
  BY DEF request_complete
<1>3. /\ \/ kernel' = Without(kernel, {id}) /\ UNCHANGED early
         \/ kernel' = kernel /\ early' # 0
      /\ early' \in Nat
  BY DEF request_complete, IInv, Types
<1>4. kernel' \in Seq(Id)
  BY <1>3, WithoutKeeps DEF IInv, Types
<1>5. Completed(id) \subseteq InSeq(pending_list)
  BY FirstIs DEF Completed, SameCommand, SameIndex, IInv
<1>6. NothingGivenUp => Completed(id) = {id}
  <2> SUFFICES ASSUME NothingGivenUp
               PROVE  Completed(id) = {id}
    OBVIOUS
  <2>1. kernel = pending_list
    BY DEF IInv, MatchInv
  <2>2. /\ k \in DOMAIN pending_list /\ pending_list[k] = id
        /\ id \in SameCommand(id)
        /\ \A j \in 1 .. (k - 1) : pending_list[j] \notin SameCommand(id)
    BY <1>1, <1>2, <2>1 DEF SameCommand
  <2>3. First(SameCommand(id)) = id
    BY <2>2, FirstIs DEF SameCommand, IInv
  <2> QED
    BY <2>2, <2>3 DEF Completed
<1>7. CASE Completed(id) = {} /\ UNCHANGED <<pending_list, frames, ended>>
  <2>1. Types'
    BY <1>1, <1>3, <1>4, <1>7 DEF IInv, Types
  <2>2. OwnInv' /\ ToldInv'
    BY <1>1, <1>7 DEF IInv, OwnInv, ToldInv, Waiting, Queued, Running
  <2>3. ~NothingGivenUp'
    BY <1>1, <1>3, <1>6, <1>7 DEF NothingGivenUp
  <2> QED
    BY <2>1, <2>2, <2>3 DEF IInv, MatchInv
<1>8. ASSUME NEW r \in Completed(id),
             pending_list' = Without(pending_list, {r}),
             Call("complete", r,
                  CASE r = id -> "answer"
                    [] r # id /\ request[r].opcode = request[id].opcode -> "stale"
                    [] OTHER -> "foreign")
      PROVE  IInv'
  <2> DEFINE how == CASE r = id -> "answer"
                      [] r # id /\ request[r].opcode = request[id].opcode -> "stale"
                      [] OTHER -> "foreign"
  <2>1. how \in Ends \ {"no", "twice"} /\ (r = id => how = "answer")
    BY DEF Ends
  <2>2. Call("complete", r, how)
    BY <1>8
  <2> HIDE DEF how
  <2>3. /\ Types' /\ OwnInv' /\ ToldInv'
        /\ r \in Id /\ ended[r] = "no" /\ ended' = [ended EXCEPT ![r] = how]
    BY <1>1, <1>3, <1>4, <1>5, <1>8, <2>1, <2>2, CompletedKeeps
  <2>4. MatchInv'
    <3> SUFFICES ASSUME NothingGivenUp'
                 PROVE  /\ kernel' = pending_list'
                        /\ \A j \in Id : ended'[j] \notin {"stale", "foreign"}
      BY DEF MatchInv
    <3>1. kernel' = Without(kernel, {id}) /\ early' = early
      BY <1>3 DEF NothingGivenUp
    <3>2. NothingGivenUp
      BY <1>1, <2>3, <3>1 DEF NothingGivenUp, IInv, Types
    <3>3. r = id /\ kernel = pending_list
      BY <1>6, <1>8, <3>2 DEF IInv, MatchInv
    <3> QED
      BY <1>8, <2>1, <2>3, <3>1, <3>2, <3>3 DEF IInv, Types, MatchInv
  <2> QED
    BY <2>3, <2>4 DEF IInv
<1>9. \/ \E r \in Completed(id) :
            /\ pending_list' = Without(pending_list, {r})
            /\ Call("complete", r,
                    CASE r = id -> "answer"
                      [] r # id /\ request[r].opcode = request[id].opcode -> "stale"
                      [] OTHER -> "foreign")
      \/ Completed(id) = {} /\ UNCHANGED <<pending_list, frames, ended>>
  BY Zenon DEF request_complete
<1> QED
  BY <1>7, <1>8, <1>9, Zenon

\* A time-out ends a request of pending_list.
LEMMA RequestTimeoutKeeps ==
    ASSUME IInv, NEW id \in Id, request_timeout(id)
    PROVE  IInv'
<1>1. /\ frames = <<>> /\ id \in timer /\ timer' = timer \ {id}
      /\ pending_list' = Without(pending_list, {id})
      /\ Call("timeout", id, "timeout") /\ kernel' = kernel
      /\ UNCHANGED <<next_request_id, request_queue, reply_queue, cancelled,
                     destroyed, forgotten, early>>
  BY DEF request_timeout, Looping
<1>2. id \in InSeq(pending_list)
  BY <1>1 DEF IInv, OwnInv, Running
<1>3. /\ Types' /\ OwnInv' /\ ToldInv'
      /\ ended' = [ended EXCEPT ![id] = "timeout"]
  BY <1>1, <1>2, CompletedKeeps DEF IInv, Types, Ends
<1>4. ~NothingGivenUp'
  BY <1>3 DEF IInv, Types, NothingGivenUp
<1> QED
  BY <1>3, <1>4 DEF IInv, MatchInv

-----------------------------------------------------------------------------
(* Taking requests back and destroying them.                                *)

\* Some who wait are taken back unheard, and some whose callback has returned
\* are destroyed: mgmt_cancel*, mgmt_unref and the end of a callback.
LEMMA TakenBackKeeps ==
    ASSUME IInv, NEW STATE gone, gone \subseteq Waiting,
           NEW STATE others, others \subseteq Running,
           take_back(gone), destroy_request(gone \cup others),
           cancelled' = cancelled \cup gone,
           frames' \in Seq(Frame), DistinctIds(frames'),
           Running' = Running \ others,
           UNCHANGED <<next_request_id, kernel, ended, forgotten, early>>
    PROVE  IInv'
<1>1. /\ request_queue' \in Seq(Id) /\ NoRepeat(request_queue')
      /\ InSeq(request_queue') = InSeq(request_queue) \ gone
      /\ reply_queue' \in Seq(Id) /\ NoRepeat(reply_queue')
      /\ InSeq(reply_queue') = InSeq(reply_queue) \ gone
      /\ pending_list' \in Seq(Id) /\ NoRepeat(pending_list')
      /\ InSeq(pending_list') = InSeq(pending_list) \ gone
  BY WithoutKeeps DEF take_back, IInv, Types, OwnInv
<1>2. /\ destroyed' = destroyed \cup gone \cup others
      /\ timer' = timer \ (gone \cup others)
  BY DEF destroy_request
<1>3. /\ Waiting \subseteq Id /\ Running \subseteq Id
      /\ Waiting \cap Running = {}
  <2>1. \A i \in DOMAIN frames : frames[i].id \in Id
    <3>1. \A i \in DOMAIN frames : frames[i] \in Frame
      BY DEF IInv, Types
    <3> QED
      BY <3>1 DEF Frame
  <2>2. /\ InSeq(request_queue) \subseteq Id /\ InSeq(reply_queue) \subseteq Id
        /\ InSeq(pending_list) \subseteq Id
    BY DEF IInv, Types, InSeq
  <2> QED
    BY <2>1, <2>2 DEF IInv, OwnInv, Waiting, Queued, Running
<1>4. Queued' = Queued \ gone /\ Waiting' = Waiting \ gone
  BY <1>1 DEF Queued, Waiting
<1>5. Types'
  BY <1>1, <1>2, <1>3 DEF IInv, Types
<1>6. OwnInv'
  <2>1. \A j \in Id : j \in Waiting' \cup Running' <=>
                         j < next_request_id' /\ j \notin destroyed'
    BY <1>2, <1>3, <1>4 DEF IInv, OwnInv
  <2>2. timer' \subseteq InSeq(pending_list') \cup Running'
    BY <1>1, <1>2 DEF IInv, OwnInv
  <2> QED
    BY <1>1, <1>3, <1>4, <2>1, <2>2 DEF IInv, OwnInv
<1>7. ToldInv'
  <2>1. \A j \in gone \cup others : j < next_request_id
    BY <1>3 DEF IInv, OwnInv
  <2> QED
    BY <1>2, <1>3, <1>4, <2>1 DEF IInv, ToldInv
<1>8. MatchInv'
  <2> SUFFICES ASSUME NothingGivenUp'
               PROVE  /\ kernel' = pending_list'
                      /\ \A j \in Id : ended'[j] \notin {"stale", "foreign"}
    BY DEF MatchInv
  <2>1. NothingGivenUp /\ gone = {}
    BY DEF NothingGivenUp
  <2>2. pending_list' = pending_list
    BY <2>1 DEF take_back, Without
  <2> QED
    BY <2>1, <2>2 DEF IInv, MatchInv
<1> QED
  BY <1>5, <1>6, <1>7, <1>8 DEF IInv

\* mgmt_cancel, mgmt_cancel_index and mgmt_cancel_all.
LEMMA CancelKeeps ==
    ASSUME IInv,
           \/ \E id \in Id : mgmt_cancel(id)
           \/ \E ix \in Index : mgmt_cancel_index(ix)
           \/ mgmt_cancel_all
    PROVE  IInv'
<1>1. frames \in Seq(Frame) /\ DistinctIds(frames)
  BY DEF IInv, Types, OwnInv
<1>2. ASSUME NEW STATE gone, gone \subseteq Waiting,
             take_back(gone), destroy_request(gone),
             cancelled' = cancelled \cup gone,
             UNCHANGED <<next_request_id, frames, kernel, ended, forgotten, early>>
      PROVE  IInv'
  <2>1. gone \cup {} = gone /\ Running' = Running \ {} /\ {} \subseteq Running
    BY <1>2 DEF Running
  <2>2. destroy_request(gone \cup {})
    BY <1>2, <2>1
  <2> QED
    BY <1>1, <1>2, <2>1, <2>2, TakenBackKeeps
<1>3. ASSUME NEW id \in Id, mgmt_cancel(id)
      PROVE  IInv'
  <2>1. {id} \subseteq Waiting
    BY <1>3 DEF mgmt_cancel, Waiting
  <2> QED
    BY <1>2, <1>3, <2>1 DEF mgmt_cancel
<1>4. ASSUME NEW ix \in Index, mgmt_cancel_index(ix)
      PROVE  IInv'
  <2> DEFINE ids == About(ix) \cap (Queued \cup InSeq(pending_list))
  <2>1. ids \subseteq Waiting
    BY DEF Waiting
  <2>2. /\ take_back(ids) /\ destroy_request(ids)
        /\ cancelled' = cancelled \cup ids
        /\ UNCHANGED <<next_request_id, frames, kernel, ended, forgotten, early>>
    BY <1>4 DEF mgmt_cancel_index
  <2> HIDE DEF ids
  <2> QED
    BY <1>2, <2>1, <2>2
<1>5. ASSUME mgmt_cancel_all
      PROVE  IInv'
  <2>1. /\ take_back(Waiting) /\ destroy_request(Waiting)
        /\ cancelled' = cancelled \cup Waiting
        /\ UNCHANGED <<next_request_id, frames, kernel, ended, forgotten, early>>
    BY <1>5 DEF mgmt_cancel_all, cancel_all, Waiting
  <2> QED
    BY <1>2, <2>1
<1> QED
  BY <1>3, <1>4, <1>5

\* A callback returns; it may have dropped the user's reference.
LEMMA EndCallbackKeeps ==
    ASSUME IInv, end_callback
    PROVE  IInv'
<1> DEFINE x == frames[Len(frames)].id
<1>1. /\ frames # <<>> /\ frames' = SubSeq(frames, 1, Len(frames) - 1)
      /\ UNCHANGED <<next_request_id, kernel, ended, forgotten, early>>
      /\ \/ last_unref({x})
         \/ destroy_request({x}) /\ UNCHANGED <<queues, cancelled>>
  BY DEF end_callback
<1>2. /\ x \in Running /\ frames' \in Seq(Frame) /\ DistinctIds(frames')
      /\ FrameIds(frames') = FrameIds(frames) \ {x}
  BY <1>1, PopFrame, RunningIs DEF IInv, Types, OwnInv
<1>3. Running' = Running \ {x}
  BY <1>2 DEF Running, FrameIds
<1> HIDE DEF x
<1>4. CASE last_unref({x})
  <2>1. /\ take_back(Waiting) /\ destroy_request(Waiting \cup {x})
        /\ cancelled' = cancelled \cup Waiting
    BY <1>4 DEF last_unref, cancel_all, Waiting
  <2>2. {x} \subseteq Running
    BY <1>2
  <2> QED
    BY <1>1, <1>2, <1>3, <2>1, <2>2, TakenBackKeeps
<1>5. CASE destroy_request({x}) /\ UNCHANGED <<queues, cancelled>>
  <2>1. take_back({})
    BY <1>5 DEF queues, take_back, Without
  <2>2. {} \cup {x} = {x} /\ {x} \subseteq Running /\ {} \subseteq Waiting
        /\ cancelled' = cancelled \cup {}
    BY <1>2, <1>5
  <2>3. destroy_request({} \cup {x})
    BY <1>5, <2>2
  <2> QED
    BY <1>1, <1>2, <1>3, <2>1, <2>2, <2>3, TakenBackKeeps
<1> QED
  BY <1>1, <1>4, <1>5

\* The user drops its reference.
LEMMA UnrefKeeps ==
    ASSUME IInv, mgmt_unref
    PROVE  IInv'
<1>1. CASE last_unref({})
  <2>1. /\ take_back(Waiting) /\ destroy_request(Waiting \cup {})
        /\ cancelled' = cancelled \cup Waiting
    BY <1>1 DEF last_unref, cancel_all, Waiting
  <2>2. /\ UNCHANGED <<next_request_id, kernel, ended, forgotten, early, frames>>
        /\ frames \in Seq(Frame) /\ DistinctIds(frames)
    BY DEF mgmt_unref, IInv, Types, OwnInv
  <2>3. /\ Running' = Running \ {} /\ {} \subseteq Running
        /\ frames' \in Seq(Frame) /\ DistinctIds(frames')
    BY <2>2 DEF Running
  <2>4. Waiting \subseteq Waiting
    OBVIOUS
  <2> QED
    BY <2>1, <2>2, <2>3, <2>4, TakenBackKeeps
<1>2. CASE UNCHANGED <<queues, timer, cancelled, destroyed>>
  BY <1>2 DEF mgmt_unref, queues, IInv, Types, OwnInv, ToldInv, MatchInv,
              NothingGivenUp, Waiting, Queued, Running
<1> QED
  BY <1>1, <1>2 DEF mgmt_unref

-----------------------------------------------------------------------------
(* Sending.                                                                 *)

\* mgmt_send and mgmt_reply queue a request that nobody owned, nobody destroyed
\* and nobody called back.
LEMMA QueuedKeeps ==
    ASSUME IInv, NEW STATE n, n = next_request_id, n \in Id,
           next_request_id' = n + 1,
           \/ request_queue' = Append(request_queue, n) /\ UNCHANGED reply_queue
           \/ reply_queue' = Append(reply_queue, n) /\ UNCHANGED request_queue,
           UNCHANGED <<pending_list, timer, frames, kernel, ended, cancelled,
                       destroyed, forgotten, early>>
    PROVE  IInv'
<1>1. n \in Nat /\ n + 1 \in 1 .. (MaxId + 1) /\ \A j \in Id : j \in Nat
  BY MgmtAssumption DEF IInv, Types, Id
<1>2. n \notin Waiting \cup Running /\ n \notin destroyed /\ ended[n] = "no"
  BY <1>1 DEF IInv, OwnInv, ToldInv
<1>3. /\ request_queue' \in Seq(Id) /\ NoRepeat(request_queue')
      /\ reply_queue' \in Seq(Id) /\ NoRepeat(reply_queue')
      /\ Queued' = Queued \cup {n}
      /\ InSeq(request_queue') \cap InSeq(reply_queue') = {}
  <2>1. CASE request_queue' = Append(request_queue, n) /\ UNCHANGED reply_queue
    <3>1. /\ request_queue' \in Seq(Id) /\ NoRepeat(request_queue')
          /\ InSeq(request_queue') = InSeq(request_queue) \cup {n}
      BY <1>2, <2>1, AppendKeeps DEF IInv, Types, OwnInv, Waiting, Queued
    <3> QED
      BY <1>2, <2>1, <3>1 DEF IInv, Types, OwnInv, Waiting, Queued
  <2>2. CASE reply_queue' = Append(reply_queue, n) /\ UNCHANGED request_queue
    <3>1. /\ reply_queue' \in Seq(Id) /\ NoRepeat(reply_queue')
          /\ InSeq(reply_queue') = InSeq(reply_queue) \cup {n}
      BY <1>2, <2>2, AppendKeeps DEF IInv, Types, OwnInv, Waiting, Queued
    <3> QED
      BY <1>2, <2>2, <3>1 DEF IInv, Types, OwnInv, Waiting, Queued
  <2> QED
    BY <2>1, <2>2
<1>4. Running' = Running /\ Waiting' = Waiting \cup {n}
  BY <1>3 DEF Running, Waiting
<1>5. Types'
  BY <1>1, <1>3 DEF IInv, Types
<1>6. OwnInv'
  <2>1. \A j \in Id : j < next_request_id' <=> j < next_request_id \/ j = n
    BY <1>1
  <2>2. \A j \in Id : j \in Waiting' \cup Running' <=>
                         j < next_request_id' /\ j \notin destroyed'
    BY <1>2, <1>4, <2>1 DEF IInv, OwnInv
  <2>3. Queued' \cap InSeq(pending_list') = {}
    BY <1>2, <1>3 DEF IInv, OwnInv, Waiting
  <2> QED
    BY <1>2, <1>3, <1>4, <2>2, <2>3 DEF IInv, OwnInv
<1>7. ToldInv'
  <2>1. \A j \in Id : /\ j >= next_request_id' => j >= next_request_id
                      /\ j < next_request_id => j < next_request_id'
    BY <1>1
  <2>2. \A j \in destroyed' : j < next_request_id'
    BY <2>1 DEF IInv, Types, ToldInv
  <2>3. \A j \in Id : j \in Waiting' \cup cancelled' \/ j >= next_request_id'
                         => ended'[j] = "no"
    <3> SUFFICES ASSUME NEW j \in Id,
                        j \in Waiting' \cup cancelled' \/ j >= next_request_id'
                 PROVE  ended[j] = "no"
      OBVIOUS
    <3>0. cancelled' = cancelled /\ Waiting' \cup cancelled = Waiting \cup cancelled \cup {n}
      BY <1>4
    <3>1. j = n \/ j \in Waiting \cup cancelled \/ j >= next_request_id
      BY <2>1, <3>0, Zenon
    <3> QED
      BY <1>2, <3>1 DEF IInv, ToldInv
  <2> QED
    BY <2>2, <2>3 DEF IInv, ToldInv
<1>8. MatchInv'
  BY DEF IInv, MatchInv, NothingGivenUp
<1> QED
  BY <1>5, <1>6, <1>7, <1>8 DEF IInv

\* The user makes a request.
LEMMA SendKeeps ==
    ASSUME IInv, NEW op \in Opcode, NEW ix \in Index, NEW t \in BOOLEAN,
           mgmt_send(op, ix, t) \/ mgmt_reply(op, ix, t) \/ mgmt_send_nowait(op, ix)
    PROVE  IInv'
<1> DEFINE n == next_request_id
<1>0. /\ n <= MaxId /\ next_request_id' = n + 1
      /\ UNCHANGED <<cancelled, destroyed, forgotten, early>>
  BY DEF mgmt_send, mgmt_reply, mgmt_send_nowait, NewRequest
<1>1. n \in Id /\ n \in Nat /\ n + 1 \in 1 .. (MaxId + 1)
  BY <1>0, MgmtAssumption DEF IInv, Types, Id
<1>2. CASE mgmt_send(op, ix, t) \/ mgmt_reply(op, ix, t)
  BY <1>0, <1>1, <1>2, QueuedKeeps DEF mgmt_send, mgmt_reply
<1>3. CASE mgmt_send_nowait(op, ix)
  <2>1. n \notin Queued /\ n \notin Running
    BY <1>1 DEF IInv, OwnInv, Waiting
  <2>2. /\ Queued' = Queued \ {n}
        /\ request_queue' \in Seq(Id) /\ reply_queue' \in Seq(Id)
        /\ NoRepeat(request_queue') /\ NoRepeat(reply_queue')
        /\ InSeq(request_queue') \cap InSeq(reply_queue') = {}
    BY <1>3, <2>1 DEF mgmt_send_nowait, IInv, Types, OwnInv, Queued
  <2>3. send_request_ok(n, FALSE) \/ send_request_fails(n, "nowait")
    BY <1>3 DEF mgmt_send_nowait
  <2> QED
    BY <1>0, <1>1, <2>1, <2>2, <2>3, SentKeeps, FailedKeeps
<1> QED
  BY <1>2, <1>3

\* The kernel drops a command: from then on something was given up.
LEMMA ForgetKeeps ==
    ASSUME IInv, NEW id \in Id, kernel_forgets(id)
    PROVE  IInv'
<1>1. kernel' \in Seq(Id)
  BY WithoutKeeps DEF kernel_forgets, IInv, Types
<1> QED
  BY <1>1 DEF kernel_forgets, queues, IInv, Types, OwnInv, ToldInv, MatchInv,
              NothingGivenUp, Waiting, Queued, Running

-----------------------------------------------------------------------------
(* The invariant and what follows from it.                                  *)

\* mgmt_new: nothing is queued, running or told.
LEMMA InitIInv == MgmtAssumption /\ Init => IInv
<1> SUFFICES ASSUME MgmtAssumption, Init
             PROVE  IInv
  OBVIOUS
<1>1. Types
  <2>1. <<>> \in Seq(Id) /\ <<>> \in Seq(Frame)
    OBVIOUS
  <2>2. 1 \in 1 .. (MaxId + 1)
    BY DEF MgmtAssumption
  <2> QED
    BY <2>1, <2>2 DEF Init, Types, Ends
<1>2. Queued = {} /\ InSeq(pending_list) = {} /\ Running = {}
  BY DEF Init, Queued, InSeq, Running
<1>3. \A id \in Id : ~(id < next_request_id)
  BY DEF Init, Id
<1>4. OwnInv
  BY <1>2, <1>3 DEF Init, OwnInv, Waiting, NoRepeat, DistinctIds
<1>5. ToldInv /\ MatchInv
  BY DEF Init, ToldInv, MatchInv
<1> QED
  BY <1>1, <1>4, <1>5 DEF IInv

\* Every step of the client, its user and the kernel.
LEMMA NextIInv == MgmtAssumption /\ IInv /\ [Next]_vars => IInv'
<1> SUFFICES ASSUME MgmtAssumption, IInv, [Next]_vars
             PROVE  IInv'
  OBVIOUS
<1>1. CASE Writer
  BY <1>1, WriterKeeps
<1>2. CASE end_callback
  BY <1>2, EndCallbackKeeps
<1>3. CASE User
  <2>1. Timers \subseteq BOOLEAN
    BY DEF MgmtAssumption
  <2>2. CASE \E op \in Opcode, ix \in Index, t \in Timers :
                mgmt_send(op, ix, t) \/ mgmt_reply(op, ix, t)
    BY <2>1, <2>2, SendKeeps
  <2>3. CASE \E op \in Opcode, ix \in Index : mgmt_send_nowait(op, ix)
    <3>1. FALSE \in BOOLEAN
      OBVIOUS
    <3> QED
      BY <2>3, <3>1, SendKeeps
  <2> QED
    BY <1>3, <2>2, <2>3, CancelKeeps, UnrefKeeps DEF User
<1>4. CASE \E id \in Id : request_complete(id) \/ request_timeout(id) \/ kernel_forgets(id)
  BY <1>4, RequestCompleteKeeps, RequestTimeoutKeeps, ForgetKeeps
<1>5. CASE UNCHANGED vars
  BY <1>5 DEF vars, queues, ghosts, IInv, Types, OwnInv, ToldInv, MatchInv,
              NothingGivenUp, Waiting, Queued, Running
<1> QED
  BY <1>1, <1>2, <1>3, <1>4, <1>5 DEF Next

\* One owner is what the invariant says of each request.
LEMMA OwnersAreOne == IInv => OneOwner
<1> SUFFICES ASSUME IInv
             PROVE  OneOwner
  OBVIOUS
<1>1. /\ DOMAIN Held = {"request", "reply", "pending", "running"}
      /\ Held["request"] = InSeq(request_queue) /\ Held["reply"] = InSeq(reply_queue)
      /\ Held["pending"] = InSeq(pending_list) /\ Held["running"] = Running
  BY DEF Held
<1>2. ASSUME NEW id \in Id
      PROVE  Cardinality(Owners(id))
               = IF id < next_request_id /\ id \notin destroyed THEN 1 ELSE 0
  <2>1. id \in Waiting \cup Running <=> id < next_request_id /\ id \notin destroyed
    BY DEF IInv, OwnInv
  <2>2. \A o \in Owners(id), p \in Owners(id) : o = p
    BY <1>1 DEF Owners, IInv, OwnInv, Waiting, Queued
  <2>3. Owners(id) # {} <=> id \in Waiting \cup Running
    BY <1>1 DEF Owners, Waiting, Queued
  <2>4. CASE id \in Waiting \cup Running
    <3>1. PICK o \in Owners(id) : TRUE
      BY <2>3, <2>4
    <3>2. Owners(id) = {o}
      BY <2>2, <3>1
    <3> QED
      BY <2>1, <2>4, <3>2, FS_Singleton
  <2>5. CASE id \notin Waiting \cup Running
    <3>1. Owners(id) = {}
      BY <2>3, <2>5
    <3> QED
      BY <2>1, <2>5, <3>1, FS_EmptySet
  <2> QED
    BY <2>4, <2>5
<1> QED
  BY <1>2 DEF OneOwner, IInv, OwnInv

\* Whatever the order of answers, time-outs, failed writes, cancels and nested
\* callbacks, a request is in one queue or its callback runs until
\* destroy_request, and no timer outlives it (mgmt.c: send_request,
\* request_complete, request_timeout, mgmt_cancel*, mgmt_unref).
THEOREM OneOwnerHolds == Spec => []OneOwner
<1>1. Init => IInv
  BY InitIInv, MgmtAssumption
<1>2. IInv /\ [Next]_vars => IInv'
  BY NextIInv, MgmtAssumption
<1> QED
  BY <1>1, <1>2, OwnersAreOne, PTL DEF Spec

\* No request's callback runs twice, and none runs after mgmt_cancel* took the
\* request back.
THEOREM ToldOnceHolds == Spec => []ToldAtMostOnce
<1>1. Init => IInv
  BY InitIInv, MgmtAssumption
<1>2. IInv /\ [Next]_vars => IInv'
  BY NextIInv, MgmtAssumption
<1>3. IInv => ToldAtMostOnce
  BY DEF IInv, Types, ToldInv, ToldAtMostOnce
<1> QED
  BY <1>1, <1>2, <1>3, PTL DEF Spec

\* can_read_data, which only looks for a pending request with the opcode and the
\* index of the answer, finds the one that is answered until a time-out, a
\* cancel, a silent kernel or an early Command Status gave a command up.
THEOREM AnswersMatchHolds == Spec => []AnswersMatch
<1>1. Init => IInv
  BY InitIInv, MgmtAssumption
<1>2. IInv /\ [Next]_vars => IInv'
  BY NextIInv, MgmtAssumption
<1>3. IInv => AnswersMatch
  BY DEF IInv, MatchInv, NothingGivenUp, AnswersMatch
<1> QED
  BY <1>1, <1>2, <1>3, PTL DEF Spec

=============================================================================
