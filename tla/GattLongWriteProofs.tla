------------------------- MODULE GattLongWriteProofs -------------------------
(***************************************************************************)
(* Proofs about the long and reliable writes of GattLongWrite.tla for any  *)
(* number of writes and channels, values of any length and any limit of    *)
(* the prepare queue: a write reported as successful was written whole,    *)
(* and the prepared parts of two values do not mix at the server.          *)
(***************************************************************************)
EXTENDS GattLongWrite, SharedQueueProofs

-----------------------------------------------------------------------------
(* The inductive invariant.                                                 *)

Requests == {p \in Pdus : p.op # "NONE"}
Items == [handle : {Handle[x] : x \in Callers}, off : Nat, n : Nat,
          data : SUBSET (Callers \X Nat)]

CallTypes ==
    /\ ctl \in {"loop", "next"}
    /\ phase \in [Writes -> {"idle", "queued", "active", "dropped", "told"}]
    /\ in_long_write \in BOOLEAN
    /\ long_write_queue \in Seq(Writes) /\ NoRepeat(long_write_queue)
    /\ \A w \in InSeq(long_write_queue) : phase[w] = "queued"
    /\ session \in {"none", "preparing", "open", "executing", "cancelling", "ending"}
\* As long as the MTU has not grown, a part is as long as it can be.
OpTypes ==
    /\ index \in [Writes -> Nat] /\ cur_length \in [Writes -> Nat]
    /\ success \in [Writes -> BOOLEAN] /\ cancelled \subseteq Writes
    /\ \A w \in Writes : phase[w] \in {"idle", "queued"} => index[w] = 0 /\ success[w]
    /\ \A w \in Writes : phase[w] = "active" =>
           /\ cur_length[w] \in 1 .. Length - index[w]
           /\ w \notin grown => cur_length[w] = Lesser(Length - index[w], mtu)
AttTypes ==
    /\ up \subseteq seen /\ seen \subseteq Chan /\ 1 \in seen /\ mtu \in Nat \ {0}
    /\ req_queue \in Seq(Requests) /\ pending \in [Chan -> Requests \cup {None}]
    /\ stage \in [Chan -> {"idle", "sent", "checking", "walking", "ok", "error"}]
    /\ \A c \in Chan : /\ pending[c] = None <=> stage[c] = "idle"
                       /\ c \notin up => pending[c] = None
                       /\ stage[c] = "checking" => pending[c].op = "PREP"
                       /\ stage[c] = "walking" => pending[c].op = "EXEC"
SrvTypes ==
    /\ prep_queue \in Seq(Items) /\ item \in [Chan -> Items]
    /\ wrote \in [Callers -> SUBSET Bytes]
HistTypes ==
    /\ told \in [Writes -> {"nothing", "success", "failure"}]
    /\ grown \subseteq Writes /\ stranded \in BOOLEAN /\ unguarded \in BOOLEAN
\* TypeOK and the types it leaves out.
TypeInv == CallTypes /\ OpTypes /\ AttTypes /\ SrvTypes /\ HistTypes

\* A request that carries a long write on, as its cancellation does not.
Carries(p) == p.by \in Writes /\ p.op # "CANCEL"

\* A request is what the state of its caller says it is.
Matches(p) ==
    /\ p.by = Session =>
         \/ p.op = "PREP" /\ session = "preparing"
         \/ p.op = "EXEC" /\ session = "executing"
         \/ p.op = "CANCEL" /\ session = "cancelling"
    /\ Carries(p) => phase[p.by] = "active"
    /\ Carries(p) /\ p.op = "PREP" => p.off = index[p.by] /\ p.n = cur_length[p.by]
    /\ Carries(p) /\ p.op = "DROP" => ~success[p.by]
    /\ p.op = "CANCEL" /\ p.by \in Writes => p.by \in cancelled

\* No caller has two requests, but for the cancellation of a long write.
Same(p, q) == p.by = q.by /\ (p.op = "CANCEL" <=> q.op = "CANCEL")
Asked == {pending[c] : c \in Chan} \cup InSeq(req_queue)
OwnInv ==
    /\ \A p \in Requests : p \in Asked => Matches(p)
    /\ \A c, d \in Chan : /\ pending[c] # None /\ pending[d] # None
                          /\ Same(pending[c], pending[d])
                          => c = d
    /\ \A i, j \in DOMAIN req_queue : Same(req_queue[i], req_queue[j]) => i = j
    /\ \A c \in Chan, i \in DOMAIN req_queue :
           pending[c] # None => ~Same(pending[c], req_queue[i])

\* The requests in the order the server gets them, as long as one channel at
\* most is busy: the one in flight and those that wait.
Busy == {c \in Chan : pending[c] # None}
OneBusy == \A c, d \in Busy : c = d
BusyChan == CHOOSE c \in Busy : TRUE
Line == IF Busy = {} THEN req_queue ELSE <<pending[BusyChan]>> \o req_queue
Service == IF Busy = {} THEN "sent" ELSE stage[BusyChan]

\* While every long write is guarded by in_long_write there is one request.
Guarded == cancelled = {} /\ ~unguarded
LineInv ==
    /\ OneBusy
    /\ Guarded => Len(Line) <= 1
    /\ Guarded => \A i \in DOMAIN Line : Carries(Line[i]) => in_long_write
    /\ \A i \in DOMAIN Line : i > 1 /\ Carries(Line[i]) =>
           Line[i].op = "PREP" /\ Line[i].off = 0
    /\ session \in {"open", "executing", "cancelling", "ending"} =>
           \A i \in DOMAIN Line : ~Carries(Line[i])
    /\ \A i, j \in DOMAIN Line :
           Carries(Line[i]) /\ Line[j].by = Session => i < j

\* What is prepared at the server.
Stored == UNION {prep_queue[i].data : i \in DOMAIN prep_queue}
Whose(d) ==
    IF d[1] = Session
    THEN \/ session \in {"open", "executing", "cancelling"}
         \/ session = "preparing" /\ Line # <<>> /\ Line[1].by = Session
    ELSE Line # <<>> /\ Carries(Line[1]) /\ Line[1].by = d[1]
StoreInv ==
    /\ \A d \in Stored : Whose(d)
    /\ Line # <<>> /\ Line[1].op # "PREP" /\ Service \in {"ok", "error"} =>
           prep_queue = <<>>

\* The bytes of a long write the server has been given when its request is
\* answered, or when it is not.
Has(w, bytes) == \A k \in bytes : <<w, k>> \in Stored
CoverInv ==
    Line # <<>> /\ Carries(Line[1]) /\ Line[1].by \notin grown =>
        LET p == Line[1]
        IN  /\ p.op = "PREP" => Has(p.by, 0 .. p.off - 1)
            /\ p.op = "PREP" /\ Service = "ok" => Has(p.by, p.off .. p.off + p.n - 1)
            /\ p.op = "EXEC" /\ Service = "sent" => Has(p.by, Bytes)
            /\ p.op = "EXEC" /\ Service = "walking" =>
                 \A k \in Bytes : \/ <<p.by, k>> \in Stored
                                  \/ <<p.by, k>> \in item[BusyChan].data
                                  \/ k \in wrote[p.by]
            /\ p.op = "EXEC" /\ Service = "ok" => wrote[p.by] = Bytes

Serial == LineInv /\ CoverInv /\ (Lost \/ StoreInv)
WriteInv == ~Overtaken => Serial

-----------------------------------------------------------------------------
(* Sequences and requests.                                                  *)

LEMMA SeqFacts ==
  ASSUME NEW S, NEW q \in Seq(S)
  PROVE  /\ Len(q) \in Nat /\ DOMAIN q = 1 .. Len(q)
         /\ \A i \in DOMAIN q : q[i] \in S
         /\ q = <<>> <=> Len(q) = 0
         /\ q # <<>> => /\ Head(q) = q[1] /\ 1 \in DOMAIN q /\ Head(q) \in S
                        /\ Tail(q) \in Seq(S) /\ Len(Tail(q)) = Len(q) - 1
                        /\ \A i \in 1 .. Len(q) - 1 : Tail(q)[i] = q[i + 1]
  OBVIOUS

LEMMA AppendFacts ==
  ASSUME NEW S, NEW q \in Seq(S), NEW x \in S
  PROVE  /\ Append(q, x) \in Seq(S) /\ Len(Append(q, x)) = Len(q) + 1
         /\ \A i \in DOMAIN q : Append(q, x)[i] = q[i]
         /\ Append(q, x)[Len(q) + 1] = x
  OBVIOUS

\* queue_push_head.
LEMMA PushFacts ==
  ASSUME NEW S, NEW q \in Seq(S), NEW x \in S
  PROVE  /\ <<x>> \o q \in Seq(S) /\ Len(<<x>> \o q) = Len(q) + 1
         /\ (<<x>> \o q)[1] = x
         /\ \A i \in 1 .. Len(q) : (<<x>> \o q)[i + 1] = q[i]
         /\ \A i \in 2 .. Len(q) + 1 : (<<x>> \o q)[i] = q[i - 1]
  OBVIOUS

LEMMA ChangeFacts ==
  ASSUME NEW S, NEW q \in Seq(S), NEW i \in DOMAIN q, NEW x \in S
  PROVE  [q EXCEPT ![i] = x] \in Seq(S)
<1>1. q \in [1 .. Len(q) -> S] /\ Len(q) \in Nat
  OBVIOUS
<1>2. [q EXCEPT ![i] = x] \in [1 .. Len(q) -> S]
  BY <1>1
<1> QED BY <1>1, <1>2

LEMMA RequestFacts ==
  /\ None \notin Requests /\ Requests \subseteq Pdus
  /\ \A w \in Callers, off, n \in Nat : Prep(w, off, n) \in Requests
  /\ \A w \in Callers : \A op \in {"EXEC", "DROP", "CANCEL"} : Pdu(w, op) \in Requests
  /\ \A w, off, n : /\ Prep(w, off, n).by = w /\ Prep(w, off, n).op = "PREP"
                    /\ Prep(w, off, n).off = off /\ Prep(w, off, n).n = n
  /\ \A w, op : Pdu(w, op).by = w /\ Pdu(w, op).op = op
  BY DEF None, Requests, Pdus, Prep, Pdu

LEMMA PrepFacts ==
  ASSUME NEW w \in Writes, NEW off \in Nat, NEW n \in Nat, NEW q, q = Prep(w, off, n)
  PROVE  /\ q \in Requests /\ q.by = w /\ q.op = "PREP" /\ q.off = off /\ q.n = n
         /\ w # Session
  BY LongWriteAssumption DEF Requests, Pdus, Prep, Callers

LEMMA PduFacts ==
  ASSUME NEW w \in Writes, NEW op \in {"EXEC", "DROP", "CANCEL"}, NEW q, q = Pdu(w, op)
  PROVE  q \in Requests /\ q.by = w /\ q.op = op /\ w # Session
  BY LongWriteAssumption DEF Requests, Pdus, Pdu, Callers

LEMMA RequestTypes ==
  ASSUME NEW p \in Requests
  PROVE  /\ p.by \in Callers /\ p.off \in Nat /\ p.n \in Nat /\ p # None
         /\ p.op \in {"PREP", "EXEC", "DROP", "CANCEL"}
         /\ p.by # Session => p.by \in Writes
  BY DEF None, Requests, Pdus, Callers

LEMMA Sizes ==
  /\ Session \notin Writes /\ Length \in Nat \ {0} /\ 1 \in Chan
  /\ \A c \in Chan : ChanMtu[c] \in Nat \ {0}
  /\ \A a, b \in Nat : /\ Lesser(a, b) \in Nat /\ Lesser(a, b) <= a
                       /\ Lesser(a, b) <= b /\ (Lesser(a, b) = a \/ Lesser(a, b) = b)
                       /\ Greater(a, b) \in Nat /\ Greater(a, b) >= a
                       /\ a # 0 /\ b # 0 => Lesser(a, b) # 0 /\ Greater(a, b) # 0
  BY LongWriteAssumption DEF Chan, Lesser, Greater

-----------------------------------------------------------------------------
(* What the changes of the request queue and of the channels do to the      *)
(* owners of requests.                                                      *)

LEMMA AskedFacts ==
  ASSUME TypeInv
  PROVE  /\ \A c \in Chan : pending[c] # None => pending[c] \in Requests
         /\ \A c \in Chan : pending[c] \in Asked
         /\ \A i \in DOMAIN req_queue : req_queue[i] \in Requests /\ req_queue[i] \in Asked
  BY SeqFacts DEF TypeInv, AttTypes, Asked, InSeq

\* The steps at which a channel takes or gives up no request and none is queued.
LEMMA OwnKeep ==
  ASSUME TypeInv, OwnInv, UNCHANGED <<req_queue, pending>>,
         \A p \in Requests : Matches(p) => Matches(p)'
  PROVE  OwnInv'
<1>1. Asked' = Asked
  BY DEF Asked
<1>2. \A p \in Requests : p \in Asked' => Matches(p)'
  BY <1>1 DEF OwnInv
<1> QED BY <1>2 DEF OwnInv, Same

LEMMA OwnAppend ==
  ASSUME TypeInv, OwnInv, NEW q \in Requests, Matches(q)',
         req_queue' = Append(req_queue, q), UNCHANGED pending,
         \A p \in Requests : Matches(p) => Matches(p)' /\ ~Same(p, q)
  PROVE  OwnInv'
<1>2. \A c \in Chan : pending[c] # None => ~Same(pending[c], q)
  BY AskedFacts DEF OwnInv
<1>3. \A i \in DOMAIN req_queue : ~Same(req_queue[i], q)
  BY AskedFacts DEF OwnInv
<1>4. /\ DOMAIN req_queue = 1 .. Len(req_queue) /\ Len(req_queue) \in Nat
      /\ DOMAIN req_queue' = 1 .. Len(req_queue) + 1
      /\ \A i \in DOMAIN req_queue : req_queue'[i] = req_queue[i]
      /\ req_queue'[Len(req_queue) + 1] = q
  BY SeqFacts, AppendFacts DEF TypeInv, AttTypes
<1>5. \A i \in DOMAIN req_queue' : i \in DOMAIN req_queue \/ i = Len(req_queue) + 1
  BY <1>4
<1>6. \A i \in DOMAIN req_queue' :
         \/ i \in DOMAIN req_queue /\ req_queue'[i] = req_queue[i]
         \/ i = Len(req_queue) + 1 /\ req_queue'[i] = q
  BY <1>4, <1>5
<1>7. \A p \in Requests : p \in Asked' => Matches(p)'
  <2>1. \A p \in Requests : p \in Asked' => p \in Asked \/ p = q
    BY <1>6 DEF Asked, InSeq
  <2> QED BY <2>1 DEF OwnInv
<1>8. \A p : Same(q, p) => Same(p, q)
  BY DEF Same
<1>9. \A i, j \in DOMAIN req_queue' : Same(req_queue'[i], req_queue'[j]) => i = j
  BY <1>3, <1>6, <1>8 DEF OwnInv
<1>10. \A c \in Chan, i \in DOMAIN req_queue' :
         pending[c] # None => ~Same(pending[c], req_queue'[i])
  BY <1>2, <1>6 DEF OwnInv
<1> QED BY <1>7, <1>9, <1>10 DEF OwnInv, Same

LEMMA OwnSend ==
  ASSUME TypeInv, OwnInv, NEW c \in Chan, pending[c] = None, req_queue # <<>>,
         pending' = [pending EXCEPT ![c] = Head(req_queue)],
         req_queue' = Tail(req_queue),
         UNCHANGED <<session, phase, index, cur_length, success, cancelled>>
  PROVE  OwnInv'
<1>1. \A p : Matches(p) <=> Matches(p)'
  BY DEF Matches
<1>2. /\ DOMAIN req_queue = 1 .. Len(req_queue) /\ Len(req_queue) \in Nat
      /\ DOMAIN req_queue' = 1 .. Len(req_queue) - 1
      /\ \A i \in DOMAIN req_queue' : req_queue'[i] = req_queue[i + 1]
      /\ Head(req_queue) = req_queue[1] /\ 1 \in DOMAIN req_queue
  BY SeqFacts DEF TypeInv, AttTypes
<1>3. /\ pending'[c] = req_queue[1]
      /\ \A d \in Chan : d # c => pending'[d] = pending[d]
  BY <1>2 DEF TypeInv, AttTypes
<1>4. \A i \in DOMAIN req_queue' : i + 1 \in DOMAIN req_queue /\ i + 1 # 1
  BY <1>2
<1>5. \A p \in Requests : p \in Asked' => Matches(p)'
  <2>1. \A d \in Chan : pending'[d] \in Asked
    BY <1>2, <1>3 DEF Asked, InSeq
  <2>2. \A i \in DOMAIN req_queue' : req_queue'[i] \in Asked
    BY <1>2, <1>4 DEF Asked, InSeq
  <2>3. \A p : p \in Asked' => p \in Asked
    BY <2>1, <2>2 DEF Asked, InSeq
  <2> QED BY <1>1, <2>3 DEF OwnInv
<1>7. \A i, j \in DOMAIN req_queue' : Same(req_queue'[i], req_queue'[j]) => i = j
  <2> SUFFICES ASSUME NEW i \in DOMAIN req_queue', NEW j \in DOMAIN req_queue',
                      Same(req_queue'[i], req_queue'[j])
               PROVE  i = j
    OBVIOUS
  <2>1. i + 1 = j + 1
    BY <1>2, <1>4 DEF OwnInv
  <2> QED BY <2>1, <1>2
<1>8. \A p, q : Same(p, q) <=> Same(q, p)
  BY DEF Same
<1>9. \A d \in Chan : d # c /\ pending[d] # None => ~Same(pending[d], req_queue[1])
  BY <1>2 DEF OwnInv
<1>10. \A d, e \in Chan : /\ pending'[d] # None /\ pending'[e] # None
                          /\ Same(pending'[d], pending'[e])
                          => d = e
  BY <1>3, <1>8, <1>9 DEF OwnInv
<1>11. \A d \in Chan, i \in DOMAIN req_queue' :
         pending'[d] # None => ~Same(pending'[d], req_queue'[i])
  <2> SUFFICES ASSUME NEW d \in Chan, NEW i \in DOMAIN req_queue', pending'[d] # None,
                      Same(pending'[d], req_queue'[i])
               PROVE  FALSE
    OBVIOUS
  <2>1. req_queue'[i] = req_queue[i + 1] /\ i + 1 \in DOMAIN req_queue /\ i + 1 # 1
    BY <1>2, <1>4
  <2> QED BY <2>1, <1>2, <1>3 DEF OwnInv
<1> QED BY <1>5, <1>7, <1>10, <1>11 DEF OwnInv, Same

\* A channel gives up its request and nothing follows it.
LEMMA OwnDrop ==
  ASSUME TypeInv, OwnInv, NEW c \in Chan, pending[c] # None,
         pending' = [pending EXCEPT ![c] = None], UNCHANGED req_queue,
         \A p \in Requests : Matches(p) /\ ~Same(pending[c], p) => Matches(p)'
  PROVE  OwnInv'
<1>1. pending'[c] = None /\ \A d \in Chan : d # c => pending'[d] = pending[d]
  BY DEF TypeInv, AttTypes
<1>2. \A d \in Chan : pending'[d] # None => d # c /\ pending'[d] = pending[d]
  BY <1>1
<1>3. \A d \in Chan : pending'[d] # None => ~Same(pending[c], pending'[d])
  BY <1>2 DEF OwnInv
<1>4. \A i \in DOMAIN req_queue : ~Same(pending[c], req_queue[i])
  BY DEF OwnInv
<1>5. \A p \in Requests : p \in Asked' => p \in Asked /\ ~Same(pending[c], p)
  <2>1. \A p \in Requests : p \in Asked' =>
           \/ \E d \in Chan : p = pending'[d] /\ pending'[d] # None
           \/ \E i \in DOMAIN req_queue : p = req_queue[i]
    BY RequestFacts DEF Asked, InSeq
  <2> QED BY <2>1, <1>2, <1>3, <1>4, AskedFacts
<1>6. \A p \in Requests : p \in Asked' => Matches(p)'
  BY <1>5 DEF OwnInv
<1> QED BY <1>2, <1>6 DEF OwnInv, Same

\* bt_att_resend: a request that goes on with what the channel had.
LEMMA OwnResend ==
  ASSUME TypeInv, OwnInv, NEW c \in Chan, pending[c] # None,
         NEW q \in Requests, Same(pending[c], q), Matches(q)',
         pending' = [pending EXCEPT ![c] = None], req_queue' = <<q>> \o req_queue,
         \A p \in Requests : Matches(p) /\ ~Same(pending[c], p) => Matches(p)'
  PROVE  OwnInv'
<1>2. /\ DOMAIN req_queue = 1 .. Len(req_queue) /\ Len(req_queue) \in Nat
      /\ DOMAIN req_queue' = 1 .. Len(req_queue) + 1
      /\ req_queue'[1] = q
      /\ \A i \in 2 .. Len(req_queue) + 1 : req_queue'[i] = req_queue[i - 1]
  BY SeqFacts, PushFacts DEF TypeInv, AttTypes
<1>3. \A i \in DOMAIN req_queue' :
         \/ i = 1 /\ req_queue'[i] = q
         \/ i - 1 \in DOMAIN req_queue /\ req_queue'[i] = req_queue[i - 1]
  BY <1>2
<1>4. pending'[c] = None /\ \A d \in Chan : d # c => pending'[d] = pending[d]
  BY DEF TypeInv, AttTypes
<1>5. \A p, r : Same(p, r) <=> Same(r, p)
  BY DEF Same
<1>6. \A p : Same(p, q) <=> Same(p, pending[c])
  BY DEF Same
<1>7. \A d \in Chan : pending'[d] # None =>
         d # c /\ pending'[d] = pending[d] /\ ~Same(pending[c], pending'[d])
  BY <1>4 DEF OwnInv
<1>8. \A i \in DOMAIN req_queue : ~Same(pending[c], req_queue[i])
  BY DEF OwnInv
<1>9. \A p \in Requests : p \in Asked' => Matches(p)'
  <2>1. \A p \in Requests : p \in Asked' =>
           \/ \E d \in Chan : p = pending'[d] /\ pending'[d] # None
           \/ \E i \in DOMAIN req_queue' : p = req_queue'[i]
    BY RequestFacts DEF Asked, InSeq
  <2>2. \A p \in Requests : p \in Asked' => p = q \/ (p \in Asked /\ ~Same(pending[c], p))
    BY <2>1, <1>3, <1>7, <1>8, AskedFacts
  <2> QED BY <2>2 DEF OwnInv
<1>10. \A i, j \in DOMAIN req_queue' : Same(req_queue'[i], req_queue'[j]) => i = j
  <2> SUFFICES ASSUME NEW i \in DOMAIN req_queue', NEW j \in DOMAIN req_queue',
                      Same(req_queue'[i], req_queue'[j]), i # j
               PROVE  FALSE
    OBVIOUS
  <2>1. i \in Nat /\ j \in Nat
    BY <1>2
  <2>2. CASE i = 1 \/ j = 1
    BY <2>2, <1>3, <1>5, <1>6, <1>8
  <2>3. CASE i # 1 /\ j # 1
    <3>1. i - 1 = j - 1
      BY <2>3, <1>3 DEF OwnInv
    <3> QED BY <3>1, <2>1
  <2> QED BY <2>2, <2>3
<1>11. \A d \in Chan, i \in DOMAIN req_queue' :
         pending'[d] # None => ~Same(pending'[d], req_queue'[i])
  BY <1>3, <1>5, <1>6, <1>7 DEF OwnInv
<1>12. \A d, e \in Chan : /\ pending'[d] # None /\ pending'[e] # None
                          /\ Same(pending'[d], pending'[e])
                          => d = e
  BY <1>7 DEF OwnInv
<1> QED BY <1>9, <1>10, <1>11, <1>12 DEF OwnInv, Same

-----------------------------------------------------------------------------
(* Types and owners, action by action.                                      *)

LEMMA NobodyCarries ==
  ASSUME TypeInv, NEW w \in Writes, phase[w] # "active",
         NEW p \in Requests, Matches(p)
  PROVE  p.by = w => p.op = "CANCEL"
  BY DEF Matches, Carries

LEMMA OwnWriteLong ==
  ASSUME TypeInv, OwnInv, NEW w \in Writes, bt_gatt_client_write_long_value(w)
  PROVE  TypeInv' /\ OwnInv'
<1>1. /\ phase[w] = "idle" /\ index[w] = 0 /\ success[w]
      /\ w \notin InSeq(long_write_queue)
      /\ UNCHANGED <<ctl, session, index, success, cancelled, attVars, pending,
                     stage, srvVars, histVars>>
  BY DEF bt_gatt_client_write_long_value, TypeInv, CallTypes, OpTypes
<1>2. CASE in_long_write \/ session # "none"
  <2>1. /\ long_write_queue' = Append(long_write_queue, w)
        /\ phase' = [phase EXCEPT ![w] = "queued"]
        /\ UNCHANGED <<in_long_write, cur_length, req_queue>>
    BY <1>2 DEF bt_gatt_client_write_long_value
  <2>2. CallTypes'
    <3>1. /\ long_write_queue' \in Seq(Writes) /\ NoRepeat(long_write_queue')
          /\ InSeq(long_write_queue') = InSeq(long_write_queue) \cup {w}
      BY <1>1, <2>1, AppendKeeps DEF TypeInv, CallTypes
    <3> QED BY <1>1, <2>1, <3>1 DEF TypeInv, CallTypes
  <2>3. OpTypes' /\ AttTypes' /\ SrvTypes' /\ HistTypes'
    BY <1>1, <2>1 DEF TypeInv, CallTypes, OpTypes, AttTypes, SrvTypes, HistTypes,
                      attVars, srvVars, histVars
  <2>4. \A p \in Requests : Matches(p) => Matches(p)'
    BY <1>1, <2>1, RequestTypes DEF Matches, Carries, TypeInv, CallTypes
  <2> QED BY <1>1, <2>1, <2>2, <2>3, <2>4, OwnKeep DEF TypeInv
<1>3. CASE ~(in_long_write \/ session # "none")
  <2> DEFINE q == Prep(w, 0, cur_length'[w])
  <2>1. /\ cur_length' = [cur_length EXCEPT ![w] = Lesser(Length, mtu)]
        /\ req_queue' = Append(req_queue, q)
        /\ phase' = [phase EXCEPT ![w] = "active"]
        /\ in_long_write' = TRUE
        /\ UNCHANGED long_write_queue
    BY <1>3 DEF bt_gatt_client_write_long_value
  <2>2. CallTypes'
    BY <1>1, <2>1 DEF TypeInv, CallTypes
  <2>3. /\ cur_length'[w] = Lesser(Length, mtu) /\ cur_length'[w] \in 1 .. Length
        /\ Length - 0 = Length
    <3>1. Length \in Nat \ {0} /\ mtu \in Nat \ {0}
      BY Sizes DEF TypeInv, AttTypes
    <3>2. Lesser(Length, mtu) \in 1 .. Length
      BY <3>1 DEF Lesser
    <3> QED BY <2>1, <3>1, <3>2 DEF TypeInv, OpTypes
  <2>4. OpTypes'
    BY <1>1, <2>1, <2>3 DEF TypeInv, CallTypes, OpTypes, attVars, histVars
  <2>5. q \in Requests /\ q.by = w /\ q.op = "PREP" /\ q.off = 0 /\ q.n = cur_length'[w]
    BY <2>3, RequestFacts DEF Callers
  <2>6. AttTypes'
    BY <1>1, <2>1, <2>5, AppendFacts DEF TypeInv, AttTypes, attVars
  <2>7. SrvTypes' /\ HistTypes'
    BY <1>1 DEF TypeInv, SrvTypes, HistTypes, srvVars, histVars
  <2>8. \A p \in Requests : Matches(p) => Matches(p)' /\ ~Same(p, q)
    <3> SUFFICES ASSUME NEW p \in Requests, Matches(p)
                 PROVE  Matches(p)' /\ ~Same(p, q)
      OBVIOUS
    <3>1. p.by = w => p.op = "CANCEL"
      BY <1>1, NobodyCarries
    <3>2. ~Same(p, q)
      BY <2>5, <3>1 DEF Same
    <3> QED BY <1>1, <2>1, <3>1, <3>2, RequestTypes
            DEF Matches, Carries, TypeInv, CallTypes, OpTypes
  <2> HIDE DEF q
  <2>9. \A p \in Requests : p = q => Matches(p)'
    <3> SUFFICES ASSUME NEW p \in Requests, p = q
                 PROVE  Matches(p)'
      OBVIOUS
    <3>1. p.by = w /\ p.op = "PREP" /\ p.off = 0 /\ p.n = cur_length'[w] /\ w # Session
      BY <2>5, Sizes
    <3> QED BY <1>1, <2>1, <3>1 DEF Matches, Carries, TypeInv, CallTypes, OpTypes
  <2>10. OwnInv'
    <3>1. \E p \in Requests : p = q /\ Matches(p)'
      BY <2>5, <2>9
    <3>2. PICK p \in Requests : p = q /\ Matches(p)'
      BY <3>1
    <3> QED BY <1>1, <2>1, <2>8, <3>2, OwnAppend
  <2> QED BY <2>2, <2>4, <2>6, <2>7, <2>10 DEF TypeInv
<1> QED BY <1>2, <1>3

LEMMA OwnCancelLong ==
  ASSUME TypeInv, OwnInv, NEW w \in Writes, cancel_long_write_req(w)
  PROVE  TypeInv' /\ OwnInv'
<1>1. /\ w \in Cancelled \ cancelled
      /\ UNCHANGED <<ctl, in_long_write, session, index, cur_length, success,
                     attVars, pending, stage, srvVars, histVars>>
  BY DEF cancel_long_write_req
<1>2. CASE /\ phase[w] = "queued"
           /\ long_write_queue' = Without(long_write_queue, {w})
           /\ phase' = [phase EXCEPT ![w] = "dropped"]
           /\ UNCHANGED <<cancelled, req_queue>>
  <2>1. CallTypes'
    <3>1. /\ long_write_queue' \in Seq(Writes) /\ NoRepeat(long_write_queue')
          /\ \A v \in InSeq(long_write_queue') : v \in InSeq(long_write_queue) /\ v # w
      BY <1>2, WithoutKeeps DEF TypeInv, CallTypes
    <3>2. \A v \in InSeq(long_write_queue') : v \in Writes
      BY <3>1 DEF TypeInv, CallTypes, InSeq
    <3> QED BY <1>1, <1>2, <3>1, <3>2 DEF TypeInv, CallTypes
  <2>2. OpTypes' /\ AttTypes' /\ SrvTypes' /\ HistTypes'
    BY <1>1, <1>2 DEF TypeInv, CallTypes, OpTypes, AttTypes, SrvTypes, HistTypes,
                      attVars, srvVars, histVars
  <2>3. \A p \in Requests : Matches(p) => Matches(p)'
    BY <1>1, <1>2, RequestTypes DEF Matches, Carries, TypeInv, CallTypes
  <2> QED BY <1>1, <1>2, <2>1, <2>2, <2>3, OwnKeep DEF TypeInv
<1>3. CASE /\ phase[w] = "active"
           /\ req_queue' = Append(req_queue, Pdu(w, "CANCEL"))
           /\ cancelled' = cancelled \cup {w}
           /\ UNCHANGED <<long_write_queue, phase>>
  <2> DEFINE q == Pdu(w, "CANCEL")
  <2>1. q \in Requests /\ q.by = w /\ q.op = "CANCEL"
    BY RequestFacts DEF Callers
  <2> HIDE DEF q
  <2>2. CallTypes' /\ OpTypes' /\ SrvTypes' /\ HistTypes'
    BY <1>1, <1>3 DEF TypeInv, CallTypes, OpTypes, SrvTypes, HistTypes,
                      attVars, srvVars, histVars
  <2>3. AttTypes'
    BY <1>1, <1>3, <2>1, AppendFacts DEF TypeInv, AttTypes, attVars, q
  <2>4. Matches(q)'
    BY <1>1, <1>3, <2>1, Sizes DEF Matches, Carries
  <2>5. \A p \in Requests : Matches(p) => Matches(p)' /\ ~Same(p, q)
    <3> SUFFICES ASSUME NEW p \in Requests, Matches(p)
                 PROVE  Matches(p)' /\ ~Same(p, q)
      OBVIOUS
    <3>1. p.by = w => p.op # "CANCEL"
      BY <1>1 DEF Matches
    <3> QED BY <1>1, <1>3, <2>1, <3>1 DEF Matches, Carries, Same
  <2>6. req_queue' = Append(req_queue, q) /\ UNCHANGED pending
    BY <1>1, <1>3 DEF q
  <2>7. OwnInv'
    BY <2>1, <2>4, <2>5, <2>6, OwnAppend
  <2> QED BY <2>2, <2>3, <2>7 DEF TypeInv
<1> QED BY <1>2, <1>3 DEF cancel_long_write_req

\* The requests of a session: none is there when the session is not waiting for
\* one, so the next one is the only one.
LEMMA OwnSession ==
  ASSUME TypeInv, OwnInv, NEW q \in Requests, q.by = Session, Matches(q)',
         session \in {"none", "open"}, session' \in {"preparing", "executing", "cancelling"},
         req_queue' = Append(req_queue, q),
         UNCHANGED <<ctl, phase, in_long_write, long_write_queue, opVars, attVars,
                     pending, stage, srvVars, histVars>>
  PROVE  TypeInv' /\ OwnInv'
<1>1. CallTypes' /\ OpTypes' /\ SrvTypes' /\ HistTypes'
  BY DEF TypeInv, CallTypes, OpTypes, SrvTypes, HistTypes, opVars, attVars, srvVars, histVars
<1>2. AttTypes'
  BY AppendFacts DEF TypeInv, AttTypes, attVars
<1>3. \A p \in Requests : Matches(p) => Matches(p)' /\ ~Same(p, q)
  <2> SUFFICES ASSUME NEW p \in Requests, Matches(p)
               PROVE  Matches(p)' /\ ~Same(p, q)
    OBVIOUS
  <2>1. p.by # Session
    BY DEF Matches
  <2> QED BY <2>1 DEF Matches, Carries, Same, opVars
<1>4. OwnInv'
  BY <1>3, OwnAppend
<1> QED BY <1>1, <1>2, <1>4 DEF TypeInv

LEMMA OwnPrepare ==
  ASSUME TypeInv, OwnInv,
         \/ bt_gatt_client_prepare_write \/ bt_gatt_client_write_execute
         \/ cancel_prep_write_session
  PROVE  TypeInv' /\ OwnInv'
<1>1. CASE bt_gatt_client_prepare_write
  <2> DEFINE q == Prep(Session, 0, 1)
  <2>1. q \in Requests /\ q.by = Session /\ q.op = "PREP"
    BY RequestFacts DEF Callers
  <2>2. Matches(q)'
    BY <1>1, <2>1, Sizes DEF Matches, Carries, bt_gatt_client_prepare_write
  <2> QED BY <1>1, <2>1, <2>2, OwnSession DEF bt_gatt_client_prepare_write
<1>2. CASE bt_gatt_client_write_execute
  <2> DEFINE q == Pdu(Session, "EXEC")
  <2>1. q \in Requests /\ q.by = Session /\ q.op = "EXEC"
    BY RequestFacts DEF Callers
  <2>2. Matches(q)'
    BY <1>2, <2>1, Sizes DEF Matches, Carries, bt_gatt_client_write_execute
  <2> QED BY <1>2, <2>1, <2>2, OwnSession DEF bt_gatt_client_write_execute
<1>3. CASE cancel_prep_write_session
  <2> DEFINE q == Pdu(Session, "CANCEL")
  <2>1. q \in Requests /\ q.by = Session /\ q.op = "CANCEL"
    BY RequestFacts DEF Callers
  <2>2. Matches(q)'
    BY <1>3, <2>1, Sizes DEF Matches, Carries, cancel_prep_write_session
  <2> QED BY <1>3, <2>1, <2>2, OwnSession DEF cancel_prep_write_session
<1> QED BY <1>1, <1>2, <1>3

LEMMA OwnStartNext ==
  ASSUME TypeInv, OwnInv, start_next_long_write
  PROVE  TypeInv' /\ OwnInv'
<1>1. /\ session' = IF session = "ending" THEN "none" ELSE session
      /\ UNCHANGED <<index, cur_length, cancelled, attVars, req_queue, pending,
                     stage, srvVars, grown, stranded>>
  BY DEF start_next_long_write
<1>2. CASE long_write_queue = <<>>
  <2>1. /\ in_long_write' = FALSE /\ ctl' = "loop"
        /\ unguarded' = (unguarded \/ \E w \in Writes : phase[w] = "active")
        /\ UNCHANGED <<long_write_queue, told, phase, success>>
    BY <1>2 DEF start_next_long_write
  <2>2. TypeInv'
    BY <1>1, <2>1 DEF TypeInv, CallTypes, OpTypes, AttTypes, SrvTypes, HistTypes,
                      attVars, srvVars
  <2>3. \A p \in Requests : Matches(p) => Matches(p)'
    BY <1>1, <2>1 DEF Matches, Carries
  <2> QED BY <1>1, <2>2, <2>3, OwnKeep
<1>3. CASE long_write_queue # <<>>
  <2> DEFINE w == Head(long_write_queue)
  <2>1. /\ long_write_queue' = Tail(long_write_queue)
        /\ success' = [success EXCEPT ![w] = FALSE]
        /\ told' = [told EXCEPT ![w] = "failure"]
        /\ phase' = [phase EXCEPT ![w] = "told"]
        /\ ctl' = "next" /\ UNCHANGED <<in_long_write, unguarded>>
    BY <1>3 DEF start_next_long_write, Tell
  <2>2. /\ w \in Writes /\ phase[w] = "queued"
        /\ long_write_queue' \in Seq(Writes) /\ NoRepeat(long_write_queue')
        /\ \A v \in InSeq(long_write_queue') : v \in InSeq(long_write_queue) /\ v # w
    BY <1>3, <2>1, TailKeeps DEF TypeInv, CallTypes
  <2> HIDE DEF w
  <2>3. TypeInv'
    BY <1>1, <2>1, <2>2 DEF TypeInv, CallTypes, OpTypes, AttTypes, SrvTypes, HistTypes,
                            attVars, srvVars
  <2>4. \A p \in Requests : Matches(p) => Matches(p)'
    BY <1>1, <2>1, <2>2, RequestTypes DEF Matches, Carries, TypeInv, CallTypes, OpTypes
  <2> QED BY <1>1, <2>3, <2>4, OwnKeep
<1> QED BY <1>2, <1>3

LEMMA OwnCanWrite ==
  ASSUME TypeInv, OwnInv, NEW c \in Chan, can_write_data(c)
  PROVE  TypeInv' /\ OwnInv'
<1>1. /\ c \in up /\ pending[c] = None /\ req_queue # <<>>
      /\ pending' = [pending EXCEPT ![c] = Head(req_queue)]
      /\ stage' = [stage EXCEPT ![c] = "sent"]
      /\ req_queue' = Tail(req_queue)
      /\ UNCHANGED <<callVars, opVars, attVars, srvVars, histVars>>
  BY DEF can_write_data
<1>2. CallTypes' /\ OpTypes' /\ SrvTypes' /\ HistTypes'
  BY <1>1 DEF TypeInv, CallTypes, OpTypes, SrvTypes, HistTypes,
              callVars, opVars, attVars, srvVars, histVars
<1>3. AttTypes'
  <2>1. Head(req_queue) \in Requests /\ Tail(req_queue) \in Seq(Requests)
    BY <1>1, SeqFacts DEF TypeInv, AttTypes
  <2> QED BY <1>1, <2>1, RequestFacts DEF TypeInv, AttTypes, attVars
<1>4. OwnInv'
  BY <1>1, OwnSend DEF callVars, opVars
<1> QED BY <1>2, <1>3, <1>4 DEF TypeInv

LEMMA OwnAttach ==
  ASSUME TypeInv, OwnInv, NEW c \in Chan, bt_att_attach_chan(c)
  PROVE  TypeInv' /\ OwnInv'
<1>1. /\ c \notin seen /\ up' = up \cup {c} /\ seen' = seen \cup {c}
      /\ mtu' = Greater(mtu, ChanMtu[c])
      /\ grown' = IF mtu' > mtu
                  THEN grown \cup {w \in Writes : phase[w] = "active"} ELSE grown
      /\ UNCHANGED <<callVars, opVars, req_queue, pending, stage, srvVars, told,
                     stranded, unguarded>>
  BY DEF bt_att_attach_chan
<1>2. mtu' \in Nat \ {0} /\ (mtu' > mtu \/ mtu' = mtu)
  <2>1. ChanMtu[c] \in Nat \ {0} /\ mtu \in Nat \ {0}
    BY Sizes DEF TypeInv, AttTypes
  <2> QED BY <1>1, <2>1 DEF Greater
<1>3. CallTypes' /\ SrvTypes' /\ HistTypes' /\ AttTypes'
  BY <1>1, <1>2 DEF TypeInv, CallTypes, SrvTypes, HistTypes, AttTypes, callVars, srvVars
<1>4. OpTypes'
  BY <1>1, <1>2 DEF TypeInv, CallTypes, OpTypes, callVars, opVars
<1>5. \A p \in Requests : Matches(p) => Matches(p)'
  BY <1>1 DEF Matches, Carries, callVars, opVars
<1> QED BY <1>1, <1>3, <1>4, <1>5, OwnKeep DEF TypeInv

\* Answers and losses: what follows a request of a long write.
LEMMA OwnCallback ==
  ASSUME TypeInv, OwnInv, NEW c \in Chan, pending[c] # None,
         NEW here \in BOOLEAN, NEW ok \in BOOLEAN, Callback(pending[c], here, ok),
         pending' = [pending EXCEPT ![c] = None],
         stage' = [stage EXCEPT ![c] = "idle"],
         up' \subseteq seen, \A d \in Chan : d \in up /\ d # c => d \in up',
         UNCHANGED <<long_write_queue, cancelled, seen, mtu, srvVars, grown, unguarded>>
  PROVE  TypeInv' /\ OwnInv'
<1> DEFINE p == pending[c]
<1>1. p \in Requests /\ Matches(p) /\ pending' = [pending EXCEPT ![c] = None]
  BY AskedFacts DEF OwnInv
<1>2. /\ p.by \in Callers /\ p.op \in {"PREP", "EXEC", "DROP", "CANCEL"}
      /\ p.by # Session => p.by \in Writes
      /\ \A r \in Requests : ~Same(p, r) /\ Matches(p) /\ Matches(r) =>
            /\ Carries(p) /\ r.by = p.by => r.op = "CANCEL"
            /\ p.by = Session => r.by # Session
  BY <1>1, RequestTypes DEF Same, Carries, Matches
<1> HIDE DEF p
<1>3. SrvTypes'
  BY DEF TypeInv, SrvTypes, srvVars
<1>4. ASSUME req_queue' \in Seq(Requests)
      PROVE  AttTypes'
  <2>1. \A d \in Chan : d \notin up' => pending'[d] = None
    BY DEF TypeInv, AttTypes
  <2> QED BY <1>4, <2>1, RequestFacts DEF TypeInv, AttTypes
\* The write has ended.
<1>5. ASSUME NEW w \in Writes, p.by = w, p.op # "CANCEL",
             NEW verdict \in {"success", "failure"}, Tell(w, verdict),
             success' \in [Writes -> BOOLEAN],
             \A v \in Writes : v # w => success'[v] = success[v],
             UNCHANGED <<req_queue, index, cur_length, in_long_write, session, stranded>>
      PROVE  TypeInv' /\ OwnInv'
  <2>1. /\ phase[w] = "active" /\ Carries(p)
        /\ phase' = [phase EXCEPT ![w] = "told"] /\ told' = [told EXCEPT ![w] = verdict]
        /\ ctl' = "next"
    BY <1>1, <1>5 DEF Tell, Matches, Carries
  <2>2. CallTypes' /\ HistTypes'
    <3>1. \A v \in InSeq(long_write_queue) : v # w /\ v \in Writes
      BY <2>1 DEF TypeInv, CallTypes, InSeq
    <3> QED BY <1>5, <2>1, <3>1 DEF TypeInv, CallTypes, HistTypes
  <2>3. OpTypes'
    BY <1>5, <2>1 DEF TypeInv, CallTypes, OpTypes
  <2>4. \A r \in Requests : Matches(r) /\ ~Same(p, r) => Matches(r)'
    <3> SUFFICES ASSUME NEW r \in Requests, Matches(r), ~Same(p, r)
                 PROVE  Matches(r)'
      OBVIOUS
    <3>1. r.by = w => r.op = "CANCEL"
      BY <1>1, <1>2, <1>5, <2>1
    <3> QED BY <1>5, <2>1, <3>1 DEF Matches, Carries, TypeInv, CallTypes, OpTypes
  <2>5. OwnInv'
    BY <1>5, <2>4, OwnDrop DEF p
  <2>6. req_queue' \in Seq(Requests)
    BY <1>5 DEF TypeInv, AttTypes
  <2> QED BY <1>3, <1>4, <2>2, <2>3, <2>5, <2>6 DEF TypeInv
\* The write goes on with another request.
<1>6. ASSUME NEW w \in Writes, p.by = w, p.op # "CANCEL",
             NEW q \in Requests, q.by = w, q.op # "CANCEL", Matches(q)',
             req_queue' = <<q>> \o req_queue, OpTypes',
             \A v \in Writes : v # w => /\ index'[v] = index[v] /\ cur_length'[v] = cur_length[v]
                                        /\ success'[v] = success[v],
             UNCHANGED <<phase, ctl, told, in_long_write, session, stranded>>
      PROVE  TypeInv' /\ OwnInv'
  <2>1. Carries(p) /\ Same(p, q)
    BY <1>6 DEF Carries, Same
  <2>2. CallTypes' /\ HistTypes'
    BY <1>6 DEF TypeInv, CallTypes, HistTypes
  <2>3. \A r \in Requests : Matches(r) /\ ~Same(p, r) => Matches(r)'
    <3> SUFFICES ASSUME NEW r \in Requests, Matches(r), ~Same(p, r)
                 PROVE  Matches(r)'
      OBVIOUS
    <3>1. r.by = w => r.op = "CANCEL"
      BY <1>1, <1>2, <1>6, <2>1
    <3> QED BY <1>6, <3>1 DEF Matches, Carries
  <2>4. OwnInv'
    BY <1>6, <2>1, <2>3, OwnResend DEF p
  <2>5. req_queue' \in Seq(Requests)
    BY <1>6, PushFacts DEF TypeInv, AttTypes
  <2> QED BY <1>3, <1>4, <1>6, <2>2, <2>4, <2>5 DEF TypeInv
\* The session, and cancellations.
<1>7. ASSUME UNCHANGED <<told, phase, req_queue, index, cur_length, success>>,
             in_long_write' \in BOOLEAN, ctl' \in {"loop", "next"}, stranded' \in BOOLEAN,
             session' \in {"none", "open", "ending", session},
             session' = session \/ p.by = Session
      PROVE  TypeInv' /\ OwnInv'
  <2>1. CallTypes' /\ HistTypes' /\ OpTypes'
    BY <1>7 DEF TypeInv, CallTypes, HistTypes, OpTypes
  <2>2. \A r \in Requests : Matches(r) /\ ~Same(p, r) => Matches(r)'
    BY <1>1, <1>2, <1>7 DEF Matches, Carries
  <2>3. OwnInv'
    BY <1>7, <2>2, OwnDrop DEF p
  <2>4. req_queue' \in Seq(Requests)
    BY <1>7 DEF TypeInv, AttTypes
  <2> QED BY <1>3, <1>4, <2>1, <2>3, <2>4 DEF TypeInv
<1>8. CASE p.op = "PREP" /\ p.by # Session
  <2>0. PICK w \in Writes : w = p.by
    BY <1>2, <1>8
  <2>1. prepare_write_cb(w, here, ok) /\ p.op # "CANCEL"
    BY <1>8, <2>0 DEF Callback, p
  <2>2. /\ phase[w] = "active" /\ index[w] \in Nat /\ cur_length[w] \in Nat \ {0}
        /\ index[w] + cur_length[w] \in Nat /\ index[w] + cur_length[w] <= Length
        /\ Length \in Nat /\ mtu \in Nat \ {0} /\ w # Session
    <3>1. phase[w] = "active" /\ Length \in Nat /\ w # Session
      BY <1>1, <1>8, <2>0, Sizes DEF Matches, Carries
    <3>2. index[w] \in Nat /\ cur_length[w] \in 1 .. Length - index[w] /\ mtu \in Nat \ {0}
      BY <3>1 DEF TypeInv, OpTypes, AttTypes
    <3> QED BY <3>1, <3>2
  <2>3. PICK next \in Nat : next = index[w] + cur_length[w]
    BY <2>2
  <2>4. CASE ok /\ ~AllPrepared(next) /\ cur_length[w] >= mtu
    <3>1. PICK n \in Nat : n = Lesser(Length - next, mtu) /\ n \in 1 .. Length - next
      BY <2>2, <2>3, <2>4 DEF AllPrepared, Lesser
    <3>2. /\ index' = [index EXCEPT ![w] = next]
          /\ cur_length' = [cur_length EXCEPT ![w] = n]
          /\ req_queue' = <<Prep(w, next, cur_length'[w])>> \o req_queue
          /\ UNCHANGED <<success, told, phase, ctl, in_long_write, session, stranded>>
      BY <2>1, <2>3, <2>4, <3>1 DEF prepare_write_cb, bt_att_resend
    <3>3. /\ cur_length'[w] = n /\ index'[w] = next
          /\ \A v \in Writes : v # w => /\ index'[v] = index[v] /\ cur_length'[v] = cur_length[v]
                                        /\ success'[v] = success[v]
      BY <3>2 DEF TypeInv, OpTypes
    <3>4. PICK q \in Requests : /\ q = Prep(w, next, n) /\ q.by = w /\ q.op = "PREP"
                                /\ q.off = next /\ q.n = n
      BY PrepFacts
    <3>5. Matches(q)'
      BY <2>2, <3>2, <3>3, <3>4 DEF Matches, Carries
    <3>6. OpTypes'
      BY <2>2, <2>3, <3>1, <3>2 DEF TypeInv, OpTypes
    <3>7. req_queue' = <<q>> \o req_queue
      BY <3>2, <3>3, <3>4
    <3> QED BY <1>6, <2>0, <2>1, <3>2, <3>3, <3>4, <3>5, <3>6, <3>7
  <2>5. CASE ~(ok /\ ~AllPrepared(next) /\ cur_length[w] >= mtu)
    <3>1. complete_write_long_op(w, here, ok) /\ UNCHANGED <<index, cur_length>>
      BY <2>1, <2>3, <2>5 DEF prepare_write_cb
    <3>2. /\ success' = [success EXCEPT ![w] = ok]
          /\ UNCHANGED <<in_long_write, session, stranded>>
      BY <3>1 DEF complete_write_long_op
    <3>3. /\ success' \in [Writes -> BOOLEAN] /\ success'[w] = ok
          /\ \A v \in Writes : v # w => success'[v] = success[v]
      BY <3>2 DEF TypeInv, OpTypes
    <3>4. CASE here
      <4>1. PICK q \in Requests : /\ q = Pdu(w, IF ok THEN "EXEC" ELSE "DROP") /\ q.by = w
                                  /\ q.op \in {"EXEC", "DROP"} /\ (q.op = "DROP" => ~ok)
        BY PduFacts
      <4>2. req_queue' = <<q>> \o req_queue /\ UNCHANGED <<told, phase, ctl>>
        BY <3>1, <3>4, <4>1 DEF complete_write_long_op, bt_att_resend
      <4>3. Matches(q)'
        BY <2>2, <3>3, <4>1, <4>2 DEF Matches, Carries
      <4>4. OpTypes'
        BY <2>2, <3>1, <3>2, <3>3, <4>2 DEF TypeInv, OpTypes
      <4> QED BY <1>6, <2>0, <2>1, <3>1, <3>2, <3>3, <4>1, <4>2, <4>3, <4>4
    <3>5. CASE ~here
      <4>1. Tell(w, "failure") /\ UNCHANGED req_queue
        BY <3>1, <3>5 DEF complete_write_long_op
      <4> QED BY <1>5, <2>0, <2>1, <3>1, <3>2, <3>3, <4>1
    <3> QED BY <3>4, <3>5
  <2> QED BY <2>4, <2>5
<1>9. CASE p.op \in {"EXEC", "DROP"} /\ p.by # Session
  <2>1. /\ execute_write_cb(p.by, ok) /\ p.by \in Writes
        /\ success \in [Writes -> BOOLEAN]
    BY <1>2, <1>9 DEF Callback, p, TypeInv, OpTypes
  <2> QED BY <1>5, <1>9, <2>1 DEF execute_write_cb
<1>10. CASE p.op = "CANCEL" /\ p.by # Session
  <2>1. cancel_long_write_cb
    BY <1>10 DEF Callback, p
  <2> QED BY <1>7, <2>1 DEF cancel_long_write_cb, TypeInv, CallTypes, HistTypes
<1>11. CASE p.by = Session
  <2>1. p.op \in {"PREP", "EXEC", "CANCEL"}
    BY <1>1, <1>11 DEF Matches
  <2>2. prep_write_cb \/ exec_write_cb \/ cancel_prep_write_cb
    BY <1>11, <2>1 DEF Callback, p
  <2> QED BY <1>7, <1>11, <2>2 DEF prep_write_cb, exec_write_cb, cancel_prep_write_cb,
                                  TypeInv, CallTypes, HistTypes
<1> QED BY <1>2, <1>8, <1>9, <1>10, <1>11

LEMMA OwnHandleRsp ==
  ASSUME TypeInv, OwnInv, NEW c \in Chan, handle_rsp(c)
  PROVE  TypeInv' /\ OwnInv'
<1>1. /\ stage[c] \in {"ok", "error"} /\ Callback(pending[c], TRUE, stage[c] = "ok")
      /\ pending' = [pending EXCEPT ![c] = None]
      /\ stage' = [stage EXCEPT ![c] = "idle"]
      /\ UNCHANGED <<long_write_queue, cancelled, attVars, srvVars, grown, unguarded>>
  BY DEF handle_rsp
<1>2. pending[c] # None /\ up \subseteq seen
  BY <1>1 DEF TypeInv, AttTypes
<1>3. (stage[c] = "ok") \in BOOLEAN
  OBVIOUS
<1> QED BY <1>1, <1>2, <1>3, OwnCallback DEF attVars

LEMMA OwnDisconnect ==
  ASSUME TypeInv, OwnInv, NEW c \in Chan, disconnect_cb(c)
  PROVE  TypeInv' /\ OwnInv'
<1>1. /\ c \in up /\ up' = up \ {c}
      /\ pending' = [pending EXCEPT ![c] = None]
      /\ stage' = [stage EXCEPT ![c] = "idle"]
      /\ UNCHANGED <<long_write_queue, cancelled, seen, mtu, srvVars, grown, unguarded>>
  BY DEF disconnect_cb
<1>2. up' \subseteq seen /\ \A d \in Chan : d \in up /\ d # c => d \in up'
  BY <1>1 DEF TypeInv, AttTypes
<1>3. CASE pending[c] # None
  BY <1>1, <1>2, <1>3, OwnCallback DEF disconnect_cb
<1>4. CASE pending[c] = None
  <2>1. /\ UNCHANGED <<told, phase, ctl, in_long_write, session, stranded,
                       req_queue, index, cur_length, success>>
        /\ UNCHANGED pending
    BY <1>1, <1>4 DEF disconnect_cb, TypeInv, AttTypes
  <2>2. TypeInv'
    BY <1>1, <1>2, <2>1 DEF TypeInv, CallTypes, OpTypes, AttTypes, SrvTypes, HistTypes, srvVars
  <2>3. \A p \in Requests : Matches(p) => Matches(p)'
    BY <1>1, <2>1 DEF Matches, Carries
  <2> QED BY <2>1, <2>2, <2>3, OwnKeep
<1> QED BY <1>3, <1>4

LEMMA ItemFacts ==
  ASSUME TypeInv
  PROVE  /\ NoItem \in Items
         /\ <<>> \in Seq(Items)
         /\ prep_queue # <<>> => Head(prep_queue) \in Items /\ Tail(prep_queue) \in Seq(Items)
<1>1. NoItem \in Items
  BY DEF NoItem, Items, Callers
<1> QED BY <1>1, SeqFacts DEF TypeInv, SrvTypes

LEMMA StoreFacts ==
  ASSUME TypeInv, NEW p \in Requests
  PROVE  /\ store_prep_data(p) \in Seq(Items)
         /\ UNION {store_prep_data(p)[i].data : i \in DOMAIN store_prep_data(p)}
              = Stored \cup {<<p.by, k>> : k \in p.off .. p.off + p.n - 1}
<1> DEFINE h    == Handle[p.by]
           data == {<<p.by, k>> : k \in p.off .. p.off + p.n - 1}
           last == prep_queue[Len(prep_queue)]
           more == [last EXCEPT !.n = @ + p.n, !.data = @ \cup data]
           fresh == [handle |-> h, off |-> p.off, n |-> p.n, data |-> data]
           s == store_prep_data(p)
<1>1. /\ p.by \in Callers /\ p.off \in Nat /\ p.n \in Nat
      /\ data \subseteq Callers \X Nat
  <2>1. p.by \in Callers /\ p.off \in Nat /\ p.n \in Nat
    BY RequestTypes
  <2>2. \A k \in p.off .. p.off + p.n - 1 : k \in Nat
    BY <2>1
  <2> QED BY <2>1, <2>2
<1>2. /\ prep_queue \in Seq(Items) /\ Len(prep_queue) \in Nat
      /\ DOMAIN prep_queue = 1 .. Len(prep_queue)
      /\ \A i \in DOMAIN prep_queue : prep_queue[i] \in Items
  BY SeqFacts DEF TypeInv, SrvTypes
<1> HIDE DEF data
<1>3. CASE prep_queue # <<>> /\ last.handle = h /\ p.off = last.off + last.n
  <2>1. s = [prep_queue EXCEPT ![Len(prep_queue)] = more]
    BY <1>3 DEF store_prep_data, data
  <2>2. Len(prep_queue) \in DOMAIN prep_queue /\ last \in Items
    BY <1>2, <1>3
  <2>3. more \in Items /\ more.data = last.data \cup data
    <3> HIDE DEF last
    <3>1. last.n + p.n \in Nat /\ last.data \cup data \in SUBSET (Callers \X Nat)
      BY <1>1, <2>2 DEF Items
    <3> QED BY <2>2, <3>1 DEF Items
  <2> HIDE DEF more
  <2>4. s \in Seq(Items)
    BY <1>2, <2>1, <2>2, <2>3, ChangeFacts
  <2>5. /\ DOMAIN s = DOMAIN prep_queue /\ s[Len(prep_queue)] = more
        /\ \A i \in DOMAIN prep_queue : i # Len(prep_queue) => s[i] = prep_queue[i]
    BY <1>2, <2>1, <2>2
  <2> HIDE DEF s
  <2>6. UNION {s[i].data : i \in DOMAIN s} = Stored \cup data
    <3>1. ASSUME NEW d, d \in UNION {s[i].data : i \in DOMAIN s}
          PROVE  d \in Stored \cup data
      <4>1. PICK i \in DOMAIN s : d \in s[i].data
        BY <3>1
      <4> QED BY <4>1, <2>2, <2>3, <2>5 DEF Stored
    <3>2. ASSUME NEW d, d \in Stored
          PROVE  d \in UNION {s[i].data : i \in DOMAIN s}
      <4>1. PICK i \in DOMAIN prep_queue : d \in prep_queue[i].data
        BY <3>2 DEF Stored
      <4>2. d \in s[i].data
        BY <4>1, <2>3, <2>5
      <4> QED BY <4>1, <4>2, <2>5
    <3>3. ASSUME NEW d \in data
          PROVE  d \in UNION {s[i].data : i \in DOMAIN s}
      BY <3>3, <2>2, <2>3, <2>5
    <3> QED BY <3>1, <3>2, <3>3
  <2> QED BY <2>4, <2>6 DEF s, data
<1>4. CASE ~(prep_queue # <<>> /\ last.handle = h /\ p.off = last.off + last.n)
  <2>1. s = Append(prep_queue, fresh)
    BY <1>4 DEF store_prep_data, data
  <2>2. fresh \in Items /\ fresh.data = data
    BY <1>1 DEF Items
  <2> HIDE DEF fresh
  <2>3. /\ s \in Seq(Items) /\ DOMAIN s = 1 .. Len(prep_queue) + 1
        /\ s[Len(prep_queue) + 1] = fresh
        /\ \A i \in DOMAIN prep_queue : s[i] = prep_queue[i]
    BY <1>2, <2>1, <2>2, AppendFacts
  <2> HIDE DEF s
  <2>4. \A i \in DOMAIN s : i \in DOMAIN prep_queue \/ i = Len(prep_queue) + 1
    BY <1>2, <2>3
  <2>5. DOMAIN prep_queue \subseteq DOMAIN s /\ Len(prep_queue) + 1 \in DOMAIN s
    BY <1>2, <2>3
  <2>6. UNION {s[i].data : i \in DOMAIN s} = Stored \cup data
    <3>1. ASSUME NEW d, d \in UNION {s[i].data : i \in DOMAIN s}
          PROVE  d \in Stored \cup data
      <4>1. PICK i \in DOMAIN s : d \in s[i].data
        BY <3>1
      <4> QED BY <4>1, <2>2, <2>3, <2>4 DEF Stored
    <3>2. ASSUME NEW d, d \in Stored
          PROVE  d \in UNION {s[i].data : i \in DOMAIN s}
      <4>1. PICK i \in DOMAIN prep_queue : d \in prep_queue[i].data
        BY <3>2 DEF Stored
      <4>2. d \in s[i].data /\ i \in DOMAIN s
        BY <4>1, <2>3, <2>5
      <4> QED BY <4>2
    <3>3. ASSUME NEW d \in data
          PROVE  d \in UNION {s[i].data : i \in DOMAIN s}
      BY <3>3, <2>2, <2>3, <2>5
    <3> QED BY <3>1, <3>2, <3>3
  <2> QED BY <2>3, <2>6 DEF s, data
<1> QED BY <1>3, <1>4

LEMMA OwnServer ==
  ASSUME TypeInv, OwnInv, NEW c \in Chan, Server(c)
  PROVE  TypeInv' /\ OwnInv'
<1>1. /\ UNCHANGED <<callVars, opVars, attVars, req_queue, pending, histVars>>
      /\ stage[c] \in {"sent", "checking", "walking"}
  BY DEF Server, srv_prep_write, prep_write_complete_cb, srv_exec_write,
         exec_write_complete_cb
<1>2. CallTypes' /\ OpTypes' /\ HistTypes'
  BY <1>1 DEF TypeInv, CallTypes, OpTypes, HistTypes, callVars, opVars, attVars, histVars
<1>3. OwnInv'
  <2>1. \A p \in Requests : Matches(p) => Matches(p)'
    BY <1>1 DEF Matches, Carries, callVars, opVars
  <2> QED BY <1>1, <2>1, OwnKeep
<1>4. ASSUME NEW st \in {"checking", "walking", "ok", "error"}, Reply(c, st),
             st = "checking" => pending[c].op = "PREP",
             st = "walking" => pending[c].op = "EXEC"
      PROVE  AttTypes'
  BY <1>1, <1>4 DEF TypeInv, AttTypes, Reply, attVars
<1>5. CASE srv_prep_write(c)
  <2>1. AttTypes'
    BY <1>4, <1>5 DEF srv_prep_write
  <2>2. SrvTypes'
    BY <1>5 DEF srv_prep_write, TypeInv, SrvTypes, srvVars
  <2> QED BY <1>2, <1>3, <2>1, <2>2 DEF TypeInv
<1>6. ASSUME NEW err \in BOOLEAN, prep_write_complete_cb(c, err)
      PROVE  TypeInv'
  <2>1. AttTypes'
    BY <1>4, <1>6 DEF prep_write_complete_cb
  <2>2. pending[c] \in Requests
    BY <1>1, AskedFacts DEF TypeInv, AttTypes
  <2>3. SrvTypes'
    BY <1>6, <2>2, StoreFacts DEF prep_write_complete_cb, TypeInv, SrvTypes
  <2> QED BY <1>2, <1>3, <2>1, <2>3 DEF TypeInv
<1>7. ASSUME exec_next_prep_write(c), pending[c].op = "EXEC", wrote' \in [Callers -> SUBSET Bytes]
      PROVE  TypeInv'
  <2>1. AttTypes'
    BY <1>4, <1>7 DEF exec_next_prep_write
  <2>2. prep_queue' \in Seq(Items) /\ item' \in [Chan -> Items]
    BY <1>7, ItemFacts DEF exec_next_prep_write, TypeInv, SrvTypes
  <2> QED BY <1>2, <1>3, <1>7, <2>1, <2>2 DEF TypeInv, SrvTypes
<1>8. CASE srv_exec_write(c)
  <2>1. CASE pending[c].op # "EXEC" \/ Refused
    <3>1. AttTypes'
      BY <1>4, <1>8, <2>1 DEF srv_exec_write
    <3>2. SrvTypes'
      BY <1>8, <2>1, ItemFacts DEF srv_exec_write, TypeInv, SrvTypes
    <3> QED BY <1>2, <1>3, <3>1, <3>2 DEF TypeInv
  <2>2. CASE ~(pending[c].op # "EXEC" \/ Refused)
    BY <1>3, <1>7, <1>8, <2>2 DEF srv_exec_write, TypeInv, SrvTypes
  <2> QED BY <2>1, <2>2
<1>9. ASSUME NEW err \in BOOLEAN, exec_write_complete_cb(c, err)
      PROVE  TypeInv'
  <2>1. pending[c].op = "EXEC"
    BY <1>9 DEF exec_write_complete_cb, TypeInv, AttTypes
  <2>2. CASE err
    <3>1. AttTypes'
      BY <1>4, <1>9, <2>2 DEF exec_write_complete_cb
    <3>2. SrvTypes'
      BY <1>9, <2>2, ItemFacts DEF exec_write_complete_cb, TypeInv, SrvTypes
    <3> QED BY <1>2, <1>3, <3>1, <3>2 DEF TypeInv
  <2>3. CASE ~err
    <3>1. wrote' \in [Callers -> SUBSET Bytes]
      BY <1>9, <2>3 DEF exec_write_complete_cb, TypeInv, SrvTypes
    <3> QED BY <1>7, <1>9, <2>1, <2>3, <3>1 DEF exec_write_complete_cb
  <2> QED BY <2>2, <2>3
<1> QED BY <1>3, <1>5, <1>6, <1>8, <1>9 DEF Server

LEMMA InitOwn == Init => TypeInv /\ OwnInv
<1> SUFFICES ASSUME Init PROVE TypeInv /\ OwnInv
  OBVIOUS
<1> USE DEF Init
<1>1. CallTypes /\ HistTypes
  <2>1. <<>> \in Seq(Writes) /\ DOMAIN <<>> = {}
    OBVIOUS
  <2> QED BY <2>1 DEF CallTypes, HistTypes, InSeq, NoRepeat
<1>2. OpTypes
  BY DEF OpTypes
<1>3. AttTypes
  BY Sizes DEF AttTypes
<1>4. OwnInv
  BY RequestFacts DEF OwnInv, Asked, InSeq
<1>5. SrvTypes
  <2>1. NoItem \in Items
    BY DEF NoItem, Items, Callers
  <2> QED BY <2>1 DEF SrvTypes
<1> QED BY <1>1, <1>2, <1>3, <1>4, <1>5 DEF TypeInv

LEMMA NextOwn == TypeInv /\ OwnInv /\ [Next]_vars => TypeInv' /\ OwnInv'
<1> SUFFICES ASSUME TypeInv, OwnInv, [Next]_vars PROVE TypeInv' /\ OwnInv'
  OBVIOUS
<1>1. CASE UNCHANGED vars
  <2>1. TypeInv'
    BY <1>1 DEF TypeInv, CallTypes, OpTypes, AttTypes, SrvTypes, HistTypes, vars,
                callVars, opVars, attVars, srvVars, histVars
  <2>2. \A p \in Requests : Matches(p) => Matches(p)'
    BY <1>1 DEF Matches, Carries, vars, callVars, opVars
  <2> QED BY <1>1, <2>1, <2>2, OwnKeep DEF vars
<1>2. CASE User
  BY <1>2, OwnWriteLong, OwnCancelLong, OwnPrepare DEF User
<1> QED BY <1>1, <1>2, OwnStartNext, OwnCanWrite, OwnHandleRsp, OwnAttach, OwnDisconnect,
           OwnServer DEF Next

\* The client's operations, the channels and the queues stay what they are, whatever
\* the user does and whoever answers.
THEOREM LongTypes == Spec => []TypeOK
<1>1. TypeInv => TypeOK
  <2>1. TypeInv => \A i \in DOMAIN long_write_queue : long_write_queue[i] \in InSeq(long_write_queue)
    BY DEF InSeq
  <2> QED BY <2>1 DEF TypeInv, CallTypes, OpTypes, AttTypes, TypeOK
<1> QED BY <1>1, InitOwn, NextOwn, PTL DEF Spec

-----------------------------------------------------------------------------
(* The line of requests before the server.                                  *)

LEMMA LineFacts ==
  ASSUME TypeInv, OwnInv, OneBusy
  PROVE  /\ Line \in Seq(Requests) /\ Len(Line) \in Nat /\ DOMAIN Line = 1 .. Len(Line)
         /\ Line = <<>> <=> Len(Line) = 0
         /\ \A i \in DOMAIN Line : Line[i] \in Requests /\ Matches(Line[i])
         /\ Busy = {} => Line = req_queue /\ Service = "sent"
         /\ Line = <<>> => Busy = {} /\ Service = "sent"
         /\ \A c \in Busy : /\ c = BusyChan /\ c \in Chan /\ pending[c] \in Requests
                            /\ Line = <<pending[c]>> \o req_queue /\ Line[1] = pending[c]
                            /\ Len(Line) = Len(req_queue) + 1
                            /\ Service = stage[c] /\ Busy # {}
<1>1. /\ req_queue \in Seq(Requests)
      /\ \A i \in DOMAIN req_queue : req_queue[i] \in Requests /\ Matches(req_queue[i])
      /\ \A c \in Busy : pending[c] \in Requests /\ Matches(pending[c])
  BY AskedFacts DEF TypeInv, AttTypes, OwnInv, Busy
<1>2. CASE Busy = {}
  <2>1. Line = req_queue /\ Service = "sent"
    BY <1>2 DEF Line, Service
  <2> QED BY <1>1, <1>2, <2>1, SeqFacts
<1>3. ASSUME NEW c \in Busy
      PROVE  /\ c = BusyChan /\ Line = <<pending[c]>> \o req_queue /\ Service = stage[c]
             /\ Line \in Seq(Requests) /\ Len(Line) = Len(req_queue) + 1 /\ Line[1] = pending[c]
             /\ \A i \in DOMAIN Line : Line[i] \in Requests /\ Matches(Line[i])
  <2>1. c = BusyChan
    BY DEF BusyChan, OneBusy
  <2>2. Line = <<pending[c]>> \o req_queue /\ Service = stage[c]
    BY <2>1 DEF Line, Service
  <2>3. /\ Line \in Seq(Requests) /\ Len(Line) = Len(req_queue) + 1 /\ Line[1] = pending[c]
        /\ \A i \in 2 .. Len(req_queue) + 1 : Line[i] = req_queue[i - 1]
    BY <1>1, <2>2, PushFacts
  <2>4. Len(req_queue) \in Nat /\ DOMAIN req_queue = 1 .. Len(req_queue)
    BY <1>1, SeqFacts
  <2>5. \A i \in DOMAIN Line : i = 1 \/ (i \in 2 .. Len(req_queue) + 1 /\ i - 1 \in DOMAIN req_queue)
    BY <2>3, <2>4, SeqFacts
  <2> QED BY <1>1, <2>1, <2>2, <2>3, <2>5
<1>4. CASE Busy # {}
  <2>1. \E c \in Busy : TRUE
    BY <1>4
  <2>2. Line \in Seq(Requests) /\ \A i \in DOMAIN Line : Line[i] \in Requests /\ Matches(Line[i])
    BY <1>3, <2>1
  <2>3. /\ Len(Line) \in Nat /\ DOMAIN Line = 1 .. Len(Line)
        /\ Line = <<>> <=> Len(Line) = 0
    BY <2>2, SeqFacts
  <2>4. Line # <<>>
    <3>1. \E c \in Busy : Len(Line) = Len(req_queue) + 1
      BY <1>3, <2>1
    <3>2. Len(req_queue) \in Nat
      BY <1>1, SeqFacts
    <3> QED BY <2>3, <3>1, <3>2
  <2> QED BY <1>1, <1>3, <1>4, <2>2, <2>3, <2>4 DEF Busy
<1> QED BY <1>2, <1>4

LEMMA LineKept ==
  ASSUME UNCHANGED <<req_queue, pending>>
  PROVE  /\ Busy' = Busy /\ BusyChan' = BusyChan /\ Line' = Line
         /\ UNCHANGED stage => Service' = Service
<1>1. Busy' = Busy
  BY DEF Busy
<1>2. BusyChan' = BusyChan
  BY <1>1 DEF BusyChan
<1> QED BY <1>1, <1>2 DEF Line, Service

LEMMA LineAppended ==
  ASSUME TypeInv, OwnInv, OneBusy, NEW q \in Requests,
         req_queue' = Append(req_queue, q), UNCHANGED <<pending, stage>>
  PROVE  /\ OneBusy' /\ Busy' = Busy /\ BusyChan' = BusyChan /\ Service' = Service
         /\ DOMAIN Line' = 1 .. Len(Line) + 1 /\ Len(Line') = Len(Line) + 1
         /\ \A i \in DOMAIN Line : Line'[i] = Line[i]
         /\ Line'[Len(Line) + 1] = q /\ Line' # <<>>
<1>1. Busy' = Busy
  BY DEF Busy
<1>2. BusyChan' = BusyChan
  BY <1>1 DEF BusyChan
<1>3. req_queue \in Seq(Requests)
  BY DEF TypeInv, AttTypes
<1>4. Line' = Append(Line, q) /\ Line \in Seq(Requests)
  <2>1. CASE Busy = {}
    BY <1>1, <1>3, <2>1 DEF Line
  <2>2. CASE Busy # {}
    <3>1. PICK c \in Busy : TRUE
      BY <2>2
    <3>2. Line = <<pending[c]>> \o req_queue /\ c = BusyChan /\ pending[c] \in Requests
      BY <3>1, LineFacts
    <3>3. Line' = <<pending[c]>> \o Append(req_queue, q)
      BY <1>1, <1>2, <2>2, <3>2 DEF Line
    <3> QED BY <1>3, <3>2, <3>3
  <2> QED BY <2>1, <2>2
<1>5. Line' \in Seq(Requests) /\ Len(Line) \in Nat
  BY <1>4, AppendFacts, SeqFacts
<1>6. Line' # <<>>
  BY <1>4
<1> QED BY <1>1, <1>2, <1>4, <1>5, <1>6, AppendFacts, SeqFacts DEF Service, OneBusy

LEMMA LineSent ==
  ASSUME TypeInv, OwnInv, Busy = {}, NEW c \in Chan, req_queue # <<>>,
         pending' = [pending EXCEPT ![c] = Head(req_queue)],
         stage' = [stage EXCEPT ![c] = "sent"], req_queue' = Tail(req_queue)
  PROVE  OneBusy' /\ Line' = Line /\ Service' = Service
<1>1. /\ req_queue \in Seq(Requests) /\ Head(req_queue) \in Requests
      /\ Head(req_queue) # None
  BY SeqFacts, RequestFacts DEF TypeInv, AttTypes
<1>2. pending'[c] = Head(req_queue) /\ stage'[c] = "sent"
      /\ \A d \in Chan : d # c => pending'[d] = pending[d]
  BY DEF TypeInv, AttTypes
<1>3. Busy' = {c}
  BY <1>1, <1>2 DEF Busy
<1>4. BusyChan' = c
  BY <1>3 DEF BusyChan
<1>5. Line' = <<Head(req_queue)>> \o Tail(req_queue)
  BY <1>2, <1>3, <1>4 DEF Line
<1>6. <<Head(req_queue)>> \o Tail(req_queue) = req_queue
  BY <1>1
<1> QED BY <1>2, <1>3, <1>4, <1>5, <1>6 DEF Line, Service, OneBusy

LEMMA LineDropped ==
  ASSUME TypeInv, OwnInv, OneBusy, NEW c \in Busy,
         pending' = [pending EXCEPT ![c] = None], UNCHANGED req_queue
  PROVE  /\ OneBusy' /\ Service' = "sent" /\ (Line' # <<>> => 1 \in DOMAIN Line')
         /\ Len(Line) \in Nat \ {0} /\ 1 \in DOMAIN Line /\ Line[1] = pending[c]
         /\ Len(Line') = Len(Line) - 1 /\ DOMAIN Line' = 1 .. Len(Line) - 1
         /\ \A i \in DOMAIN Line' : i + 1 \in DOMAIN Line /\ Line'[i] = Line[i + 1]
<1>1. /\ req_queue \in Seq(Requests) /\ Len(req_queue) \in Nat
      /\ DOMAIN req_queue = 1 .. Len(req_queue)
  BY SeqFacts DEF TypeInv, AttTypes
<1>2. Busy' = {}
  BY DEF Busy, OneBusy, TypeInv, AttTypes
<1>3. Line' = req_queue /\ Service' = "sent" /\ OneBusy'
  BY <1>2 DEF Line, Service, OneBusy
<1>4. /\ pending[c] \in Requests /\ Line = <<pending[c]>> \o req_queue
      /\ Line[1] = pending[c] /\ Len(Line) = Len(req_queue) + 1
      /\ DOMAIN Line = 1 .. Len(Line)
  BY LineFacts
<1>5. \A i \in 1 .. Len(req_queue) : Line[i + 1] = req_queue[i]
  BY <1>1, <1>4, PushFacts
<1>6. Line' # <<>> => 1 \in DOMAIN Line'
  BY <1>1, <1>3, SeqFacts
<1> QED BY <1>1, <1>3, <1>4, <1>5, <1>6

LEMMA LineResent ==
  ASSUME TypeInv, OwnInv, OneBusy, NEW c \in Busy, NEW q \in Requests,
         pending' = [pending EXCEPT ![c] = None], req_queue' = <<q>> \o req_queue
  PROVE  /\ OneBusy' /\ Service' = "sent"
         /\ Len(Line) \in Nat \ {0} /\ 1 \in DOMAIN Line /\ Line[1] = pending[c]
         /\ Len(Line') = Len(Line) /\ DOMAIN Line' = DOMAIN Line /\ Line'[1] = q
         /\ DOMAIN Line = 1 .. Len(Line)
         /\ \A i \in DOMAIN Line : i # 1 => Line'[i] = Line[i]
<1>1. /\ req_queue \in Seq(Requests) /\ Len(req_queue) \in Nat
      /\ DOMAIN req_queue = 1 .. Len(req_queue)
  BY SeqFacts DEF TypeInv, AttTypes
<1>2. Busy' = {}
  BY DEF Busy, OneBusy, TypeInv, AttTypes
<1>3. Line' = <<q>> \o req_queue /\ Service' = "sent" /\ OneBusy'
  BY <1>2 DEF Line, Service, OneBusy
<1>4. /\ pending[c] \in Requests /\ Line = <<pending[c]>> \o req_queue
      /\ Line[1] = pending[c] /\ Len(Line) = Len(req_queue) + 1
      /\ DOMAIN Line = 1 .. Len(Line)
  BY LineFacts
<1>5. /\ \A i \in 2 .. Len(req_queue) + 1 : Line[i] = req_queue[i - 1] /\ Line'[i] = req_queue[i - 1]
      /\ Len(Line') = Len(req_queue) + 1 /\ Line'[1] = q /\ Line' \in Seq(Requests)
  BY <1>1, <1>3, <1>4, PushFacts
<1>6. DOMAIN Line' = 1 .. Len(Line')
  BY <1>5, SeqFacts
<1> QED BY <1>1, <1>3, <1>4, <1>5, <1>6

-----------------------------------------------------------------------------
(* What the changes of the line do to the order of writes.                  *)

LEMMA Onward ==
  ASSUME TypeInv, Next
  PROVE  /\ cancelled \subseteq cancelled' /\ seen \subseteq seen' /\ grown \subseteq grown'
         /\ unguarded => unguarded'
         /\ Overtaken => Overtaken'
<1>1. CASE User
  <2>1. cancelled \subseteq cancelled' /\ UNCHANGED <<seen, grown, unguarded>>
    BY <1>1 DEF User, bt_gatt_client_write_long_value, cancel_long_write_req,
                bt_gatt_client_prepare_write, bt_gatt_client_write_execute,
                cancel_prep_write_session, opVars, attVars, histVars
  <2> QED BY <2>1 DEF Overtaken
<1>2. CASE start_next_long_write
  BY <1>2 DEF start_next_long_write, TypeInv, HistTypes, attVars, Overtaken
<1>3. ASSUME NEW c \in Chan, can_write_data(c) \/ handle_rsp(c) \/ disconnect_cb(c) \/ Server(c)
      PROVE  UNCHANGED <<cancelled, seen, grown, unguarded>>
  BY <1>3 DEF can_write_data, handle_rsp, disconnect_cb, Server, srv_prep_write,
              prep_write_complete_cb, srv_exec_write, exec_write_complete_cb,
              opVars, attVars, histVars
<1>4. ASSUME NEW c \in Chan, bt_att_attach_chan(c)
      PROVE  /\ cancelled' = cancelled /\ seen' = seen \cup {c} /\ c \notin seen
             /\ grown \subseteq grown' /\ unguarded' = unguarded /\ 1 \in seen
  BY <1>4 DEF bt_att_attach_chan, opVars, TypeInv, AttTypes
<1>6. ASSUME NEW c \in Chan, bt_att_attach_chan(c)
      PROVE  Overtaken => Overtaken'
  <2>1. c # 1 /\ c \in seen'
    BY <1>4, <1>6
  <2> QED BY <1>4, <1>6, <2>1 DEF Overtaken
<1>7. ASSUME NEW c \in Chan, can_write_data(c) \/ handle_rsp(c) \/ disconnect_cb(c) \/ Server(c)
      PROVE  /\ UNCHANGED <<cancelled, seen, grown, unguarded>>
             /\ Overtaken => Overtaken'
  BY <1>3, <1>7 DEF Overtaken
<1>8. CASE \E c \in Chan : bt_att_attach_chan(c)
  BY <1>4, <1>6, <1>8
<1>9. CASE \E c \in Chan : can_write_data(c) \/ handle_rsp(c) \/ disconnect_cb(c) \/ Server(c)
  BY <1>7, <1>9
<1>10. \/ User \/ start_next_long_write \/ \E c \in Chan : bt_att_attach_chan(c)
       \/ \E c \in Chan : can_write_data(c) \/ handle_rsp(c) \/ disconnect_cb(c) \/ Server(c)
  BY DEF Next
<1> QED BY <1>1, <1>2, <1>8, <1>9, <1>10

\* The line and the server are as before.
LEMMA KeepSerial ==
  ASSUME Serial, UNCHANGED <<req_queue, pending, stage, srvVars>>,
         Guarded' => /\ Guarded
                     /\ \/ in_long_write' = in_long_write
                        \/ \A i \in DOMAIN Line : ~Carries(Line[i]),
         session' = session \/ (session = "ending" /\ session' = "none"),
         grown \subseteq grown', Lost => Lost'
  PROVE  Serial'
<1>1. /\ Line' = Line /\ Busy' = Busy /\ BusyChan' = BusyChan /\ Service' = Service
      /\ OneBusy' = OneBusy /\ Stored' = Stored
  BY LineKept DEF OneBusy, Stored, srvVars
<1>2. LineInv'
  BY <1>1 DEF Serial, LineInv, Carries
<1>3. CoverInv'
  BY <1>1 DEF Serial, CoverInv, Carries, Has, srvVars
<1>4. StoreInv => StoreInv'
  BY <1>1 DEF StoreInv, Whose, Carries, srvVars
<1> QED BY <1>2, <1>3, <1>4 DEF Serial

LEMMA AppendSerial ==
  ASSUME TypeInv, OwnInv, Serial, NEW q \in Requests,
         req_queue' = Append(req_queue, q),
         UNCHANGED <<pending, stage, srvVars, up, seen, grown>>,
         Guarded' => Guarded /\ Line = <<>> /\ (Carries(q) => in_long_write'),
         Carries(q) => /\ q.op = "PREP" /\ q.off = 0 /\ session = "none" /\ session' = "none",
         \/ session' = session
         \/ session = "none" /\ session' = "preparing"
         \/ session = "open" /\ session' \in {"executing", "cancelling"}
  PROVE  Serial'
<1>1. OneBusy /\ LineInv /\ CoverInv
  BY DEF Serial, LineInv
<1>2. /\ Line = <<>> <=> Len(Line) = 0
      /\ Line = <<>> => Busy = {} /\ Service = "sent"
      /\ \A i \in DOMAIN Line : Line[i] \in Requests /\ Matches(Line[i])
      /\ DOMAIN Line = 1 .. Len(Line) /\ Len(Line) \in Nat
  BY <1>1, LineFacts
<1>3. /\ OneBusy' /\ Busy' = Busy /\ BusyChan' = BusyChan /\ Service' = Service
      /\ DOMAIN Line' = 1 .. Len(Line) + 1 /\ Len(Line') = Len(Line) + 1
      /\ \A i \in DOMAIN Line : Line'[i] = Line[i]
      /\ Line'[Len(Line) + 1] = q /\ Line' # <<>>
  BY <1>1, LineAppended
<1>4. Stored' = Stored /\ Lost' = Lost
  BY DEF Stored, Lost, srvVars
<1>5. \A i \in DOMAIN Line' : i \in DOMAIN Line \/ i = Len(Line) + 1
  BY <1>2, <1>3
<1>6. Line = <<>> => Service' = "sent" /\ Line' # <<>> /\ Line'[1] = q
  <2> SUFFICES ASSUME Line = <<>>
               PROVE  Service' = "sent" /\ Line' # <<>> /\ Line'[1] = q
    OBVIOUS
  <2>1. Service' = "sent" /\ Len(Line) = 0
    BY <1>2, <1>3
  <2> QED BY <1>3, <2>1
<1>7. Line # <<>> => Line' # <<>> /\ Line'[1] = Line[1] /\ 1 \in DOMAIN Line
  BY <1>2, <1>3
<1>8. LineInv'
  <2>1. Guarded' => Len(Line') <= 1 /\ \A i \in DOMAIN Line' : Carries(Line'[i]) => in_long_write'
    BY <1>2, <1>3
  <2>2. \A i \in DOMAIN Line' : i > 1 /\ Carries(Line'[i]) =>
           Line'[i].op = "PREP" /\ Line'[i].off = 0
    BY <1>1, <1>3, <1>5 DEF LineInv
  <2>3. session' \in {"open", "executing", "cancelling", "ending"} =>
           \A i \in DOMAIN Line' : ~Carries(Line'[i])
    BY <1>1, <1>3, <1>5 DEF LineInv
  <2>4. session = "none" => \A i \in DOMAIN Line : Line[i].by # Session
    BY <1>2 DEF Matches
  <2>5. Carries(q) => q.by # Session
    BY Sizes DEF Carries
  <2>6. \A i, j \in DOMAIN Line' : Carries(Line'[i]) /\ Line'[j].by = Session => i < j
    <3> SUFFICES ASSUME NEW i \in DOMAIN Line', NEW j \in DOMAIN Line',
                        Carries(Line'[i]), Line'[j].by = Session
                 PROVE  i < j
      OBVIOUS
    <3>1. CASE i \in DOMAIN Line /\ j \in DOMAIN Line
      BY <1>1, <1>3, <3>1 DEF LineInv
    <3>2. CASE i = Len(Line) + 1
      BY <1>3, <1>5, <2>4, <2>5, <3>2
    <3>3. CASE i \in DOMAIN Line /\ j = Len(Line) + 1
      BY <1>2, <3>3
    <3> QED BY <1>5, <3>1, <3>2, <3>3
  <2> QED BY <1>3, <2>1, <2>2, <2>3, <2>6 DEF LineInv, Carries
<1>9. CoverInv'
  <2>1. CASE Line = <<>>
    <3>1. Carries(q) => q.op = "PREP" /\ q.off = 0
      OBVIOUS
    <3> QED BY <1>6, <2>1, <3>1 DEF CoverInv, Carries, Has
  <2>2. CASE Line # <<>>
    BY <1>1, <1>3, <1>4, <1>7, <2>2 DEF CoverInv, Carries, Has, srvVars
  <2> QED BY <2>1, <2>2
<1>10. StoreInv => StoreInv'
  BY <1>3, <1>4, <1>6, <1>7 DEF StoreInv, Whose, Carries, srvVars
<1> QED BY <1>4, <1>8, <1>9, <1>10 DEF Serial

LEMMA SendSerial ==
  ASSUME TypeInv, OwnInv, Serial, Busy = {}, NEW c \in Chan, req_queue # <<>>,
         pending' = [pending EXCEPT ![c] = Head(req_queue)],
         stage' = [stage EXCEPT ![c] = "sent"], req_queue' = Tail(req_queue),
         UNCHANGED <<callVars, opVars, attVars, srvVars, histVars>>
  PROVE  Serial'
<1>1. /\ OneBusy' /\ Line' = Line /\ Service' = Service /\ Service = "sent"
      /\ Stored' = Stored /\ Lost' = Lost /\ Guarded' = Guarded
  BY LineSent DEF Service, Stored, Lost, Guarded, srvVars, attVars, opVars, histVars
<1>2. LineInv'
  BY <1>1 DEF Serial, LineInv, Carries, callVars
<1>3. CoverInv'
  BY <1>1 DEF Serial, CoverInv, Carries, Has, histVars
<1>4. StoreInv => StoreInv'
  BY <1>1 DEF StoreInv, Whose, Carries, callVars
<1> QED BY <1>1, <1>2, <1>3, <1>4 DEF Serial

\* The first request is answered or lost and none follows it.
LEMMA DropSerial ==
  ASSUME TypeInv, OwnInv, Serial, NEW c \in Busy,
         pending' = [pending EXCEPT ![c] = None],
         UNCHANGED <<req_queue, srvVars, grown, cancelled, unguarded>>,
         \/ session' = session
         \/ pending[c].by = Session /\ session' \in {"none", "open", "ending"},
         \/ Lost'
         \/ prep_queue = <<>>
         \/ StoreInv /\ pending[c].by = Session /\ session' = "open"
  PROVE  Serial'
<1>1. OneBusy /\ LineInv /\ CoverInv
  BY DEF Serial, LineInv
<1>2. /\ OneBusy' /\ Service' = "sent"
      /\ Len(Line) \in Nat \ {0} /\ 1 \in DOMAIN Line /\ Line[1] = pending[c]
      /\ Len(Line') = Len(Line) - 1 /\ DOMAIN Line' = 1 .. Len(Line) - 1
      /\ \A i \in DOMAIN Line' : i + 1 \in DOMAIN Line /\ Line'[i] = Line[i + 1]
  BY <1>1, LineDropped
<1>3. \A i \in DOMAIN Line' : i \in Nat /\ i + 1 > 1
  BY <1>2
<1>4. Stored' = Stored /\ Guarded' = Guarded
  BY DEF Stored, Guarded, srvVars
<1>5. \A i \in DOMAIN Line' : Carries(Line'[i]) => Line'[i].op = "PREP" /\ Line'[i].off = 0
  BY <1>1, <1>2, <1>3 DEF LineInv
<1>6. LineInv'
  <2>1. Guarded => Len(Line') <= 1 /\ \A i \in DOMAIN Line' : Carries(Line'[i]) => in_long_write'
    BY <1>1, <1>2 DEF LineInv
  <2>2. session' \in {"open", "executing", "cancelling", "ending"} =>
           \A i \in DOMAIN Line' : ~Carries(Line'[i])
    <3>1. CASE session' = session
      BY <1>1, <1>2, <3>1 DEF LineInv
    <3>2. CASE pending[c].by = Session
      <4>1. \A i \in DOMAIN Line' : Carries(Line[i + 1]) => i + 1 < 1
        BY <1>1, <1>2, <3>2 DEF LineInv
      <4> QED BY <1>2, <1>3, <4>1
    <3> QED BY <3>1, <3>2
  <2>3. \A i, j \in DOMAIN Line' : Carries(Line'[i]) /\ Line'[j].by = Session => i < j
    <3> SUFFICES ASSUME NEW i \in DOMAIN Line', NEW j \in DOMAIN Line',
                        Carries(Line'[i]), Line'[j].by = Session
                 PROVE  i < j
      OBVIOUS
    <3>1. i + 1 < j + 1
      BY <1>1, <1>2 DEF LineInv
    <3> QED BY <1>3, <3>1
  <2> QED BY <1>2, <1>4, <1>5, <2>1, <2>2, <2>3 DEF LineInv, Carries
<1>7. CoverInv'
  BY <1>2, <1>5 DEF CoverInv, Carries, Has
<1>8. Lost' \/ StoreInv'
  <2>1. CASE prep_queue = <<>>
    <3>1. prep_queue' = <<>> /\ Stored' = {}
      BY <2>1 DEF Stored, srvVars
    <3> QED BY <1>2, <3>1 DEF StoreInv
  <2>2. CASE StoreInv /\ pending[c].by = Session /\ session' = "open"
    <3>1. \A d \in Stored : d[1] = Session
      BY <1>2, <2>2, Sizes DEF StoreInv, Whose, Carries
    <3> QED BY <1>2, <1>4, <2>2, <3>1 DEF StoreInv, Whose
  <2> QED BY <2>1, <2>2
<1> QED BY <1>6, <1>7, <1>8 DEF Serial

\* bt_att_resend: the first request is answered and the write goes on in its place.
LEMMA ResendSerial ==
  ASSUME TypeInv, OwnInv, Serial, NEW c \in Busy, NEW w \in Writes,
         pending[c].by = w, pending[c].op = "PREP",
         NEW q \in Requests, q.by = w, q.op # "CANCEL",
         pending' = [pending EXCEPT ![c] = None], req_queue' = <<q>> \o req_queue,
         UNCHANGED <<srvVars, grown, cancelled, unguarded, session, in_long_write, up, seen>>,
         w \notin grown => /\ q.op = "PREP" => \A k \in 0 .. q.off - 1 : <<w, k>> \in Stored
                           /\ q.op = "EXEC" => \A k \in Bytes : <<w, k>> \in Stored
  PROVE  Serial'
<1>1. OneBusy /\ LineInv /\ CoverInv
  BY DEF Serial, LineInv
<1>2. /\ OneBusy' /\ Service' = "sent"
      /\ Len(Line) \in Nat \ {0} /\ 1 \in DOMAIN Line /\ Line[1] = pending[c]
      /\ Len(Line') = Len(Line) /\ DOMAIN Line' = DOMAIN Line /\ Line'[1] = q
      /\ DOMAIN Line = 1 .. Len(Line)
      /\ \A i \in DOMAIN Line : i # 1 => Line'[i] = Line[i]
  BY <1>1, LineResent
<1>3. Stored' = Stored /\ Guarded' = Guarded /\ Lost' = Lost
  BY DEF Stored, Guarded, Lost, srvVars
<1>4. Carries(Line[1]) /\ Carries(q) /\ w # Session
  BY <1>2, Sizes DEF Carries
<1>5. LineInv'
  <2>1. \A i \in DOMAIN Line' : (Carries(Line'[i]) <=> Carries(Line[i]))
                                /\ (Line'[i].by = Session <=> Line[i].by = Session)
    BY <1>2, <1>4
  <2>2. \A i \in DOMAIN Line' : i > 1 /\ Carries(Line'[i]) =>
           Line'[i].op = "PREP" /\ Line'[i].off = 0
    <3>1. \A i \in DOMAIN Line' : i > 1 => Line'[i] = Line[i] /\ i \in DOMAIN Line
      BY <1>2
    <3> QED BY <1>1, <3>1 DEF LineInv
  <2>3. /\ session' = session /\ in_long_write' = in_long_write
        /\ Guarded => Len(Line) <= 1
        /\ Guarded => \A i \in DOMAIN Line : Carries(Line[i]) => in_long_write
        /\ session \in {"open", "executing", "cancelling", "ending"} =>
               \A i \in DOMAIN Line : ~Carries(Line[i])
        /\ \A i, j \in DOMAIN Line :
               Carries(Line[i]) /\ Line[j].by = Session => i < j
    BY <1>1 DEF LineInv
  <2>4. /\ Guarded' => Len(Line') <= 1 /\ \A i \in DOMAIN Line' : Carries(Line'[i]) => in_long_write'
        /\ session' \in {"open", "executing", "cancelling", "ending"} =>
               \A i \in DOMAIN Line' : ~Carries(Line'[i])
        /\ \A i, j \in DOMAIN Line' :
               Carries(Line'[i]) /\ Line'[j].by = Session => i < j
    BY <1>2, <1>3, <2>1, <2>3
  <2> QED BY <1>2, <2>2, <2>4 DEF LineInv, Carries
<1>6. CoverInv'
  BY <1>2, <1>3 DEF CoverInv, Has
<1>7. StoreInv => StoreInv'
  <2>1. Line' # <<>>
    BY <1>2
  <2>2. ASSUME StoreInv
        PROVE  \A d \in Stored :
                 \/ d[1] # Session /\ d[1] = w
                 \/ d[1] = Session /\ session \in {"open", "executing", "cancelling"}
    BY <1>2, <1>4, <2>2 DEF StoreInv, Whose
  <2> QED BY <1>2, <1>3, <1>4, <2>1, <2>2 DEF StoreInv, Whose, Carries
<1> QED BY <1>3, <1>5, <1>6, <1>7 DEF Serial

-----------------------------------------------------------------------------
(* The order of writes, action by action.                                   *)

\* A write or a session that starts when nothing else is under way is alone.
LEMMA NothingAsked ==
  ASSUME TypeInv, OwnInv, LineInv, Guarded,
         (session = "none" /\ ~in_long_write) \/ session = "open"
  PROVE  Line = <<>>
<1>1. \A i \in DOMAIN Line : Carries(Line[i])
  <2> SUFFICES ASSUME NEW i \in DOMAIN Line
               PROVE  Carries(Line[i])
    OBVIOUS
  <2>1. Line[i] \in Requests /\ Matches(Line[i])
    BY LineFacts DEF LineInv
  <2>2. Line[i].by # Session /\ Line[i].by \in Writes
    BY <2>1, RequestTypes DEF Matches
  <2>3. Line[i].op # "CANCEL"
    BY <2>1, <2>2 DEF Matches, Guarded
  <2> QED BY <2>2, <2>3 DEF Carries
<1>2. DOMAIN Line = {}
  BY <1>1 DEF LineInv
<1>3. DOMAIN Line = 1 .. Len(Line) /\ Len(Line) \in Nat /\ (Line = <<>> <=> Len(Line) = 0)
  BY LineFacts DEF LineInv
<1> QED BY <1>2, <1>3

LEMMA SerialWriteLong ==
  ASSUME TypeInv, OwnInv, Serial, NEW w \in Writes, bt_gatt_client_write_long_value(w)
  PROVE  Serial'
<1>1. /\ UNCHANGED <<ctl, session, index, success, cancelled, attVars, pending,
                     stage, srvVars, histVars>>
      /\ UNCHANGED <<grown, up, seen, unguarded>> /\ Guarded' = Guarded /\ Lost' = Lost
      /\ grown \subseteq grown'
  BY DEF bt_gatt_client_write_long_value, attVars, histVars, Guarded, Lost
<1>2. CASE in_long_write \/ session # "none"
  <2>1. UNCHANGED <<in_long_write, req_queue>>
    BY <1>2 DEF bt_gatt_client_write_long_value
  <2> QED BY <1>1, <2>1, KeepSerial
<1>3. CASE ~(in_long_write \/ session # "none")
  <2>1. PICK n \in Nat : n = cur_length'[w]
    <3>1. TypeInv'
      BY OwnWriteLong
    <3> QED BY <3>1 DEF TypeInv, OpTypes
  <2>2. PICK q \in Requests : q = Prep(w, 0, n) /\ q.by = w /\ q.op = "PREP" /\ q.off = 0
    BY PrepFacts
  <2>3. req_queue' = Append(req_queue, q) /\ in_long_write'
    BY <1>3, <2>1, <2>2 DEF bt_gatt_client_write_long_value
  <2>4. Guarded => Line = <<>>
    BY <1>3, NothingAsked DEF Serial
  <2>5. /\ UNCHANGED <<pending, stage, srvVars, up, seen, grown>>
        /\ Guarded' => Guarded /\ Line = <<>> /\ (Carries(q) => in_long_write')
    BY <1>1, <2>3, <2>4
  <2>6. session = "none" /\ session' = "none" /\ session' = session
    BY <1>1, <1>3
  <2> QED BY <2>2, <2>3, <2>5, <2>6, AppendSerial
<1> QED BY <1>2, <1>3

LEMMA SerialCancelLong ==
  ASSUME TypeInv, OwnInv, Serial, NEW w \in Writes, cancel_long_write_req(w)
  PROVE  Serial'
<1>1. /\ UNCHANGED <<in_long_write, session, pending, stage, srvVars>>
      /\ UNCHANGED <<grown, up, seen, unguarded>> /\ Lost' = Lost
      /\ grown \subseteq grown'
  BY DEF cancel_long_write_req, attVars, histVars, Lost
<1>2. CASE UNCHANGED <<cancelled, req_queue>>
  <2>1. Guarded' = Guarded
    BY <1>1, <1>2 DEF Guarded
  <2> QED BY <1>1, <1>2, <2>1, KeepSerial
<1>3. CASE /\ req_queue' = Append(req_queue, Pdu(w, "CANCEL"))
           /\ cancelled' = cancelled \cup {w}
  <2>1. PICK q \in Requests : q = Pdu(w, "CANCEL") /\ q.op = "CANCEL"
    BY PduFacts
  <2>2. ~Carries(q) /\ ~Guarded' /\ req_queue' = Append(req_queue, q)
    BY <1>3, <2>1 DEF Carries, Guarded
  <2>3. /\ UNCHANGED <<pending, stage, srvVars, up, seen, grown>> /\ session' = session
        /\ Guarded' => Guarded /\ Line = <<>> /\ (Carries(q) => in_long_write')
    BY <1>1, <2>2
  <2> QED BY <2>2, <2>3, AppendSerial
<1> QED BY <1>2, <1>3 DEF cancel_long_write_req

LEMMA SerialPrepare ==
  ASSUME TypeInv, OwnInv, Serial,
         \/ bt_gatt_client_prepare_write \/ bt_gatt_client_write_execute
         \/ cancel_prep_write_session
  PROVE  Serial'
<1>1. /\ UNCHANGED <<in_long_write, pending, stage, srvVars>>
      /\ UNCHANGED <<grown, up, seen, unguarded>> /\ Guarded' = Guarded
  BY DEF bt_gatt_client_prepare_write, bt_gatt_client_write_execute,
         cancel_prep_write_session, opVars, attVars, histVars, Guarded
<1>2. ASSUME NEW q \in Requests, q.by = Session, req_queue' = Append(req_queue, q),
             session = "none" => ~in_long_write,
             \/ session = "none" /\ session' = "preparing"
             \/ session = "open" /\ session' \in {"executing", "cancelling"}
      PROVE  Serial'
  <2>1. ~Carries(q)
    BY <1>2, Sizes DEF Carries
  <2>2. Guarded => Line = <<>>
    BY <1>2, NothingAsked DEF Serial
  <2> QED BY <1>1, <1>2, <2>1, <2>2, AppendSerial
<1>3. CASE bt_gatt_client_prepare_write
  <2>1. PICK q \in Requests : q = Prep(Session, 0, 1) /\ q.by = Session
    BY RequestFacts DEF Callers
  <2>2. /\ req_queue' = Append(req_queue, q) /\ ~in_long_write
        /\ session = "none" /\ session' = "preparing"
    BY <1>3, <2>1 DEF bt_gatt_client_prepare_write, NoLongWrite
  <2> QED BY <1>2, <2>1, <2>2
<1>4. CASE bt_gatt_client_write_execute
  <2>1. PICK q \in Requests : q = Pdu(Session, "EXEC") /\ q.by = Session
    BY RequestFacts DEF Callers
  <2>2. /\ req_queue' = Append(req_queue, q) /\ ~in_long_write
        /\ session = "open" /\ session' = "executing"
    BY <1>4, <2>1 DEF bt_gatt_client_write_execute, NoLongWrite
  <2> QED BY <1>2, <2>1, <2>2
<1>5. CASE cancel_prep_write_session
  <2>1. PICK q \in Requests : q = Pdu(Session, "CANCEL") /\ q.by = Session
    BY RequestFacts DEF Callers
  <2>2. /\ req_queue' = Append(req_queue, q)
        /\ session = "open" /\ session' = "cancelling"
    BY <1>5, <2>1 DEF cancel_prep_write_session
  <2> QED BY <1>2, <2>1, <2>2
<1> QED BY <1>3, <1>4, <1>5

LEMMA SerialStartNext ==
  ASSUME TypeInv, OwnInv, Serial, start_next_long_write
  PROVE  Serial'
<1>1. /\ session' = IF session = "ending" THEN "none" ELSE session
      /\ UNCHANGED <<cancelled, req_queue, pending, stage, srvVars, grown, up, seen>>
      /\ Lost' = Lost
  BY DEF start_next_long_write, attVars, Lost
<1>2. CASE long_write_queue = <<>>
  <2>1. unguarded' = (unguarded \/ \E w \in Writes : phase[w] = "active")
    BY <1>2 DEF start_next_long_write
  <2>2. Guarded' => Guarded /\ \A i \in DOMAIN Line : ~Carries(Line[i])
    <3>1. \A i \in DOMAIN Line : Matches(Line[i])
      BY LineFacts DEF Serial, LineInv
    <3> QED BY <1>1, <2>1, <3>1 DEF Guarded, Matches, Carries
  <2> QED BY <1>1, <2>2, KeepSerial
<1>3. CASE long_write_queue # <<>>
  <2>1. UNCHANGED <<in_long_write, unguarded>> /\ Guarded' = Guarded
    BY <1>1, <1>3 DEF start_next_long_write, Guarded
  <2> QED BY <1>1, <2>1, KeepSerial
<1> QED BY <1>2, <1>3

\* One request at a time: the second one would need a second channel.
LEMMA SerialCanWrite ==
  ASSUME TypeInv, OwnInv, Serial, ~Overtaken, NEW c \in Chan, can_write_data(c)
  PROVE  Serial'
<1>1. /\ c \in up /\ pending[c] = None /\ req_queue # <<>>
      /\ pending' = [pending EXCEPT ![c] = Head(req_queue)]
      /\ stage' = [stage EXCEPT ![c] = "sent"]
      /\ req_queue' = Tail(req_queue)
      /\ UNCHANGED <<callVars, opVars, attVars, srvVars, histVars>>
  BY DEF can_write_data
<1>2. Busy = {}
  <2> SUFFICES ASSUME NEW d \in Busy PROVE FALSE
    OBVIOUS
  <2>1. Len(req_queue) \in Nat /\ Len(req_queue) # 0
    BY <1>1, SeqFacts DEF TypeInv, AttTypes
  <2>2. Len(Line) = Len(req_queue) + 1
    BY LineFacts DEF Serial, LineInv
  <2>3. ~Guarded
    BY <2>1, <2>2 DEF Serial, LineInv
  <2>4. seen = {1}
    BY <2>3 DEF Overtaken, Guarded
  <2>5. d \in up /\ pending[d] # None /\ up \subseteq seen
    BY DEF Busy, TypeInv, AttTypes
  <2> QED BY <1>1, <2>4, <2>5
<1> QED BY <1>1, <1>2, SendSerial

LEMMA SerialAttach ==
  ASSUME TypeInv, OwnInv, Serial, NEW c \in Chan, bt_att_attach_chan(c)
  PROVE  Serial'
<1>1. /\ c \notin seen /\ up' = up \cup {c} /\ seen' = seen \cup {c}
      /\ UNCHANGED <<in_long_write, session, cancelled, unguarded, req_queue, pending,
                     stage, srvVars>>
      /\ grown \subseteq grown'
  BY DEF bt_att_attach_chan, callVars, opVars
<1>2. Lost => Lost'
  BY <1>1 DEF Lost, TypeInv, AttTypes
<1>3. Guarded' = Guarded
  BY <1>1 DEF Guarded
<1> QED BY <1>1, <1>2, <1>3, KeepSerial

LEMMA SerialDisconnect ==
  ASSUME TypeInv, OwnInv, Serial, NEW c \in Chan, disconnect_cb(c)
  PROVE  Serial'
<1>1. /\ c \in up /\ up' = up \ {c} /\ UNCHANGED <<seen, cancelled, grown, unguarded, srvVars>>
      /\ pending' = [pending EXCEPT ![c] = None]
      /\ stage' = [stage EXCEPT ![c] = "idle"]
  BY DEF disconnect_cb
<1>2. Lost'
  BY <1>1 DEF Lost, TypeInv, AttTypes
<1>3. CASE pending[c] = None
  <2>1. UNCHANGED <<in_long_write, session, req_queue>>
    BY <1>3 DEF disconnect_cb
  <2>2. UNCHANGED <<pending, stage>>
    BY <1>1, <1>3 DEF TypeInv, AttTypes
  <2>3. Guarded' = Guarded
    BY <1>1 DEF Guarded
  <2> QED BY <1>1, <1>2, <2>1, <2>2, <2>3, KeepSerial
<1>4. CASE pending[c] # None
  <2>1. c \in Busy /\ pending[c] \in Requests /\ Matches(pending[c])
    BY <1>4, AskedFacts DEF Busy, OwnInv
  <2>2. Callback(pending[c], FALSE, FALSE)
    BY <1>4 DEF disconnect_cb
  <2>3. /\ pending[c].op \in {"PREP", "EXEC", "DROP", "CANCEL"}
        /\ pending[c].by = Session => pending[c].op # "DROP"
    BY <2>1, RequestTypes DEF Matches
  <2>4. CASE pending[c].by # Session
    <3>1. \/ prepare_write_cb(pending[c].by, FALSE, FALSE)
          \/ execute_write_cb(pending[c].by, FALSE)
          \/ cancel_long_write_cb
      BY <2>2, <2>3, <2>4 DEF Callback
    <3>2. UNCHANGED <<req_queue, session>>
      BY <3>1 DEF prepare_write_cb, complete_write_long_op, execute_write_cb,
                  cancel_long_write_cb
    <3> QED BY <1>1, <1>2, <2>1, <3>2, DropSerial
  <2>5. CASE pending[c].by = Session
    <3>1. prep_write_cb \/ exec_write_cb \/ cancel_prep_write_cb
      BY <2>2, <2>3, <2>5 DEF Callback
    <3>2. session' \in {"none", "open", "ending"} /\ UNCHANGED req_queue
      BY <3>1 DEF prep_write_cb, exec_write_cb, cancel_prep_write_cb
    <3> QED BY <1>1, <1>2, <2>1, <2>5, <3>2, DropSerial
  <2> QED BY <2>4, <2>5
<1> QED BY <1>3, <1>4

LEMMA SerialHandleRsp ==
  ASSUME TypeInv, OwnInv, Serial, NEW c \in Chan, handle_rsp(c)
  PROVE  Serial'
<1>1. /\ stage[c] \in {"ok", "error"} /\ Callback(pending[c], TRUE, stage[c] = "ok")
      /\ pending' = [pending EXCEPT ![c] = None]
      /\ UNCHANGED <<cancelled, grown, unguarded, up, seen, srvVars>>
  BY DEF handle_rsp, attVars
<1>2. /\ c \in Busy /\ pending[c] \in Requests /\ Matches(pending[c])
      /\ OneBusy /\ CoverInv /\ Lost' = Lost
  BY <1>1, AskedFacts DEF Busy, OwnInv, TypeInv, AttTypes, Serial, LineInv, Lost
<1>3. /\ pending[c].op \in {"PREP", "EXEC", "DROP", "CANCEL"} /\ pending[c] # None
      /\ pending[c].by = Session => pending[c].op # "DROP"
      /\ pending[c].by # Session => pending[c].by \in Writes
  BY <1>2, RequestTypes DEF Matches
<1>4. Line # <<>> /\ Line[1] = pending[c] /\ Service = stage[c]
  BY <1>2, LineFacts
\* The answer that ends what the first request was for.
<1>5. CASE pending[c].op # "PREP"
  <2>1. Lost \/ prep_queue = <<>>
    BY <1>1, <1>4, <1>5 DEF Serial, StoreInv
  <2>2. /\ UNCHANGED req_queue
        /\ \/ session' = session
           \/ pending[c].by = Session /\ session' \in {"none", "open", "ending"}
    <3>1. CASE pending[c].by = Session
      <4>1. exec_write_cb \/ cancel_prep_write_cb
        BY <1>1, <1>3, <1>5, <3>1 DEF Callback
      <4> QED BY <3>1, <4>1 DEF exec_write_cb, cancel_prep_write_cb
    <3>2. CASE pending[c].by # Session
      <4>1. execute_write_cb(pending[c].by, stage[c] = "ok") \/ cancel_long_write_cb
        BY <1>1, <1>3, <1>5, <3>2 DEF Callback
      <4> QED BY <4>1 DEF execute_write_cb, cancel_long_write_cb
    <3> QED BY <3>1, <3>2
  <2> QED BY <1>1, <1>2, <2>1, <2>2, DropSerial
<1>6. CASE pending[c].op = "PREP" /\ pending[c].by = Session
  <2>1. prep_write_cb
    BY <1>1, <1>6 DEF Callback
  <2>2. session' = "open" /\ UNCHANGED req_queue
    BY <2>1 DEF prep_write_cb
  <2>3. Lost' \/ StoreInv
    BY <1>2 DEF Serial
  <2> QED BY <1>1, <1>2, <1>6, <2>2, <2>3, DropSerial
<1>7. CASE pending[c].op = "PREP" /\ pending[c].by # Session
  <2>0. PICK w \in Writes : w = pending[c].by
    BY <1>3, <1>7
  <2>1. prepare_write_cb(w, TRUE, stage[c] = "ok")
    BY <1>1, <1>7, <2>0 DEF Callback
  <2>2. /\ phase[w] = "active" /\ pending[c].off = index[w] /\ pending[c].n = cur_length[w]
        /\ Carries(pending[c])
    BY <1>2, <1>7, <2>0 DEF Matches, Carries
  <2>3. /\ index[w] \in Nat /\ cur_length[w] \in 1 .. Length - index[w]
        /\ w \notin grown => cur_length[w] = Lesser(Length - index[w], mtu)
        /\ Length \in Nat /\ mtu \in Nat \ {0}
    BY <2>2, Sizes DEF TypeInv, OpTypes, AttTypes
  <2>4. PICK next \in Nat : next = index[w] + cur_length[w]
    BY <2>3
  <2>5. w \notin grown /\ stage[c] = "ok" => \A k \in 0 .. next - 1 : <<w, k>> \in Stored
    <3> SUFFICES ASSUME w \notin grown, stage[c] = "ok", NEW k \in 0 .. next - 1
                 PROVE  <<w, k>> \in Stored
      OBVIOUS
    <3>1. /\ \A j \in 0 .. index[w] - 1 : <<w, j>> \in Stored
          /\ \A j \in index[w] .. index[w] + cur_length[w] - 1 : <<w, j>> \in Stored
      BY <1>2, <1>4, <1>7, <2>0, <2>2 DEF CoverInv, Has
    <3>2. k \in 0 .. index[w] - 1 \/ k \in index[w] .. index[w] + cur_length[w] - 1
      BY <2>3, <2>4
    <3> QED BY <3>1, <3>2
  <2>6. CASE stage[c] = "ok" /\ ~AllPrepared(next) /\ cur_length[w] >= mtu
    <3>1. PICK n \in Nat : n = cur_length'[w]
      <4>1. TypeInv'
        BY OwnHandleRsp
      <4> QED BY <4>1 DEF TypeInv, OpTypes
    <3>2. PICK q \in Requests : /\ q = Prep(w, next, n) /\ q.by = w /\ q.op = "PREP"
                                /\ q.off = next
      BY PrepFacts
    <3>3. req_queue' = <<q>> \o req_queue /\ UNCHANGED <<session, in_long_write>>
      BY <2>1, <2>4, <2>6, <3>1, <3>2 DEF prepare_write_cb, bt_att_resend
    <3> QED BY <1>1, <1>2, <1>7, <2>0, <2>5, <2>6, <3>2, <3>3, ResendSerial
  <2>7. CASE ~(stage[c] = "ok" /\ ~AllPrepared(next) /\ cur_length[w] >= mtu)
    <3>1. complete_write_long_op(w, TRUE, stage[c] = "ok")
      BY <2>1, <2>4, <2>7 DEF prepare_write_cb
    <3>2. PICK q \in Requests : /\ q = Pdu(w, IF stage[c] = "ok" THEN "EXEC" ELSE "DROP")
                                /\ q.by = w /\ q.op \in {"EXEC", "DROP"}
                                /\ q.op = "EXEC" => stage[c] = "ok"
      BY PduFacts
    <3>3. req_queue' = <<q>> \o req_queue /\ UNCHANGED <<session, in_long_write>>
      BY <3>1, <3>2 DEF complete_write_long_op, bt_att_resend
    <3>4. w \notin grown /\ q.op = "EXEC" => \A k \in Bytes : <<w, k>> \in Stored
      <4> SUFFICES ASSUME w \notin grown, q.op = "EXEC"
                   PROVE  \A k \in Bytes : <<w, k>> \in Stored
        OBVIOUS
      <4>1. next = Length
        BY <2>3, <2>4, <2>7, <3>2 DEF AllPrepared, Lesser
      <4> QED BY <2>5, <3>2, <4>1 DEF Bytes
    <3> QED BY <1>1, <1>2, <1>7, <2>0, <3>2, <3>3, <3>4, ResendSerial
  <2> QED BY <2>6, <2>7
<1> QED BY <1>3, <1>5, <1>6, <1>7

\* The server works on the first request of the line.
LEMMA SerialServer ==
  ASSUME TypeInv, OwnInv, Serial, NEW c \in Chan, Server(c)
  PROVE  Serial'
<1>1. /\ UNCHANGED <<callVars, opVars, attVars, req_queue, pending, histVars>>
      /\ stage[c] \in {"sent", "checking", "walking"}
  BY DEF Server, srv_prep_write, prep_write_complete_cb, srv_exec_write,
         exec_write_complete_cb
<1>2. UNCHANGED <<session, in_long_write, cancelled, unguarded, grown, up, seen>>
  BY <1>1 DEF callVars, opVars, attVars, histVars
<1>3. /\ c \in Busy /\ pending[c] \in Requests /\ Matches(pending[c])
      /\ OneBusy /\ CoverInv /\ LineInv /\ Lost' = Lost /\ Guarded' = Guarded
  BY <1>1, <1>2, AskedFacts DEF Busy, OwnInv, TypeInv, AttTypes, Serial, LineInv, Lost, Guarded
<1>4. Line # <<>> /\ Line[1] = pending[c] /\ Service = stage[c] /\ BusyChan = c
  BY <1>3, LineFacts
<1>5. /\ Line' = Line /\ Busy' = Busy /\ BusyChan' = c /\ OneBusy'
  BY <1>1, <1>3, <1>4, LineKept DEF OneBusy
<1>6. Service' = stage'[c]
  BY <1>3, <1>5 DEF Service
<1>7. LineInv'
  BY <1>2, <1>3, <1>5 DEF LineInv, Carries
<1>8. Line'[1] = pending[c] /\ pending' = pending /\ Line' # <<>>
  BY <1>1, <1>4, <1>5
\* What is left to show of the server's data.
<1>9. ASSUME pending[c].by \in Writes /\ pending[c].op # "CANCEL" /\ pending[c].by \notin grown =>
               /\ pending[c].op = "PREP" =>
                    \A k \in 0 .. pending[c].off - 1 : <<pending[c].by, k>> \in Stored'
               /\ pending[c].op = "PREP" /\ stage'[c] = "ok" =>
                    \A k \in pending[c].off .. pending[c].off + pending[c].n - 1 :
                        <<pending[c].by, k>> \in Stored'
               /\ pending[c].op = "EXEC" => stage'[c] # "sent"
               /\ pending[c].op = "EXEC" /\ stage'[c] = "walking" =>
                    \A k \in Bytes : \/ <<pending[c].by, k>> \in Stored'
                                     \/ <<pending[c].by, k>> \in item'[c].data
                                     \/ k \in wrote'[pending[c].by]
               /\ pending[c].op = "EXEC" /\ stage'[c] = "ok" => wrote'[pending[c].by] = Bytes
      PROVE  CoverInv'
  BY <1>2, <1>5, <1>6, <1>8, <1>9 DEF CoverInv, Carries, Has
<1>10. ASSUME \A d \in Stored' : \/ d \in Stored
                                 \/ d[1] = pending[c].by /\ pending[c].op = "PREP",
              pending[c].op # "PREP" /\ stage'[c] \in {"ok", "error"} => prep_queue' = <<>>
       PROVE  StoreInv => StoreInv'
  <2> SUFFICES ASSUME StoreInv PROVE StoreInv'
    OBVIOUS
  <2>1. ASSUME NEW d, d[1] = pending[c].by, pending[c].op = "PREP"
        PROVE  \/ d[1] = Session /\ session = "preparing" /\ pending[c].by = Session
               \/ d[1] # Session /\ Carries(pending[c])
    BY <1>3, <2>1, RequestTypes DEF Matches, Carries
  <2>2. \A d \in Stored' : IF d[1] = Session
                           THEN \/ session \in {"open", "executing", "cancelling"}
                                \/ session = "preparing" /\ pending[c].by = Session
                           ELSE Carries(pending[c]) /\ pending[c].by = d[1]
    BY <1>4, <1>10, <2>1 DEF StoreInv, Whose
  <2>3. \A d \in Stored' : Whose(d)'
    BY <1>2, <1>8, <2>2 DEF Whose, Carries
  <2> QED BY <1>6, <1>8, <1>10, <2>3 DEF StoreInv
<1>11. ASSUME NEW st, Reply(c, st)
       PROVE  stage'[c] = st
  BY <1>11 DEF Reply, TypeInv, AttTypes
<1>12. CASE srv_prep_write(c)
  <2>1. /\ pending[c].op = "PREP" /\ stage'[c] \in {"error", "checking"}
        /\ Stored' = Stored
    BY <1>11, <1>12 DEF srv_prep_write, srvVars, Stored
  <2>2. CoverInv'
    BY <1>3, <1>4, <1>9, <2>1 DEF CoverInv, Carries, Has
  <2>3. StoreInv => StoreInv'
    BY <1>10, <2>1
  <2> QED BY <1>3, <1>7, <2>2, <2>3 DEF Serial
<1>13. ASSUME NEW err \in BOOLEAN, prep_write_complete_cb(c, err)
       PROVE  Serial'
  <2>1. /\ pending[c].op = "PREP" /\ stage'[c] = IF err THEN "error" ELSE "ok"
        /\ prep_queue' = IF err THEN prep_queue ELSE store_prep_data(pending[c])
    BY <1>11, <1>13 DEF prep_write_complete_cb, TypeInv, AttTypes
  <2>2. Stored' = IF err THEN Stored
                  ELSE Stored \cup {<<pending[c].by, k>> :
                           k \in pending[c].off .. pending[c].off + pending[c].n - 1}
    <3>1. CASE err
      BY <2>1, <3>1 DEF Stored
    <3>2. CASE ~err
      <4>1. prep_queue' = store_prep_data(pending[c])
        BY <2>1, <3>2
      <4>2. Stored' = UNION {store_prep_data(pending[c])[i].data :
                                i \in DOMAIN store_prep_data(pending[c])}
        BY <4>1 DEF Stored
      <4> QED BY <1>3, <3>2, <4>2, StoreFacts
    <3> QED BY <3>1, <3>2
  <2>3. CoverInv'
    BY <1>3, <1>4, <1>9, <2>1, <2>2 DEF CoverInv, Carries, Has
  <2>4. StoreInv => StoreInv'
    <3>1. \A d \in Stored' : d \in Stored \/ d[1] = pending[c].by
      BY <2>2
    <3> QED BY <1>10, <2>1, <3>1
  <2> QED BY <1>3, <1>7, <2>3, <2>4 DEF Serial
\* What the request had prepared is thrown away.
<1>14. ASSUME prep_queue' = <<>>, pending[c].op # "PREP", stage'[c] \in {"ok", "error"},
              pending[c].op = "EXEC" => stage'[c] = "error"
       PROVE  Serial'
  <2>1. Stored' = {}
    BY <1>14 DEF Stored
  <2>2. CoverInv'
    BY <1>9, <1>14
  <2>3. StoreInv => StoreInv'
    BY <1>10, <1>14, <2>1
  <2> QED BY <1>3, <1>7, <2>2, <2>3 DEF Serial
\* The walk goes on to the next entry of the queue, or is over.
<1>15. ASSUME exec_next_prep_write(c), pending[c].op = "EXEC",
              wrote' \in [Callers -> SUBSET Bytes],
              Carries(pending[c]) /\ pending[c].by \notin grown =>
                \A k \in Bytes : <<pending[c].by, k>> \in Stored \/ k \in wrote'[pending[c].by]
       PROVE  Serial'
  <2>1. CASE prep_queue = <<>>
    <3>1. /\ stage'[c] = "ok" /\ prep_queue' = <<>> /\ Stored = {} /\ Stored' = {}
      BY <1>11, <1>15, <2>1 DEF exec_next_prep_write, Stored
    <3>2. CoverInv'
      <4>1. wrote'[pending[c].by] \subseteq Bytes
        BY <1>3, <1>15, RequestTypes
      <4> QED BY <1>9, <1>15, <3>1, <4>1 DEF Carries
    <3>3. StoreInv => StoreInv'
      BY <1>10, <3>1
    <3> QED BY <1>3, <1>7, <3>2, <3>3 DEF Serial
  <2>2. CASE prep_queue # <<>>
    <3>1. /\ stage'[c] = "walking" /\ item'[c] = Head(prep_queue)
          /\ prep_queue' = Tail(prep_queue)
      BY <1>11, <1>15, <2>2 DEF exec_next_prep_write, TypeInv, SrvTypes
    <3>2. /\ \A i \in DOMAIN prep_queue : i = 1 \/ (i - 1 \in DOMAIN prep_queue' /\
                                                   prep_queue'[i - 1] = prep_queue[i])
          /\ \A i \in DOMAIN prep_queue' : i + 1 \in DOMAIN prep_queue /\
                                           prep_queue'[i] = prep_queue[i + 1]
          /\ item'[c] = prep_queue[1]
      <4>1. /\ prep_queue \in Seq(Items) /\ Len(prep_queue) \in Nat
            /\ DOMAIN prep_queue = 1 .. Len(prep_queue)
            /\ Tail(prep_queue) \in Seq(Items) /\ Len(Tail(prep_queue)) = Len(prep_queue) - 1
            /\ \A i \in 1 .. Len(prep_queue) - 1 : Tail(prep_queue)[i] = prep_queue[i + 1]
            /\ Head(prep_queue) = prep_queue[1]
        BY <2>2, SeqFacts DEF TypeInv, SrvTypes
      <4>2. DOMAIN prep_queue' = 1 .. Len(prep_queue) - 1
        BY <3>1, <4>1, SeqFacts
      <4> QED BY <3>1, <4>1, <4>2
    <3>3. \A d \in Stored : d \in Stored' \/ d \in item'[c].data
      <4> SUFFICES ASSUME NEW d \in Stored, d \notin item'[c].data
                   PROVE  d \in Stored'
        OBVIOUS
      <4>1. PICK i \in DOMAIN prep_queue : d \in prep_queue[i].data
        BY DEF Stored
      <4>2. i - 1 \in DOMAIN prep_queue' /\ d \in prep_queue'[i - 1].data
        BY <3>2, <4>1
      <4> QED BY <4>2 DEF Stored
    <3>4. \A d \in Stored' : d \in Stored
      <4> SUFFICES ASSUME NEW d \in Stored'
                   PROVE  d \in Stored
        OBVIOUS
      <4>1. PICK i \in DOMAIN prep_queue' : d \in prep_queue'[i].data
        BY DEF Stored
      <4>2. i + 1 \in DOMAIN prep_queue /\ d \in prep_queue[i + 1].data
        BY <3>2, <4>1
      <4> QED BY <4>2 DEF Stored
    <3>5. CoverInv'
      BY <1>9, <1>15, <3>1, <3>3 DEF Carries
    <3>6. StoreInv => StoreInv'
      BY <1>10, <3>1, <3>4
    <3> QED BY <1>3, <1>7, <3>5, <3>6 DEF Serial
  <2> QED BY <2>1, <2>2
<1>16. CASE srv_exec_write(c)
  <2>1. /\ stage[c] = "sent" /\ pending[c].op \in {"EXEC", "DROP", "CANCEL"}
        /\ wrote' = wrote
    BY <1>16 DEF srv_exec_write
  <2>2. CASE pending[c].op # "EXEC" \/ Refused
    <3>1. prep_queue' = <<>> /\ stage'[c] = IF pending[c].op # "EXEC" THEN "ok" ELSE "error"
      BY <1>11, <1>16, <2>2 DEF srv_exec_write
    <3> QED BY <1>14, <2>1, <3>1
  <2>3. CASE ~(pending[c].op # "EXEC" \/ Refused)
    <3>1. exec_next_prep_write(c) /\ pending[c].op = "EXEC"
      BY <1>16, <2>3 DEF srv_exec_write
    <3>2. Carries(pending[c]) /\ pending[c].by \notin grown =>
             \A k \in Bytes : <<pending[c].by, k>> \in Stored
      BY <1>3, <1>4, <2>1, <3>1 DEF CoverInv, Has
    <3>3. wrote' \in [Callers -> SUBSET Bytes]
      BY <2>1 DEF TypeInv, SrvTypes
    <3> QED BY <1>15, <3>1, <3>2, <3>3
  <2> QED BY <2>2, <2>3
<1>17. ASSUME NEW err \in BOOLEAN, exec_write_complete_cb(c, err)
       PROVE  Serial'
  <2>1. stage[c] = "walking" /\ pending[c].op = "EXEC"
    BY <1>17 DEF exec_write_complete_cb, TypeInv, AttTypes
  <2>2. CASE err
    <3>1. prep_queue' = <<>> /\ stage'[c] = "error"
      BY <1>11, <1>17, <2>2 DEF exec_write_complete_cb
    <3> QED BY <1>14, <2>1, <3>1
  <2>3. CASE ~err
    <3>1. /\ wrote' = [x \in Callers |-> wrote[x] \cup
                            {k \in Bytes : <<x, k>> \in item[c].data}]
          /\ exec_next_prep_write(c)
      BY <1>17, <2>3 DEF exec_write_complete_cb
    <3>2. wrote' \in [Callers -> SUBSET Bytes]
      BY <3>1 DEF TypeInv, SrvTypes
    <3>3. Carries(pending[c]) /\ pending[c].by \notin grown =>
             \A k \in Bytes : \/ <<pending[c].by, k>> \in Stored
                              \/ <<pending[c].by, k>> \in item[c].data
                              \/ k \in wrote[pending[c].by]
      BY <1>3, <1>4, <2>1 DEF CoverInv
    <3>4. pending[c].by \in Callers
      BY <1>3, RequestTypes
    <3>5. wrote'[pending[c].by] = wrote[pending[c].by] \cup
             {k \in Bytes : <<pending[c].by, k>> \in item[c].data}
      BY <3>1, <3>4
    <3> QED BY <1>15, <2>1, <3>1, <3>2, <3>3, <3>5
  <2> QED BY <2>2, <2>3
<1> QED BY <1>12, <1>13, <1>16, <1>17 DEF Server

\* A cancellation that overtakes its write makes the promise void, and no step
\* takes that back.
LEMMA NextSerial ==
  ASSUME TypeInv, OwnInv, WriteInv, [Next]_vars
  PROVE  WriteInv'
<1>1. CASE UNCHANGED vars
  <2>1. /\ UNCHANGED <<req_queue, pending, stage, srvVars, session, in_long_write, grown>>
        /\ Guarded' = Guarded /\ Lost' = Lost /\ Overtaken' = Overtaken
    BY <1>1 DEF vars, callVars, opVars, attVars, histVars, Guarded, Lost, Overtaken
  <2>2. grown \subseteq grown'
    BY <2>1
  <2> QED BY <2>1, <2>2, KeepSerial DEF WriteInv
<1>2. ASSUME Next, ~Overtaken'
      PROVE  Serial'
  <2>1. ~Overtaken /\ Serial
    BY <1>2, Onward DEF WriteInv
  <2>2. CASE User
    BY <2>1, <2>2, SerialWriteLong, SerialCancelLong, SerialPrepare DEF User
  <2> QED BY <1>2, <2>1, <2>2, SerialStartNext, SerialCanWrite, SerialHandleRsp, SerialAttach,
             SerialDisconnect, SerialServer DEF Next
<1> QED BY <1>1, <1>2 DEF WriteInv

LEMMA InitSerial == Init => WriteInv /\ WrittenWhole
<1> SUFFICES ASSUME Init PROVE Serial /\ WrittenWhole
  BY DEF WriteInv
<1>1. Busy = {} /\ Line = <<>> /\ Stored = {} /\ DOMAIN Line = {}
  BY DEF Init, Busy, Line, Stored
<1> QED BY <1>1 DEF Init, Serial, LineInv, OneBusy, CoverInv, StoreInv, WrittenWhole

-----------------------------------------------------------------------------
(* What is told of a long write.                                            *)

\* Only the answer to the execute request makes a write a success.
LEMMA ToldSuccess ==
  ASSUME TypeInv, OwnInv, [Next]_vars, NEW w \in Writes,
         told'[w] = "success", told[w] # "success"
  PROVE  \E c \in Busy : /\ stage[c] = "ok" /\ pending[c].by = w /\ pending[c].op = "EXEC"
                         /\ wrote' = wrote
<1>1. told' # told
  OBVIOUS
<1>2. CASE start_next_long_write
  <2>1. told' = [told EXCEPT ![Head(long_write_queue)] = "failure"]
    BY <1>1, <1>2 DEF start_next_long_write, Tell
  <2> QED BY <2>1 DEF TypeInv, HistTypes
<1>3. ASSUME NEW c \in Chan, NEW here \in BOOLEAN, NEW ok \in BOOLEAN,
             Callback(pending[c], here, ok), pending[c] # None
      PROVE  c \in Busy /\ ok /\ pending[c].by = w /\ pending[c].op = "EXEC"
  <2>2. pending[c] \in Requests /\ Matches(pending[c]) /\ c \in Busy
    BY <1>3, AskedFacts DEF OwnInv, Busy
  <2>3. /\ pending[c].op \in {"PREP", "EXEC", "DROP", "CANCEL"}
        /\ pending[c].by = Session => pending[c].op # "DROP"
        /\ pending[c].by # Session => pending[c].by \in Writes
    BY <2>2, RequestTypes DEF Matches
  <2>4. PICK v \in Callers : v = pending[c].by
    BY <2>2, RequestTypes
  <2>5. CASE v # Session /\ pending[c].op \in {"EXEC", "DROP"}
    <3>1. execute_write_cb(v, ok)
      BY <1>3, <2>4, <2>5 DEF Callback
    <3>2. told' = [told EXCEPT ![v] = IF ok /\ success[v] THEN "success" ELSE "failure"]
      BY <3>1 DEF execute_write_cb, Tell
    <3>3. v = w /\ ok /\ success[v]
      BY <3>2 DEF TypeInv, HistTypes
    <3>4. pending[c].op = "EXEC"
      BY <2>2, <2>4, <2>5, <3>3 DEF Matches, Carries
    <3> QED BY <2>2, <2>4, <3>3, <3>4
  <2>6. CASE v # Session /\ pending[c].op = "PREP"
    <3>1. prepare_write_cb(v, here, ok)
      BY <1>3, <2>4, <2>6 DEF Callback
    <3>2. told' = told \/ told' = [told EXCEPT ![v] = "failure"]
      BY <3>1 DEF prepare_write_cb, complete_write_long_op, Tell
    <3> QED BY <3>2 DEF TypeInv, HistTypes
  <2>7. CASE v = Session \/ pending[c].op = "CANCEL"
    <3>1. \/ cancel_long_write_cb \/ prep_write_cb \/ exec_write_cb \/ cancel_prep_write_cb
      BY <1>3, <2>3, <2>4, <2>7 DEF Callback
    <3> QED BY <1>1, <3>1 DEF cancel_long_write_cb, prep_write_cb, exec_write_cb,
                              cancel_prep_write_cb
  <2> QED BY <2>3, <2>4, <2>5, <2>6, <2>7
<1>4. CASE User \/ UNCHANGED vars
  BY <1>1, <1>4 DEF vars, histVars, User, bt_gatt_client_write_long_value,
              cancel_long_write_req, bt_gatt_client_prepare_write,
              bt_gatt_client_write_execute, cancel_prep_write_session
<1>5. ASSUME NEW c \in Chan, can_write_data(c) \/ bt_att_attach_chan(c) \/ Server(c)
      PROVE  told' = told
  BY <1>5 DEF can_write_data, bt_att_attach_chan, Server, srv_prep_write,
              prep_write_complete_cb, srv_exec_write, exec_write_complete_cb, histVars
<1>6. ASSUME NEW c \in Chan, handle_rsp(c) \/ disconnect_cb(c)
      PROVE  /\ c \in Busy /\ stage[c] = "ok" /\ pending[c].by = w /\ pending[c].op = "EXEC"
             /\ wrote' = wrote
  <2>1. wrote' = wrote
    BY <1>6 DEF handle_rsp, disconnect_cb, srvVars
  <2>2. CASE handle_rsp(c)
    <3>1. Callback(pending[c], TRUE, stage[c] = "ok") /\ pending[c] # None
      BY <2>2 DEF handle_rsp, TypeInv, AttTypes
    <3>2. (stage[c] = "ok") \in BOOLEAN
      OBVIOUS
    <3> QED BY <1>3, <2>1, <3>1, <3>2
  <2>3. CASE disconnect_cb(c)
    <3>1. Callback(pending[c], FALSE, FALSE) /\ pending[c] # None
      BY <1>1, <2>3 DEF disconnect_cb
    <3> QED BY <1>3, <3>1
  <2> QED BY <1>6, <2>2, <2>3
<1>7. CASE \E c \in Chan : can_write_data(c) \/ bt_att_attach_chan(c) \/ Server(c)
  BY <1>1, <1>5, <1>7
<1>8. CASE \E c \in Chan : handle_rsp(c) \/ disconnect_cb(c)
  BY <1>6, <1>8
<1> QED BY <1>2, <1>4, <1>7, <1>8 DEF Next

\* What has been written stays written.
LEMMA StaysWritten ==
  ASSUME TypeInv, [Next]_vars, NEW w \in Callers
  PROVE  wrote[w] \subseteq wrote'[w]
<1>1. ASSUME NEW c \in Chan, NEW err \in BOOLEAN, exec_write_complete_cb(c, err)
      PROVE  wrote[w] \subseteq wrote'[w]
  <2>1. \/ wrote' = wrote
        \/ wrote' = [x \in Callers |-> wrote[x] \cup
                            {k \in Bytes : <<x, k>> \in item[c].data}]
    BY <1>1 DEF exec_write_complete_cb
  <2> QED BY <2>1
<1>2. CASE User \/ start_next_long_write \/ UNCHANGED vars
  BY <1>2 DEF vars, srvVars, User, bt_gatt_client_write_long_value,
              cancel_long_write_req, bt_gatt_client_prepare_write,
              bt_gatt_client_write_execute, cancel_prep_write_session, start_next_long_write
<1>3. ASSUME NEW c \in Chan,
             \/ can_write_data(c) \/ bt_att_attach_chan(c) \/ handle_rsp(c) \/ disconnect_cb(c)
             \/ srv_prep_write(c) \/ srv_exec_write(c)
             \/ \E err \in BOOLEAN : prep_write_complete_cb(c, err)
      PROVE  wrote' = wrote
  BY <1>3 DEF can_write_data, bt_att_attach_chan, handle_rsp, disconnect_cb, srv_prep_write,
              srv_exec_write, prep_write_complete_cb, srvVars
<1>4. ASSUME NEW c \in Chan, Server(c)
      PROVE  wrote[w] \subseteq wrote'[w]
  BY <1>1, <1>3, <1>4 DEF Server
<1>5. CASE \E c \in Chan : \/ can_write_data(c) \/ bt_att_attach_chan(c)
                           \/ handle_rsp(c) \/ disconnect_cb(c)
  BY <1>3, <1>5
<1> QED BY <1>2, <1>4, <1>5 DEF Next

LEMMA NextWritten ==
  ASSUME TypeInv, OwnInv, WriteInv, WrittenWhole, [Next]_vars, TypeInv'
  PROVE  WrittenWhole'
<1> SUFFICES ASSUME NEW w \in Writes, told'[w] = "success", w \notin grown', ~Overtaken'
             PROVE  wrote'[w] = Bytes
  BY DEF WrittenWhole
<1>1. w \notin grown /\ ~Overtaken
  <2>1. CASE UNCHANGED vars
    BY <2>1 DEF vars, opVars, attVars, histVars, Overtaken
  <2> QED BY <2>1, Onward
<1>2. wrote[w] \subseteq wrote'[w] /\ wrote'[w] \subseteq Bytes
  BY StaysWritten DEF TypeInv, SrvTypes, Callers
<1>3. CASE told[w] = "success"
  BY <1>1, <1>2, <1>3 DEF WrittenWhole
<1>4. CASE told[w] # "success"
  <2>1. PICK c \in Busy : /\ stage[c] = "ok" /\ pending[c].by = w /\ pending[c].op = "EXEC"
                          /\ wrote' = wrote
    BY <1>4, ToldSuccess
  <2>2. Serial /\ OneBusy
    BY <1>1 DEF WriteInv, Serial, LineInv
  <2>3. Line # <<>> /\ Line[1] = pending[c] /\ Service = "ok"
    BY <2>1, <2>2, LineFacts
  <2> QED BY <1>1, <2>1, <2>2, <2>3 DEF Serial, CoverInv, Carries
<1> QED BY <1>3, <1>4

-----------------------------------------------------------------------------
(* The theorems.                                                            *)

IInv == TypeInv /\ OwnInv /\ WriteInv /\ WrittenWhole

LEMMA FirstOfLine ==
  ASSUME TypeInv, OwnInv, LineInv, Line # <<>>
  PROVE  1 \in DOMAIN Line /\ Matches(Line[1])
<1>1. OneBusy
  BY DEF LineInv
<1>2. /\ DOMAIN Line = 1 .. Len(Line) /\ Len(Line) \in Nat /\ Len(Line) # 0
      /\ \A i \in DOMAIN Line : Matches(Line[i])
  BY <1>1, LineFacts
<1> QED BY <1>2

LEMMA InvHolds == Spec => []IInv
<1>1. Init => IInv
  BY InitOwn, InitSerial DEF IInv
<1>2. IInv /\ [Next]_vars => IInv'
  BY NextOwn, NextSerial, NextWritten DEF IInv
<1> QED BY <1>1, <1>2, PTL DEF Spec

\* A long write whose callback reports success has been written whole, whatever
\* its length, the channels and the order in which the server answers, unless the
\* MTU grew meanwhile or a cancellation overtook it.
THEOREM WrittenWholeHolds == Spec => []WrittenWhole
<1>1. IInv => WrittenWhole
  BY DEF IInv
<1> QED BY <1>1, InvHolds, PTL

\* The prepared parts of two values are never side by side in the server's queue,
\* where one execute request would write both.
THEOREM OneWriterHolds == Spec => []OneWriterPrepares
<1>1. IInv => OneWriterPrepares
  <2> SUFFICES ASSUME IInv, ~Overtaken, ~Lost
               PROVE  Cardinality({d[1] : d \in Stored}) <= 1
    BY DEF OneWriterPrepares, Stored
  <2>1. LineInv /\ StoreInv
    BY DEF IInv, WriteInv, Serial
  <2>2. \A d, e \in Stored : d[1] = e[1]
    <3> SUFFICES ASSUME NEW d \in Stored, NEW e \in Stored, d[1] # e[1]
                 PROVE  FALSE
      OBVIOUS
    <3>1. Whose(d) /\ Whose(e)
      BY <2>1 DEF StoreInv
    <3>2. Line # <<>> => 1 \in DOMAIN Line
      BY <2>1, FirstOfLine DEF IInv
    <3>3. ASSUME NEW f \in Stored, Whose(f), f[1] # Session,
                 NEW g \in Stored, Whose(g), g[1] = Session
          PROVE  FALSE
      <4>1. Line # <<>> /\ Carries(Line[1]) /\ Line[1].by # Session /\ 1 \in DOMAIN Line
        BY <3>2, <3>3 DEF Whose
      <4>2. session \in {"open", "executing", "cancelling"}
        BY <3>3, <4>1 DEF Whose
      <4> QED BY <2>1, <4>1, <4>2 DEF LineInv
    <3>4. d[1] # Session /\ e[1] # Session
      BY <3>1, <3>3
    <3> QED BY <3>1, <3>4 DEF Whose
  <2>3. CASE Stored = {}
    BY <2>3, FS_EmptySet
  <2>4. CASE Stored # {}
    <3>1. PICK d \in Stored : TRUE
      BY <2>4
    <3>2. {e[1] : e \in Stored} = {d[1]}
      BY <2>2
    <3>3. Cardinality({d[1]}) = 1
      BY FS_Singleton
    <3> QED BY <3>2, <3>3
  <2> QED BY <2>3, <2>4
<1> QED BY <1>1, InvHolds, PTL

\* What is prepared at the server belongs to a session or to a long write that will
\* execute or drop it, whatever failed and was cancelled before.
THEOREM NoResidueHolds == Spec => []NoResidue
<1>1. IInv => NoResidue
  <2> SUFFICES ASSUME IInv, ~Overtaken, ~Lost, NEW d \in Stored
               PROVE  IF d[1] = Session THEN session # "none" ELSE phase[d[1]] = "active"
    BY DEF NoResidue, Stored
  <2>1. Whose(d) /\ LineInv
    BY DEF IInv, WriteInv, Serial, StoreInv
  <2>2. Line # <<>> => Matches(Line[1])
    BY <2>1, FirstOfLine DEF IInv
  <2> QED BY <2>1, <2>2 DEF Whose, Matches
<1> QED BY <1>1, InvHolds, PTL

=============================================================================
