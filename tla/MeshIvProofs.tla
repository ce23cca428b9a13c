---------------------------- MODULE MeshIvProofs ----------------------------
(***************************************************************************)
(* Proofs about MeshIv: no nonce is used twice, whatever crashes, for any  *)
(* range of numbers, any rate and any number of restarts.                  *)
(*                                                                         *)
(* What has to be shown is that the file does not fall behind the numbers  *)
(* on the air, but for the bare ones.  The file is written by a callback   *)
(* of the idle queue, so the argument is about the order of that queue: a  *)
(* PDU either has a number below the one in the file, or the save that     *)
(* will see to it is ahead of it, or it is bare (UsedInv).  How many       *)
(* numbers are used within a millisecond does not matter.                  *)
(***************************************************************************)
EXTENDS MeshIv, TLAPS

\* The procedure: in a normal state no update is on.
StateInv ==
    /\ TxIndex >= 0
    /\ state = "INIT" => timer = "off"
    /\ state \in {"NORMAL", "NORMAL_HOLD"} => ~ivu

\* The index a node that starts from config sends with.  The configuration, in
\* memory and on disk, has the one in use (not always the same iv and ivu: an
\* update whose save failed has begun in memory only), and the file has the
\* number too unless a save waits.
IndexOf(config) == config.iv - (IF config.upd THEN 1 ELSE 0)
HasSave(q) == \E n \in DOMAIN q : q[n] = Save
SavedInv ==
    /\ IndexOf(jnode) = TxIndex
    /\ IndexOf(disk) = TxIndex
    /\ disk.seq = jnode.seq \/ HasSave(idle)

\* No payload is ahead of the index, and only orphans are behind it.
Current(sar) == sar.iv <= TxIndex /\ (~sar.orphan => sar.iv = TxIndex)
PayloadInv ==
    /\ busy # NotBusy => Current(busy.sar)
    /\ \A d \in Dst :
         /\ sarOut[d] # NoPayload => Current(sarOut[d])
         /\ \A k \in DOMAIN sarQueue[d] :
              /\ Current(sarQueue[d][k])
              /\ sarOut[d] = NoPayload => sarQueue[d][k].orphan

\* Numbers on the air and in the idle queue are behind the next one, and, unless
\* they are bare, behind the cached one and that of the file by the time they
\* are sent.
SaveAhead(k) == \E n \in 1..(k - 1) : idle[n] = Save
UsedInv ==
    /\ top[TxIndex] <= seq /\ top[TxIndex] <= disk.seq /\ top[TxIndex] <= jnode.seq
    /\ \A i \in Index : i > TxIndex => top[i] = 0
    /\ \A k \in DOMAIN idle : idle[k] # Save =>
         /\ idle[k].iv <= TxIndex
         /\ idle[k].iv = TxIndex =>
              /\ idle[k].seq < seq
              /\ ~idle[k].bare =>
                   idle[k].seq < jnode.seq /\ (idle[k].seq < disk.seq \/ SaveAhead(k))

\* NoncesFresh, where orphans may be ahead.
FreshInv ==
    \A k \in DOMAIN idle : Fresh(k) =>
        /\ idle[k].seq >= top[idle[k].iv]
        /\ \A n \in 1..(k - 1) : idle[n] # Save => Ascending(n, k)

IInv ==
    /\ TypeOK
    /\ StateInv
    /\ SavedInv
    /\ PayloadInv
    /\ UsedInv
    /\ FreshInv
-----------------------------------------------------------------------------
(***************************************************************************)
(* Taking numbers.                                                         *)
(***************************************************************************)

Item == Pdu \cup {Save}
Timer == {"off", "set", "due"}

\* A queue with nothing but saves put at its end.
Grown(q, r) ==
    /\ Len(q) <= Len(r)
    /\ \A k \in 1 .. Len(q) : r[k] = q[k]
    /\ \A k \in (Len(q) + 1) .. Len(r) : r[k] = Save

\* What taking numbers does to the next number (s, t), the cached number (c, d)
\* and the idle queue (q, r).  Only within the millisecond of write_time can the
\* cached number fall behind.
Took(s, c, q, t, d, r) ==
    /\ t \in SeqNum /\ d \in SeqNum /\ r \in Seq(Item)
    /\ s <= t /\ c <= d
    /\ Grown(q, r)
    /\ d # c => HasSave(r)
    /\ ~sameMs => t <= d

LEMMA ConstantTypes ==
    /\ SeqMask \in Nat /\ Trigger \in Nat /\ Value \in Nat
    /\ MaxIdle \in Nat /\ MaxIv \in Nat /\ Half \in Nat /\ DiffRange \in Nat
    /\ Segs \in Nat \ {0} /\ Trigger < Value
    /\ OutOfRange \in Nat \ {0} /\ SeqNum = 0 .. OutOfRange
    /\ \A n \in Nat : Capped(n) \in SeqNum
    /\ Save \notin Pdu
BY MeshIvAssumption DEF OutOfRange, SeqNum, Capped, Save, Pdu, Index

\* One number is taken: the file is asked to stay ahead, or need not be, or the
\* millisecond is not over.
LEMMA TakeOne ==
  ASSUME NEW s \in SeqNum, NEW c \in SeqNum, NEW q \in Seq(Item), NEW ms \in {FALSE, sameMs},
         sameMs \in BOOLEAN, NEW w, w \in SeqWrites(Capped(s + 1), c, q, ms)
  PROVE  Took(s, c, q, Capped(s + 1), w[1], w[2])
<1> DEFINE t == Capped(s + 1)
<1>1. /\ s \in Nat /\ c \in Nat /\ t \in SeqNum /\ t \in Nat /\ t # 0 /\ s <= t
      /\ t <= s + 1 /\ t <= OutOfRange /\ c <= OutOfRange /\ OutOfRange \in Nat
      /\ Trigger \in Nat /\ Value \in Nat /\ Trigger < Value
  BY ConstantTypes DEF SeqNum, Capped, OutOfRange
<1>2. Grown(q, q)
  BY DEF Grown
<1> HIDE DEF t
<1>3. CASE t + Trigger < c
  <2>1. w = <<c, q>>
    BY <1>1, <1>3 DEF SeqWrites, t
  <2> QED
    BY <1>1, <1>2, <1>3, <2>1 DEF Took, t
<1>4. CASE ms
  <2>1. w = <<c, q>> /\ sameMs
    BY <1>4 DEF SeqWrites
  <2> QED
    BY <1>1, <1>2, <2>1 DEF Took, t
<1>5. CASE ~(t + Trigger < c) /\ ~ms
  <2>1. PICK n \in Overcommits(t) : w = <<n, IF n = c THEN q ELSE Append(q, Save)>>
    BY <1>1, <1>5 DEF SeqWrites, t
  <2>2. /\ n \in SeqNum /\ n \in Nat
        /\ n = OutOfRange \/ t + Trigger < n
    <3>1. PICK r \in Rates : n = Capped(t + Value + r)
      BY DEF Overcommits
    <3>2. r \in Nat
      BY MeshIvAssumption
    <3> QED
      BY <1>1, <3>1, <3>2, ConstantTypes DEF Capped, OutOfRange
  <2>3. c <= n /\ t <= n
    BY <1>1, <1>5, <2>2
  <2>4. CASE n = c
    BY <1>1, <1>2, <2>1, <2>2, <2>3, <2>4 DEF Took, t
  <2>5. CASE n # c
    <3>1. w[1] = n /\ w[2] = Append(q, Save)
      BY <2>1, <2>5
    <3>2. /\ Append(q, Save) \in Seq(Item)
          /\ Grown(q, Append(q, Save)) /\ HasSave(Append(q, Save))
      <4>1. /\ Save \in Item /\ Len(q) \in Nat
            /\ Len(Append(q, Save)) = Len(q) + 1
            /\ DOMAIN Append(q, Save) = 1 .. Len(q) + 1
            /\ \A k \in 1 .. Len(q) : Append(q, Save)[k] = q[k]
            /\ Append(q, Save)[Len(q) + 1] = Save
        BY DEF Item
      <4>2. (Len(q) + 1) .. (Len(q) + 1) = {Len(q) + 1}
        BY <4>1
      <4> QED
        BY <4>1, <4>2 DEF Grown, HasSave
    <3> QED
      BY <1>1, <2>2, <2>3, <3>1, <3>2 DEF Took, t
  <2> QED
    BY <2>4, <2>5
<1> QED
  BY <1>3, <1>4, <1>5

\* Numbers taken one after the other.
LEMMA TakeMore ==
  ASSUME NEW s \in SeqNum, NEW c \in SeqNum, NEW q \in Seq(Item),
         NEW t, NEW d, NEW r, NEW u, NEW e, NEW z,
         Took(s, c, q, t, d, r), Took(t, d, r, u, e, z)
  PROVE  Took(s, c, q, u, e, z)
<1>1. /\ s \in Nat /\ t \in Nat /\ u \in Nat /\ c \in Nat /\ d \in Nat /\ e \in Nat
      /\ r \in Seq(Item) /\ z \in Seq(Item)
      /\ s <= t /\ t <= u /\ c <= d /\ d <= e
  BY ConstantTypes DEF Took, SeqNum
<1>2. Grown(q, r) /\ Grown(r, z)
  BY DEF Took
<1>3. /\ Len(q) \in Nat /\ Len(r) \in Nat /\ Len(z) \in Nat
      /\ Len(q) <= Len(r) /\ Len(r) <= Len(z)
  BY <1>1, <1>2 DEF Grown
<1>4. Grown(q, z)
  <2>1. \A k \in 1 .. Len(q) : k \in 1 .. Len(r)
    BY <1>3
  <2>2. \A k \in (Len(q) + 1) .. Len(z) :
           k \in (Len(r) + 1) .. Len(z) \/ (k \in 1 .. Len(r) /\ k \in (Len(q) + 1) .. Len(r))
    BY <1>3
  <2> QED
    BY <1>2, <1>3, <2>1, <2>2 DEF Grown
<1>5. HasSave(r) => HasSave(z)
  <2>1. DOMAIN r = 1 .. Len(r) /\ DOMAIN z = 1 .. Len(z)
    BY <1>1
  <2>2. DOMAIN r \subseteq DOMAIN z /\ \A k \in DOMAIN r : z[k] = r[k]
    BY <1>2, <1>3, <2>1 DEF Grown
  <2> QED
    BY <2>2 DEF HasSave
<1> QED
  BY <1>1, <1>4, <1>5 DEF Took

LEMMA CappedTwice ==
  ASSUME NEW s \in SeqNum, NEW k \in Nat
  PROVE  Capped(Capped(s + k) + 1) = Capped(s + (k + 1))
BY ConstantTypes DEF Capped, SeqNum, OutOfRange

\* The numbers a handler takes in a row.
LEMMA NumbersTaken ==
  ASSUME TypeOK, NEW n \in 1 .. 3, TakeNumbers(n),
         NEW w1, w1 \in NextWrites,
         NEW w2, n >= 2 => w2 \in KthWrites(2, w1),
         NEW w3, n = 3 => w3 \in KthWrites(3, w2),
         NEW w, w = IF n = 1 THEN w1 ELSE IF n = 2 THEN w2 ELSE w3
  PROVE  Took(seq, jnode.seq, idle, seq', w[1], w[2])
<1>1. /\ seq \in SeqNum /\ jnode.seq \in SeqNum /\ idle \in Seq(Item)
      /\ sameMs \in BOOLEAN /\ seq \in Nat
  BY ConstantTypes DEF TypeOK, Item, Config, SeqNum
<1>2. Took(seq, jnode.seq, idle, Capped(seq + 1), w1[1], w1[2])
  BY <1>1, TakeOne DEF NextWrites
<1>3. ASSUME NEW k \in {1, 2}, NEW a, NEW b, b \in KthWrites(k + 1, a),
             Took(seq, jnode.seq, idle, Capped(seq + k), a[1], a[2])
      PROVE  Took(seq, jnode.seq, idle, Capped(seq + (k + 1)), b[1], b[2])
  <2>1. Capped(seq + k) \in SeqNum /\ a[1] \in SeqNum /\ a[2] \in Seq(Item)
    BY <1>1, <1>3 DEF Took
  <2>2. Capped(Capped(seq + k) + 1) = Capped(seq + (k + 1))
    BY <1>1, CappedTwice
  <2>3. PICK ms \in {FALSE, sameMs} : b \in SeqWrites(Capped(seq + (k + 1)), a[1], a[2], ms)
    BY <1>3 DEF KthWrites
  <2>4. Took(Capped(seq + k), a[1], a[2], Capped(seq + (k + 1)), b[1], b[2])
    BY <1>1, <2>1, <2>2, <2>3, TakeOne
  <2>5. Took(seq, jnode.seq, idle, Capped(seq + k), a[1], a[2])
    BY <1>3
  <2>6. seq \in SeqNum /\ jnode.seq \in SeqNum /\ idle \in Seq(Item)
    BY <1>1
  <2> QED
    BY ONLY <2>4, <2>5, <2>6, TakeMore, SMTT(30)
<1>4. n >= 2 => Took(seq, jnode.seq, idle, Capped(seq + 2), w2[1], w2[2])
  BY <1>2, <1>3
<1>5. n = 3 => Took(seq, jnode.seq, idle, Capped(seq + 3), w3[1], w3[2])
  BY <1>3, <1>4
<1>6. n = 1 \/ n = 2 \/ n = 3
  OBVIOUS
<1>7. seq' = Capped(seq + n)
  BY DEF TakeNumbers
<1> QED
  BY <1>2, <1>4, <1>5, <1>6, <1>7

LEMMA AppendFacts ==
  ASSUME NEW S, NEW q \in Seq(S), NEW x \in S
  PROVE  /\ Append(q, x) \in Seq(S) /\ Len(Append(q, x)) = Len(q) + 1
         /\ DOMAIN Append(q, x) = 1 .. (Len(q) + 1)
         /\ \A k \in 1 .. Len(q) : Append(q, x)[k] = q[k]
         /\ Append(q, x)[Len(q) + 1] = x
OBVIOUS

LEMMA TxIndexType ==
  ASSUME TypeOK
  PROVE  TxIndex \in Int /\ TxIndex <= iv /\ (TxIndex >= 0 => TxIndex \in Index)
BY ConstantTypes DEF TypeOK, TxIndex, Index

\* What was taken is used at once: at most one PDU is put at the end of the
\* queue, with a number between the old and the new next one.
NewPdu(r) ==
    \E sar \in Payload, x \in 0..SeqMask :
        /\ Current(sar) /\ seq <= x /\ x < seq'
        /\ idle' = Append(r, PduOf(sar, x, jnode'.seq))

LEMMA NumbersUsed ==
  ASSUME TypeOK, StateInv, SavedInv, UsedInv, FreshInv, NEW r,
         Took(seq, jnode.seq, idle, seq', jnode'.seq, r), idle' = r \/ NewPdu(r),
         TxIndex' = TxIndex, top' = top,
         disk'.seq = disk.seq \/ disk'.seq = jnode'.seq
  PROVE  /\ seq' \in SeqNum /\ jnode'.seq \in SeqNum /\ idle' \in Seq(Item)
         /\ disk'.seq = jnode'.seq \/ HasSave(idle')
         /\ UsedInv' /\ FreshInv'
<1>1. /\ seq \in Nat /\ seq' \in Nat /\ jnode.seq \in Nat /\ jnode'.seq \in Nat
      /\ disk.seq \in Nat /\ disk'.seq \in Nat /\ sameMs \in BOOLEAN
      /\ seq' \in SeqNum /\ jnode'.seq \in SeqNum
      /\ r \in Seq(Item) /\ idle \in Seq(Item)
      /\ seq <= seq' /\ jnode.seq <= jnode'.seq
  <2>1. /\ seq' \in SeqNum /\ jnode'.seq \in SeqNum /\ r \in Seq(Item)
        /\ seq <= seq' /\ jnode.seq <= jnode'.seq
    BY DEF Took
  <2>2. /\ seq \in SeqNum /\ jnode.seq \in SeqNum /\ disk.seq \in SeqNum
        /\ idle \in Seq(Item) /\ sameMs \in BOOLEAN
    BY DEF TypeOK, Config, Item
  <2>3. disk'.seq \in SeqNum
    BY <2>1, <2>2
  <2>4. \A n \in SeqNum : n \in Nat
    BY ConstantTypes
  <2> QED
    BY <2>1, <2>2, <2>3, <2>4
<1>2. ~sameMs => seq' <= jnode'.seq
  BY DEF Took
<1>3. /\ Len(idle) \in Nat /\ Len(r) \in Nat /\ Len(idle) <= Len(r)
      /\ \A k \in 1 .. Len(idle) : r[k] = idle[k]
      /\ \A k \in (Len(idle) + 1) .. Len(r) : r[k] = Save
      /\ DOMAIN idle = 1 .. Len(idle) /\ DOMAIN r = 1 .. Len(r)
  BY <1>1 DEF Took, Grown
\* The file will have the cached number once the saves have run.
<1>4. disk'.seq = jnode'.seq \/ HasSave(r)
  <2>1. HasSave(idle) => HasSave(r)
    BY <1>3 DEF HasSave
  <2> QED
    BY <2>1 DEF SavedInv, Took
<1>5. disk.seq <= disk'.seq \/ disk'.seq = jnode'.seq
  BY <1>1
<1>6. /\ idle' \in Seq(Item) /\ Len(idle') \in Nat /\ DOMAIN idle' = 1 .. Len(idle')
      /\ Len(r) <= Len(idle') /\ Len(idle') <= Len(r) + 1
      /\ \A k \in 1 .. Len(r) : idle'[k] = r[k]
      /\ Len(idle') > Len(r) =>
           \E sar \in Payload, x \in 0..SeqMask :
              /\ Current(sar) /\ seq <= x /\ x < seq'
              /\ idle'[Len(r) + 1] = PduOf(sar, x, jnode'.seq) /\ PduOf(sar, x, jnode'.seq) \in Pdu
  <2>1. CASE idle' = r
    BY <1>1, <1>3, <2>1
  <2>2. CASE NewPdu(r)
    <3>1. PICK sar \in Payload, x \in 0..SeqMask :
             /\ Current(sar) /\ seq <= x /\ x < seq'
             /\ idle' = Append(r, PduOf(sar, x, jnode'.seq))
      BY <2>2 DEF NewPdu
    <3> DEFINE p == PduOf(sar, x, jnode'.seq)
    <3>2. p \in Pdu /\ p \in Item /\ p # Save
      <4>1. sar.iv \in Index /\ sar.orphan \in BOOLEAN
        BY DEF Payload
      <4>2. (sameMs /\ x >= jnode'.seq) \in BOOLEAN
        BY <1>1
      <4>3. p \in Pdu
        BY <4>1, <4>2 DEF PduOf, Pdu
      <4> QED
        BY <4>3, ConstantTypes DEF Item
    <3> HIDE DEF p
    <3>3. /\ idle' \in Seq(Item) /\ Len(idle') = Len(r) + 1
          /\ DOMAIN idle' = 1 .. Len(idle')
          /\ \A k \in 1 .. Len(r) : idle'[k] = r[k]
          /\ idle'[Len(r) + 1] = p
      <4>1. Append(r, p) \in Seq(Item) /\ Len(Append(r, p)) = Len(r) + 1
        BY <1>1, <3>2, AppendFacts
      <4>2. /\ DOMAIN Append(r, p) = 1 .. (Len(r) + 1)
            /\ \A k \in 1 .. Len(r) : Append(r, p)[k] = r[k]
            /\ Append(r, p)[Len(r) + 1] = p
        BY <1>1, <3>2, AppendFacts
      <4> QED
        BY <3>1, <4>1, <4>2 DEF p
    <3>4. Len(r) <= Len(idle') /\ Len(idle') <= Len(r) + 1 /\ Len(idle') \in Nat
      BY <1>3, <3>3
    <3> QED
      BY <3>1, <3>2, <3>3, <3>4 DEF p
  <2> QED
    BY <2>1, <2>2
<1>7. HasSave(r) => HasSave(idle')
  BY <1>3, <1>6 DEF HasSave
\* An entry of the new queue is an old one, a save or the new PDU.
<1>8. \A k \in DOMAIN idle' : idle'[k] # Save =>
         \/ k \in DOMAIN idle /\ idle'[k] = idle[k]
         \/ k = Len(r) + 1 /\ Len(idle') > Len(r)
  <2> SUFFICES ASSUME NEW k \in DOMAIN idle', idle'[k] # Save, k # Len(r) + 1
               PROVE  k \in DOMAIN idle /\ idle'[k] = idle[k]
    BY <1>3, <1>6
  <2>1. k \in 1 .. Len(r) /\ idle'[k] = r[k]
    BY <1>3, <1>6
  <2>2. k \in 1 .. Len(idle)
    BY <1>3, <2>1
  <2> QED
    BY <1>3, <2>1, <2>2
<1>9. \A k \in DOMAIN idle : k \in DOMAIN idle' /\ idle'[k] = idle[k]
  BY <1>3, <1>6
<1>10. TxIndex \in Index /\ \A i \in Index : top[i] \in Nat
  <2>1. TxIndex \in Index
    BY TxIndexType DEF StateInv
  <2>2. \A i \in Index : top[i] \in SeqNum
    BY DEF TypeOK
  <2> QED
    BY <2>1, <2>2, ConstantTypes DEF SeqNum
<1>11. UsedInv'
  <2>1. /\ top'[TxIndex'] <= seq' /\ top'[TxIndex'] <= disk'.seq
        /\ top'[TxIndex'] <= jnode'.seq
    BY <1>1, <1>10 DEF UsedInv
  <2>2. \A i \in Index : i > TxIndex' => top'[i] = 0
    BY DEF UsedInv
  <2>3. ASSUME NEW k \in DOMAIN idle', idle'[k] # Save
        PROVE  /\ idle'[k].iv <= TxIndex
               /\ idle'[k].iv = TxIndex =>
                    /\ idle'[k].seq < seq'
                    /\ ~idle'[k].bare =>
                         /\ idle'[k].seq < jnode'.seq
                         /\ idle'[k].seq < disk'.seq \/ \E n \in 1..(k - 1) : idle'[n] = Save
    <3>1. CASE k \in DOMAIN idle /\ idle'[k] = idle[k]
      <4>1. idle[k].iv <= TxIndex
        BY <2>3, <3>1 DEF UsedInv
      <4>2. ASSUME idle[k].iv = TxIndex
            PROVE  /\ idle[k].seq < seq'
                   /\ ~idle[k].bare =>
                        /\ idle[k].seq < jnode'.seq
                        /\ idle[k].seq < disk'.seq \/ \E n \in 1..(k - 1) : idle'[n] = Save
        <5>1. /\ idle[k].seq < seq
              /\ ~idle[k].bare =>
                   idle[k].seq < jnode.seq /\ (idle[k].seq < disk.seq \/ SaveAhead(k))
          BY <2>3, <3>1, <4>2 DEF UsedInv
        <5>2. idle[k].seq \in Nat
          BY <1>1, <2>3, <3>1 DEF Item, Pdu
        <5>3. SaveAhead(k) => \E n \in 1..(k - 1) : idle'[n] = Save
          <6>1. \A n \in 1..(k - 1) : n \in DOMAIN idle
            BY <1>3, <3>1
          <6> QED
            BY <1>9, <6>1 DEF SaveAhead
        <5> QED
          BY <1>1, <5>1, <5>2, <5>3
      <4> QED
        BY <3>1, <4>1, <4>2
    <3>2. CASE k = Len(r) + 1 /\ Len(idle') > Len(r)
      <4>1. PICK sar \in Payload, x \in 0..SeqMask :
               /\ Current(sar) /\ seq <= x /\ x < seq'
               /\ idle'[k] = PduOf(sar, x, jnode'.seq)
        BY <1>6, <3>2
      <4>2. /\ idle'[k].iv = sar.iv /\ idle'[k].seq = x /\ sar.iv <= TxIndex
            /\ idle'[k].bare = (sameMs /\ x >= jnode'.seq) /\ x \in Nat
        BY <4>1, ConstantTypes DEF PduOf, Current
      <4>3. ~idle'[k].bare => x < jnode'.seq
        BY <1>1, <1>2, <4>1, <4>2
      <4>4. HasSave(r) => \E n \in 1..(k - 1) : idle'[n] = Save
        BY <1>3, <1>6, <3>2 DEF HasSave
      <4> QED
        BY <1>4, <4>1, <4>2, <4>3, <4>4
    <3> QED
      BY <1>8, <2>3, <3>1, <3>2
  <2> QED
    BY <2>1, <2>2, <2>3 DEF UsedInv, SaveAhead
<1>12. FreshInv'
  <2> SUFFICES ASSUME NEW k \in DOMAIN idle', idle'[k] # Save, ~idle'[k].orphan
               PROVE  /\ idle'[k].seq >= top[idle'[k].iv]
                      /\ \A n \in 1..(k - 1) : idle'[n] # Save =>
                            (idle'[n].iv = idle'[k].iv => idle'[n].seq < idle'[k].seq)
    BY DEF FreshInv, Fresh, Ascending
  <2>1. CASE k \in DOMAIN idle /\ idle'[k] = idle[k]
    <3>1. \A n \in 1..(k - 1) : n \in DOMAIN idle /\ idle'[n] = idle[n]
      BY <1>3, <1>9, <2>1
    <3> QED
      BY <2>1, <3>1 DEF FreshInv, Fresh, Ascending
  <2>2. CASE k = Len(r) + 1 /\ Len(idle') > Len(r)
    <3>1. PICK sar \in Payload, x \in 0..SeqMask :
             /\ Current(sar) /\ seq <= x /\ x < seq'
             /\ idle'[k] = PduOf(sar, x, jnode'.seq)
      BY <1>6, <2>2
    <3>2. /\ idle'[k].iv = sar.iv /\ idle'[k].seq = x /\ sar.iv = TxIndex
          /\ x \in Nat
      BY <3>1, ConstantTypes DEF PduOf, Current
    <3>3. x >= top[TxIndex]
      BY <1>1, <1>10, <3>1, <3>2 DEF UsedInv
    <3>4. ASSUME NEW n \in 1..(k - 1), idle'[n] # Save, idle'[n].iv = TxIndex
          PROVE  idle'[n].seq < x
      <4>1. n \in DOMAIN idle' /\ n # Len(r) + 1
        BY <1>3, <1>6, <2>2
      <4>2. n \in DOMAIN idle /\ idle'[n] = idle[n]
        BY <1>8, <3>4, <4>1
      <4>3. idle[n].seq < seq
        BY <3>4, <4>2 DEF UsedInv
      <4>4. idle[n].seq \in Nat
        BY <1>1, <3>4, <4>2 DEF Item, Pdu
      <4> QED
        BY <1>1, <3>1, <3>2, <4>2, <4>3, <4>4
    <3> QED
      BY <3>2, <3>3, <3>4
  <2> QED
    BY <1>8, <2>1, <2>2
<1> QED
  BY <1>1, <1>4, <1>6, <1>7, <1>11, <1>12

-----------------------------------------------------------------------------
(***************************************************************************)
(* The other steps: a new index, payloads that move, the idle queue.       *)
(***************************************************************************)

\* The number starts again: the file is asked for the new one, or has a higher
\* one that will do.
LEMMA StartAgain ==
  ASSUME TypeOK, NEW w, w \in SeqWrites(0, jnode.seq, idle, sameMs)
  PROVE  /\ w[1] \in SeqNum /\ w[2] \in Seq(Item) /\ Grown(idle, w[2])
         /\ (w[1] = jnode.seq /\ w[2] = idle) \/ HasSave(w[2])
<1>1. /\ jnode.seq \in SeqNum /\ idle \in Seq(Item) /\ sameMs \in BOOLEAN
      /\ Value \in Nat
  BY ConstantTypes DEF TypeOK, Config, Item
<1>2. CASE sameMs
  <2>1. w = <<jnode.seq, idle>>
    BY <1>2 DEF SeqWrites
  <2>2. Grown(idle, idle)
    BY DEF Grown
  <2> QED
    BY <1>1, <2>1, <2>2
<1>3. CASE ~sameMs
  <2>1. PICK n \in Overcommits(0) : w = <<n, Append(idle, Save)>>
    BY <1>3 DEF SeqWrites
  <2>2. n \in SeqNum
    <3>1. PICK r \in Rates : n = Capped(0 + Value + r)
      BY <2>1 DEF Overcommits
    <3>2. r \in Nat
      BY MeshIvAssumption
    <3>3. 0 + Value + r \in Nat
      BY <1>1, <3>2
    <3> QED
      BY <3>1, <3>3, ConstantTypes
  <2>3. /\ Append(idle, Save) \in Seq(Item)
        /\ Grown(idle, Append(idle, Save)) /\ HasSave(Append(idle, Save))
    <3>1. Save \in Item /\ Len(idle) \in Nat
      BY <1>1 DEF Item
    <3>2. /\ Append(idle, Save) \in Seq(Item) /\ Len(Append(idle, Save)) = Len(idle) + 1
          /\ DOMAIN Append(idle, Save) = 1 .. (Len(idle) + 1)
          /\ \A k \in 1 .. Len(idle) : Append(idle, Save)[k] = idle[k]
          /\ Append(idle, Save)[Len(idle) + 1] = Save
      BY <1>1, <3>1, AppendFacts
    <3>3. (Len(idle) + 1) .. (Len(idle) + 1) = {Len(idle) + 1}
      BY <3>1
    <3> QED
      BY <3>1, <3>2, <3>3 DEF Grown, HasSave
  <2> QED
    BY <2>1, <2>2, <2>3
<1> QED
  BY <1>1, <1>2, <1>3

\* Under a new index nothing has been sent and nothing waits.
LEMMA NewIndex ==
  ASSUME TypeOK, StateInv, UsedInv, FreshInv, TxIndex' \in Index, TxIndex' > TxIndex,
         idle' \in Seq(Item), Grown(idle, idle'), top' = top,
         seq' \in Nat, disk'.seq \in Nat, jnode'.seq \in Nat
  PROVE  UsedInv' /\ FreshInv'
<1>1. TxIndex \in Index /\ TxIndex \in Int /\ TxIndex' \in Int
  BY TxIndexType, ConstantTypes DEF StateInv, Index
<1>2. /\ idle \in Seq(Item)
      /\ \A k \in DOMAIN idle' : idle'[k] # Save =>
           /\ k \in DOMAIN idle /\ idle'[k] = idle[k] /\ idle[k].iv \in Int
           /\ \A n \in 1..(k - 1) : n \in DOMAIN idle /\ idle'[n] = idle[n]
  <2>1. idle \in Seq(Item)
    BY DEF TypeOK, Item
  <2>2. /\ Len(idle) \in Nat /\ Len(idle') \in Nat
        /\ DOMAIN idle = 1 .. Len(idle) /\ DOMAIN idle' = 1 .. Len(idle')
    BY <2>1
  <2>3. ASSUME NEW k \in DOMAIN idle', idle'[k] # Save
        PROVE  k \in 1 .. Len(idle) /\ idle'[k] = idle[k]
    BY <2>2, <2>3 DEF Grown
  <2>4. \A k \in 1 .. Len(idle) : \A n \in 1..(k - 1) :
            n \in 1 .. Len(idle) /\ idle'[n] = idle[n]
    BY <2>2 DEF Grown
  <2>5. \A k \in DOMAIN idle : idle[k] # Save => idle[k].iv \in Int
    BY <2>1, ConstantTypes DEF Item, Pdu, Index
  <2> QED
    BY <2>1, <2>2, <2>3, <2>4, <2>5
<1>3. UsedInv'
  <2>1. top'[TxIndex'] = 0
    BY DEF UsedInv
  <2>2. \A i \in Index : i > TxIndex' => top'[i] = 0
    BY <1>1, ConstantTypes DEF UsedInv, Index
  <2>3. \A k \in DOMAIN idle' : idle'[k] # Save => idle'[k].iv <= TxIndex' /\ idle'[k].iv # TxIndex'
    BY <1>1, <1>2 DEF UsedInv
  <2> QED
    BY <2>1, <2>2, <2>3 DEF UsedInv
<1>4. FreshInv'
  BY <1>2 DEF FreshInv, Fresh, Ascending
<1> QED
  BY <1>3, <1>4

LEMMA PayloadIndex == \A sar \in Payload : sar.iv \in Int
<1>1. Index \subseteq Int
  BY ConstantTypes DEF Index
<1> QED
  BY <1>1 DEF Payload

\* The index does not move while messages are on their way, but for orphans.
LEMMA PayloadsKept ==
  ASSUME TypeOK, PayloadInv, busy' = busy, sarOut' = sarOut, sarQueue' = sarQueue,
         TxIndex' \in Int, TxIndex' >= TxIndex,
         TxIndex' = TxIndex \/ (busy = NotBusy /\ \A d \in Dst : sarOut[d] = NoPayload)
  PROVE  PayloadInv'
<1>1. CASE TxIndex' = TxIndex
  BY <1>1 DEF PayloadInv, Current
<1>2. CASE busy = NotBusy /\ \A d \in Dst : sarOut[d] = NoPayload
  <2>1. ASSUME NEW d \in Dst, NEW k \in DOMAIN sarQueue[d]
        PROVE  sarQueue[d][k].orphan /\ sarQueue[d][k].iv <= TxIndex'
    <3>1. sarQueue[d][k] \in Payload /\ sarQueue[d][k].iv \in Int
      <4>1. sarQueue[d] \in Seq(Payload)
        BY DEF TypeOK
      <4>2. sarQueue[d][k] \in Payload
        BY <2>1, <4>1
      <4> QED
        BY <4>2, PayloadIndex
    <3>2. Current(sarQueue[d][k]) /\ sarQueue[d][k].orphan
      BY <1>2, <2>1 DEF PayloadInv
    <3> QED
      BY <3>1, <3>2, TxIndexType DEF Current
  <2> QED
    BY <1>2, <2>1 DEF PayloadInv, Current
<1> QED
  BY <1>1, <1>2

\* send_seg and mesh_net_app_send: the update begins, and the index PDUs are
\* sent with stays the same.
LEMMA UpdateKeeps ==
  ASSUME TypeOK, StateInv, SavedInv, seq' \in SeqNum, NEW c \in SeqNum, UpdateWhenHalf(c)
  PROVE  /\ iv' \in Index /\ ivu' \in BOOLEAN /\ timer' \in Timer
         /\ state' \in {"INIT", "NORMAL", "UPDATING", "NORMAL_HOLD"}
         /\ jnode' \in Config /\ disk' \in Config
         /\ StateInv' /\ TxIndex' = TxIndex /\ jnode'.seq = c
         /\ IndexOf(jnode') = TxIndex' /\ IndexOf(disk') = TxIndex'
         /\ disk'.seq = disk.seq \/ disk'.seq = jnode'.seq
<1>1. /\ iv \in Index /\ iv \in Nat /\ jnode \in Config /\ disk \in Config
      /\ ivu \in BOOLEAN /\ timer \in Timer
      /\ state \in {"INIT", "NORMAL", "UPDATING", "NORMAL_HOLD"}
  BY ConstantTypes DEF TypeOK, Index, Timer
<1>2. CASE seq' > Half /\ state = "NORMAL" /\ iv < MaxIv
  <2>1. \/ StartUpdate(c)
        \/ FailUpdate(c) /\ state' = state /\ timer' = timer
    BY <1>2 DEF UpdateWhenHalf, mesh_net_iv_index_update
  <2>2. ivu = FALSE /\ TxIndex = iv
    BY <1>1, <1>2 DEF StateInv, TxIndex
  <2>3. /\ jnode' = [seq |-> c, iv |-> iv + 1, upd |-> TRUE] /\ jnode' \in Config
        /\ jnode'.seq = c /\ IndexOf(jnode') = TxIndex
    <3>1. iv + 1 \in Index
      BY <1>1, <1>2, ConstantTypes DEF Index
    <3>2. jnode' = [seq |-> c, iv |-> iv + 1, upd |-> TRUE]
      BY <2>1 DEF StartUpdate, FailUpdate
    <3>3. jnode' \in Config
      BY <3>1, <3>2 DEF Config
    <3>4. jnode'.seq = c /\ jnode'.iv = iv + 1 /\ jnode'.upd
      BY <3>2
    <3> QED
      BY <1>1, <2>2, <3>2, <3>3, <3>4 DEF IndexOf
  <2>4. CASE StartUpdate(c)
    <3>1. iv' = iv + 1 /\ ivu' = TRUE /\ state' = "UPDATING" /\ timer' = "set" /\ disk' = jnode'
      BY <2>4 DEF StartUpdate
    <3>2. iv' \in Index /\ TxIndex' = TxIndex
      BY <1>1, <1>2, <2>2, <3>1, ConstantTypes DEF Index, TxIndex
    <3> QED
      BY <1>1, <2>3, <3>1, <3>2 DEF StateInv, Timer
  <2>5. CASE FailUpdate(c) /\ state' = state /\ timer' = timer
    <3>1. iv' = iv /\ ivu' = ivu /\ disk' = disk
      BY <2>5 DEF FailUpdate
    <3>2. TxIndex' = TxIndex
      BY <3>1 DEF TxIndex
    <3> QED
      BY <1>1, <2>3, <2>5, <3>1, <3>2 DEF StateInv, SavedInv
  <2> QED
    BY <2>1, <2>4, <2>5
<1>3. CASE ~(seq' > Half /\ state = "NORMAL" /\ iv < MaxIv)
  <2>1. /\ iv' = iv /\ ivu' = ivu /\ state' = state /\ timer' = timer /\ disk' = disk
        /\ jnode' = [jnode EXCEPT !.seq = c]
    BY <1>3 DEF UpdateWhenHalf, mesh_net_iv_index_update, ivVars
  <2>2. jnode' \in Config /\ jnode'.seq = c /\ jnode'.iv = jnode.iv /\ jnode'.upd = jnode.upd
    BY <1>1, <2>1 DEF Config
  <2> QED
    BY <1>1, <2>1, <2>2 DEF StateInv, SavedInv, TxIndex, IndexOf
<1> QED
  BY <1>2, <1>3

-----------------------------------------------------------------------------
(***************************************************************************)
(* The invariant, action by action.  First the handlers that take numbers. *)
(***************************************************************************)

\* Everything but the loop, the payloads and the procedure, which are the
\* hypotheses here.
LEMMA TakingKeeps ==
  ASSUME IInv, NEW r,
         Took(seq, jnode.seq, idle, seq', jnode'.seq, r), sameMs' \in BOOLEAN,
         idle' = r \/ NewPdu(r),
         iv' \in Index, ivu' \in BOOLEAN, timer' \in Timer,
         state' \in {"INIT", "NORMAL", "UPDATING", "NORMAL_HOLD"},
         jnode' \in Config, disk' \in Config,
         IndexOf(jnode') = TxIndex', IndexOf(disk') = TxIndex',
         disk'.seq = disk.seq \/ disk'.seq = jnode'.seq,
         StateInv', TxIndex' = TxIndex, top' = top, crashes' = crashes,
         sarOut' \in [Dst -> Payload \cup {NoPayload}], sarQueue' \in [Dst -> Seq(Payload)],
         busy' \in Busy \cup {NotBusy}, PayloadInv'
  PROVE  IInv'
<1>1. /\ seq' \in SeqNum /\ jnode'.seq \in SeqNum /\ idle' \in Seq(Item)
      /\ disk'.seq = jnode'.seq \/ HasSave(idle')
      /\ UsedInv' /\ FreshInv'
  BY NumbersUsed DEF IInv
<1>2. TypeOK'
  BY <1>1 DEF IInv, TypeOK, Item, Timer
<1>3. SavedInv'
  BY <1>1 DEF SavedInv, HasSave, IndexOf
<1> QED
  BY <1>1, <1>2, <1>3 DEF IInv

\* The PDU of a payload, under the last of the numbers taken.
LEMMA SendsPdu ==
  ASSUME TypeOK, NEW STATE sar, sar \in Payload, Current(sar), NEW w,
         NEW n \in Nat \ {0}, seq' = Capped(seq + n), jnode'.seq = w[1],
         idle' = SendPdu(w, sar, Capped(seq + n - 1))
  PROVE  idle' = w[2] \/ NewPdu(w[2])
<1> DEFINE x == Capped(seq + n - 1)
<1>1. seq \in Nat /\ seq <= OutOfRange /\ OutOfRange = SeqMask + 1 /\ SeqMask \in Nat
  BY ConstantTypes DEF TypeOK, SeqNum, OutOfRange
<1>2. CASE x <= SeqMask
  <2>1. x \in 0..SeqMask /\ seq <= x /\ x < seq'
    BY <1>1, <1>2 DEF Capped
  <2>2. idle' = Append(w[2], PduOf(sar, x, jnode'.seq))
    BY <1>2 DEF SendPdu, Sendable
  <2> QED
    BY <2>1, <2>2 DEF NewPdu
<1>3. CASE ~(x <= SeqMask)
  BY <1>3 DEF SendPdu, Sendable
<1> QED
  BY <1>2, <1>3

\* A payload that is made now is current.
LEMMA NewIsCurrent ==
  ASSUME TypeOK, StateInv
  PROVE  NewPayload \in Payload /\ Current(NewPayload)
<1>1. TxIndex \in Index /\ TxIndex \in Int
  BY TxIndexType DEF StateInv
<1> QED
  BY <1>1 DEF NewPayload, Payload, Current

LEMMA Constants3 == 1 \in 1 .. 3 /\ 2 \in 1 .. 3 /\ 3 \in 1 .. 3
OBVIOUS

LEMMA ControlKeeps ==
  ASSUME IInv, NEW unicast \in BOOLEAN, mesh_net_transport_send(unicast)
  PROVE  IInv'
<1> DEFINE n == IF unicast THEN 3 ELSE 2
<1>1. /\ TypeOK /\ StateInv /\ SavedInv /\ PayloadInv
      /\ jnode \in Config /\ iv' = iv /\ ivu' = ivu /\ state' = state /\ timer' = timer
      /\ disk' = disk /\ sarOut' = sarOut /\ sarQueue' = sarQueue /\ busy' = busy
      /\ top' = top /\ crashes' = crashes
      /\ TakeNumbers(n)
  BY DEF IInv, mesh_net_transport_send, ivVars, sarVars, TypeOK
<1>2. PICK w1 \in NextWrites : \E w2 \in KthWrites(2, w1) :
      \E w \in IF unicast THEN KthWrites(3, w2) ELSE {w2} :
         /\ jnode' = [jnode EXCEPT !.seq = w[1]]
         /\ idle' = SendPdu(w, NewPayload, Capped(seq + n - 1))
  BY DEF mesh_net_transport_send
<1>3. PICK w2 \in KthWrites(2, w1) :
      \E w \in IF unicast THEN KthWrites(3, w2) ELSE {w2} :
         /\ jnode' = [jnode EXCEPT !.seq = w[1]]
         /\ idle' = SendPdu(w, NewPayload, Capped(seq + n - 1))
  BY <1>2
<1>4. PICK w \in IF unicast THEN KthWrites(3, w2) ELSE {w2} :
         /\ jnode' = [jnode EXCEPT !.seq = w[1]]
         /\ idle' = SendPdu(w, NewPayload, Capped(seq + n - 1))
  BY <1>3
<1>5. Took(seq, jnode.seq, idle, seq', w[1], w[2])
  <2>1. CASE unicast
    <3>1. TakeNumbers(3) /\ w \in KthWrites(3, w2)
      BY <1>1, <1>4, <2>1
    <3>2. w = IF 3 = 1 THEN w1 ELSE IF 3 = 2 THEN w2 ELSE w
      OBVIOUS
    <3> QED
      BY <1>1, <3>1, <3>2, NumbersTaken, Constants3
  <2>2. CASE ~unicast
    <3>1. TakeNumbers(2) /\ w = w2
      BY <1>1, <1>4, <2>2
    <3>2. w = IF 2 = 1 THEN w1 ELSE IF 2 = 2 THEN w2 ELSE w2
      BY <3>1
    <3> QED
      BY <1>1, <3>1, <3>2, NumbersTaken, Constants3
  <2> QED
    BY <2>1, <2>2
<1>6. jnode' \in Config /\ jnode'.seq = w[1] /\ jnode'.iv = jnode.iv /\ jnode'.upd = jnode.upd
  BY <1>1, <1>4, <1>5 DEF Config, Took
<1>7. idle' = w[2] \/ NewPdu(w[2])
  <2>1. n \in Nat \ {0} /\ seq' = Capped(seq + n)
    BY <1>1 DEF TakeNumbers
  <2> HIDE DEF n
  <2> QED
    BY <1>1, <1>4, <1>6, <2>1, SendsPdu, NewIsCurrent
<1>8. sameMs' \in BOOLEAN
  BY <1>1 DEF TypeOK, TakeNumbers
<1>9. TxIndex' = TxIndex /\ StateInv'
  BY <1>1 DEF TxIndex, StateInv
<1>10. PayloadInv'
  BY <1>1, <1>9 DEF PayloadInv, Current
<1>11. /\ iv' \in Index /\ ivu' \in BOOLEAN /\ timer' \in Timer
       /\ state' \in {"INIT", "NORMAL", "UPDATING", "NORMAL_HOLD"} /\ disk' \in Config
       /\ sarOut' \in [Dst -> Payload \cup {NoPayload}] /\ sarQueue' \in [Dst -> Seq(Payload)]
       /\ busy' \in Busy \cup {NotBusy}
       /\ IndexOf(jnode') = TxIndex' /\ IndexOf(disk') = TxIndex'
       /\ disk'.seq = disk.seq
  BY <1>1, <1>6, <1>9 DEF TypeOK, SavedInv, IndexOf, Timer
<1> HIDE DEF n
<1> QED
  BY <1>1, <1>5, <1>6, <1>8, <1>7, <1>9, <1>10, <1>11, TakingKeeps

\* One number taken, and what mesh_net_next_seq_num leaves alone.
LEMMA OneTaken ==
  ASSUME TypeOK, mesh_net_next_seq_num, NEW w, w \in NextWrites
  PROVE  /\ Took(seq, jnode.seq, idle, seq', w[1], w[2])
         /\ sameMs' \in BOOLEAN /\ seq' \in SeqNum /\ w[1] \in SeqNum
<1>1. Took(seq, jnode.seq, idle, seq', w[1], w[2])
  <2>1. TakeNumbers(1)
    BY DEF mesh_net_next_seq_num
  <2>2. w = IF 1 = 1 THEN w ELSE IF 1 = 2 THEN w ELSE w
    OBVIOUS
  <2> QED
    BY <2>1, <2>2, NumbersTaken, Constants3
<1>2. sameMs \in BOOLEAN
  BY DEF TypeOK
<1> QED
  BY <1>1, <1>2 DEF mesh_net_next_seq_num, TakeNumbers, Took

LEMMA ShortKeeps ==
  ASSUME IInv, app_send_short
  PROVE  IInv'
<1>1. /\ TypeOK /\ StateInv /\ SavedInv /\ PayloadInv
      /\ sarOut' = sarOut /\ sarQueue' = sarQueue /\ busy' = busy
      /\ top' = top /\ crashes' = crashes /\ mesh_net_next_seq_num
  BY DEF IInv, app_send_short, sarVars
<1>2. PICK w \in NextWrites :
         UpdateWhenHalf(w[1]) /\ idle' = SendPdu(w, NewPayload, seq)
  BY DEF app_send_short
<1>3. /\ Took(seq, jnode.seq, idle, seq', w[1], w[2])
      /\ sameMs' \in BOOLEAN /\ seq' \in SeqNum /\ w[1] \in SeqNum
  BY <1>1, OneTaken
<1>4. /\ iv' \in Index /\ ivu' \in BOOLEAN /\ timer' \in Timer
      /\ state' \in {"INIT", "NORMAL", "UPDATING", "NORMAL_HOLD"}
      /\ jnode' \in Config /\ disk' \in Config
      /\ StateInv' /\ TxIndex' = TxIndex /\ jnode'.seq = w[1]
      /\ IndexOf(jnode') = TxIndex' /\ IndexOf(disk') = TxIndex'
      /\ disk'.seq = disk.seq \/ disk'.seq = jnode'.seq
  BY <1>1, <1>2, <1>3, UpdateKeeps
<1>5. idle' = w[2] \/ NewPdu(w[2])
  <2>1. seq' = Capped(seq + 1)
    BY <1>1 DEF mesh_net_next_seq_num, TakeNumbers
  <2>2. Capped(seq + 1 - 1) = seq
    BY <1>1, ConstantTypes DEF TypeOK, SeqNum, Capped, OutOfRange
  <2>3. 1 \in Nat \ {0}
    OBVIOUS
  <2>4. idle' = SendPdu(w, NewPayload, Capped(seq + 1 - 1))
    BY <1>2, <2>2
  <2> QED
    BY <1>1, <1>4, <2>1, <2>3, <2>4, SendsPdu, NewIsCurrent
<1>6. PayloadInv'
  BY <1>1, <1>4 DEF PayloadInv, Current
<1>7. /\ sarOut' \in [Dst -> Payload \cup {NoPayload}] /\ sarQueue' \in [Dst -> Seq(Payload)]
      /\ busy' \in Busy \cup {NotBusy}
  BY <1>1 DEF TypeOK
<1> QED
  BY <1>1, <1>3, <1>5, <1>4, <1>6, <1>7, TakingKeeps

\* What a new segmented message does apart from its payload.
LEMMA SegmentedTakes ==
  ASSUME IInv, HandlerMayRun, mesh_net_next_seq_num,
         \E w \in NextWrites : jnode' = [jnode EXCEPT !.seq = w[1]] /\ idle' = w[2],
         UNCHANGED <<ivVars, disk, sarOut, top, crashes>>,
         sarQueue' \in [Dst -> Seq(Payload)], busy' \in Busy \cup {NotBusy}, PayloadInv'
  PROVE  IInv'
<1>1. /\ TypeOK /\ StateInv /\ SavedInv /\ jnode \in Config
      /\ iv' = iv /\ ivu' = ivu /\ state' = state /\ timer' = timer
      /\ disk' = disk /\ sarOut' = sarOut /\ top' = top /\ crashes' = crashes
  BY DEF IInv, ivVars, TypeOK
<1>2. PICK w \in NextWrites : jnode' = [jnode EXCEPT !.seq = w[1]] /\ idle' = w[2]
  OBVIOUS
<1>3. /\ Took(seq, jnode.seq, idle, seq', w[1], w[2])
      /\ sameMs' \in BOOLEAN /\ seq' \in SeqNum /\ w[1] \in SeqNum
  BY <1>1, OneTaken
<1>4. jnode' \in Config /\ jnode'.seq = w[1] /\ jnode'.iv = jnode.iv /\ jnode'.upd = jnode.upd
  BY <1>1, <1>2, <1>3 DEF Config
<1>5. TxIndex' = TxIndex /\ StateInv'
  BY <1>1 DEF TxIndex, StateInv
<1>6. /\ iv' \in Index /\ ivu' \in BOOLEAN /\ timer' \in Timer
      /\ state' \in {"INIT", "NORMAL", "UPDATING", "NORMAL_HOLD"} /\ disk' \in Config
      /\ sarOut' \in [Dst -> Payload \cup {NoPayload}]
      /\ IndexOf(jnode') = TxIndex' /\ IndexOf(disk') = TxIndex'
      /\ disk'.seq = disk.seq
  BY <1>1, <1>4, <1>5 DEF TypeOK, SavedInv, IndexOf, Timer
<1> QED
  BY <1>1, <1>2, <1>3, <1>4, <1>5, <1>6, TakingKeeps

LEMMA SegmentedKeeps ==
  ASSUME IInv, NEW d \in Dst, app_send_segmented(d)
  PROVE  IInv'
<1>1. /\ TypeOK /\ StateInv /\ PayloadInv /\ HandlerMayRun /\ mesh_net_next_seq_num
      /\ \E w \in NextWrites : jnode' = [jnode EXCEPT !.seq = w[1]] /\ idle' = w[2]
      /\ UNCHANGED <<ivVars, disk, sarOut, top, crashes>>
      /\ sarOut' = sarOut /\ TxIndex' = TxIndex
      /\ sarQueue \in [Dst -> Seq(Payload)] /\ busy \in Busy \cup {NotBusy}
      /\ NewPayload \in Payload /\ Current(NewPayload)
  BY NewIsCurrent DEF IInv, app_send_segmented, ivVars, TxIndex, TypeOK
<1>2. CASE sarOut[d] # NoPayload
  <2>1. sarQueue' = [sarQueue EXCEPT ![d] = Append(@, NewPayload)] /\ busy' = busy
    BY <1>2 DEF app_send_segmented
  <2>2. sarQueue' \in [Dst -> Seq(Payload)] /\ busy' \in Busy \cup {NotBusy}
    BY <1>1, <2>1
  <2>3. PayloadInv'
    <3>1. busy' # NotBusy => Current(busy.sar)
      BY <1>1, <2>1 DEF PayloadInv
    <3>2. ASSUME NEW e \in Dst, NEW k \in DOMAIN sarQueue'[e]
          PROVE  Current(sarQueue'[e][k]) /\ (sarOut[e] = NoPayload => sarQueue'[e][k].orphan)
      <4>1. CASE e # d
        BY <1>1, <2>1, <3>2, <4>1 DEF PayloadInv
      <4>2. CASE e = d
        <5>1. sarQueue[d] \in Seq(Payload) /\ sarQueue'[d] = Append(sarQueue[d], NewPayload)
          BY <1>1, <2>1
        <5>2. /\ k \in 1 .. (Len(sarQueue[d]) + 1) /\ Len(sarQueue[d]) \in Nat
              /\ \A n \in 1 .. Len(sarQueue[d]) : sarQueue'[d][n] = sarQueue[d][n]
              /\ sarQueue'[d][Len(sarQueue[d]) + 1] = NewPayload
              /\ DOMAIN sarQueue[d] = 1 .. Len(sarQueue[d])
          BY <1>1, <3>2, <4>2, <5>1, AppendFacts
        <5>3. k \in DOMAIN sarQueue[d] \/ k = Len(sarQueue[d]) + 1
          BY <5>2
        <5> QED
          BY <1>1, <1>2, <4>2, <5>2, <5>3 DEF PayloadInv
      <4> QED
        BY <4>1, <4>2
    <3>3. \A e \in Dst : sarOut[e] # NoPayload => Current(sarOut[e])
      BY <1>1 DEF PayloadInv
    <3> QED
      BY <1>1, <2>1, <3>1, <3>2, <3>3 DEF PayloadInv, Current
  <2> QED
    BY <1>1, <2>2, <2>3, SegmentedTakes
<1>3. CASE sarOut[d] = NoPayload
  <2>1. busy' = Loop(d, NewPayload, Segs, TRUE) /\ sarQueue' = sarQueue
    BY <1>3 DEF app_send_segmented
  <2>2. busy' \in Busy /\ busy'.sar = NewPayload
    BY <1>1, <2>1, ConstantTypes DEF Loop, Busy
  <2>3. PayloadInv'
    BY <1>1, <2>1, <2>2 DEF PayloadInv, Current
  <2> QED
    BY <1>1, <2>1, <2>2, <2>3, SegmentedTakes
<1> QED
  BY <1>2, <1>3

LEMMA GroupKeeps ==
  ASSUME IInv, app_send_group
  PROVE  IInv'
<1>1. /\ TypeOK /\ StateInv /\ PayloadInv /\ HandlerMayRun /\ mesh_net_next_seq_num
      /\ \E w \in NextWrites : jnode' = [jnode EXCEPT !.seq = w[1]] /\ idle' = w[2]
      /\ UNCHANGED <<ivVars, disk, sarOut, top, crashes>>
      /\ sarOut' = sarOut /\ sarQueue' = sarQueue /\ TxIndex' = TxIndex
      /\ sarQueue \in [Dst -> Seq(Payload)]
      /\ NewPayload \in Payload /\ Current(NewPayload)
      /\ busy' = Loop("group", NewPayload, Segs, FALSE)
  BY NewIsCurrent DEF IInv, app_send_group, ivVars, sarVars, TxIndex, TypeOK
<1>2. busy' \in Busy /\ busy'.sar = NewPayload
  BY <1>1, ConstantTypes DEF Loop, Busy
<1>3. PayloadInv'
  BY <1>1, <1>2 DEF PayloadInv, Current
<1> QED
  BY <1>1, <1>2, <1>3, SegmentedTakes

LEMMA SegKeeps ==
  ASSUME IInv, send_seg
  PROVE  IInv'
<1>1. /\ TypeOK /\ StateInv /\ SavedInv /\ PayloadInv
      /\ sarQueue' = sarQueue /\ busy # NotBusy
      /\ top' = top /\ crashes' = crashes /\ mesh_net_next_seq_num
  BY DEF IInv, send_seg
<1>2. PICK w \in NextWrites :
         UpdateWhenHalf(w[1]) /\ idle' = SendPdu(w, busy.sar, seq)
  BY DEF send_seg
<1>3. /\ Took(seq, jnode.seq, idle, seq', w[1], w[2])
      /\ sameMs' \in BOOLEAN /\ seq' \in SeqNum /\ w[1] \in SeqNum
  BY <1>1, OneTaken
<1>4. busy \in Busy /\ busy.sar \in Payload /\ Current(busy.sar)
  BY <1>1 DEF TypeOK, PayloadInv, Busy
<1>5. /\ iv' \in Index /\ ivu' \in BOOLEAN /\ timer' \in Timer
      /\ state' \in {"INIT", "NORMAL", "UPDATING", "NORMAL_HOLD"}
      /\ jnode' \in Config /\ disk' \in Config
      /\ StateInv' /\ TxIndex' = TxIndex /\ jnode'.seq = w[1]
      /\ IndexOf(jnode') = TxIndex' /\ IndexOf(disk') = TxIndex'
      /\ disk'.seq = disk.seq \/ disk'.seq = jnode'.seq
  BY <1>1, <1>2, <1>3, UpdateKeeps
<1>6. idle' = w[2] \/ NewPdu(w[2])
  <2>1. seq' = Capped(seq + 1)
    BY <1>1 DEF mesh_net_next_seq_num, TakeNumbers
  <2>2. Capped(seq + 1 - 1) = seq
    BY <1>1, ConstantTypes DEF TypeOK, SeqNum, Capped, OutOfRange
  <2>3. 1 \in Nat \ {0}
    OBVIOUS
  <2>4. idle' = SendPdu(w, busy.sar, Capped(seq + 1 - 1))
    BY <1>2, <2>2
  <2> QED
    BY <1>1, <1>4, <1>5, <2>1, <2>3, <2>4, SendsPdu
<1>7. busy' = NotBusy \/ (busy' \in Busy /\ busy'.sar = busy.sar)
  <2>1. busy' = NotBusy \/ (busy.left # 1 /\ busy' = [busy EXCEPT !.left = @ - 1])
    BY DEF send_seg
  <2>2. CASE busy.left # 1 /\ busy' = [busy EXCEPT !.left = @ - 1]
    <3>1. busy.left - 1 \in 1..Segs
      BY <1>4, <2>2, ConstantTypes DEF Busy
    <3> QED
      BY <1>4, <2>2, <3>1 DEF Busy
  <2> QED
    BY <2>1, <2>2
<1>8. sarOut' = sarOut \/ sarOut' = [sarOut EXCEPT ![busy.dst] = busy.sar]
  BY DEF send_seg
<1>9. /\ sarOut' \in [Dst -> Payload \cup {NoPayload}] /\ sarQueue' \in [Dst -> Seq(Payload)]
      /\ \A d \in Dst : sarOut'[d] = sarOut[d] \/ sarOut'[d] = busy.sar
      /\ busy.sar # NoPayload
  <2>1. busy.sar # NoPayload
    BY <1>4, ConstantTypes DEF Payload, NoPayload, Index
  <2>2. sarOut \in [Dst -> Payload \cup {NoPayload}] /\ sarQueue \in [Dst -> Seq(Payload)]
    BY <1>1 DEF TypeOK
  <2> QED
    BY <1>1, <1>4, <1>8, <2>1, <2>2
<1>10. PayloadInv'
  <2>1. \A d \in Dst : sarOut'[d] # NoPayload => Current(sarOut'[d])
    BY <1>1, <1>4, <1>9 DEF PayloadInv
  <2>2. \A d \in Dst : sarOut'[d] = NoPayload => sarOut[d] = NoPayload
    BY <1>9
  <2>3. busy' # NotBusy => Current(busy'.sar)
    BY <1>4, <1>7
  <2>4. \A d \in Dst : \A k \in DOMAIN sarQueue[d] :
            Current(sarQueue[d][k]) /\ (sarOut'[d] = NoPayload => sarQueue[d][k].orphan)
    BY <1>1, <2>2 DEF PayloadInv
  <2> QED
    BY <1>1, <1>5, <2>1, <2>3, <2>4 DEF PayloadInv, Current
<1> QED
  BY <1>1, <1>3, <1>6, <1>5, <1>7, <1>9, <1>10, TakingKeeps

-----------------------------------------------------------------------------
(* The IV Update procedure. *)

LEMMA MinusFlag ==
  \A i \in Int, u \in BOOLEAN :
     i - (IF u THEN 1 ELSE 0) \in Int /\ i - (IF u THEN 1 ELSE 0) <= i
OBVIOUS

\* A step of the procedure in which the number goes on or starts again, the
\* latter under a higher index.
LEMMA IndexKeeps ==
  ASSUME IInv, HandlerMayRun, NEW c, NEW q,
         UNCHANGED <<sameMs, sarVars, busy, top, crashes>>,
         iv' \in Index, ivu' \in BOOLEAN, timer' \in Timer,
         state' \in {"INIT", "NORMAL", "UPDATING", "NORMAL_HOLD"}, StateInv',
         jnode' \in Config, jnode'.seq = c, idle' = q, disk' \in Config,
         IndexOf(jnode') = TxIndex', IndexOf(disk') = TxIndex',
         disk' = disk \/ disk' = jnode',
         \/ TxIndex' = TxIndex /\ seq' = seq /\ c = jnode.seq /\ q = idle
         \/ /\ TxIndex' > TxIndex /\ seq' = 0
            /\ \E w \in SeqWrites(0, jnode.seq, idle, sameMs) : c = w[1] /\ q = w[2]
            /\ \A d \in Dst : sarOut[d] = NoPayload
  PROVE  IInv'
<1>1. /\ TypeOK /\ StateInv /\ SavedInv /\ PayloadInv /\ UsedInv /\ FreshInv
      /\ sameMs' = sameMs /\ sarOut' = sarOut /\ sarQueue' = sarQueue /\ busy' = busy
      /\ top' = top /\ crashes' = crashes /\ busy = NotBusy
      /\ disk \in Config /\ jnode \in Config
  BY DEF IInv, sarVars, HandlerMayRun, TypeOK
<1>2. TxIndex' \in Index /\ TxIndex' \in Int /\ TxIndex \in Int /\ TxIndex' >= TxIndex
  <2>1. TxIndex \in Int
    BY <1>1, TxIndexType
  <2>2. TxIndex' \in Int /\ TxIndex' <= iv' /\ TxIndex' >= 0 /\ iv' \in Int /\ iv' <= MaxIv
    <3>1. iv' \in Int /\ iv' <= MaxIv
      BY ConstantTypes DEF Index
    <3>2. TxIndex' \in Int /\ TxIndex' <= iv'
      BY <3>1, MinusFlag DEF TxIndex
    <3>3. TxIndex' >= 0
      BY DEF StateInv
    <3> QED
      BY <3>1, <3>2, <3>3
  <2>3. TxIndex' \in Index
    BY <2>2, ConstantTypes DEF Index
  <2> QED
    BY <2>1, <2>2, <2>3
<1>3. PayloadInv'
  BY <1>1, <1>2, PayloadsKept
<1>4. /\ c \in SeqNum /\ q \in Seq(Item)
      /\ seq' \in SeqNum
      /\ disk'.seq = c \/ HasSave(q)
      /\ UsedInv' /\ FreshInv'
  <2>1. CASE TxIndex' = TxIndex /\ seq' = seq /\ c = jnode.seq /\ q = idle
    <3>1. /\ c \in SeqNum /\ q \in Seq(Item) /\ seq' \in SeqNum
          /\ (disk'.seq = c \/ HasSave(q))
      BY <1>1, <2>1 DEF TypeOK, Config, Item, SavedInv
    <3>4. disk'.seq = disk.seq \/ disk'.seq = c
      OBVIOUS
    <3>5. UsedInv'
      <4>1. /\ top[TxIndex] <= seq /\ top[TxIndex] <= disk.seq /\ top[TxIndex] <= jnode.seq
            /\ \A i \in Index : i > TxIndex => top[i] = 0
        BY <1>1 DEF UsedInv
      <4>2. /\ top'[TxIndex'] <= seq' /\ top'[TxIndex'] <= disk'.seq
            /\ top'[TxIndex'] <= jnode'.seq
        BY <1>1, <2>1, <3>4, <4>1
      <4>3. ASSUME NEW k \in DOMAIN idle, idle[k] # Save
            PROVE  /\ idle[k].iv <= TxIndex
                   /\ idle[k].iv = TxIndex =>
                        /\ idle[k].seq < seq
                        /\ ~idle[k].bare =>
                             idle[k].seq < c /\ (idle[k].seq < disk'.seq \/ SaveAhead(k))
        BY <1>1, <2>1, <3>4, <4>3 DEF UsedInv
      <4> QED
        BY <1>1, <2>1, <4>1, <4>2, <4>3 DEF UsedInv, SaveAhead
    <3>6. FreshInv'
      BY <1>1, <2>1 DEF FreshInv, Fresh, Ascending
    <3> QED
      BY <3>1, <3>5, <3>6
  <2>2. CASE /\ TxIndex' > TxIndex /\ seq' = 0
             /\ \E w \in SeqWrites(0, jnode.seq, idle, sameMs) : c = w[1] /\ q = w[2]
    <3>1. /\ c \in SeqNum /\ q \in Seq(Item) /\ Grown(idle, q)
          /\ (c = jnode.seq /\ q = idle) \/ HasSave(q)
      BY <1>1, <2>2, StartAgain
    <3>2. disk'.seq = c \/ HasSave(q)
      BY <1>1, <3>1 DEF SavedInv
    <3>3. seq' \in SeqNum /\ seq' \in Nat /\ disk'.seq \in Nat /\ jnode'.seq \in Nat
      <4>1. \A n \in SeqNum : n \in Nat
        BY ConstantTypes
      <4>2. disk'.seq \in SeqNum /\ jnode'.seq \in SeqNum
        BY DEF Config
      <4> QED
        BY <2>2, <4>1, <4>2, ConstantTypes
    <3>4. UsedInv' /\ FreshInv'
      BY <1>1, <1>2, <2>2, <3>1, <3>3, NewIndex
    <3> QED
      BY <1>1, <2>2, <3>1, <3>2, <3>3, <3>4
  <2> QED
    BY <2>1, <2>2
<1>5. SavedInv'
  BY <1>4 DEF SavedInv, HasSave
<1>6. TypeOK'
  <2>1. seq' \in SeqNum /\ idle' \in Seq(Pdu \cup {Save})
    BY <1>4 DEF Item
  <2> QED
    BY <1>1, <2>1 DEF TypeOK, Timer
<1> QED
  BY <1>3, <1>4, <1>5, <1>6 DEF IInv

LEMMA ResetsAre ==
  ASSUME NEW r, r \in Resets
  PROVE  \/ /\ ivu /\ r[1] = 0
            /\ \E w \in SeqWrites(0, jnode.seq, idle, sameMs) : r[2] = w[1] /\ r[3] = w[2]
         \/ ~ivu /\ r[1] = seq /\ r[2] = jnode.seq /\ r[3] = idle
BY DEF Resets

LEMMA UpdatingKeeps ==
  ASSUME IInv, iv_upd_to_updating
  PROVE  IInv'
<1>1. /\ TypeOK /\ StateInv /\ SavedInv /\ iv \in Index /\ iv \in Nat /\ ivu \in BOOLEAN
      /\ HandlerMayRun /\ UNCHANGED <<sameMs, sarVars, busy, top, crashes>>
      /\ iv' = iv /\ timer' = "set" /\ state = "UPDATING"
      /\ jnode \in Config /\ disk \in Config
  <2>1. /\ TypeOK /\ StateInv /\ SavedInv /\ iv \in Index /\ ivu \in BOOLEAN
        /\ jnode \in Config /\ disk \in Config
    BY DEF IInv, TypeOK
  <2>2. iv \in Nat
    BY <2>1, ConstantTypes DEF Index
  <2>3. /\ HandlerMayRun /\ UNCHANGED <<sameMs, sarVars, busy, top, crashes>>
        /\ iv' = iv /\ timer' = "set" /\ state = "UPDATING"
    BY DEF iv_upd_to_updating
  <2> QED
    BY <2>1, <2>2, <2>3
<1>2. CASE SarPending
  <2>1. /\ seq' = seq /\ ivu' = ivu /\ state' = state /\ jnode' = jnode /\ disk' = disk
        /\ idle' = idle /\ TxIndex' = TxIndex
    BY <1>1, <1>2 DEF iv_upd_to_updating, TxIndex
  <2>2. StateInv' /\ IndexOf(jnode') = TxIndex' /\ IndexOf(disk') = TxIndex'
    BY <1>1, <2>1 DEF StateInv, SavedInv
  <2>3. timer' \in Timer
    BY <1>1 DEF Timer
  <2> QED
    BY <1>1, <2>1, <2>2, <2>3, IndexKeeps
<1>3. CASE ~SarPending
  <2>1. ivu' = FALSE /\ state' = "NORMAL_HOLD" /\ disk' = jnode'
    BY <1>3 DEF iv_upd_to_updating
  <2>2. PICK r \in Resets :
           /\ seq' = r[1]
           /\ jnode' = [seq |-> r[2], iv |-> iv, upd |-> FALSE]
           /\ idle' = r[3]
    BY <1>3 DEF iv_upd_to_updating
  <2>3. \A d \in Dst : sarOut[d] = NoPayload
    BY <1>3 DEF SarPending
  <2>4. /\ TxIndex' = iv
        /\ ivu => TxIndex' > TxIndex
        /\ ~ivu => TxIndex' = TxIndex
    BY <1>1, <2>1 DEF TxIndex
  <2>5. StateInv'
    BY <1>1, <2>1, <2>4 DEF StateInv
  <2>6. \/ TxIndex' = TxIndex /\ seq' = seq /\ r[2] = jnode.seq /\ r[3] = idle
        \/ /\ TxIndex' > TxIndex /\ seq' = 0
           /\ \E w \in SeqWrites(0, jnode.seq, idle, sameMs) : r[2] = w[1] /\ r[3] = w[2]
           /\ \A d \in Dst : sarOut[d] = NoPayload
    BY <2>2, <2>3, <2>4, ResetsAre
  <2>7. r[2] \in SeqNum
    BY <1>1, <2>6, StartAgain DEF Config
  <2>8. /\ jnode' \in Config /\ jnode'.seq = r[2] /\ disk' \in Config
        /\ IndexOf(jnode') = TxIndex' /\ IndexOf(disk') = TxIndex'
    <3>1. jnode' \in Config
      BY <1>1, <2>2, <2>7 DEF Config
    <3>2. jnode'.seq = r[2] /\ jnode'.iv = iv /\ jnode'.upd = FALSE
      BY <2>2
    <3> QED
      BY <1>1, <2>1, <2>4, <3>1, <3>2 DEF IndexOf
  <2>9. /\ iv' \in Index /\ ivu' \in BOOLEAN /\ timer' \in Timer
        /\ state' \in {"INIT", "NORMAL", "UPDATING", "NORMAL_HOLD"}
    BY <1>1, <2>1 DEF Timer
  <2> QED
    BY <1>1, <2>1, <2>2, <2>5, <2>6, <2>8, <2>9, IndexKeeps
<1> QED
  BY <1>2, <1>3

LEMMA HoldKeeps ==
  ASSUME IInv, iv_upd_to_hold
  PROVE  IInv'
<1>1. /\ TypeOK /\ SavedInv /\ StateInv /\ iv \in Index /\ iv \in Nat /\ ivu \in BOOLEAN
      /\ HandlerMayRun /\ UNCHANGED <<sameMs, sarVars, busy, top, crashes>>
      /\ jnode \in Config /\ disk \in Config /\ timer = "due" /\ state # "UPDATING"
      /\ state \in {"INIT", "NORMAL", "UPDATING", "NORMAL_HOLD"}
  BY ConstantTypes DEF IInv, TypeOK, iv_upd_to_hold, Index
<1>2. ivu = FALSE /\ TxIndex = iv
  BY <1>1 DEF StateInv, TxIndex
<1>3. PICK r \in Resets :
         /\ seq' = r[1]
         /\ idle' = r[3]
         /\ IF r[1] > Half /\ iv < MaxIv
            THEN \/ StartUpdate(r[2])
                 \/ FailUpdate(r[2]) /\ state' = "NORMAL" /\ timer' = "off"
            ELSE /\ state' = "NORMAL"
                 /\ ivu' = FALSE
                 /\ timer' = "off"
                 /\ jnode' = [jnode EXCEPT !.seq = r[2]]
                 /\ UNCHANGED <<iv, disk>>
  BY DEF iv_upd_to_hold
<1>4. seq' = seq /\ r[2] = jnode.seq /\ r[3] = idle /\ jnode.seq \in SeqNum
  BY <1>1, <1>2, <1>3, ResetsAre DEF Config
<1>5. ASSUME iv < MaxIv, jnode' = [seq |-> r[2], iv |-> iv + 1, upd |-> TRUE]
      PROVE  jnode' \in Config /\ jnode'.seq = r[2] /\ IndexOf(jnode') = TxIndex /\ iv + 1 \in Index
  <2>1. iv + 1 \in Index
    BY <1>1, <1>5, ConstantTypes DEF Index
  <2>2. jnode' \in Config
    BY <1>4, <1>5, <2>1 DEF Config
  <2>3. jnode'.seq = r[2] /\ jnode'.iv = iv + 1 /\ jnode'.upd
    BY <1>5
  <2> QED
    BY <1>1, <1>2, <2>1, <2>2, <2>3 DEF IndexOf
<1>6. CASE iv < MaxIv /\ StartUpdate(r[2])
  <2>1. /\ iv' = iv + 1 /\ ivu' = TRUE /\ state' = "UPDATING" /\ timer' = "set"
        /\ jnode' = [seq |-> r[2], iv |-> iv + 1, upd |-> TRUE] /\ disk' = jnode'
    BY <1>6 DEF StartUpdate
  <2>2. TxIndex' = TxIndex /\ StateInv' /\ timer' \in Timer
    BY <1>1, <1>2, <2>1 DEF TxIndex, StateInv, Timer
  <2> QED
    BY <1>1, <1>3, <1>4, <1>5, <1>6, <2>1, <2>2, IndexKeeps
<1>7. CASE iv < MaxIv /\ FailUpdate(r[2]) /\ state' = "NORMAL" /\ timer' = "off"
  <2>1. /\ iv' = iv /\ ivu' = ivu /\ disk' = disk
        /\ jnode' = [seq |-> r[2], iv |-> iv + 1, upd |-> TRUE]
    BY <1>7 DEF FailUpdate
  <2>2. TxIndex' = TxIndex /\ StateInv' /\ timer' \in Timer
    BY <1>1, <1>2, <1>7, <2>1 DEF TxIndex, StateInv, Timer
  <2>3. IndexOf(disk) = TxIndex
    BY <1>1 DEF SavedInv
  <2> QED
    BY <1>1, <1>3, <1>4, <1>5, <1>7, <2>1, <2>2, <2>3, IndexKeeps
<1>8. CASE /\ iv' = iv /\ ivu' = FALSE /\ state' = "NORMAL" /\ timer' = "off"
           /\ jnode' = [jnode EXCEPT !.seq = r[2]] /\ disk' = disk
  <2>1. jnode' = jnode
    BY <1>1, <1>4, <1>8 DEF Config
  <2>2. TxIndex' = TxIndex /\ StateInv' /\ timer' \in Timer
    BY <1>1, <1>2, <1>8 DEF TxIndex, StateInv, Timer
  <2>3. IndexOf(disk) = TxIndex /\ IndexOf(jnode) = TxIndex
    BY <1>1 DEF SavedInv
  <2> QED
    BY <1>1, <1>3, <1>4, <1>8, <2>1, <2>2, <2>3, IndexKeeps
<1> QED
  BY <1>3, <1>6, <1>7, <1>8

\* A beacon that is accepted never takes the index back.
LEMMA BeaconForward ==
  ASSUME TypeOK, NEW i \in Index, NEW u \in BOOLEAN, process_beacon(i, u)
  PROVE  /\ TxIndex' = BeaconIndex(i, u) /\ TxIndex' \in Int /\ TxIndex' >= TxIndex
         /\ Raises(i, u) => TxIndex' > TxIndex
         /\ ~Raises(i, u) => TxIndex' = TxIndex
<1>1. /\ iv \in Int /\ i \in Int /\ i >= iv /\ ivu \in BOOLEAN
      /\ iv' = i /\ ivu' = u /\ Accepts(i, u)
  BY ConstantTypes DEF TypeOK, process_beacon, Index
<1>2. TxIndex' = BeaconIndex(i, u)
  BY <1>1 DEF TxIndex, BeaconIndex
<1>3. u /\ i = iv => ivu
  BY <1>1 DEF Accepts
<1>4. BeaconIndex(i, u) >= TxIndex
  BY <1>1, <1>3 DEF BeaconIndex, TxIndex
<1>5. BeaconIndex(i, u) \in Int /\ TxIndex \in Int
  BY <1>1 DEF BeaconIndex, TxIndex
<1> QED
  BY <1>2, <1>4, <1>5 DEF Raises

LEMMA BeaconKeeps ==
  ASSUME IInv, NEW i \in Index, NEW u \in BOOLEAN, process_beacon(i, u)
  PROVE  IInv'
<1>1. /\ TypeOK /\ SavedInv /\ StateInv /\ ivu \in BOOLEAN /\ timer \in Timer
      /\ HandlerMayRun /\ UNCHANGED <<sameMs, sarVars, busy, top, crashes>>
      /\ jnode \in Config /\ disk \in Config
      /\ state \in {"INIT", "NORMAL", "UPDATING", "NORMAL_HOLD"}
      /\ iv' = i /\ ivu' = u /\ BeaconIndex(i, u) >= 0 /\ Accepts(i, u)
      /\ timer' = IF timer = "off" /\ state' = "UPDATING" THEN "set" ELSE timer
      /\ state' = IF state = "INIT" /\ ~u THEN "NORMAL"
                  ELSE IF u /\ (state = "INIT" \/ ~ivu) THEN "UPDATING"
                  ELSE state
  BY DEF IInv, TypeOK, process_beacon, Timer
<1>2. PICK w \in IF Raises(i, u) THEN SeqWrites(0, jnode.seq, idle, sameMs)
                                 ELSE {<<jnode.seq, idle>>} :
         /\ seq' = IF Raises(i, u) THEN 0 ELSE seq
         /\ idle' = w[2]
         /\ IF u # ivu \/ i # iv
            THEN /\ jnode' = [seq |-> w[1], iv |-> i, upd |-> u]
                 /\ disk' = jnode'
            ELSE /\ jnode' = [jnode EXCEPT !.seq = w[1]]
                 /\ UNCHANGED disk
  BY DEF process_beacon
<1>3. /\ TxIndex' = BeaconIndex(i, u)
      /\ Raises(i, u) => TxIndex' > TxIndex
      /\ ~Raises(i, u) => TxIndex' = TxIndex
  BY <1>1, BeaconForward
<1>4. \/ TxIndex' = TxIndex /\ seq' = seq /\ w[1] = jnode.seq /\ w[2] = idle
      \/ /\ TxIndex' > TxIndex /\ seq' = 0
         /\ \E v \in SeqWrites(0, jnode.seq, idle, sameMs) : w[1] = v[1] /\ w[2] = v[2]
         /\ \A d \in Dst : sarOut[d] = NoPayload
  BY <1>1, <1>2, <1>3 DEF Accepts
<1>5. w[1] \in SeqNum
  BY <1>1, <1>4, StartAgain DEF Config
<1>6. /\ jnode' \in Config /\ jnode'.seq = w[1] /\ disk' \in Config
      /\ IndexOf(jnode') = TxIndex' /\ IndexOf(disk') = TxIndex'
      /\ disk' = disk \/ disk' = jnode'
  <2>1. CASE u # ivu \/ i # iv
    <3>1. jnode' = [seq |-> w[1], iv |-> i, upd |-> u] /\ disk' = jnode'
      BY <1>2, <2>1
    <3>2. jnode' \in Config
      BY <1>5, <3>1 DEF Config
    <3>3. jnode'.seq = w[1] /\ jnode'.iv = i /\ jnode'.upd = u
      BY <3>1
    <3> QED
      BY <1>3, <3>1, <3>2, <3>3 DEF IndexOf, BeaconIndex
  <2>2. CASE ~(u # ivu \/ i # iv)
    <3>1. jnode' = [jnode EXCEPT !.seq = w[1]] /\ disk' = disk /\ iv' = iv /\ ivu' = ivu
      BY <1>1, <1>2, <2>2
    <3>2. /\ jnode' \in Config /\ jnode'.seq = w[1]
          /\ jnode'.iv = jnode.iv /\ jnode'.upd = jnode.upd
      BY <1>1, <1>5, <3>1 DEF Config
    <3> QED
      BY <1>1, <3>1, <3>2 DEF SavedInv, IndexOf, TxIndex
  <2> QED
    BY <2>1, <2>2
<1>7. state' # "INIT" /\ (state' \in {"NORMAL", "NORMAL_HOLD"} => ~ivu')
  BY <1>1 DEF StateInv
<1>8. StateInv'
  BY <1>1, <1>3, <1>7 DEF StateInv
<1>9. /\ iv' \in Index /\ ivu' \in BOOLEAN
      /\ state' \in {"INIT", "NORMAL", "UPDATING", "NORMAL_HOLD"}
  BY <1>1
<1>10. timer' \in Timer
  BY <1>1 DEF Timer
<1> QED
  BY <1>1, <1>2, <1>4, <1>6, <1>8, <1>9, <1>10, IndexKeeps

-----------------------------------------------------------------------------
(* Acknowledgments, the idle queue, crashes. *)

\* A handler that takes no number and leaves the index, the queue and the file
\* alone.
LEMMA PayloadsMove ==
  ASSUME IInv, HandlerMayRun,
         UNCHANGED <<seq, ivVars, jnode, disk, idle, sameMs, top, crashes>>,
         sarOut' \in [Dst -> Payload \cup {NoPayload}], sarQueue' \in [Dst -> Seq(Payload)],
         busy' \in Busy \cup {NotBusy}, PayloadInv'
  PROVE  IInv'
<1>1. /\ TypeOK /\ StateInv /\ SavedInv /\ UsedInv /\ FreshInv
      /\ seq' = seq /\ iv' = iv /\ ivu' = ivu /\ state' = state /\ timer' = timer
      /\ jnode' = jnode /\ disk' = disk /\ idle' = idle /\ sameMs' = sameMs
      /\ top' = top /\ crashes' = crashes /\ TxIndex' = TxIndex
  BY DEF IInv, ivVars, TxIndex
<1>2. TypeOK'
  BY <1>1 DEF TypeOK
<1>3. StateInv' /\ SavedInv'
  BY <1>1 DEF StateInv, SavedInv, HasSave
<1>4. UsedInv'
  BY <1>1 DEF UsedInv, SaveAhead
<1>5. FreshInv'
  BY <1>1 DEF FreshInv, Fresh, Ascending
<1> QED
  BY <1>2, <1>3, <1>4, <1>5 DEF IInv

LEMMA PartlyKeeps ==
  ASSUME IInv, NEW d \in Dst, ack_received_partly(d)
  PROVE  IInv'
<1>1. /\ TypeOK /\ PayloadInv /\ HandlerMayRun /\ sarOut[d] # NoPayload
      /\ UNCHANGED <<seq, ivVars, jnode, disk, idle, sameMs, top, crashes>>
      /\ sarOut' = sarOut /\ sarQueue' = sarQueue /\ TxIndex' = TxIndex
      /\ sarOut \in [Dst -> Payload \cup {NoPayload}] /\ sarQueue \in [Dst -> Seq(Payload)]
  BY DEF IInv, ack_received_partly, ivVars, sarVars, TxIndex, TypeOK
<1>2. PICK n \in 1..Segs : busy' = Loop(d, sarOut[d], n, FALSE)
  BY DEF ack_received_partly
<1>3. sarOut[d] \in Payload /\ Current(sarOut[d])
  BY <1>1 DEF PayloadInv
<1>4. busy' \in Busy /\ busy'.sar = sarOut[d]
  BY <1>2, <1>3 DEF Loop, Busy
<1>5. PayloadInv'
  BY <1>1, <1>3, <1>4 DEF PayloadInv, Current
<1> QED
  BY <1>1, <1>4, <1>5, PayloadsMove

LEMMA FullyKeeps ==
  ASSUME IInv, NEW d \in Dst, ack_received_fully(d)
  PROVE  IInv'
<1>1. /\ TypeOK /\ PayloadInv /\ HandlerMayRun /\ busy = NotBusy
      /\ UNCHANGED <<seq, ivVars, jnode, disk, idle, sameMs, top, crashes>>
      /\ TxIndex' = TxIndex
      /\ sarOut \in [Dst -> Payload \cup {NoPayload}] /\ sarQueue \in [Dst -> Seq(Payload)]
      /\ sarQueue[d] \in Seq(Payload)
  BY DEF IInv, ack_received_fully, HandlerMayRun, ivVars, TxIndex, TypeOK
<1>2. CASE sarQueue[d] = <<>>
  <2>1. /\ sarOut' = [sarOut EXCEPT ![d] = NoPayload]
        /\ sarQueue' = sarQueue /\ busy' = busy
    BY <1>2 DEF ack_received_fully
  <2>2. sarOut' \in [Dst -> Payload \cup {NoPayload}]
    BY <1>1, <2>1
  <2>3. DOMAIN sarQueue[d] = {}
    BY <1>2
  <2>4. PayloadInv'
    BY <1>1, <2>1, <2>3 DEF PayloadInv, Current
  <2> QED
    BY <1>1, <2>1, <2>2, <2>4, PayloadsMove
<1>3. CASE sarQueue[d] # <<>>
  <2>1. /\ sarOut' = [sarOut EXCEPT ![d] = Head(sarQueue[d])]
        /\ sarQueue' = [sarQueue EXCEPT ![d] = Tail(@)]
        /\ busy' = Loop(d, Head(sarQueue[d]), Segs, FALSE)
    BY <1>3 DEF ack_received_fully
  <2>2. /\ Len(sarQueue[d]) \in Nat \ {0} /\ DOMAIN sarQueue[d] = 1 .. Len(sarQueue[d])
        /\ Head(sarQueue[d]) = sarQueue[d][1] /\ Head(sarQueue[d]) \in Payload
        /\ Tail(sarQueue[d]) \in Seq(Payload)
        /\ DOMAIN Tail(sarQueue[d]) = 1 .. (Len(sarQueue[d]) - 1)
        /\ \A k \in 1 .. (Len(sarQueue[d]) - 1) : Tail(sarQueue[d])[k] = sarQueue[d][k + 1]
    BY <1>1, <1>3
  <2>3. Current(Head(sarQueue[d])) /\ Head(sarQueue[d]) # NoPayload
    <3>1. 1 \in DOMAIN sarQueue[d]
      BY <2>2
    <3>2. Current(sarQueue[d][1])
      BY <1>1, <3>1 DEF PayloadInv
    <3>3. \A sar \in Payload : sar # NoPayload
      BY ConstantTypes DEF Payload, NoPayload, Index
    <3>4. Head(sarQueue[d]) # NoPayload
      BY <2>2, <3>3
    <3>5. Current(Head(sarQueue[d]))
      BY <2>2, <3>2
    <3> QED
      BY <3>4, <3>5
  <2>4. /\ sarOut' \in [Dst -> Payload \cup {NoPayload}] /\ sarQueue' \in [Dst -> Seq(Payload)]
        /\ sarOut'[d] = Head(sarQueue[d]) /\ sarQueue'[d] = Tail(sarQueue[d])
        /\ \A e \in Dst \ {d} : sarOut'[e] = sarOut[e] /\ sarQueue'[e] = sarQueue[e]
    BY <1>1, <2>1, <2>2
  <2>5. busy' \in Busy /\ busy'.sar = Head(sarQueue[d])
    BY <2>1, <2>2, ConstantTypes DEF Loop, Busy
  <2>6. ASSUME NEW e \in Dst
        PROVE  /\ sarOut'[e] # NoPayload => Current(sarOut'[e])
               /\ \A k \in DOMAIN sarQueue'[e] :
                    Current(sarQueue'[e][k]) /\ (sarOut'[e] = NoPayload => sarQueue'[e][k].orphan)
    <3>1. CASE e = d
      <4>1. \A k \in DOMAIN Tail(sarQueue[d]) :
               k + 1 \in DOMAIN sarQueue[d] /\ Tail(sarQueue[d])[k] = sarQueue[d][k + 1]
        BY <2>2
      <4>2. \A k \in DOMAIN sarQueue[d] : Current(sarQueue[d][k])
        BY <1>1 DEF PayloadInv
      <4> QED
        BY <2>3, <2>4, <3>1, <4>1, <4>2
    <3>2. CASE e # d
      BY <1>1, <2>4, <3>2 DEF PayloadInv
    <3> QED
      BY <3>1, <3>2
  <2>7. PayloadInv'
    BY <1>1, <2>3, <2>5, <2>6 DEF PayloadInv, Current
  <2> QED
    BY <1>1, <2>4, <2>5, <2>7, PayloadsMove
<1> QED
  BY <1>2, <1>3

LEMMA TimeoutKeeps ==
  ASSUME IInv, NEW d \in Dst, outmsg_to(d)
  PROVE  IInv'
<1> DEFINE orphans == [k \in DOMAIN sarQueue[d] |-> [sarQueue[d][k] EXCEPT !.orphan = TRUE]]
<1>1. /\ TypeOK /\ PayloadInv /\ HandlerMayRun /\ busy' = busy
      /\ UNCHANGED <<seq, ivVars, jnode, disk, idle, sameMs, top, crashes>>
      /\ TxIndex' = TxIndex
      /\ sarOut \in [Dst -> Payload \cup {NoPayload}] /\ sarQueue \in [Dst -> Seq(Payload)]
      /\ busy \in Busy \cup {NotBusy}
      /\ sarQueue[d] \in Seq(Payload)
      /\ sarOut' = [sarOut EXCEPT ![d] = NoPayload]
      /\ sarQueue' = [sarQueue EXCEPT ![d] = orphans]
  BY DEF IInv, outmsg_to, ivVars, TxIndex, TypeOK
<1>2. /\ DOMAIN orphans = DOMAIN sarQueue[d]
      /\ \A k \in DOMAIN orphans :
           /\ orphans[k] \in Payload /\ orphans[k].orphan
           /\ orphans[k].iv = sarQueue[d][k].iv
  <2>1. \A sar \in Payload :
           /\ [sar EXCEPT !.orphan = TRUE] \in Payload
           /\ [sar EXCEPT !.orphan = TRUE].orphan
           /\ [sar EXCEPT !.orphan = TRUE].iv = sar.iv
    BY DEF Payload
  <2>2. \A k \in DOMAIN sarQueue[d] : sarQueue[d][k] \in Payload
    BY <1>1
  <2> QED
    BY <2>1, <2>2
<1>3. orphans \in Seq(Payload)
  <2>1. Len(sarQueue[d]) \in Nat /\ DOMAIN sarQueue[d] = 1 .. Len(sarQueue[d])
    BY <1>1
  <2>2. orphans \in [1 .. Len(sarQueue[d]) -> Payload]
    BY <1>2, <2>1
  <2> HIDE DEF orphans
  <2> QED
    BY <2>1, <2>2
<1> HIDE DEF orphans
<1>4. /\ sarOut' \in [Dst -> Payload \cup {NoPayload}] /\ sarQueue' \in [Dst -> Seq(Payload)]
      /\ sarOut'[d] = NoPayload /\ sarQueue'[d] = orphans
      /\ \A e \in Dst \ {d} : sarOut'[e] = sarOut[e] /\ sarQueue'[e] = sarQueue[e]
  BY <1>1, <1>3
<1>5. PayloadInv'
  <2>1. ASSUME NEW e \in Dst
        PROVE  /\ sarOut'[e] # NoPayload => Current(sarOut'[e])
               /\ \A k \in DOMAIN sarQueue'[e] :
                    Current(sarQueue'[e][k]) /\ (sarOut'[e] = NoPayload => sarQueue'[e][k].orphan)
    <3>1. CASE e = d
      <4>1. \A k \in DOMAIN sarQueue[d] : sarQueue[d][k].iv <= TxIndex
        BY <1>1 DEF PayloadInv, Current
      <4> QED
        BY <1>2, <1>4, <3>1, <4>1 DEF Current
    <3>2. CASE e # d
      BY <1>1, <1>4, <3>2 DEF PayloadInv
    <3> QED
      BY <3>1, <3>2
  <2>2. busy # NotBusy => Current(busy.sar)
    BY <1>1 DEF PayloadInv
  <2> QED
    BY <1>1, <2>1, <2>2 DEF PayloadInv, Current
<1> QED
  BY <1>1, <1>4, <1>5, PayloadsMove

\* The queue once its head has run: everything moves up by one.
LEMMA TailFacts ==
  ASSUME NEW S, NEW q \in Seq(S), q # <<>>
  PROVE  /\ Tail(q) \in Seq(S) /\ Head(q) \in S /\ Head(q) = q[1] /\ 1 \in DOMAIN q
         /\ Len(q) \in Nat \ {0} /\ DOMAIN q = 1 .. Len(q)
         /\ DOMAIN Tail(q) = 1 .. (Len(q) - 1)
         /\ \A k \in DOMAIN Tail(q) : k + 1 \in DOMAIN q /\ Tail(q)[k] = q[k + 1] /\ k \in Nat
OBVIOUS

LEMMA PduTypes ==
  ASSUME NEW p \in Item, p # Save
  PROVE  p \in Pdu /\ p.iv \in Index /\ p.seq \in Nat /\ p.seq <= SeqMask
<1>1. p \in Pdu
  BY DEF Item
<1>2. p.iv \in Index /\ p.seq \in 0..SeqMask
  BY <1>1 DEF Pdu
<1> QED
  BY <1>1, <1>2, ConstantTypes

LEMMA SaveKeeps ==
  ASSUME IInv, idle_save_config
  PROVE  IInv'
<1>1. /\ TypeOK /\ StateInv /\ SavedInv /\ PayloadInv /\ UsedInv /\ FreshInv
      /\ busy = NotBusy /\ idle # <<>> /\ Head(idle) = Save
      /\ idle' = Tail(idle) /\ disk' = jnode /\ sameMs' = TRUE
      /\ seq' = seq /\ iv' = iv /\ ivu' = ivu /\ state' = state /\ timer' = timer
      /\ jnode' = jnode /\ sarOut' = sarOut /\ sarQueue' = sarQueue /\ busy' = busy
      /\ top' = top /\ crashes' = crashes /\ TxIndex' = TxIndex
      /\ idle \in Seq(Item) /\ jnode \in Config
  BY DEF IInv, idle_save_config, ivVars, sarVars, TxIndex, TypeOK, Item
<1>2. /\ Tail(idle) \in Seq(Item) /\ idle[1] = Save /\ 1 \in DOMAIN idle
      /\ \A k \in DOMAIN Tail(idle) : k + 1 \in DOMAIN idle /\ Tail(idle)[k] = idle[k + 1] /\ k \in Nat
  BY <1>1, TailFacts
<1>3. TypeOK'
  BY <1>1, <1>2 DEF TypeOK, Item
<1>4. StateInv' /\ PayloadInv'
  BY <1>1 DEF StateInv, PayloadInv, Current
<1>5. SavedInv'
  BY <1>1 DEF SavedInv
<1>6. UsedInv'
  <2>1. /\ top[TxIndex] <= seq /\ top[TxIndex] <= jnode.seq
        /\ \A i \in Index : i > TxIndex => top[i] = 0
    BY <1>1 DEF UsedInv
  <2>2. ASSUME NEW k \in DOMAIN Tail(idle), Tail(idle)[k] # Save
        PROVE  /\ Tail(idle)[k].iv <= TxIndex
               /\ Tail(idle)[k].iv = TxIndex =>
                    /\ Tail(idle)[k].seq < seq
                    /\ ~Tail(idle)[k].bare => Tail(idle)[k].seq < jnode.seq
    <3>1. k + 1 \in DOMAIN idle /\ Tail(idle)[k] = idle[k + 1] /\ idle[k + 1] # Save
      BY <1>2, <2>2
    <3> QED
      BY <1>1, <3>1 DEF UsedInv
  <2> QED
    BY <1>1, <2>1, <2>2 DEF UsedInv
<1>7. FreshInv'
  <2> SUFFICES ASSUME NEW k \in DOMAIN Tail(idle), Tail(idle)[k] # Save, ~Tail(idle)[k].orphan
               PROVE  /\ Tail(idle)[k].seq >= top[Tail(idle)[k].iv]
                      /\ \A n \in 1..(k - 1) : Tail(idle)[n] # Save =>
                           (Tail(idle)[n].iv = Tail(idle)[k].iv
                              => Tail(idle)[n].seq < Tail(idle)[k].seq)
    BY <1>1 DEF FreshInv, Fresh, Ascending
  <2>1. k + 1 \in DOMAIN idle /\ Tail(idle)[k] = idle[k + 1] /\ Fresh(k + 1)
    BY <1>2 DEF Fresh
  <2>2. \A n \in 1..(k - 1) :
           n + 1 \in 1..((k + 1) - 1) /\ Tail(idle)[n] = idle[n + 1]
    <3>1. k \in 1 .. (Len(idle) - 1) /\ Len(idle) \in Nat
          /\ DOMAIN Tail(idle) = 1 .. (Len(idle) - 1)
      BY <1>1, TailFacts
    <3> QED
      BY <1>2, <3>1
  <2> QED
    BY <1>1, <2>1, <2>2 DEF FreshInv, Ascending
<1> QED
  BY <1>3, <1>4, <1>5, <1>6, <1>7 DEF IInv

LEMMA SentKeeps ==
  ASSUME IInv, send_msg_pkt_oneshot
  PROVE  IInv'
<1> DEFINE h == Head(idle)
<1>1. /\ TypeOK /\ StateInv /\ SavedInv /\ PayloadInv /\ UsedInv /\ FreshInv
      /\ busy = NotBusy /\ idle # <<>> /\ h # Save
      /\ idle' = Tail(idle) /\ disk' = disk /\ sameMs' = sameMs
      /\ seq' = seq /\ iv' = iv /\ ivu' = ivu /\ state' = state /\ timer' = timer
      /\ jnode' = jnode /\ sarOut' = sarOut /\ sarQueue' = sarQueue /\ busy' = busy
      /\ crashes' = crashes /\ TxIndex' = TxIndex
      /\ top' = [top EXCEPT ![h.iv] = IF h.bare \/ h.seq < @ THEN @ ELSE h.seq + 1]
      /\ idle \in Seq(Item) /\ top \in [Index -> SeqNum]
  BY DEF IInv, send_msg_pkt_oneshot, ivVars, sarVars, TxIndex, TypeOK, Item
<1>2. /\ Tail(idle) \in Seq(Item) /\ idle[1] = h /\ 1 \in DOMAIN idle /\ h \in Item
      /\ \A k \in DOMAIN Tail(idle) : k + 1 \in DOMAIN idle /\ Tail(idle)[k] = idle[k + 1] /\ k \in Nat
      /\ DOMAIN idle = 1 .. Len(idle) /\ DOMAIN Tail(idle) = 1 .. (Len(idle) - 1)
      /\ Len(idle) \in Nat \ {0}
  BY <1>1, TailFacts
<1>3. h \in Pdu /\ h.iv \in Index /\ h.seq \in Nat /\ h.seq <= SeqMask
  <2> HIDE DEF h
  <2> QED
    BY <1>1, <1>2, PduTypes
<1> HIDE DEF h
<1>4. TxIndex \in Index /\ TxIndex \in Int
  BY <1>1, TxIndexType DEF StateInv
<1>5. /\ seq \in Nat /\ disk.seq \in Nat /\ jnode.seq \in Nat /\ SeqMask \in Nat /\ OutOfRange = SeqMask + 1
      /\ \A i \in Index : top[i] \in Nat /\ top[i] <= OutOfRange
      /\ \A i \in Index : i \in Int
  <2>1. /\ seq \in SeqNum /\ disk.seq \in SeqNum /\ jnode.seq \in SeqNum
        /\ \A i \in Index : top[i] \in SeqNum
    BY <1>1 DEF TypeOK, Config
  <2>2. OutOfRange = SeqMask + 1 /\ SeqMask \in Nat /\ SeqNum = 0 .. OutOfRange
    BY ConstantTypes DEF OutOfRange
  <2>3. \A i \in Index : i \in Int
    BY ConstantTypes DEF Index
  <2> QED
    BY <2>1, <2>2, <2>3
<1>6. /\ top' \in [Index -> SeqNum]
      /\ top'[h.iv] = IF h.bare \/ h.seq < top[h.iv] THEN top[h.iv] ELSE h.seq + 1
      /\ \A i \in Index \ {h.iv} : top'[i] = top[i]
  <2>1. (IF h.bare \/ h.seq < top[h.iv] THEN top[h.iv] ELSE h.seq + 1) \in SeqNum
    BY <1>1, <1>3, <1>5 DEF SeqNum
  <2> QED
    BY <1>1, <1>3, <2>1
\* The head has no save ahead of it.
<1>7. /\ h.iv <= TxIndex
      /\ h.iv = TxIndex =>
           h.seq < seq /\ (~h.bare => h.seq < disk.seq /\ h.seq < jnode.seq)
  <2>1. ~SaveAhead(1)
    BY DEF SaveAhead
  <2> QED
    BY <1>1, <1>2, <2>1 DEF UsedInv
<1>8. TypeOK'
  BY <1>1, <1>2, <1>6 DEF TypeOK, Item
<1>9. StateInv' /\ PayloadInv'
  BY <1>1 DEF StateInv, PayloadInv, Current
<1>10. SavedInv'
  <2>1. HasSave(idle) => HasSave(Tail(idle))
    <3> SUFFICES ASSUME NEW n \in DOMAIN idle, idle[n] = Save
                 PROVE  HasSave(Tail(idle))
      BY DEF HasSave
    <3>1. n # 1 /\ n \in 1 .. Len(idle)
      BY <1>1, <1>2
    <3>2. n - 1 \in DOMAIN Tail(idle) /\ (n - 1) + 1 = n
      BY <1>2, <3>1
    <3> QED
      BY <1>2, <3>2 DEF HasSave
  <2> QED
    BY <1>1, <2>1 DEF SavedInv, HasSave
<1>11. UsedInv'
  <2>1. top'[TxIndex] <= seq /\ top'[TxIndex] <= disk.seq /\ top'[TxIndex] <= jnode.seq
    <3>1. top[TxIndex] <= seq /\ top[TxIndex] <= disk.seq /\ top[TxIndex] <= jnode.seq
      BY <1>1 DEF UsedInv
    <3>2. CASE h.iv = TxIndex
      BY <1>3, <1>4, <1>5, <1>6, <1>7, <3>1, <3>2
    <3>3. CASE h.iv # TxIndex
      BY <1>4, <1>6, <3>1, <3>3
    <3> QED
      BY <3>2, <3>3
  <2>2. \A i \in Index : i > TxIndex => top'[i] = 0
    <3>1. \A i \in Index : i > TxIndex => i # h.iv
      BY <1>3, <1>4, <1>5, <1>7
    <3> QED
      BY <1>1, <1>6, <3>1 DEF UsedInv
  <2>3. ASSUME NEW k \in DOMAIN Tail(idle), Tail(idle)[k] # Save
        PROVE  /\ Tail(idle)[k].iv <= TxIndex
               /\ Tail(idle)[k].iv = TxIndex =>
                    /\ Tail(idle)[k].seq < seq
                    /\ ~Tail(idle)[k].bare =>
                         /\ Tail(idle)[k].seq < jnode.seq
                         /\ Tail(idle)[k].seq < disk.seq \/ \E n \in 1..(k - 1) : Tail(idle)[n] = Save
    <3>1. k + 1 \in DOMAIN idle /\ Tail(idle)[k] = idle[k + 1] /\ idle[k + 1] # Save
      BY <1>2, <2>3
    <3>2. SaveAhead(k + 1) => \E n \in 1..(k - 1) : Tail(idle)[n] = Save
      <4> SUFFICES ASSUME NEW n \in 1..((k + 1) - 1), idle[n] = Save
                   PROVE  \E m \in 1..(k - 1) : Tail(idle)[m] = Save
        BY DEF SaveAhead
      <4>1. n # 1 /\ k \in 1 .. (Len(idle) - 1)
        BY <1>1, <1>2
      <4>2. n - 1 \in 1..(k - 1) /\ n - 1 \in DOMAIN Tail(idle) /\ (n - 1) + 1 = n
        BY <1>2, <4>1
      <4> QED
        BY <1>2, <4>2
    <3>3. /\ idle[k + 1].iv <= TxIndex
          /\ idle[k + 1].iv = TxIndex =>
               /\ idle[k + 1].seq < seq
               /\ ~idle[k + 1].bare =>
                    /\ idle[k + 1].seq < jnode.seq
                    /\ idle[k + 1].seq < disk.seq \/ SaveAhead(k + 1)
      BY <1>1, <3>1 DEF UsedInv
    <3> QED
      BY <3>1, <3>2, <3>3
  <2> QED
    BY <1>1, <2>1, <2>2, <2>3 DEF UsedInv, SaveAhead
<1>12. FreshInv'
  <2> SUFFICES ASSUME NEW k \in DOMAIN Tail(idle), Tail(idle)[k] # Save, ~Tail(idle)[k].orphan
               PROVE  /\ Tail(idle)[k].seq >= top'[Tail(idle)[k].iv]
                      /\ \A n \in 1..(k - 1) : Tail(idle)[n] # Save =>
                           (Tail(idle)[n].iv = Tail(idle)[k].iv
                              => Tail(idle)[n].seq < Tail(idle)[k].seq)
    BY <1>1 DEF FreshInv, Fresh, Ascending
  <2>1. /\ k + 1 \in DOMAIN idle /\ Tail(idle)[k] = idle[k + 1] /\ Fresh(k + 1)
        /\ k \in 1 .. (Len(idle) - 1)
    BY <1>2 DEF Fresh
  <2>2. \A n \in 1..(k - 1) :
           n + 1 \in 1..((k + 1) - 1) /\ Tail(idle)[n] = idle[n + 1]
    BY <1>2, <2>1
  <2>3. idle[k + 1].seq \in Nat /\ idle[k + 1].iv \in Index
    <3>1. idle[k + 1] \in Item /\ idle[k + 1] # Save
      BY <1>1, <2>1 DEF Fresh
    <3> QED
      BY <3>1, PduTypes
  <2>4. idle[k + 1].seq >= top'[idle[k + 1].iv]
    <3>1. idle[k + 1].seq >= top[idle[k + 1].iv]
      BY <1>1, <2>1 DEF FreshInv
    <3>2. h.iv = idle[k + 1].iv => h.seq < idle[k + 1].seq
      <4>1. 1 \in 1..((k + 1) - 1)
        BY <1>2, <2>1
      <4> QED
        BY <1>1, <1>2, <2>1, <4>1 DEF FreshInv, Ascending
    <3>3. CASE h.iv = idle[k + 1].iv
      BY <1>3, <1>5, <1>6, <2>3, <3>1, <3>2, <3>3
    <3>4. CASE h.iv # idle[k + 1].iv
      BY <1>6, <2>3, <3>1, <3>4
    <3> QED
      BY <3>3, <3>4
  <2> QED
    BY <1>1, <2>1, <2>2, <2>4 DEF FreshInv, Ascending
<1> QED
  BY <1>8, <1>9, <1>10, <1>11, <1>12 DEF IInv

LEMMA MsKeeps ==
  ASSUME IInv, MillisecondPasses
  PROVE  IInv'
<1>1. /\ TypeOK /\ StateInv /\ SavedInv /\ PayloadInv /\ UsedInv /\ FreshInv
      /\ sameMs' = FALSE /\ seq' = seq /\ iv' = iv /\ ivu' = ivu /\ state' = state /\ timer' = timer
      /\ jnode' = jnode /\ disk' = disk /\ idle' = idle
      /\ sarOut' = sarOut /\ sarQueue' = sarQueue /\ busy' = busy
      /\ top' = top /\ crashes' = crashes /\ TxIndex' = TxIndex
  BY DEF IInv, MillisecondPasses, ivVars, sarVars, TxIndex
<1>2. TypeOK'
  BY <1>1 DEF TypeOK
<1>3. StateInv' /\ SavedInv' /\ PayloadInv'
  BY <1>1 DEF StateInv, SavedInv, HasSave, PayloadInv, Current
<1>4. UsedInv' /\ FreshInv'
  BY <1>1 DEF UsedInv, SaveAhead, FreshInv, Fresh, Ascending
<1> QED
  BY <1>2, <1>3, <1>4 DEF IInv

LEMMA DueKeeps ==
  ASSUME IInv, TimerDue
  PROVE  IInv'
<1>1. /\ TypeOK /\ StateInv /\ SavedInv /\ PayloadInv /\ UsedInv /\ FreshInv
      /\ timer = "set" /\ timer' = "due"
      /\ sameMs' = sameMs /\ seq' = seq /\ iv' = iv /\ ivu' = ivu /\ state' = state
      /\ jnode' = jnode /\ disk' = disk /\ idle' = idle
      /\ sarOut' = sarOut /\ sarQueue' = sarQueue /\ busy' = busy
      /\ top' = top /\ crashes' = crashes /\ TxIndex' = TxIndex
  BY DEF IInv, TimerDue, sarVars, TxIndex
<1>2. TypeOK'
  BY <1>1 DEF TypeOK
<1>3. StateInv' /\ SavedInv' /\ PayloadInv'
  BY <1>1 DEF StateInv, SavedInv, HasSave, PayloadInv, Current
<1>4. UsedInv' /\ FreshInv'
  BY <1>1 DEF UsedInv, SaveAhead, FreshInv, Fresh, Ascending
<1> QED
  BY <1>2, <1>3, <1>4 DEF IInv

\* With nothing in the idle queue and nothing under way only the numbers count.
Quiet ==
    /\ idle = <<>> /\ busy = NotBusy /\ seq \in SeqNum /\ jnode = disk
    /\ disk.seq = seq /\ IndexOf(disk) = TxIndex
    /\ \A d \in Dst : sarOut[d] = NoPayload /\ sarQueue[d] = <<>>
    /\ top[TxIndex] <= seq /\ \A i \in Index : i > TxIndex => top[i] = 0
Settled == SavedInv /\ PayloadInv /\ UsedInv /\ FreshInv

LEMMA QuietHolds == Quiet => Settled
<1> SUFFICES ASSUME Quiet PROVE Settled
  OBVIOUS
<1>1. DOMAIN idle = {} /\ \A d \in Dst : DOMAIN sarQueue[d] = {}
  BY DEF Quiet
<1>2. PayloadInv
  BY <1>1 DEF PayloadInv, Quiet
<1> QED
  BY <1>1, <1>2 DEF Settled, SavedInv, UsedInv, FreshInv, Quiet

LEMMA QuietLater == Quiet' => Settled'
BY QuietHolds, PTL

\* A new process goes on where the file says, if the file knows every number
\* that went on the air.
LEMMA RestartKeeps ==
  ASSUME IInv, NEW STATE config, config \in Config, IndexOf(config) = TxIndex,
         top[TxIndex] <= config.seq, crashes < MaxCrash, StartFrom(config)
  PROVE  IInv'
<1>1. /\ TypeOK /\ StateInv /\ UsedInv
      /\ seq' = config.seq /\ iv' = config.iv /\ ivu' = config.upd
      /\ state' = "INIT" /\ timer' = "off"
      /\ jnode' = config /\ disk' = config /\ idle' = <<>> /\ sameMs' = TRUE
      /\ sarOut' = [d \in Dst |-> NoPayload] /\ sarQueue' = [d \in Dst |-> <<>>]
      /\ busy' = NotBusy /\ crashes' = crashes + 1 /\ top' = top /\ TxIndex' = TxIndex
  BY DEF IInv, StartFrom, TxIndex, IndexOf
<1>2. /\ config.seq \in SeqNum /\ config.iv \in Index /\ config.upd \in BOOLEAN
      /\ \A d \in Dst : sarOut'[d] = NoPayload /\ sarQueue'[d] = <<>>
  BY <1>1 DEF Config
<1>3. TypeOK'
  <2>1. crashes' \in 0..MaxCrash
    BY <1>1, MeshIvAssumption DEF TypeOK
  <2>2. sameMs' \in BOOLEAN /\ idle' \in Seq(Pdu \cup {Save})
    BY <1>1, ConstantTypes
  <2>3. /\ sarOut' \in [Dst -> Payload \cup {NoPayload}]
        /\ sarQueue' \in [Dst -> Seq(Payload)]
    BY <1>1
  <2> QED
    BY <1>1, <1>2, <2>1, <2>2, <2>3 DEF TypeOK
<1>4. StateInv'
  BY <1>1 DEF StateInv
<1>5. top'[TxIndex'] <= seq' /\ \A i \in Index : i > TxIndex' => top'[i] = 0
  BY <1>1 DEF UsedInv
<1>6. Quiet'
  BY <1>1, <1>2, <1>5 DEF Quiet, IndexOf
<1> QED
  BY <1>3, <1>4, <1>6, QuietLater DEF IInv, Settled

LEMMA CrashKeeps ==
  ASSUME IInv, Crash
  PROVE  IInv'
<1>1. disk \in Config /\ IndexOf(disk) = TxIndex /\ top[TxIndex] <= disk.seq
  BY DEF IInv, TypeOK, SavedInv, UsedInv
<1> QED
  BY <1>1, RestartKeeps DEF Crash

LEMMA CleanupKeeps ==
  ASSUME IInv, cleanup_node
  PROVE  IInv'
<1>1. jnode \in Config /\ seq \in SeqNum /\ IndexOf(jnode) = TxIndex /\ top[TxIndex] <= seq
  BY DEF IInv, TypeOK, SavedInv, UsedInv
<1>2. /\ [jnode EXCEPT !.seq = seq] \in Config
      /\ IndexOf([jnode EXCEPT !.seq = seq]) = TxIndex
      /\ [jnode EXCEPT !.seq = seq].seq = seq
  <2>1. /\ [jnode EXCEPT !.seq = seq] \in Config
        /\ [jnode EXCEPT !.seq = seq].iv = jnode.iv /\ [jnode EXCEPT !.seq = seq].upd = jnode.upd
        /\ [jnode EXCEPT !.seq = seq].seq = seq
    BY <1>1 DEF Config
  <2> QED
    BY <1>1, <2>1 DEF IndexOf
<1>3. crashes < MaxCrash /\ StartFrom([jnode EXCEPT !.seq = seq])
  BY DEF cleanup_node
<1> QED
  BY <1>1, <1>2, <1>3, RestartKeeps

-----------------------------------------------------------------------------
(***************************************************************************)
(* The theorems.                                                           *)
(***************************************************************************)

LEMMA InitHolds == Init => IInv
<1> SUFFICES ASSUME Init PROVE IInv
  OBVIOUS
<1>1. 0 \in Index /\ 0 \in SeqNum /\ 0 \in 0..MaxCrash
  BY ConstantTypes, MeshIvAssumption DEF Index
<1>2. /\ seq = 0 /\ iv = 0 /\ ivu = FALSE /\ state = "INIT" /\ timer = "off"
      /\ jnode = [seq |-> 0, iv |-> 0, upd |-> FALSE] /\ disk = jnode
      /\ idle = <<>> /\ sameMs = TRUE /\ busy = NotBusy /\ crashes = 0
  BY DEF Init
<1>3. /\ sarOut = [d \in Dst |-> NoPayload] /\ sarQueue = [d \in Dst |-> <<>>]
      /\ top = [i \in Index |-> 0]
  BY DEF Init
<1>4. TypeOK
  <2>1. jnode \in Config /\ disk \in Config
    BY <1>1, <1>2 DEF Config
  <2>2. /\ sarOut \in [Dst -> Payload \cup {NoPayload}]
        /\ sarQueue \in [Dst -> Seq(Payload)] /\ top \in [Index -> SeqNum]
    BY <1>1, <1>3
  <2>3. idle \in Seq(Pdu \cup {Save})
    BY <1>2
  <2> QED
    BY <1>1, <1>2, <2>1, <2>2, <2>3 DEF TypeOK
<1>5. TxIndex = 0
  <2>1. (IF ivu THEN 1 ELSE 0) = 0 /\ iv = 0
    BY <1>2
  <2>2. TxIndex = iv - (IF ivu THEN 1 ELSE 0)
    BY DEF TxIndex
  <2>3. TxIndex = 0 - 0
    BY <2>1, <2>2
  <2> QED
    BY <2>3
<1>6. StateInv
  BY <1>2, <1>5 DEF StateInv
<1>7. Quiet
  <2>1. /\ disk.seq = seq /\ disk.iv = iv /\ disk.upd = ivu /\ jnode = disk
        /\ IndexOf(disk) = TxIndex
    BY <1>2 DEF IndexOf, TxIndex
  <2>2. top[TxIndex] <= seq /\ \A i \in Index : i > TxIndex => top[i] = 0
    BY <1>1, <1>2, <1>3, <1>5
  <2>3. \A d \in Dst : sarOut[d] = NoPayload /\ sarQueue[d] = <<>>
    BY <1>3
  <2>4. idle = <<>> /\ busy = NotBusy /\ seq \in SeqNum
    BY <1>1, <1>2
  <2> QED
    BY <2>1, <2>2, <2>3, <2>4 DEF Quiet
<1> QED
  BY <1>4, <1>6, <1>7, QuietHolds DEF IInv, Settled

LEMMA NextHolds == IInv /\ [Next]_vars => IInv'
<1> SUFFICES ASSUME IInv, [Next]_vars PROVE IInv'
  OBVIOUS
<1>1. CASE Next
  BY <1>1, UpdatingKeeps, HoldKeeps, BeaconKeeps, ControlKeeps, ShortKeeps, SegmentedKeeps,
     GroupKeeps, SegKeeps, PartlyKeeps, FullyKeeps, TimeoutKeeps, SaveKeeps, SentKeeps,
     MsKeeps, DueKeeps, CrashKeeps, CleanupKeeps DEF Next
<1>2. CASE UNCHANGED vars
  BY <1>2 DEF vars, IInv, TypeOK, StateInv, SavedInv, HasSave, IndexOf, PayloadInv, Current,
     UsedInv, SaveAhead, FreshInv, Fresh, Ascending, TxIndex
<1> QED
  BY <1>1, <1>2

\* Types, and with them that neither the index nor a number leaves its range.
THEOREM IvTypes == Spec => []TypeOK
<1>1. IInv => TypeOK
  BY DEF IInv
<1> QED
  BY InitHolds, NextHolds, <1>1, PTL DEF Spec

\* No nonce is used twice but for the two exceptions of NoncesFresh:
\* mesh_net_next_seq_num, the saves of mesh_config_write_seq_number and the
\* resets of iv_upd_to and update_iv_ivu_state keep every number that goes on the
\* air above those sent before under its index, however often the node is killed
\* and however many numbers it uses within a millisecond, except for those of
\* orphans; and among those sent before a bare number does not count.
THEOREM NoncesFreshHolds == Spec => []NoncesFresh
<1>1. IInv => NoncesFresh
  <2> SUFFICES ASSUME IInv, NEW k \in DOMAIN idle, Fresh(k)
               PROVE  /\ idle[k].seq >= top[idle[k].iv]
                      /\ \A n \in 1..(k - 1) : Fresh(n) => Ascending(n, k)
    BY DEF NoncesFresh
  <2> QED
    BY DEF IInv, FreshInv, Fresh
<1> QED
  BY InitHolds, NextHolds, <1>1, PTL DEF Spec

\* The index never goes back, since no handler takes it back and the file
\* always has the one in use.
LEMMA IndexForward ==
  ASSUME IInv, [Next]_vars
  PROVE  TxIndex' >= TxIndex
<1>1. /\ TypeOK /\ TxIndex \in Int /\ iv \in Int /\ ivu \in BOOLEAN
      /\ IndexOf(disk) = TxIndex /\ jnode \in Config /\ IndexOf(jnode) = TxIndex
  <2>1. TypeOK /\ SavedInv
    BY DEF IInv
  <2>2. iv \in Index /\ ivu \in BOOLEAN /\ jnode \in Config
    BY <2>1 DEF TypeOK
  <2>3. iv \in Int
    BY <2>2, ConstantTypes DEF Index
  <2> QED
    BY <2>1, <2>2, <2>3, TxIndexType DEF SavedInv
<1>2. CASE iv' = iv /\ ivu' = ivu
  BY <1>1, <1>2 DEF TxIndex
<1>3. CASE iv_upd_to_updating
  <2>1. iv' = iv /\ (ivu' = ivu \/ ivu' = FALSE)
    BY <1>3 DEF iv_upd_to_updating
  <2> QED
    BY <1>1, <2>1 DEF TxIndex
<1>4. CASE iv_upd_to_hold
  <2>1. ivu = FALSE
    BY <1>1, <1>4 DEF iv_upd_to_hold, IInv, StateInv, TypeOK
  <2>2. (iv' = iv + 1 /\ ivu' = TRUE) \/ (iv' = iv /\ ivu' = FALSE)
    BY <1>4, <2>1 DEF iv_upd_to_hold, StartUpdate, FailUpdate
  <2> QED
    BY <1>1, <2>1, <2>2 DEF TxIndex
<1>5. ASSUME NEW i \in Index, NEW u \in BOOLEAN, process_beacon(i, u)
      PROVE  TxIndex' >= TxIndex
  BY <1>1, <1>5, BeaconForward
<1>6. ASSUME seq' \in SeqNum, NEW c \in SeqNum, UpdateWhenHalf(c)
      PROVE  TxIndex' >= TxIndex
  <2>1. TxIndex' = TxIndex
    BY <1>6, UpdateKeeps DEF IInv
  <2> QED
    BY <1>1, <2>1
<1>7. ASSUME mesh_net_next_seq_num, NEW w \in NextWrites, UpdateWhenHalf(w[1])
      PROVE  TxIndex' >= TxIndex
  <2>1. seq' \in SeqNum /\ w[1] \in SeqNum
    BY <1>7, OneTaken DEF IInv
  <2> QED
    BY <1>6, <1>7, <2>1
<1>8. CASE app_send_short
  BY <1>7, <1>8 DEF app_send_short
<1>9. CASE send_seg
  BY <1>7, <1>9 DEF send_seg
<1>10. CASE Crash \/ cleanup_node
  <2>1. /\ [jnode EXCEPT !.seq = seq].iv = jnode.iv
        /\ [jnode EXCEPT !.seq = seq].upd = jnode.upd
    BY <1>1 DEF Config
  <2>2. TxIndex' = IndexOf(disk) \/ TxIndex' = IndexOf(jnode)
    BY <1>10, <2>1 DEF Crash, cleanup_node, StartFrom, TxIndex, IndexOf
  <2> QED
    BY <1>1, <2>2
<1>11. \/ \E i \in Index, u \in BOOLEAN : process_beacon(i, u)
       \/ iv_upd_to_updating \/ iv_upd_to_hold \/ app_send_short \/ send_seg
       \/ Crash \/ cleanup_node \/ (iv' = iv /\ ivu' = ivu)
  <2>1. CASE Next
    BY <2>1 DEF Next, mesh_net_transport_send, app_send_segmented, app_send_group,
       ack_received_partly, ack_received_fully, outmsg_to, idle_save_config,
       send_msg_pkt_oneshot, MillisecondPasses, TimerDue, ivVars
  <2>2. CASE UNCHANGED vars
    BY <2>2 DEF vars
  <2> QED
    BY <2>1, <2>2
<1> QED
  BY <1>2, <1>3, <1>4, <1>5, <1>8, <1>9, <1>10, <1>11

THEOREM IvNeverBackHolds == Spec => IvNeverBack
<1>1. IInv /\ [Next]_vars => [TxIndex' >= TxIndex]_vars
  BY IndexForward
<1> QED
  BY InitHolds, NextHolds, <1>1, PTL DEF Spec, IvNeverBack
=============================================================================
