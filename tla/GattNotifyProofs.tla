--------------------------- MODULE GattNotifyProofs ---------------------------
(***************************************************************************)
(* Proofs about GattNotify, for any number of handlers and whatever the    *)
(* server answers and whatever the ATT ids are.                            *)
(*                                                                         *)
(* Until a disable is sent on top of a write in flight there is at most    *)
(* one write, ccc_write_id marks it, and while it clears the descriptor    *)
(* nobody who stays was told anything.  Until a handler leaves while it is *)
(* being enabled, notify_count is the number of handlers, and every write  *)
(* that sets the descriptor belongs to a handler that stays: so the last   *)
(* to leave always has it cleared.                                         *)
(***************************************************************************)
EXTENDS GattNotify, SharedQueueProofs

Types ==
    /\ notify_list \subseteq Regs /\ left \subseteq Regs
    /\ notify_count \in Nat /\ ccc_write_id \in Nat
    /\ next_request_id \in Nat \ {0}
    /\ att_id \in [Regs -> Nat]
    /\ told \in [Regs -> {"nothing", "on", "refused"}]
    /\ writes \subseteq Writes /\ reg_notify_queue \in Seq(Regs)
    /\ ccc \in BOOLEAN

\* notify_count counts every handler, and those that left while being enabled.
CountInv ==
    /\ Cardinality(notify_list) <= notify_count
    /\ leaked = {} => Cardinality(notify_list) = notify_count

\* Who waits is registered and has no write of its own.
QueueInv ==
    /\ NoRepeat(reg_notify_queue)
    /\ \A r \in InSeq(reg_notify_queue) : r \in notify_list /\ att_id[r] = 0
    /\ \A r \in Regs :
          att_id[r] # 0 \/ told[r] # "nothing" => r \in notify_list \cup left
    /\ \A w \in writes : w.by \in notify_list \cup left

\* A write that sets the descriptor is the only one of a handler that stays.
EnablesInv ==
    leaked = {} => \A w \in writes : w.enable =>
        /\ w.by \in notify_list /\ att_id[w.by] # 0
        /\ \A v \in writes : v.enable /\ v.by = w.by => v = w

\* One write at a time, unless two overlapped.
FlightInv ==
    ~overlapped => \A w \in writes :
        /\ ccc_write_id # 0 /\ \A v \in writes : v = w
        /\ w.enable /\ w.state = "done" => ccc
        /\ ~w.enable => \A r \in notify_list : told[r] = "nothing"

\* Either somebody is left, or the descriptor is about to be cleared.
OffInv ==
    leaked = {} /\ ~refused /\ ccc =>
        notify_list # {} \/ \E w \in writes : ~w.enable /\ w.state = "sent"

IInv == /\ Types /\ CountInv /\ QueueInv /\ EnablesInv /\ FlightInv /\ OffInv
        /\ ToldMeansOn /\ AssertHolds

-----------------------------------------------------------------------------
\* notify_list is finite: its length can be compared with notify_count.
LEMMA ListIsFinite ==
    ASSUME NEW l, l \subseteq Regs
    PROVE  IsFiniteSet(l) /\ Cardinality(l) \in Nat
BY NotifyAssumption, FS_Subset, FS_CardinalityType

\* notify_data_write_ccc sends one more write, marked by ccc_write_id.
LEMMA WriteIs ==
    ASSUME Types, NEW STATE r, r \in Regs, NEW STATE enable, enable \in BOOLEAN,
           notify_data_write_ccc(r, enable)
    PROVE  \E n \in Writes :
              /\ n.by = r /\ n.enable = enable /\ n.state = "sent"
              /\ writes' = writes \cup {n} /\ writes' \subseteq Writes
              /\ ccc_write_id' \in Nat \ {0} /\ next_request_id' \in Nat \ {0}
              /\ att_id' \in [Regs -> Nat] /\ att_id'[r] # 0
              /\ \A q \in Regs : q # r => att_id'[q] = att_id[q]
<1> DEFINE n == [id |-> next_request_id, by |-> r, enable |-> enable,
                 state |-> "sent"]
<1>1. n \in Writes /\ n.by = r /\ n.enable = enable /\ n.state = "sent"
  BY DEF Types, Writes
<1>2. writes' = writes \cup {n} /\ writes' \subseteq Writes
  BY <1>1 DEF notify_data_write_ccc, Types
<1>3. /\ ccc_write_id' \in Nat \ {0} /\ next_request_id' \in Nat \ {0}
      /\ att_id' \in [Regs -> Nat] /\ att_id'[r] # 0
      /\ \A q \in Regs : q # r => att_id'[q] = att_id[q]
  BY DEF notify_data_write_ccc, Types
<1> QED
  BY <1>1, <1>2, <1>3

\* A handler registers: it waits, counts on the others or has the descriptor
\* written.
LEMMA RegisterKeeps ==
    ASSUME IInv, NEW r \in Regs, register_notify(r)
    PROVE  IInv'
<1>1. /\ r \notin notify_list /\ r \notin left
      /\ notify_list' = notify_list \cup {r} /\ notify_count' = notify_count + 1
      /\ UNCHANGED <<skew, ccc, aborted, left, overlapped, misfired, leaked, refused>>
  BY DEF register_notify, CountIn
<1>2. att_id[r] = 0 /\ told[r] = "nothing" /\ r \notin InSeq(reg_notify_queue)
  BY <1>1 DEF IInv, QueueInv
<1>3. /\ CountInv' /\ notify_list' \subseteq Regs /\ left' \subseteq Regs
      /\ notify_count' \in Nat /\ ccc' \in BOOLEAN
  <2>1. IsFiniteSet(notify_list) /\ Cardinality(notify_list) \in Nat
    BY ListIsFinite DEF IInv, Types
  <2>2. Cardinality(notify_list') = Cardinality(notify_list) + 1
    BY <1>1, <2>1, FS_AddElement
  <2> QED
    BY <1>1, <2>1, <2>2 DEF IInv, Types, CountInv
<1>4. OffInv' /\ AssertHolds'
  BY <1>1 DEF IInv, OffInv, AssertHolds
<1>5. CASE /\ MustWait /\ reg_notify_queue' = Append(reg_notify_queue, r)
           /\ UNCHANGED <<writes, att_id, ccc_write_id, next_request_id, told, misled>>
  <2>1. /\ reg_notify_queue' \in Seq(Regs) /\ NoRepeat(reg_notify_queue')
        /\ InSeq(reg_notify_queue') = InSeq(reg_notify_queue) \cup {r}
    BY <1>2, <1>5, AppendKeeps DEF IInv, Types, QueueInv
  <2>2. Types' /\ QueueInv'
    BY <1>1, <1>2, <1>3, <1>5, <2>1 DEF IInv, Types, QueueInv
  <2>3. EnablesInv' /\ FlightInv' /\ ToldMeansOn'
    BY <1>1, <1>2, <1>5 DEF IInv, EnablesInv, FlightInv, ToldMeansOn
  <2> QED
    BY <1>3, <1>4, <2>2, <2>3 DEF IInv
<1>6. ~MustWait => ccc_write_id = 0 /\ reg_notify_queue' = reg_notify_queue
  BY DEF MustWait, register_notify
<1>7. CASE /\ ~MustWait /\ told' = [told EXCEPT ![r] = "on"]
           /\ misled' = IF SwitchedOn THEN misled ELSE misled \cup {r}
           /\ UNCHANGED <<writes, att_id, ccc_write_id, next_request_id>>
  <2>1. /\ told' \in [Regs -> {"nothing", "on", "refused"}] /\ told'[r] = "on"
        /\ \A q \in Regs : q # r => told'[q] = told[q]
    BY <1>7 DEF IInv, Types
  <2>2. Types' /\ QueueInv'
    BY <1>1, <1>3, <1>6, <1>7, <2>1 DEF IInv, Types, QueueInv
  <2>3. EnablesInv'
    BY <1>1, <1>7 DEF IInv, EnablesInv
  <2>4. ~overlapped => writes = {}
    BY <1>6, <1>7 DEF IInv, FlightInv
  <2>5. FlightInv'
    BY <1>1, <1>7, <2>4 DEF FlightInv
  <2>6. ToldMeansOn'
    <3> SUFFICES ASSUME NEW q \in notify_list', q \notin Silent, q \notin misled',
                        told'[q] = "on", ~overlapped'
                 PROVE  ccc'
      BY DEF ToldMeansOn
    <3>1. CASE q = r
      <4>1. SwitchedOn
        BY <1>7, <3>1
      <4> QED
        BY <1>1, <4>1 DEF SwitchedOn, IInv, ToldMeansOn
    <3>2. CASE q # r
      <4>1. q \in notify_list /\ q \notin misled /\ told[q] = "on"
        BY <1>1, <1>7, <2>1, <3>2 DEF IInv, Types
      <4> QED
        BY <1>1, <4>1 DEF IInv, ToldMeansOn
    <3> QED
      BY <3>1, <3>2
  <2> QED
    BY <1>3, <1>4, <2>2, <2>3, <2>5, <2>6 DEF IInv
<1>8. CASE ~MustWait /\ notify_data_write_ccc(r, TRUE) /\ UNCHANGED <<told, misled>>
  <2>1. PICK n \in Writes :
              /\ n.by = r /\ n.enable = TRUE /\ n.state = "sent"
              /\ writes' = writes \cup {n} /\ writes' \subseteq Writes
              /\ ccc_write_id' \in Nat \ {0} /\ next_request_id' \in Nat \ {0}
              /\ att_id' \in [Regs -> Nat] /\ att_id'[r] # 0
              /\ \A q \in Regs : q # r => att_id'[q] = att_id[q]
    BY <1>8, WriteIs DEF IInv
  <2>2. Types'
    BY <1>3, <1>6, <1>8, <2>1 DEF IInv, Types
  <2>3. QueueInv'
    BY <1>1, <1>2, <1>6, <1>8, <2>1 DEF IInv, Types, QueueInv, InSeq
  <2>4. EnablesInv'
    <3>1. \A w \in writes : w.by \in Regs
      BY DEF IInv, Types, Writes
    <3> QED
      BY <1>1, <2>1, <3>1 DEF IInv, EnablesInv
  <2>5. FlightInv'
    <3>1. ~overlapped => writes = {}
      BY <1>6, <1>8 DEF IInv, FlightInv
    <3> QED
      BY <1>1, <2>1, <3>1 DEF FlightInv
  <2>6. ToldMeansOn'
    BY <1>1, <1>2, <1>8 DEF IInv, ToldMeansOn
  <2> QED
    BY <1>3, <1>4, <2>2, <2>3, <2>4, <2>5, <2>6 DEF IInv
<1> QED
  BY <1>5, <1>7, <1>8 DEF register_notify

\* A handler leaves: while it is being enabled, as the last one, or not.
LEMMA UnregisterKeeps ==
    ASSUME IInv, NEW r \in Regs, bt_gatt_client_unregister_notify(r)
    PROVE  IInv'
<1>1. /\ r \in notify_list /\ notify_list' = notify_list \ {r}
      /\ left' = left \cup {r} /\ reg_notify_queue' = Without(reg_notify_queue, {r})
      /\ UNCHANGED <<skew, aborted, told, misled, refused>>
  BY DEF bt_gatt_client_unregister_notify, Unqueue
<1>2. /\ reg_notify_queue' \in Seq(Regs) /\ NoRepeat(reg_notify_queue')
      /\ InSeq(reg_notify_queue') = InSeq(reg_notify_queue) \ {r}
  BY <1>1, WithoutKeeps DEF IInv, Types, QueueInv
<1>3. /\ Cardinality(notify_list) \in Nat /\ IsFiniteSet(notify_list')
      /\ Cardinality(notify_list') = Cardinality(notify_list) - 1
      /\ Cardinality(notify_list') \in Nat
      /\ notify_list' \subseteq Regs /\ left' \subseteq Regs
  <2>1. notify_list' \subseteq Regs /\ left' \subseteq Regs
    BY <1>1 DEF IInv, Types
  <2>2. IsFiniteSet(notify_list) /\ Cardinality(notify_list) \in Nat
    BY ListIsFinite DEF IInv, Types
  <2> QED
    BY <1>1, <2>1, <2>2, ListIsFinite, FS_RemoveElement
<1>4. CASE /\ att_id[r] # 0 /\ bt_att_cancel(att_id[r])
           /\ att_id' = [att_id EXCEPT ![r] = 0] /\ leaked' = leaked \cup {r}
           /\ UNCHANGED <<notify_count, ccc_write_id, next_request_id, overlapped>>
  <2> DEFINE hit == {w \in writes : w.id + skew = att_id[r]}
  <2>1. /\ writes' = writes \ hit /\ hit \subseteq writes
        /\ ccc' \in {ccc} \cup {w.enable : w \in {v \in hit : v.state = "sent"}}
    BY <1>4 DEF bt_att_cancel
  <2> HIDE DEF hit
  <2>2. ccc' = ccc \/ \E w \in writes : ccc' = w.enable
    BY <2>1
  <2>3. leaked' # {}
    BY <1>4
  <2>4. Types'
    <3>1. ccc' \in BOOLEAN
      BY <2>2 DEF IInv, Types, Writes
    <3>2. /\ writes' \subseteq Writes /\ att_id' \in [Regs -> Nat]
          /\ notify_count' \in Nat /\ ccc_write_id' \in Nat
          /\ next_request_id' \in Nat \ {0}
          /\ told' \in [Regs -> {"nothing", "on", "refused"}]
      BY <1>1, <1>4, <2>1 DEF IInv, Types
    <3> QED
      BY <1>2, <1>3, <3>1, <3>2 DEF Types
  <2>5. CountInv'
    BY <1>3, <1>4, <2>3 DEF IInv, Types, CountInv
  <2>6. QueueInv'
    <3>1. /\ att_id' \in [Regs -> Nat] /\ notify_list' \cup left' = notify_list \cup left
          /\ \A q \in Regs : /\ att_id'[q] # 0 => att_id[q] # 0
                             /\ q # r => att_id'[q] = att_id[q]
      BY <1>1, <1>4 DEF IInv, Types
    <3>2. \A q \in InSeq(reg_notify_queue') : q \in Regs /\ q # r /\ q \in InSeq(reg_notify_queue)
      BY <1>2 DEF InSeq
    <3>3. \A q \in InSeq(reg_notify_queue') : q \in notify_list' /\ att_id'[q] = 0
      BY <1>1, <3>1, <3>2 DEF IInv, QueueInv
    <3>4. \A q \in Regs : att_id'[q] # 0 \/ told'[q] # "nothing"
                             => q \in notify_list' \cup left'
      BY <1>1, <3>1 DEF IInv, QueueInv
    <3>5. \A w \in writes' : w.by \in notify_list' \cup left'
      BY <2>1, <3>1 DEF IInv, QueueInv
    <3> QED
      BY <1>2, <3>3, <3>4, <3>5 DEF QueueInv
  <2>7. EnablesInv' /\ OffInv' /\ AssertHolds'
    BY <1>1, <1>4, <2>3 DEF IInv, EnablesInv, OffInv, AssertHolds
  <2>8. FlightInv'
    <3> SUFFICES ASSUME ~overlapped', NEW w \in writes'
                 PROVE  /\ ccc_write_id' # 0 /\ \A v \in writes' : v = w
                        /\ w.enable /\ w.state = "done" => ccc'
                        /\ ~w.enable => \A q \in notify_list' : told'[q] = "nothing"
      BY DEF FlightInv
    <3>1. w \in writes /\ w \notin hit /\ ~overlapped
      BY <1>4, <2>1
    <3>2. \A v \in writes : v = w
      BY <3>1 DEF IInv, FlightInv
    <3>3. hit = {}
      BY <2>1, <3>1, <3>2
    <3>4. ccc' = ccc
      BY <2>1, <3>3
    <3> QED
      BY <1>1, <1>4, <2>1, <3>1, <3>4 DEF IInv, FlightInv
  <2>9. ToldMeansOn'
    <3> SUFFICES ASSUME NEW q \in notify_list', q \notin Silent, q \notin misled',
                        told'[q] = "on", ~overlapped', ~ccc'
                 PROVE  FALSE
      BY DEF ToldMeansOn
    <3>1. q \in notify_list /\ told[q] = "on" /\ ~overlapped /\ ccc
      BY <1>1, <1>4 DEF IInv, ToldMeansOn
    <3>2. PICK w \in writes : ccc' = w.enable
      BY <2>2, <3>1
    <3> QED
      BY <3>1, <3>2 DEF IInv, FlightInv
  <2> QED
    BY <2>4, <2>5, <2>6, <2>7, <2>8, <2>9 DEF IInv
<1>5. CASE /\ att_id[r] = 0 /\ notify_count' = notify_count - 1
           /\ IF LastOut
              THEN /\ notify_data_write_ccc(r, FALSE)
                   /\ overlapped' = (overlapped \/ ccc_write_id # 0)
              ELSE UNCHANGED <<writes, att_id, ccc_write_id, next_request_id,
                               overlapped>>
           /\ UNCHANGED <<ccc, misfired, leaked>>
  <2>1. CountInv' /\ notify_count' \in Nat
    BY <1>3, <1>5 DEF IInv, Types, CountInv
  <2>2. /\ told' \in [Regs -> {"nothing", "on", "refused"}] /\ ccc' \in BOOLEAN
    BY <1>1, <1>5 DEF IInv, Types
  <2>3. CASE LastOut
    <3>1. PICK n \in Writes :
              /\ n.by = r /\ n.enable = FALSE /\ n.state = "sent"
              /\ writes' = writes \cup {n} /\ writes' \subseteq Writes
              /\ ccc_write_id' \in Nat \ {0} /\ next_request_id' \in Nat \ {0}
              /\ att_id' \in [Regs -> Nat] /\ att_id'[r] # 0
              /\ \A q \in Regs : q # r => att_id'[q] = att_id[q]
      BY <1>5, <2>3, WriteIs DEF IInv
    <3>2. notify_list' = {}
      <4>1. Cardinality(notify_list') = 0
        BY <1>3, <2>3 DEF LastOut, IInv, Types, CountInv
      <4> QED
        BY <1>3, <4>1, FS_EmptySet
    <3>3. Types'
      BY <1>2, <1>3, <2>1, <2>2, <3>1 DEF Types
    <3>4. QueueInv'
      BY <1>1, <1>2, <3>1 DEF IInv, Types, QueueInv, InSeq
    <3>5. EnablesInv'
      <4>1. \A w \in writes : w.by \in Regs
        BY DEF IInv, Types, Writes
      <4> QED
        BY <1>1, <1>5, <3>1, <4>1 DEF IInv, EnablesInv
    <3>6. FlightInv'
      <4>1. ~overlapped' => writes = {}
        BY <1>5, <2>3 DEF IInv, FlightInv
      <4> QED
        BY <3>1, <3>2, <4>1 DEF FlightInv
    <3>7. OffInv'
      BY <3>1 DEF OffInv
    <3>8. ToldMeansOn' /\ AssertHolds'
      BY <1>1, <1>5, <2>3, <3>2 DEF IInv, ToldMeansOn, AssertHolds
    <3> QED
      BY <2>1, <3>3, <3>4, <3>5, <3>6, <3>7, <3>8 DEF IInv
  <2>4. CASE ~LastOut
    <3>1. UNCHANGED <<writes, att_id, ccc_write_id, next_request_id, overlapped>>
      BY <1>5, <2>4
    <3>2. Types'
      BY <1>2, <1>3, <2>1, <2>2, <3>1 DEF IInv, Types
    <3>3. QueueInv'
      BY <1>1, <1>2, <3>1 DEF IInv, Types, QueueInv, InSeq
    <3>4. EnablesInv'
      BY <1>1, <1>5, <3>1 DEF IInv, EnablesInv
    <3>5. FlightInv' /\ ToldMeansOn' /\ AssertHolds'
      BY <1>1, <1>5, <3>1 DEF IInv, FlightInv, ToldMeansOn, AssertHolds
    <3>6. OffInv'
      <4>1. ASSUME leaked = {}
            PROVE  notify_list' # {}
        <5>1. Cardinality(notify_list) # 1
          BY <2>4, <4>1 DEF LastOut, IInv, CountInv
        <5>2. Cardinality(notify_list') # 0
          BY <1>3, <5>1
        <5> QED
          BY <5>2, FS_EmptySet
      <4> QED
        BY <1>5, <4>1 DEF OffInv
    <3> QED
      BY <2>1, <3>2, <3>3, <3>4, <3>5, <3>6 DEF IInv
  <2> QED
    BY <2>3, <2>4
<1> QED
  BY <1>4, <1>5 DEF bt_gatt_client_unregister_notify

\* The server takes a write or refuses it.
LEMMA ServeKeeps ==
    ASSUME IInv, NEW w \in writes, NEW err \in BOOLEAN, Serve(w, err)
    PROVE  IInv'
<1> DEFINE n == [w EXCEPT !.state = IF err THEN "error" ELSE "done"]
<1>1. /\ w.state = "sent" /\ writes' = (writes \ {w}) \cup {n}
      /\ ccc' = IF err THEN ccc ELSE w.enable
      /\ refused' = (refused \/ (err /\ ~w.enable))
      /\ UNCHANGED <<idVars, chrcVars, aborted, told, left, misled, overlapped,
                     misfired, leaked>>
  BY DEF Serve
<1>2. w \in Writes /\ w.enable \in BOOLEAN
  BY DEF IInv, Types, Writes
<1>3. /\ n \in Writes /\ n.by = w.by /\ n.enable = w.enable /\ n.state # "sent"
      /\ n.state = "done" <=> ~err
  BY <1>2 DEF Writes
<1> HIDE DEF n
<1>4. Types' /\ CountInv' /\ QueueInv' /\ AssertHolds'
  BY <1>1, <1>2, <1>3 DEF idVars, chrcVars, IInv, Types, CountInv, QueueInv, AssertHolds
<1>5. EnablesInv'
  BY <1>1, <1>3 DEF chrcVars, IInv, EnablesInv
<1>6. ~overlapped => writes = {w} /\ writes' = {n}
  BY <1>1 DEF IInv, FlightInv
<1>7. FlightInv'
  BY <1>1, <1>3, <1>6 DEF chrcVars, IInv, FlightInv
<1>8. OffInv'
  <2> SUFFICES ASSUME leaked = {}, ~refused', ccc', notify_list = {}
               PROVE  \E v \in writes' : ~v.enable /\ v.state = "sent"
    BY <1>1 DEF OffInv, chrcVars
  <2>1. ~w.enable
    BY DEF IInv, EnablesInv
  <2> QED
    BY <1>1, <2>1
<1>9. ToldMeansOn'
  BY <1>1, <1>6 DEF chrcVars, IInv, FlightInv, ToldMeansOn
<1> QED
  BY <1>4, <1>5, <1>7, <1>8, <1>9 DEF IInv

\* assert(ccc_write_id) fails only where two writes overlapped.
LEMMA AbortKeeps ==
    ASSUME IInv, NEW w \in writes, Abort(w)
    PROVE  IInv'
<1>1. /\ ccc_write_id = 0 /\ aborted'
      /\ UNCHANGED <<idVars, chrcVars, writes, ccc, histVars>>
  BY DEF Abort
<1>2. overlapped
  BY <1>1 DEF IInv, FlightInv
<1> QED
  BY <1>1, <1>2 DEF idVars, chrcVars, histVars, IInv, Types, CountInv, QueueInv,
                    EnablesInv, FlightInv, OffInv, ToldMeansOn, AssertHolds

\* The handler that had the descriptor written and those that wait are told.
LEMMA EnabledKeeps ==
    ASSUME IInv, NEW w \in writes, enable_ccc_callback(w)
    PROVE  IInv'
<1>1. /\ w.enable /\ w.state # "sent" /\ ccc_write_id' = 0
      /\ told' = [r \in Regs |->
                    IF (r = w.by /\ r \notin left) \/ InQueue(r)
                    THEN IF w.state = "done" THEN "on" ELSE "refused"
                    ELSE told[r]]
      /\ att_id' = [r \in Regs |-> IF r = w.by \/ InQueue(r) THEN 0 ELSE att_id[r]]
      /\ reg_notify_queue' = <<>> /\ writes' = writes \ {w}
      /\ UNCHANGED <<idVars, notify_list, notify_count, ccc, aborted, left, misled,
                     overlapped, misfired, leaked, refused>>
  BY DEF enable_ccc_callback
<1>2. w.by \in Regs /\ w \in Writes
  BY DEF IInv, Types, Writes
<1>3. /\ told' \in [Regs -> {"nothing", "on", "refused"}]
      /\ att_id' \in [Regs -> Nat]
      /\ \A r \in Regs : att_id'[r] # 0 => att_id[r] # 0
      /\ \A r \in Regs : /\ r # w.by /\ ~InQueue(r) => att_id'[r] = att_id[r]
                         /\ r # w.by /\ ~InQueue(r) => told'[r] = told[r]
                         /\ told'[r] = "on" => told[r] = "on" \/ w.state = "done"
  BY <1>1, <1>2 DEF IInv, Types
<1>4. <<>> \in Seq(Regs) /\ InSeq(reg_notify_queue') = {}
  BY <1>1 DEF InSeq
<1>5. Types'
  BY <1>1, <1>3, <1>4 DEF idVars, IInv, Types
<1>6. CountInv' /\ AssertHolds'
  BY <1>1 DEF IInv, CountInv, AssertHolds
<1>7. QueueInv'
  <2>1. NoRepeat(reg_notify_queue')
    BY <1>1 DEF NoRepeat
  <2>2. \A r \in Regs : r = w.by \/ InQueue(r) => r \in notify_list \cup left
    BY DEF IInv, QueueInv, InQueue
  <2>3. ASSUME NEW r \in Regs, att_id'[r] # 0 \/ told'[r] # "nothing"
        PROVE  r \in notify_list \cup left
    BY <1>3, <2>2, <2>3 DEF IInv, QueueInv
  <2> QED
    BY <1>1, <1>4, <2>1, <2>3 DEF IInv, QueueInv
<1>8. EnablesInv'
  <2> SUFFICES ASSUME leaked = {}, NEW v \in writes', v.enable
               PROVE  /\ v.by \in notify_list /\ att_id'[v.by] # 0
                      /\ \A u \in writes' : u.enable /\ u.by = v.by => u = v
    BY <1>1 DEF EnablesInv
  <2>1. v \in writes /\ v # w /\ v.by \in Regs
    BY <1>1 DEF IInv, Types, Writes
  <2>2. /\ v.by \in notify_list /\ att_id[v.by] # 0
        /\ \A u \in writes : u.enable /\ u.by = v.by => u = v
    BY <2>1 DEF IInv, EnablesInv
  <2>3. v.by # w.by /\ ~InQueue(v.by)
    BY <1>1, <2>1, <2>2 DEF IInv, QueueInv, InQueue
  <2> QED
    BY <1>1, <1>3, <2>1, <2>2, <2>3
<1>9. ~overlapped => writes = {w}
  BY DEF IInv, FlightInv
<1>10. FlightInv'
  BY <1>1, <1>9 DEF FlightInv
<1>11. OffInv'
  BY <1>1 DEF IInv, OffInv
<1>12. ToldMeansOn'
  <2> SUFFICES ASSUME NEW q \in notify_list, q \notin Silent, q \notin misled,
                      told'[q] = "on", ~overlapped
               PROVE  ccc
    BY <1>1 DEF ToldMeansOn
  <2>1. q \in Regs
    BY DEF IInv, Types
  <2>2. told[q] = "on" \/ w.state = "done"
    BY <1>3, <2>1
  <2> QED
    BY <1>1, <2>2 DEF IInv, FlightInv, ToldMeansOn
<1> QED
  BY <1>5, <1>6, <1>7, <1>8, <1>10, <1>11, <1>12 DEF IInv

\* The first handler that waits has the descriptor written again.
LEMMA DisabledKeeps ==
    ASSUME IInv, NEW w \in writes, disable_ccc_callback(w)
    PROVE  IInv'
<1>1. /\ ~w.enable /\ w.state # "sent"
      /\ UNCHANGED <<skew, notify_list, notify_count, ccc, aborted, histVars>>
  BY DEF disable_ccc_callback
<1>2. CountInv' /\ AssertHolds' /\ ToldMeansOn'
  BY <1>1 DEF histVars, IInv, CountInv, AssertHolds, ToldMeansOn
<1>3. ~overlapped => writes = {w}
  BY DEF IInv, FlightInv
<1>4. CASE /\ ccc_write_id' = 0 /\ writes' = writes \ {w}
           /\ UNCHANGED <<reg_notify_queue, att_id, next_request_id>>
  <2>1. Types' /\ QueueInv'
    BY <1>1, <1>4 DEF histVars, IInv, Types, QueueInv
  <2>2. EnablesInv' /\ OffInv'
    BY <1>1, <1>4 DEF histVars, IInv, EnablesInv, OffInv
  <2>3. FlightInv'
    BY <1>1, <1>3, <1>4 DEF histVars, FlightInv
  <2> QED
    BY <1>2, <2>1, <2>2, <2>3 DEF IInv
<1>5. CASE reg_notify_queue # <<>>
  <2> DEFINE h == Head(reg_notify_queue)
             n == [id |-> next_request_id, by |-> h, enable |-> TRUE, state |-> "sent"]
  <2>0. reg_notify_queue' = Tail(reg_notify_queue)
    BY <1>5 DEF disable_ccc_callback
  <2>1. /\ h \in Regs /\ reg_notify_queue' \in Seq(Regs) /\ NoRepeat(reg_notify_queue')
        /\ InSeq(reg_notify_queue) = InSeq(reg_notify_queue') \cup {h}
        /\ h \notin InSeq(reg_notify_queue')
    BY <1>5, <2>0, TailKeeps DEF IInv, Types, QueueInv
  <2>2. h \in notify_list /\ att_id[h] = 0
    BY <2>1 DEF IInv, QueueInv
  <2>3. /\ att_id' = [att_id EXCEPT ![h] = next_request_id]
        /\ ccc_write_id' = next_request_id /\ next_request_id' = next_request_id + 1
        /\ writes' = (writes \ {w}) \cup {n}
    BY <1>5 DEF disable_ccc_callback
  <2>4. n \in Writes /\ n.by = h /\ n.enable = TRUE /\ n.state = "sent"
    BY <2>1 DEF IInv, Types, Writes
  <2> HIDE DEF n, h
  <2>5. /\ att_id' \in [Regs -> Nat] /\ att_id'[h] # 0
        /\ \A q \in Regs : q # h => att_id'[q] = att_id[q]
        /\ ccc_write_id' \in Nat \ {0} /\ next_request_id' \in Nat \ {0}
        /\ writes' \subseteq Writes
    BY <2>1, <2>3, <2>4 DEF IInv, Types
  <2>6. Types'
    BY <1>1, <2>1, <2>5 DEF histVars, IInv, Types
  <2>7. QueueInv'
    <3>1. \A r \in InSeq(reg_notify_queue') :
             r \in Regs /\ r # h /\ r \in InSeq(reg_notify_queue)
      BY <2>1 DEF IInv, Types, QueueInv
    <3>2. \A r \in InSeq(reg_notify_queue') : r \in notify_list' /\ att_id'[r] = 0
      BY <1>1, <2>5, <3>1 DEF IInv, QueueInv
    <3>3. \A r \in Regs : att_id'[r] # 0 \/ told'[r] # "nothing"
                             => r \in notify_list' \cup left'
      BY <1>1, <2>2, <2>5 DEF histVars, IInv, QueueInv
    <3>4. \A v \in writes' : v.by \in notify_list' \cup left'
      BY <1>1, <2>2, <2>3, <2>4 DEF histVars, IInv, QueueInv
    <3> QED
      BY <2>1, <3>2, <3>3, <3>4 DEF QueueInv
  <2>8. EnablesInv'
    <3> SUFFICES ASSUME leaked = {}, NEW v \in writes', v.enable
                 PROVE  /\ v.by \in notify_list /\ att_id'[v.by] # 0
                        /\ \A u \in writes' : u.enable /\ u.by = v.by => u = v
      BY <1>1 DEF EnablesInv, histVars
    <3>1. \A u \in writes : u.enable => u.by \in Regs /\ u.by # h
      BY <2>2 DEF IInv, Types, Writes, EnablesInv
    <3>2. CASE v = n
      BY <2>2, <2>3, <2>4, <2>5, <3>1, <3>2
    <3>3. CASE v # n
      <4>1. v \in writes /\ v.by # h /\ v.by \in Regs
        BY <2>3, <3>1, <3>3
      <4> QED
        BY <2>3, <2>4, <2>5, <4>1 DEF IInv, EnablesInv
    <3> QED
      BY <3>2, <3>3
  <2>9. FlightInv'
    BY <1>1, <1>3, <2>3, <2>4, <2>5 DEF histVars, FlightInv
  <2>10. OffInv'
    BY <1>1, <2>2 DEF histVars, OffInv
  <2> QED
    BY <1>2, <2>6, <2>7, <2>8, <2>9, <2>10 DEF IInv
<1> QED
  BY <1>4, <1>5 DEF disable_ccc_callback

-----------------------------------------------------------------------------
\* bt_gatt_client_new: nobody is registered, nothing was written.
LEMMA InitIInv == Init => IInv
<1> SUFFICES ASSUME Init
             PROVE  IInv
  OBVIOUS
<1>1. /\ <<>> \in Seq(Regs) /\ InSeq(reg_notify_queue) = {}
      /\ NoRepeat(reg_notify_queue) /\ Cardinality({}) = 0
  BY FS_EmptySet DEF Init, InSeq, NoRepeat
<1>2. Types
  <2>1. /\ 0 \in Nat /\ 1 \in Nat \ {0} /\ FALSE \in BOOLEAN
        /\ [r \in Regs |-> 0] \in [Regs -> Nat]
        /\ [r \in Regs |-> "nothing"] \in [Regs -> {"nothing", "on", "refused"}]
    OBVIOUS
  <2> QED
    BY <1>1, <2>1, Zenon DEF Init, Types
<1>3. CountInv /\ QueueInv /\ EnablesInv /\ FlightInv /\ OffInv
  BY <1>1 DEF Init, CountInv, QueueInv, EnablesInv, FlightInv, OffInv
<1> QED
  BY <1>2, <1>3 DEF Init, IInv, ToldMeansOn, AssertHolds

\* Every call, every answer and every callback.
LEMMA NextIInv == IInv /\ [Next]_vars => IInv'
<1> SUFFICES ASSUME IInv, [Next]_vars
             PROVE  IInv'
  OBVIOUS
<1>1. CASE UNCHANGED vars
  BY <1>1 DEF vars, idVars, chrcVars, histVars, IInv, Types, CountInv, QueueInv,
              EnablesInv, FlightInv, OffInv, ToldMeansOn, AssertHolds
<1>2. ASSUME NEW w \in writes, Progress(w)
      PROVE  IInv'
  BY <1>2, ServeKeeps, AbortKeeps, EnabledKeeps, DisabledKeeps DEF Progress
<1> QED
  BY <1>1, <1>2, RegisterKeeps, UnregisterKeeps DEF Next

\* A handler told that notifications are on has the descriptor set at the server
\* for as long as it stays (gatt-client.c: register_notify,
\* complete_unregister_notify and the callbacks of the CCC writes), unless
\* nothing was switched on when it was told or a disable overlapped a write.
THEOREM ToldHolds == Spec => []ToldMeansOn
<1>1. IInv => ToldMeansOn
  BY DEF IInv
<1> QED
  BY <1>1, InitIInv, NextIInv, PTL DEF Spec

\* When the last handler has left and its write is answered the descriptor is
\* clear: notify_count misses nobody, unless a handler left while being enabled
\* or the server refused.
THEOREM OffHolds == Spec => []OffWhenUnused
<1>1. IInv => OffWhenUnused
  BY DEF IInv, OffInv, OffWhenUnused
<1> QED
  BY <1>1, InitIInv, NextIInv, PTL DEF Spec

\* assert(notify_data->chrc->ccc_write_id) in the callbacks of the CCC writes
\* can only fail after a disable was sent on top of a write in flight.
THEOREM AssertNeverFails == Spec => []AssertHolds
<1>1. IInv => AssertHolds
  BY DEF IInv
<1> QED
  BY <1>1, InitIInv, NextIInv, PTL DEF Spec

=============================================================================
