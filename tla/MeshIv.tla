------------------------------- MODULE MeshIv -------------------------------
(***************************************************************************)
(* The sending side of a mesh node: sequence numbers, the IV Index and     *)
(* what the node's configuration file keeps of them.                       *)
(*                                                                         *)
(* Every PDU is encrypted under a nonce made of the IV Index and a         *)
(* sequence number, and no nonce may ever be used twice.  The code that    *)
(* has to see to it is spread over net.c (the numbers, the segmented       *)
(* messages, the IV Update procedure and the beacons that drive it) and    *)
(* mesh-config-json.c (the file is written only now and then, ahead of the *)
(* numbers in use).  The node may be killed between any two steps.         *)
(*                                                                         *)
(* One action per handler of the main loop; the loop over the segments of  *)
(* a message (busy) is taken one segment at a time, and while it runs no   *)
(* other handler does.  There is one primary subnet and no friend, for     *)
(* which queue_friend_update would take one more number.                   *)
(***************************************************************************)
EXTENDS Integers, Sequences

CONSTANTS
    Dst,        \* unicast destinations of segmented messages
    SeqMask,    \* the largest sequence number that may be sent
    Half,       \* IV_UPDATE_SEQ_TRIGGER
    Trigger,    \* MIN_SEQ_CACHE_TRIGGER
    Value,      \* MIN_SEQ_CACHE_VALUE
    Rates,      \* by how much the measured rate raises the overcommitment
    DiffRange,  \* IV_IDX_DIFF_RANGE
    Segs,       \* bound: segments of a message
    MaxQueue,   \* bound: messages that wait for one destination
    MaxIdle,    \* bound: idle callbacks that wait when a handler starts
    MaxIv,      \* bound: IV Index
    MaxCrash    \* bound: restarts

ASSUME MeshIvAssumption ==
    /\ {SeqMask, Half, Trigger, Value, DiffRange, MaxQueue, MaxIdle, MaxIv,
        MaxCrash} \subseteq Nat
    /\ Rates \subseteq Nat /\ Rates # {}
    /\ Segs \in Nat \ {0}
    /\ Trigger < Value

OutOfRange == SeqMask + 1
SeqNum == 0..OutOfRange
Index == 0..MaxIv
\* Numbers above the mask are all as good as the first of them.
Capped(n) == IF n > SeqMask THEN OutOfRange ELSE n

\* What the file holds of the node's state.
Config == [seq: SeqNum, iv: Index, upd: BOOLEAN]

\* A payload of sar_out or sar_queue keeps the IV Index of the time it was
\* made.  orphan marks one whose predecessor timed out (see outmsg_to).
Payload == [iv: Index, orphan: BOOLEAN]
NoPayload == [iv |-> -1, orphan |-> FALSE]

\* The callbacks of the idle queue: idle_save_config and send_msg_pkt_oneshot.
\* bare marks a number that was taken within the millisecond of write_time and
\* that the number in the configuration does not cover.
Save == [iv |-> -1, seq |-> -1, orphan |-> FALSE, bare |-> FALSE]
Pdu == [iv: Index, seq: 0..SeqMask, orphan: BOOLEAN, bare: BOOLEAN]

NotBusy == [dst |-> "none", sar |-> NoPayload, left |-> 0, keep |-> FALSE]
Busy == [dst: Dst \cup {"group"}, sar: Payload, left: 1..Segs, keep: BOOLEAN]

VARIABLES
    seq,        \* net->seq_num
    iv,         \* net->iv_index
    ivu,        \* net->iv_update
    state,      \* net->iv_upd_state
    timer,      \* net->iv_update_timeout: "off", "set", or "due"
    jnode,      \* cfg->jnode, the configuration in memory
    disk,       \* the configuration file
    idle,       \* the idle queue of the main loop
    sameMs,     \* the millisecond of cfg->write_time is not over
    sarOut,     \* net->sar_out, by destination
    sarQueue,   \* net->sar_queue, by destination
    busy,       \* the loop over segments that is under way
    top,        \* per IV Index, 1 + the last number that went on the air, but
                \* for bare ones
    crashes

vars == <<seq, iv, ivu, state, timer, jnode, disk, idle, sameMs, sarOut,
          sarQueue, busy, top, crashes>>
ivVars == <<iv, ivu, state, timer>>
sarVars == <<sarOut, sarQueue>>

TypeOK ==
    /\ seq \in SeqNum
    /\ iv \in Index
    /\ ivu \in BOOLEAN
    /\ state \in {"INIT", "NORMAL", "UPDATING", "NORMAL_HOLD"}
    /\ timer \in {"off", "set", "due"}
    /\ jnode \in Config
    /\ disk \in Config
    /\ idle \in Seq(Pdu \cup {Save})
    /\ sameMs \in BOOLEAN
    /\ sarOut \in [Dst -> Payload \cup {NoPayload}]
    /\ sarQueue \in [Dst -> Seq(Payload)]
    /\ busy \in Busy \cup {NotBusy}
    /\ top \in [Index -> SeqNum]
    /\ crashes \in 0..MaxCrash

Init ==
    /\ seq = 0
    /\ iv = 0
    /\ ivu = FALSE
    /\ state = "INIT"
    /\ timer = "off"
    /\ jnode = [seq |-> 0, iv |-> 0, upd |-> FALSE]
    /\ disk = jnode
    /\ idle = <<>>
    /\ sameMs = TRUE
    /\ sarOut = [d \in Dst |-> NoPayload]
    /\ sarQueue = [d \in Dst |-> <<>>]
    /\ busy = NotBusy
    /\ top = [i \in Index |-> 0]
    /\ crashes = 0
-----------------------------------------------------------------------------
(***************************************************************************)
(* Sequence numbers.                                                       *)
(***************************************************************************)

\* The value the file should hold once s is the next number: at least Value
\* ahead, more when numbers are used fast, out of range rather than too high.
Overcommits(s) == {Capped(s + Value + r) : r \in Rates}

\* Mutant: the trigger on the other side, seq > cached + MIN_SEQ_CACHE_TRIGGER.
SeqWrites_behind(s, c, q, ms) ==
    IF (s # 0 /\ s <= c + Trigger) \/ ms
    THEN {<<c, q>>}
    ELSE {<<n, IF s # 0 /\ n = c THEN q ELSE Append(q, Save)>>
             : n \in Overcommits(s)}

\* mesh_config_write_seq_number(cfg, s, true): what becomes of the cached
\* number c and of the pending callbacks q.  Nothing is written while the
\* cached number is far enough ahead, nor within the millisecond ms of
\* write_time, however many numbers are used in it.
SeqWrites(s, c, q, ms) ==
    IF (s # 0 /\ s + Trigger < c) \/ ms
    THEN {<<c, q>>}
    ELSE {<<n, IF s # 0 /\ n = c THEN q ELSE Append(q, Save)>>
             : n \in Overcommits(s)}

\* The IV Index PDUs are sent with: mesh_net_get_iv_index.
TxIndex == iv - (IF ivu THEN 1 ELSE 0)

\* A payload made now, and the loop that sends left segments of payload sar;
\* keep: a new message, to be put into sar_out.
NewPayload == [iv |-> TxIndex, orphan |-> FALSE]
Loop(d, sar, left, keep) == [dst |-> d, sar |-> sar, left |-> left, keep |-> keep]

\* mesh_crypto_packet_build refuses a number that is out of range.
Sendable(n) == n <= SeqMask
\* The PDU of payload sar with number n, c being the cached number by then.
PduOf(sar, n, c) ==
    [iv |-> sar.iv, seq |-> n, orphan |-> sar.orphan, bare |-> sameMs /\ n >= c]

HandlerMayRun == busy = NotBusy /\ Len(idle) <= MaxIdle
-----------------------------------------------------------------------------
(***************************************************************************)
(* The IV Update procedure.                                                *)
(***************************************************************************)

\* mesh_net_iv_index_update in state NORMAL, c being the cached number by then.
\* The file is written first, in place and with all that jnode holds; if that
\* fails jnode is left with the new index and the node goes on with the old one.
StartUpdate(c) ==
    /\ iv' = iv + 1
    /\ ivu' = TRUE
    /\ state' = "UPDATING"
    /\ timer' = "set"
    /\ jnode' = [seq |-> c, iv |-> iv + 1, upd |-> TRUE]
    /\ disk' = jnode'
FailUpdate(c) ==
    /\ jnode' = [seq |-> c, iv |-> iv + 1, upd |-> TRUE]
    /\ UNCHANGED <<iv, ivu, disk>>

mesh_net_iv_index_update(c) ==
    IF state = "NORMAL" /\ iv < MaxIv
    THEN \/ StartUpdate(c)
         \/ FailUpdate(c) /\ UNCHANGED <<state, timer>>
    ELSE /\ UNCHANGED <<ivVars, disk>>
         /\ jnode' = [jnode EXCEPT !.seq = c]

\* The check in send_seg: the trigger of the procedure.
UpdateWhenHalf(c) ==
    IF seq' > Half
    THEN mesh_net_iv_index_update(c)
    ELSE /\ jnode' = [jnode EXCEPT !.seq = c]
         /\ UNCHANGED <<ivVars, disk>>

SarPending == \E d \in Dst : sarOut[d] # NoPayload \/ sarQueue[d] # <<>>

\* The reset both branches of iv_upd_to start with, if an update is on: what
\* becomes of the number, its cached value and the idle queue.
Resets == IF ivu THEN {<<0, w[1], w[2]>> : w \in SeqWrites(0, jnode.seq, idle, sameMs)}
                 ELSE {<<seq, jnode.seq, idle>>}

\* Mutants: the end of the update is not saved; a timer that found messages
\* pending is not set again.
iv_upd_to_updating_unsaved ==
    /\ HandlerMayRun
    /\ timer = "due" /\ state = "UPDATING"
    /\ timer' = "set"
    /\ IF SarPending
       THEN UNCHANGED <<seq, ivu, state, jnode, disk, idle>>
       ELSE /\ state' = "NORMAL_HOLD"
            /\ ivu' = FALSE
            /\ \E r \in Resets :
                 /\ seq' = r[1]
                 /\ jnode' = [seq |-> r[2], iv |-> iv, upd |-> FALSE]
                 /\ idle' = r[3]
            /\ UNCHANGED disk
    /\ UNCHANGED <<iv, sameMs, sarVars, busy, top, crashes>>

iv_upd_to_updating_disarmed ==
    /\ HandlerMayRun
    /\ timer = "due" /\ state = "UPDATING"
    /\ timer' = IF SarPending THEN "off" ELSE "set"
    /\ IF SarPending
       THEN UNCHANGED <<seq, ivu, state, jnode, disk, idle>>
       ELSE /\ state' = "NORMAL_HOLD"
            /\ ivu' = FALSE
            /\ \E r \in Resets :
                 /\ seq' = r[1]
                 /\ jnode' = [seq |-> r[2], iv |-> iv, upd |-> FALSE]
                 /\ idle' = r[3]
            /\ disk' = jnode'
    /\ UNCHANGED <<iv, sameMs, sarVars, busy, top, crashes>>

\* iv_upd_to in IV_UPD_UPDATING: a segmented message that is left at that moment
\* puts the end of the update off until the timer is due again.
iv_upd_to_updating ==
    /\ HandlerMayRun
    /\ timer = "due" /\ state = "UPDATING"
    /\ timer' = "set"
    /\ IF SarPending
       THEN UNCHANGED <<seq, ivu, state, jnode, disk, idle>>
       ELSE /\ state' = "NORMAL_HOLD"
            /\ ivu' = FALSE
            /\ \E r \in Resets :
                 /\ seq' = r[1]
                 /\ jnode' = [seq |-> r[2], iv |-> iv, upd |-> FALSE]
                 /\ idle' = r[3]
            /\ disk' = jnode'
    /\ UNCHANGED <<iv, sameMs, sarVars, busy, top, crashes>>

\* iv_upd_to in IV_UPD_NORMAL_HOLD: the node may start the next update, and
\* does so at once when half its numbers are gone.
iv_upd_to_hold ==
    /\ HandlerMayRun
    /\ timer = "due" /\ state # "UPDATING"
    /\ \E r \in Resets :
         /\ seq' = r[1]
         /\ idle' = r[3]
         /\ IF r[1] > Half /\ iv < MaxIv
            THEN \/ StartUpdate(r[2])
                 \/ FailUpdate(r[2]) /\ state' = "NORMAL" /\ timer' = "off"
            ELSE /\ state' = "NORMAL"
                 /\ ivu' = FALSE
                 /\ timer' = "off"
                 /\ jnode' = [jnode EXCEPT !.seq = r[2]]
                 /\ UNCHANGED <<iv, disk>>
    /\ UNCHANGED <<sameMs, sarVars, busy, top, crashes>>

\* The time iv_update_timeout was set for is over.
TimerDue ==
    /\ timer = "set"
    /\ timer' = "due"
    /\ UNCHANGED <<seq, iv, ivu, state, jnode, disk, idle, sameMs, sarVars, busy,
                   top, crashes>>

\* The conditions under which update_iv_ivu_state takes over index i and
\* flag u of a beacon.
BeaconIndex(i, u) == i - (IF u THEN 1 ELSE 0)
Raises(i, u) == BeaconIndex(i, u) > TxIndex
Accepts(i, u) ==
    /\ Raises(i, u) => \A d \in Dst : sarOut[d] = NoPayload
    /\ IF state = "INIT"
       THEN u => i # iv \/ ivu
       ELSE IF u
            THEN /\ ivu \/ state # "NORMAL_HOLD"
                 /\ i # iv
                 /\ ~(ivu /\ i = iv + 1)
            ELSE ~ivu

\* process_beacon, update_iv_ivu_state: a Secure Network beacon of another
\* node of the primary subnet.
process_beacon(i, u) ==
    /\ HandlerMayRun
    /\ i >= iv /\ i <= iv + DiffRange
    /\ BeaconIndex(i, u) >= 0
    /\ state = "INIT" \/ i # iv \/ u # ivu
    /\ Accepts(i, u)
    /\ state' = IF state = "INIT" /\ ~u THEN "NORMAL"
                ELSE IF u /\ (state = "INIT" \/ ~ivu) THEN "UPDATING"
                ELSE state
    /\ timer' = IF timer = "off" /\ state' = "UPDATING" THEN "set" ELSE timer
    /\ iv' = i
    /\ ivu' = u
    /\ \E w \in IF Raises(i, u) THEN SeqWrites(0, jnode.seq, idle, sameMs)
                                ELSE {<<jnode.seq, idle>>} :
         /\ seq' = IF Raises(i, u) THEN 0 ELSE seq
         /\ idle' = w[2]
         /\ IF u # ivu \/ i # iv
            THEN /\ jnode' = [seq |-> w[1], iv |-> i, upd |-> u]
                 /\ disk' = jnode'
            ELSE /\ jnode' = [jnode EXCEPT !.seq = w[1]]
                 /\ UNCHANGED disk
    /\ UNCHANGED <<sameMs, sarVars, busy, top, crashes>>
-----------------------------------------------------------------------------
(***************************************************************************)
(* Messages.                                                               *)
(***************************************************************************)

\* mesh_net_next_seq_num, n times; afterwards the cached number and the idle
\* queue are a pair of NextWrites, the k-th time of KthWrites: the millisecond may
\* end between two of them.
TakeNumbers(n) == seq' = Capped(seq + n) /\ UNCHANGED sameMs
KthWrites(k, w) ==
    UNION {SeqWrites(Capped(seq + k), w[1], w[2], ms) : ms \in {FALSE, sameMs}}
NextWrites == SeqWrites(Capped(seq + 1), jnode.seq, idle, sameMs)
mesh_net_next_seq_num == TakeNumbers(1)

\* The idle queue with the PDU of payload sar numbered n put into it, if there is
\* one; w is the cached number and the queue by then.
SendPdu(w, sar, n) == IF Sendable(n) THEN Append(w[2], PduOf(sar, n, w[1])) ELSE w[2]

\* A control message (heartbeat, acknowledgment) takes a number for the friends,
\* one more for the node itself if it goes to a unicast address, and the one it
\* is sent with.
mesh_net_transport_send(unicast) ==
    LET n == IF unicast THEN 3 ELSE 2 IN
    /\ HandlerMayRun
    /\ TakeNumbers(n)
    /\ \E w1 \in NextWrites : \E w2 \in KthWrites(2, w1) :
       \E w \in IF unicast THEN KthWrites(3, w2) ELSE {w2} :
         /\ jnode' = [jnode EXCEPT !.seq = w[1]]
         /\ idle' = SendPdu(w, NewPayload, Capped(seq + n - 1))
    /\ UNCHANGED <<ivVars, disk, sarVars, busy, top, crashes>>

\* mesh_net_app_send of a message that needs no segments.
app_send_short ==
    /\ HandlerMayRun
    /\ mesh_net_next_seq_num
    /\ \E w \in NextWrites :
         /\ UpdateWhenHalf(w[1])
         /\ idle' = SendPdu(w, NewPayload, seq)
    /\ UNCHANGED <<sarVars, busy, top, crashes>>

\* mesh_net_app_send of a segmented message to d.  One number goes into the
\* message itself; behind another message to d it waits in sar_queue.
app_send_segmented(d) ==
    /\ HandlerMayRun
    /\ mesh_net_next_seq_num
    /\ \E w \in NextWrites :
         /\ jnode' = [jnode EXCEPT !.seq = w[1]]
         /\ idle' = w[2]
    /\ IF sarOut[d] # NoPayload
       THEN /\ Len(sarQueue[d]) < MaxQueue
            /\ sarQueue' = [sarQueue EXCEPT ![d] = Append(@, NewPayload)]
            /\ UNCHANGED busy
       ELSE /\ busy' = Loop(d, NewPayload, Segs, TRUE)
            /\ UNCHANGED sarQueue
    /\ UNCHANGED <<ivVars, disk, sarOut, top, crashes>>

\* The same to a group: sent without acknowledgment and forgotten.
app_send_group ==
    /\ HandlerMayRun
    /\ mesh_net_next_seq_num
    /\ \E w \in NextWrites :
         /\ jnode' = [jnode EXCEPT !.seq = w[1]]
         /\ idle' = w[2]
    /\ busy' = Loop("group", NewPayload, Segs, FALSE)
    /\ UNCHANGED <<ivVars, disk, sarVars, top, crashes>>

\* send_seg for the next segment of the message under way.  A segment whose
\* number is out of range ends the sending of a new message, which is then
\* forgotten; the last segment of a new message puts it into sar_out.
send_seg ==
    /\ busy # NotBusy
    /\ mesh_net_next_seq_num
    /\ \E w \in NextWrites :
         /\ UpdateWhenHalf(w[1])
         /\ idle' = SendPdu(w, busy.sar, seq)
    /\ LET new  == busy.keep \/ busy.dst = "group"
           last == busy.left = 1 \/ (new /\ ~Sendable(seq))
       IN  /\ busy' = IF last THEN NotBusy ELSE [busy EXCEPT !.left = @ - 1]
           /\ sarOut' = IF last /\ busy.keep /\ Sendable(seq)
                        THEN [sarOut EXCEPT ![busy.dst] = busy.sar] ELSE sarOut
    /\ UNCHANGED <<sarQueue, top, crashes>>

\* outseg_to, and ack_received for part of the segments: those that are
\* missing are sent once more, under new numbers.
ack_received_partly(d) ==
    /\ HandlerMayRun
    /\ sarOut[d] # NoPayload
    /\ \E n \in 1..Segs : busy' = Loop(d, sarOut[d], n, FALSE)
    /\ UNCHANGED <<seq, ivVars, jnode, disk, idle, sameMs, sarVars, top, crashes>>

\* ack_received for all segments, or a cancellation by the remote: the next
\* message to d takes its place (send_queued_sar) and all of it is sent.
ack_received_fully(d) ==
    /\ HandlerMayRun
    /\ sarOut[d] # NoPayload
    /\ IF sarQueue[d] = <<>>
       THEN /\ sarOut' = [sarOut EXCEPT ![d] = NoPayload]
            /\ UNCHANGED <<sarQueue, busy>>
       ELSE /\ sarOut' = [sarOut EXCEPT ![d] = Head(sarQueue[d])]
            /\ sarQueue' = [sarQueue EXCEPT ![d] = Tail(@)]
            /\ busy' = Loop(d, Head(sarQueue[d]), Segs, FALSE)
    /\ UNCHANGED <<seq, ivVars, jnode, disk, idle, sameMs, top, crashes>>

\* outmsg_to: the remote did not acknowledge in time.  Nothing is taken from
\* sar_queue: what waits there for d is an orphan from now on.
outmsg_to(d) ==
    /\ HandlerMayRun
    /\ sarOut[d] # NoPayload
    /\ sarOut' = [sarOut EXCEPT ![d] = NoPayload]
    /\ sarQueue' = [sarQueue EXCEPT ![d] =
                       [k \in DOMAIN @ |-> [@[k] EXCEPT !.orphan = TRUE]]]
    /\ UNCHANGED <<seq, ivVars, jnode, disk, idle, sameMs, busy, top, crashes>>
-----------------------------------------------------------------------------
(***************************************************************************)
(* The main loop, the file, crashes.                                       *)
(***************************************************************************)

\* idle_save_config: the file is replaced by way of a temporary one.
idle_save_config ==
    /\ busy = NotBusy
    /\ idle # <<>> /\ Head(idle) = Save
    /\ idle' = Tail(idle)
    /\ disk' = jnode
    /\ sameMs' = TRUE
    /\ UNCHANGED <<seq, ivVars, jnode, sarVars, busy, top, crashes>>

\* send_msg_pkt_oneshot: the PDU goes on the air.
send_msg_pkt_oneshot ==
    /\ busy = NotBusy
    /\ idle # <<>> /\ Head(idle) # Save
    /\ idle' = Tail(idle)
    /\ top' = [top EXCEPT ![Head(idle).iv] =
                 IF Head(idle).bare \/ Head(idle).seq < @ THEN @ ELSE Head(idle).seq + 1]
    /\ UNCHANGED <<seq, ivVars, jnode, disk, sameMs, sarVars, busy, crashes>>

MillisecondPasses ==
    /\ sameMs
    /\ sameMs' = FALSE
    /\ UNCHANGED <<seq, ivVars, jnode, disk, idle, sarVars, busy, top, crashes>>

\* What a new process starts from, config being what it finds in the file.
StartFrom(config) ==
    /\ seq' = config.seq
    /\ iv' = config.iv
    /\ ivu' = config.upd
    /\ state' = "INIT"
    /\ timer' = "off"
    /\ jnode' = config
    /\ disk' = config
    /\ idle' = <<>>
    /\ sameMs' = TRUE
    /\ sarOut' = [d \in Dst |-> NoPayload]
    /\ sarQueue' = [d \in Dst |-> <<>>]
    /\ busy' = NotBusy
    /\ crashes' = crashes + 1
    /\ UNCHANGED top

Crash ==
    /\ crashes < MaxCrash
    /\ StartFrom(disk)

\* cleanup_node saves the true number before the process ends.
cleanup_node ==
    /\ crashes < MaxCrash
    /\ HandlerMayRun
    /\ StartFrom([jnode EXCEPT !.seq = seq])
-----------------------------------------------------------------------------
Next ==
    \/ iv_upd_to_updating
    \/ iv_upd_to_hold
    \/ TimerDue
    \/ \E i \in Index, u \in BOOLEAN : process_beacon(i, u)
    \/ \E unicast \in BOOLEAN : mesh_net_transport_send(unicast)
    \/ app_send_short
    \/ \E d \in Dst : app_send_segmented(d)
    \/ app_send_group
    \/ send_seg
    \/ \E d \in Dst : ack_received_partly(d)
    \/ \E d \in Dst : ack_received_fully(d)
    \/ \E d \in Dst : outmsg_to(d)
    \/ idle_save_config
    \/ send_msg_pkt_oneshot
    \/ MillisecondPasses
    \/ Crash
    \/ cleanup_node

Spec == Init /\ [][Next]_vars
-----------------------------------------------------------------------------
(***************************************************************************)
(* Fairness: a loop goes on; time passes; the handler of a timer that is   *)
(* due and the head of the idle queue get their turn between other         *)
(* handlers, however many there are; and a remote acknowledges or is given *)
(* up.  Nobody owes the node beacons or traffic, and nobody keeps the      *)
(* timer from finding a segmented message each time it is due.             *)
(***************************************************************************)
FairSpec ==
    /\ Spec
    /\ WF_vars(TimerDue)
    /\ SF_vars(iv_upd_to_updating \/ iv_upd_to_hold)
    /\ SF_vars(idle_save_config \/ send_msg_pkt_oneshot)
    /\ WF_vars(send_seg)
    /\ \A d \in Dst : SF_vars(outmsg_to(d))
-----------------------------------------------------------------------------
(***************************************************************************)
(* Properties.                                                             *)
(***************************************************************************)

\* Two PDUs of the idle queue that share an IV Index carry ascending numbers.
Ascending(n, k) == idle[n].iv = idle[k].iv => idle[n].seq < idle[k].seq
Fresh(k) == idle[k] # Save /\ ~idle[k].orphan

\* No nonce is used twice: a PDU that waits to go on the air carries a number
\* above every number already sent under its IV Index, whatever was sent
\* before a crash, and however the file lagged behind.  Two exceptions are named.
\* A bare number may come back after a crash, and it alone: it was taken within
\* the millisecond of write_time, when no save was asked for although none was
\* pending, and the configuration did not cover it.  And segments of a message
\* whose predecessor timed out, which waits in sar_queue while the index changes,
\* are sent under its old index with new, low numbers (net.c says "Send each
\* segment on unique seq_num").
NoncesFresh ==
    \A k \in DOMAIN idle : Fresh(k) =>
        /\ idle[k].seq >= top[idle[k].iv]
        /\ \A n \in 1..(k - 1) : Fresh(n) => Ascending(n, k)

\* The index PDUs are sent with never goes back, a restart included: what the
\* file says is never behind what the node already used.
IvNeverBack == [][TxIndex' >= TxIndex]_vars

\* An update that has begun comes to its end and the hold after it too, once
\* the applications of the node leave a gap between segmented messages (until
\* then the timer may find one whenever it is due); unless the node restarts (it
\* then waits for a beacon) or an orphan keeps iv_upd_to from ever seeing
\* sar_queue empty.
Orphans == \E d \in Dst : \E k \in DOMAIN sarQueue[d] : sarQueue[d][k].orphan
NoMoreSegmented == <>[][\A d \in Dst : ~app_send_segmented(d)]_vars
UpdateEnds ==
    NoMoreSegmented =>
        (state \in {"UPDATING", "NORMAL_HOLD"} ~> (state \in {"INIT", "NORMAL"} \/ Orphans))
=============================================================================
