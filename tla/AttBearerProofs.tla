--------------------------- MODULE AttBearerProofs ---------------------------
(***************************************************************************)
(* Proofs about the ATT bearer of AttBearer.tla for every number of        *)
(* channels, identifiers, legs and PDU length classes: its type invariant; *)
(* for a peer and a user that keep to their part, the sequential protocol; *)
(* that no wake-up of a write handler is lost, whatever they do; that a    *)
(* peer that keeps to the protocol is never taken for one that does not;   *)
(* and, whatever the peer and the user do, that no operation is leaked or  *)
(* queued twice and that each step of the bearer is one AttTransaction     *)
(* allows.                                                                 *)
(***************************************************************************)
EXTENDS AttRefinement, SharedQueueProofs, FiniteSetTheorems, TLAPS

-----------------------------------------------------------------------------
(* Sequences and functions.                                                 *)

LEMMA SeqFacts ==
  ASSUME NEW S, NEW q \in Seq(S)
  PROVE  /\ q # <<>> => /\ Head(q) \in S /\ Tail(q) \in Seq(S)
                        /\ Len(Tail(q)) = Len(q) - 1 /\ Len(q) > 0
                        /\ Head(q) = q[1]
                        /\ \A i \in 1 .. Len(q) - 1 : Tail(q)[i] = q[i + 1]
         /\ \A e \in S : Append(q, e) \in Seq(S)
         /\ \A i \in 1 .. Len(q) : q[i] \in S
  OBVIOUS

LEMMA EmptySeq == \A S : <<>> \in Seq(S)
  OBVIOUS

LEMMA SeqMono ==
  ASSUME NEW S, NEW T, S \subseteq T, NEW q \in Seq(S)
  PROVE  q \in Seq(T)
  OBVIOUS

LEMMA PushFacts ==
  ASSUME NEW S, NEW q \in Seq(S), NEW e \in S
  PROVE  /\ <<e>> \o q \in Seq(S) /\ Len(<<e>> \o q) = Len(q) + 1
         /\ (<<e>> \o q)[1] = e
         /\ \A i \in 2 .. Len(q) + 1 : (<<e>> \o q)[i] = q[i - 1]
  OBVIOUS

LEMMA DropFacts ==
  ASSUME NEW S, NEW q \in Seq(S), NEW i \in 1 .. Len(q)
  PROVE  /\ DropAt(q, i) \in Seq(S) /\ Len(DropAt(q, i)) = Len(q) - 1
         /\ \A j \in 1 .. Len(q) - 1 :
              DropAt(q, i)[j] = IF j < i THEN q[j] ELSE q[j + 1]
  BY DEF DropAt

\* A step that replaces one value of a function by another of its range.
LEMMA UpdateFacts ==
  ASSUME NEW D, NEW R, NEW f \in [D -> R], NEW x, NEW v \in R
  PROVE  [f EXCEPT ![x] = v] \in [D -> R]
  OBVIOUS

-----------------------------------------------------------------------------
(* The operations that queues and slots hold.                               *)

UserOps == Ops({"REQ", "MTU", "IND", "CMD"})
AnyOps  == UserOps \cup {NoOp, RspOp("RSP"), RspOp("CONF")}

LEMMA OpSets ==
  /\ ChanOps \subseteq AnyOps /\ ReqOps \subseteq AnyOps /\ IndOps \subseteq AnyOps
  /\ WriteOps \subseteq AnyOps /\ FlushOps \subseteq AnyOps
  /\ Ops({"REQ", "MTU"}) \cup {NoOp} \subseteq AnyOps
  /\ Ops({"IND"}) \cup {NoOp} \subseteq AnyOps
  BY DEF ChanOps, ReqOps, IndOps, WriteOps, Commands, FlushOps, AnyOps, UserOps, Ops

LEMMA AnyOpFacts ==
  ASSUME NEW o \in AnyOps
  PROVE  /\ o.id # 0 => InstOf(o) \in Inst
         /\ o.live \in BOOLEAN /\ (o.live => o.id # 0)
         /\ o.id # 0 => o.id \in Ids /\ o.leg \in 1 .. MaxLegs
         /\ o.id = 0 => o.leg = 0
<1>1. CASE o \in UserOps
  <2>1. o.live \in BOOLEAN
    BY <1>1, Zenon DEF UserOps, Ops
  <2>2. o.id \in Ids /\ o.leg \in 1 .. MaxLegs
    BY <1>1 DEF UserOps, Ops
  <2> QED BY <2>1, <2>2, BearerAssumption DEF InstOf, Inst, Ids
<1>2. CASE o = NoOp
  BY <1>2 DEF NoOp
<1>3. CASE o \in {RspOp("RSP"), RspOp("CONF")}
  <2>1. o.id = 0 /\ o.leg = 0 /\ o.live = FALSE
    BY <1>3 DEF RspOp
  <2> QED BY <2>1
<1> QED BY <1>1, <1>2, <1>3 DEF AnyOps

LEMMA InSeqFacts ==
  ASSUME NEW S, NEW q \in Seq(S)
  PROVE  InSeq(q) \subseteq S
  BY DEF InSeq

LEMMA FreeType ==
  ASSUME freed \subseteq Inst, NEW ops \in SUBSET AnyOps, Free(ops)
  PROVE  freed' \subseteq Inst
<1>1. Instances(ops) \subseteq Inst
  BY AnyOpFacts, ZenonT(20) DEF Instances
<1> QED BY <1>1 DEF Free

LEMMA CallType ==
  ASSUME calls \in [Inst -> Nat], NEW op \in AnyOps, Call(op)
  PROVE  calls' \in [Inst -> Nat]
<1>1. CASE ~op.live
  BY <1>1 DEF Call
<1>2. CASE op.live
  <2>1. InstOf(op) \in Inst
    BY <1>2, AnyOpFacts
  <2> QED BY <1>2, <2>1 DEF Call
<1> QED BY <1>1, <1>2

\* What TypeOK says of every operation there is.
LEMMA PlaceFacts ==
  ASSUME TypeOK, NEW c \in Chan
  PROVE  /\ chanQ[c] \in Seq(ChanOps)
         /\ pendReq[c] \in Ops({"REQ", "MTU"}) \cup {NoOp} /\ pendReq[c] \in AnyOps
         /\ pendInd[c] \in Ops({"IND"}) \cup {NoOp} /\ pendInd[c] \in AnyOps
         /\ InSeq(chanQ[c]) \subseteq AnyOps
<1>1. /\ chanQ[c] \in Seq(ChanOps)
      /\ pendReq[c] \in Ops({"REQ", "MTU"}) \cup {NoOp}
      /\ pendInd[c] \in Ops({"IND"}) \cup {NoOp}
  BY DEF TypeOK, QueueType, PendType
<1> QED BY <1>1, OpSets, InSeqFacts

LEMMA SharedFacts ==
  ASSUME TypeOK
  PROVE  /\ SharedOps \subseteq AnyOps /\ InSeq(flush) \subseteq AnyOps
         /\ AllOps(Attached) \subseteq AnyOps
<1>1. InSeq(reqQ) \subseteq ReqOps /\ InSeq(indQ) \subseteq IndOps
      /\ InSeq(writeQ) \subseteq WriteOps /\ InSeq(flush) \subseteq FlushOps
  BY InSeqFacts DEF TypeOK, QueueType, FlagType
<1>2. \A c \in Attached : InSeq(chanQ[c]) \cup {pendReq[c], pendInd[c]} \subseteq AnyOps
  BY PlaceFacts DEF Attached
<1>3. AllOps(Attached) \subseteq AnyOps
  BY <1>2, ZenonT(20) DEF AllOps
<1> QED BY <1>1, <1>3, OpSets DEF SharedOps

LEMMA WakeType ==
  ASSUME TypeOK, NEW c, wakeup_writer \/ wakeup_chan_writer(c)
  PROVE  writer' \in [Chan -> BOOLEAN]
  BY DEF wakeup_writer, wakeup_chan_writer, TypeOK, FlagType

LEMMA MainFacts ==
  /\ Main \in [pc : {"main", "rsp", "conf", "detach", "flush_req", "flush_ind",
                     "flush_write"}, chan : Chan, user : BOOLEAN, again : BOOLEAN]
  /\ Main.chan \in Chan /\ Main.pc = "main"
  BY BearerAssumption DEF Main, Chan

-----------------------------------------------------------------------------
(* Type correctness: the initial state, then one lemma per action.          *)

LEMMA InitType == Init => TypeOK
  BY BearerAssumption
     DEF Init, TypeOK, ChanType, QueueType, PendType, FlagType, PeerType,
         GhostType, Main, Chan, Ids, Lens, Levels, NoOp, Inst

LEMMA PickedType ==
  ASSUME TypeOK, NEW c \in Chan
  PROVE  /\ PicksChan(c) => Picked(c) = Head(chanQ[c]) /\ Picked(c) \in ChanOps
         /\ PicksWrite(c) => Picked(c) = Head(writeQ) /\ Picked(c) \in WriteOps
         /\ PicksReq(c) => Picked(c) = Head(reqQ) /\ Picked(c) \in ReqOps
         /\ PicksInd(c) => Picked(c) = Head(indQ) /\ Picked(c) \in IndOps
  BY SeqFacts DEF TypeOK, QueueType, Picked, PicksChan, PicksWrite, PicksReq,
                  PicksInd, Fits

LEMMA SentType ==
  ASSUME TypeOK, NEW c \in Chan, ~PicksNone(c)
  PROVE  /\ Picked(c).kind \in {"REQ", "MTU"} => Picked(c) \in Ops({"REQ", "MTU"})
         /\ Picked(c).kind = "IND" => Picked(c) \in Ops({"IND"})
         /\ Picked(c).kind = "CMD" => Picked(c) \in Ops({"CMD"})
         /\ Picked(c) \in AnyOps
  BY PickedType, OpSets DEF PicksNone, ChanOps, WriteOps, Commands, ReqOps, IndOps, Ops, RspOp

LEMMA PopType ==
  ASSUME TypeOK, NEW c \in Chan, pick_next_send_op(c)
  PROVE  QueueType'
<1>1. chanQ[c] \in Seq(ChanOps)
  BY PlaceFacts
<1>2. CASE PicksChan(c) /\ chanQ' = [chanQ EXCEPT ![c] = Tail(@)]
           /\ UNCHANGED <<reqQ, indQ, writeQ>>
  <2>1. Tail(chanQ[c]) \in Seq(ChanOps)
    BY <1>1, <1>2, SeqFacts DEF PicksChan
  <2> QED BY <1>2, <2>1 DEF TypeOK, QueueType
<1>3. CASE PicksWrite(c) /\ writeQ' = Tail(writeQ) /\ UNCHANGED <<chanQ, reqQ, indQ>>
  BY <1>3, SeqFacts DEF TypeOK, QueueType, PicksWrite, Fits
<1>4. CASE PicksReq(c) /\ reqQ' = Tail(reqQ) /\ UNCHANGED <<chanQ, indQ, writeQ>>
  BY <1>4, SeqFacts DEF TypeOK, QueueType, PicksReq, Fits
<1>5. CASE PicksInd(c) /\ indQ' = Tail(indQ) /\ UNCHANGED <<chanQ, reqQ, writeQ>>
  BY <1>5, SeqFacts DEF TypeOK, QueueType, PicksInd, Fits
<1> QED BY <1>2, <1>3, <1>4, <1>5 DEF pick_next_send_op

LEMMA WriteType ==
  ASSUME TypeOK, NEW c \in Chan, can_write_data(c)
  PROVE  TypeOK'
<1> USE DEF can_write_data, chanVars
<1>1. ChanType'
  BY DEF TypeOK, ChanType
<1>2. QueueType'
  BY PopType
<1>3. PendType'
  BY SentType DEF TypeOK, PendType, pendVars
<1>4. FlagType'
  BY DEF TypeOK, FlagType, InReqAfterRsp
<1>5. PeerType'
  <2> DEFINE msg == [id |-> Picked(c).id, leg |-> Picked(c).leg, ans |-> "none"]
  <2>1. Picked(c).kind \in {"REQ", "MTU", "IND"} => msg \in Sent
    BY SentType DEF Ops, Sent
  <2>2. \/ wire' = [wire EXCEPT ![c] = Append(@, msg)] /\ iwire' = iwire /\ msg \in Sent
        \/ iwire' = [iwire EXCEPT ![c] = Append(@, msg)] /\ wire' = wire /\ msg \in Sent
        \/ UNCHANGED <<wire, iwire>>
    BY <2>1
  <2>3. inbox' = inbox /\ owed' = owed
    OBVIOUS
  <2>4. \/ peerWait' = peerWait
        \/ \E k : peerWait' = [peerWait EXCEPT ![c] = @ \ {k}]
    OBVIOUS
  <2> HIDE DEF can_write_data, msg
  <2>5. wire' \in [Chan -> Seq(Sent)] /\ iwire' \in [Chan -> Seq(Sent)]
    <3>1. wire \in [Chan -> Seq(Sent)] /\ iwire \in [Chan -> Seq(Sent)]
      BY DEF TypeOK, PeerType
    <3>2. msg \in Sent => /\ Append(wire[c], msg) \in Seq(Sent)
                          /\ Append(iwire[c], msg) \in Seq(Sent)
      BY <3>1, SeqFacts
    <3> QED BY <2>2, <3>1, <3>2
  <2>6. peerWait' \in [Chan -> SUBSET {"REQ", "IND"}]
    <3>1. peerWait \in [Chan -> SUBSET {"REQ", "IND"}]
      BY DEF TypeOK, PeerType
    <3>2. \A k : peerWait[c] \ {k} \in SUBSET {"REQ", "IND"}
      BY <3>1
    <3> QED BY <2>4, <3>1, <3>2
  <2> QED BY <2>3, <2>5, <2>6 DEF TypeOK, PeerType
<1>6. GhostType'
  <2>1. CASE Free({Picked(c)})
    BY <2>1, SentType, FreeType DEF TypeOK, GhostType
  <2>2. CASE freed' = freed
    BY <2>2 DEF TypeOK, GhostType
  <2> QED BY <2>1, <2>2
<1> QED BY <1>1, <1>2, <1>3, <1>4, <1>5, <1>6 DEF TypeOK

LEMMA WriterOffType ==
  ASSUME TypeOK, NEW c \in Chan, can_write_data_idle(c) \/ watch_callback_error(c)
  PROVE  TypeOK'
  BY DEF can_write_data_idle, watch_callback_error, chanVars, queueVars, pendVars,
         peerVars, ghostVars, TypeOK, ChanType, QueueType, PendType, FlagType,
         PeerType, GhostType

LEMMA WriteFailsType ==
  ASSUME TypeOK, NEW c \in Chan, can_write_data_fails(c)
  PROVE  TypeOK'
<1> USE DEF can_write_data_fails, chanVars, pendVars, peerVars
<1>1. ChanType' /\ PendType' /\ FlagType' /\ PeerType'
  BY DEF TypeOK, ChanType, PendType, FlagType, PeerType
<1>2. QueueType'
  BY PopType
<1>3. GhostType'
  BY SentType, FreeType, CallType DEF TypeOK, GhostType
<1> QED BY <1>1, <1>2, <1>3 DEF TypeOK

LEMMA ErrorRspType ==
  ASSUME TypeOK, NEW c \in Chan, NEW ecode, handle_error_rsp(c, ecode)
  PROVE  ChanType' /\ QueueType' /\ PendType' /\ FlagType' /\ GhostType'
<1> DEFINE level == change_security(sec[c], ecode)
           op == [pendReq[c] EXCEPT !.retry = TRUE]
<1> USE DEF handle_error_rsp
<1>1. ChanType'
  <2>1. level \in Levels
    BY DEF change_security, TypeOK, ChanType, Levels
  <2> QED BY <2>1 DEF TypeOK, ChanType
<1>2. QueueType'
  <2>1. op \in ChanOps
    BY PlaceFacts DEF Ops, ChanOps
  <2>2. <<op>> \o chanQ[c] \in Seq(ChanOps)
    BY <2>1, PushFacts, PlaceFacts
  <2> QED BY <2>2 DEF TypeOK, QueueType
<1>3. PendType'
  BY DEF TypeOK, PendType
<1>4. FlagType'
  BY WakeType DEF TypeOK, FlagType
<1>5. GhostType'
  BY DEF TypeOK, GhostType, ghostVars
<1> QED BY <1>1, <1>2, <1>3, <1>4, <1>5

\* The same for the response that is delivered, dropped or unexpected.
LEMMA HandleRspType ==
  ASSUME TypeOK, NEW c \in Chan, NEW ans, handle_rsp(c, ans)
  PROVE  ChanType' /\ QueueType' /\ PendType' /\ FlagType' /\ GhostType'
<1> USE DEF chanVars, queueVars, pendVars, ghostVars
<1>1. CASE /\ pendReq[c] = NoOp /\ io_shutdown(c)
           /\ UNCHANGED <<mtu, attMtu, sec, ref, queueVars, pendVars, writer, inReq,
                          nextId, ctl, flush, ghostVars>>
  BY <1>1 DEF io_shutdown, TypeOK, ChanType, QueueType, PendType, FlagType, GhostType
<1>2. CASE /\ Call(pendReq[c]) /\ ctl' = In("rsp", c, TRUE)
           /\ UNCHANGED <<chanVars, queueVars, pendVars, writer, inReq, nextId,
                          flush, legs, freed, asked, silenced, blamed>>
  <2>1. calls' \in [Inst -> Nat]
    BY <1>2, CallType, PlaceFacts DEF TypeOK, GhostType
  <2> QED BY <1>2, <2>1 DEF In, TypeOK, ChanType, QueueType, PendType, FlagType, GhostType
<1>3. CASE /\ Free({pendReq[c]}) /\ pendReq' = [pendReq EXCEPT ![c] = NoOp]
           /\ UNCHANGED <<chanVars, queueVars, pendInd, inReq, nextId, ctl, flush,
                          legs, calls, asked, silenced, blamed>>
           /\ wakeup_chan_writer(c)
  <2>1. freed' \subseteq Inst
    BY <1>3, FreeType, PlaceFacts DEF TypeOK, GhostType
  <2> QED BY <1>3, <2>1, WakeType
          DEF TypeOK, ChanType, QueueType, PendType, FlagType, GhostType
<1> QED BY <1>1, <1>2, <1>3, ErrorRspType DEF handle_rsp

LEMMA HandleConfType ==
  ASSUME TypeOK, NEW c \in Chan, handle_conf(c)
  PROVE  ChanType' /\ QueueType' /\ PendType' /\ FlagType' /\ GhostType'
<1> USE DEF chanVars, queueVars, pendVars, ghostVars
<1>1. CASE /\ pendInd[c] = NoOp /\ io_shutdown(c)
           /\ UNCHANGED <<mtu, attMtu, sec, ref, queueVars, pendVars, writer, inReq,
                          nextId, ctl, flush, ghostVars>>
  BY <1>1 DEF io_shutdown, TypeOK, ChanType, QueueType, PendType, FlagType, GhostType
<1>2. CASE /\ Call(pendInd[c]) /\ ctl' = In("conf", c, TRUE)
           /\ UNCHANGED <<chanVars, queueVars, pendVars, writer, inReq, nextId,
                          flush, legs, freed, asked, silenced, blamed>>
  <2>1. calls' \in [Inst -> Nat]
    BY <1>2, CallType, PlaceFacts DEF TypeOK, GhostType
  <2> QED BY <1>2, <2>1 DEF In, TypeOK, ChanType, QueueType, PendType, FlagType, GhostType
<1>3. CASE /\ Free({pendInd[c]}) /\ pendInd' = [pendInd EXCEPT ![c] = NoOp]
           /\ UNCHANGED <<chanVars, queueVars, pendReq, inReq, nextId, ctl, flush,
                          legs, calls, asked, silenced, blamed>>
           /\ wakeup_chan_writer(c)
  <2>1. freed' \subseteq Inst
    BY <1>3, FreeType, PlaceFacts DEF TypeOK, GhostType
  <2> QED BY <1>3, <2>1, WakeType
          DEF TypeOK, ChanType, QueueType, PendType, FlagType, GhostType
<1> QED BY <1>1, <1>2, <1>3 DEF handle_conf

LEMMA ReadRspType ==
  ASSUME TypeOK, NEW c \in Chan, read_rsp(c)
  PROVE  TypeOK'
<1>1. PeerType'
  <2>1. wire[c] \in Seq(Sent) /\ wire[c] # <<>>
    BY DEF read_rsp, TypeOK, PeerType
  <2>2. Tail(wire[c]) \in Seq(Sent)
    BY <2>1, SeqFacts
  <2> QED BY <2>2 DEF read_rsp, TypeOK, PeerType
<1> QED BY <1>1, HandleRspType DEF read_rsp, TypeOK

LEMMA ReadConfType ==
  ASSUME TypeOK, NEW c \in Chan, read_conf(c)
  PROVE  TypeOK'
<1>1. PeerType'
  <2>1. iwire[c] \in Seq(Sent) /\ iwire[c] # <<>>
    BY DEF read_conf, TypeOK, PeerType
  <2>2. Tail(iwire[c]) \in Seq(Sent)
    BY <2>1, SeqFacts
  <2> QED BY <2>2 DEF read_conf, TypeOK, PeerType
<1> QED BY <1>1, HandleConfType DEF read_conf, TypeOK

LEMMA ReadStrayType ==
  ASSUME TypeOK, NEW c \in Chan, read_stray(c)
  PROVE  TypeOK'
<1>1. PeerType'
  <2>1. \E k : inbox' = [inbox EXCEPT ![c] = @ \ {k}]
    BY DEF read_stray
  <2>2. inbox[c] \in SUBSET {"REQ", "IND", "NFY", "RSP", "CONF", "BADCONF"}
    BY DEF TypeOK, PeerType
  <2> QED BY <2>1, <2>2 DEF read_stray, TypeOK, PeerType
<1>2. CASE /\ io_shutdown(c)
           /\ UNCHANGED <<mtu, attMtu, sec, ref, queueVars, pendVars, writer,
                          inReq, nextId, ctl, flush, ghostVars>>
  BY <1>1, <1>2 DEF io_shutdown, queueVars, pendVars, ghostVars,
     TypeOK, ChanType, QueueType, PendType, FlagType, GhostType
<1> QED BY <1>1, <1>2, HandleRspType, HandleConfType DEF read_stray, TypeOK

LEMMA RespondType ==
  ASSUME TypeOK, respond_not_supported
  PROVE  QueueType' /\ writer' \in [Chan -> BOOLEAN]
<1>1. RspOp("RSP") \in WriteOps
  BY DEF WriteOps, Commands
<1>2. Append(writeQ, RspOp("RSP")) \in Seq(WriteOps)
  BY <1>1, SeqFacts DEF TypeOK, QueueType
<1> QED BY <1>2, WakeType DEF respond_not_supported, TypeOK, QueueType

LEMMA ReadReqType ==
  ASSUME TypeOK, NEW c \in Chan, read_req(c)
  PROVE  TypeOK'
<1> USE DEF read_req
<1>1. PeerType'
  <2>1. inbox[c] \in SUBSET {"REQ", "IND", "NFY", "RSP", "CONF", "BADCONF"}
    BY DEF TypeOK, PeerType
  <2>2. owed' \subseteq Chan
    BY DEF TypeOK, PeerType
  <2>3. UNCHANGED <<wire, iwire, peerWait>>
    OBVIOUS
  <2>4. inbox' = [inbox EXCEPT ![c] = @ \ {"REQ"}]
    OBVIOUS
  <2> HIDE DEF read_req
  <2> QED BY <2>1, <2>2, <2>3, <2>4 DEF TypeOK, PeerType
<1>2. ChanType' /\ PendType' /\ GhostType'
  BY DEF io_shutdown, pendVars, TypeOK, ChanType, PendType, GhostType
<1>3. QueueType' /\ FlagType'
  BY RespondType DEF queueVars, TypeOK, QueueType, FlagType
<1> QED BY <1>1, <1>2, <1>3 DEF TypeOK

LEMMA ReadUnaskedType ==
  ASSUME TypeOK, NEW c \in Chan, NEW kind, read_unasked(c, kind)
  PROVE  TypeOK'
<1> USE DEF read_unasked, chanVars, pendVars, ghostVars
<1>1. PeerType'
  <2>1. inbox[c] \in SUBSET {"REQ", "IND", "NFY", "RSP", "CONF", "BADCONF"}
    BY DEF TypeOK, PeerType
  <2> QED BY <2>1 DEF TypeOK, PeerType
<1>2. ChanType' /\ PendType' /\ GhostType'
  BY DEF TypeOK, ChanType, PendType, GhostType
<1>3. QueueType'
  <2>1. RspOp("CONF") \in ChanOps
    BY DEF ChanOps
  <2>2. Append(chanQ[c], RspOp("CONF")) \in Seq(ChanOps)
    BY <2>1, SeqFacts, PlaceFacts
  <2>3. CASE chanQ' = [chanQ EXCEPT ![c] = Append(@, RspOp("CONF"))]
             /\ UNCHANGED <<reqQ, indQ, writeQ>>
    BY <2>2, <2>3 DEF TypeOK, QueueType
  <2>4. CASE UNCHANGED <<queueVars, writer>>
    BY <2>4 DEF TypeOK, QueueType, queueVars
  <2> QED BY <2>3, <2>4, RespondType
<1>4. FlagType'
  BY RespondType, WakeType DEF TypeOK, FlagType
<1> QED BY <1>1, <1>2, <1>3, <1>4 DEF TypeOK

LEMMA FreeBearerType ==
  ASSUME TypeOK, bt_att_free, ref' \in BOOLEAN
  PROVE  /\ ChanType' /\ QueueType' /\ PendType' /\ PeerType' /\ GhostType'
         /\ writer' \in [Chan -> BOOLEAN] /\ inReq' \in [Chan -> BOOLEAN]
         /\ nextId' = nextId
<1> USE DEF bt_att_free
<1>1. GhostType'
  BY SharedFacts, FreeType DEF TypeOK, GhostType
<1>2. ChanType'
  BY DEF TypeOK, ChanType
<1>3. QueueType'
  BY DEF QueueType
<1>4. PendType'
  BY DEF PendType
<1>5. PeerType'
  BY DEF PeerType
<1>6. writer' \in [Chan -> BOOLEAN] /\ inReq' \in [Chan -> BOOLEAN] /\ nextId' = nextId
  OBVIOUS
<1> QED BY <1>1, <1>2, <1>3, <1>4, <1>5, <1>6

LEMMA EndCallbackType ==
  ASSUME TypeOK, end_callback
  PROVE  TypeOK'
<1> DEFINE c == ctl.chan
<1> USE DEF end_callback
<1>1. c \in Chan /\ ctl' = Main /\ Main.chan \in Chan /\ UNCHANGED <<ref, flush>>
  BY BearerAssumption DEF TypeOK, FlagType, Main, Chan
<1>2. CASE ~ref /\ bt_att_free
  <2>0. ref' \in BOOLEAN
    BY <1>1 DEF TypeOK, ChanType
  <2>1. FlagType'
    BY <1>1, <1>2, <2>0, FreeBearerType DEF TypeOK, FlagType, Main
  <2> QED BY <1>1, <1>2, <2>0, <2>1, FreeBearerType DEF TypeOK
<1>3. CASE ref /\ wakeup_chan_writer(c)
  <2>1. ChanType' /\ QueueType' /\ PeerType'
    BY <1>1, <1>3 DEF TypeOK, ChanType, QueueType, PeerType, queueVars, peerVars
  <2>2. PendType'
    BY <1>1, <1>3 DEF TypeOK, PendType
  <2>3. FlagType'
    BY <1>1, <1>3, WakeType DEF TypeOK, FlagType, Main
  <2>4. GhostType'
    BY <1>1, <1>3, FreeType, PlaceFacts DEF TypeOK, GhostType
  <2> QED BY <2>1, <2>2, <2>3, <2>4 DEF TypeOK
<1> QED BY <1>2, <1>3

LEMMA TimeoutType ==
  ASSUME TypeOK, NEW c \in Chan, timeout_cb(c)
  PROVE  TypeOK'
<1> USE DEF timeout_cb
<1>1. ChanType' /\ QueueType' /\ FlagType' /\ PeerType'
  BY DEF io_shutdown, queueVars, peerVars, TypeOK, ChanType, QueueType,
         FlagType, PeerType
<1>2. PendType'
  BY DEF TypeOK, PendType
<1>3. GhostType'
  BY FreeType, CallType, PlaceFacts DEF TypeOK, GhostType
<1> QED BY <1>1, <1>3, <1>2 DEF TypeOK

LEMMA DisconnectType ==
  ASSUME TypeOK, NEW c \in Chan, disconnect_cb(c)
  PROVE  TypeOK'
<1> USE DEF disconnect_cb
<1>1. ChanType' /\ QueueType' /\ PeerType' /\ PendType'
  BY DEF queueVars, peerVars, TypeOK, ChanType, QueueType, PendType, PeerType
<1>2. FlagType'
  <2>1. pendReq[c].live \in BOOLEAN
    BY PlaceFacts, AnyOpFacts
  <2> QED BY <2>1 DEF In, TypeOK, FlagType
<1>3. GhostType'
  BY FreeType, CallType, PlaceFacts DEF TypeOK, GhostType
<1> QED BY <1>1, <1>2, <1>3 DEF TypeOK

LEMMA DetachType ==
  ASSUME TypeOK, detach_chan
  PROVE  TypeOK'
<1> DEFINE c == ctl.chan
<1> USE DEF detach_chan
<1>1. c \in Chan
  BY DEF TypeOK, FlagType
<1>2. ChanType' /\ PeerType'
  BY <1>1 DEF chanVars, TypeOK, ChanType, PeerType
<1>3. PendType'
  BY <1>1 DEF TypeOK, PendType
<1>4. QueueType'
  <2>0. chanQ' = [chanQ EXCEPT ![c] = <<>>] /\ <<>> \in Seq(ChanOps)
    OBVIOUS
  <2>1. chanQ' \in [Chan -> Seq(ChanOps)]
    BY <2>0, UpdateFacts DEF TypeOK, QueueType
  <2>2. (reqQ' = reqQ \/ reqQ' = <<>>) /\ UNCHANGED <<indQ, writeQ>>
    OBVIOUS
  <2> HIDE DEF detach_chan
  <2>3. reqQ' \in Seq(ReqOps)
    BY <2>2, EmptySeq DEF TypeOK, QueueType
  <2> QED BY <2>1, <2>2, <2>3 DEF TypeOK, QueueType
<1>5. FlagType'
  <2>1. pendInd[c].live \in BOOLEAN
    BY <1>1, PlaceFacts, AnyOpFacts
  <2>2. ctl' = Main \/ ctl' = In("flush_req", c, pendInd[c].live)
    OBVIOUS
  <2>3. /\ writer' = [writer EXCEPT ![c] = FALSE] /\ inReq' = [inReq EXCEPT ![c] = FALSE]
        /\ nextId' = nextId
    OBVIOUS
  <2>4. flush' \in Seq(FlushOps)
    <3>1. reqQ \in Seq(FlushOps)
      <4>1. ReqOps \subseteq FlushOps
        BY DEF ReqOps, FlushOps, Ops
      <4> QED BY <4>1, SeqMono DEF TypeOK, QueueType
    <3> QED BY <3>1 DEF TypeOK, FlagType
  <2> HIDE DEF detach_chan
  <2>5. /\ writer' \in [Chan -> BOOLEAN] /\ inReq' \in [Chan -> BOOLEAN]
        /\ nextId' \in 1 .. MaxId + 1
    BY <2>3 DEF TypeOK, FlagType
  <2>6. ctl' \in [pc : {"main", "rsp", "conf", "detach", "flush_req", "flush_ind",
                        "flush_write"}, chan : Chan, user : BOOLEAN, again : BOOLEAN]
    <3>1. CASE ctl' = Main
      BY <3>1, MainFacts
    <3>2. CASE ctl' = In("flush_req", c, pendInd[c].live)
      <4> HIDE DEF detach_chan
      <4> QED BY <1>1, <2>1, <3>2 DEF In
    <3> QED BY <2>2, <3>1, <3>2
  <2> QED BY <2>4, <2>5, <2>6 DEF FlagType
<1>6. GhostType'
  <2>1. {pendInd[c]} \cup InSeq(chanQ[c]) \subseteq AnyOps
    BY <1>1, PlaceFacts
  <2> QED BY <1>1, <2>1, FreeType, CallType, PlaceFacts DEF TypeOK, GhostType
<1> QED BY <1>2, <1>3, <1>4, <1>5, <1>6 DEF TypeOK

LEMMA FlushType ==
  ASSUME TypeOK, disc_att_send_op \/ flush_next
  PROVE  TypeOK'
<1>1. CASE disc_att_send_op
  <2> USE <1>1 DEF disc_att_send_op
  <2>1. Head(flush) \in FlushOps /\ Tail(flush) \in Seq(FlushOps)
    BY SeqFacts DEF TypeOK, FlagType
  <2>2. Head(flush) \in AnyOps /\ Head(flush).live \in BOOLEAN
    BY <2>1, OpSets, AnyOpFacts
  <2>3. ChanType' /\ QueueType' /\ PendType' /\ PeerType'
    BY DEF chanVars, queueVars, pendVars, peerVars, TypeOK, ChanType, QueueType,
           PendType, PeerType
  <2>4. FlagType'
    BY <2>1, <2>2 DEF TypeOK, FlagType
  <2>5. GhostType'
    BY <2>2, FreeType, CallType DEF TypeOK, GhostType
  <2> QED BY <2>3, <2>4, <2>5 DEF TypeOK
<1>2. CASE flush_next
  <2> USE <1>2 DEF flush_next
  <2>1. ChanType' /\ PendType' /\ PeerType' /\ GhostType'
    BY DEF chanVars, pendVars, peerVars, ghostVars, TypeOK, ChanType, PendType,
           PeerType, GhostType
  <2>2. QueueType'
    <3>1. (indQ' = <<>> \/ indQ' = indQ) /\ (writeQ' = <<>> \/ writeQ' = writeQ)
          /\ UNCHANGED <<chanQ, reqQ>>
      OBVIOUS
    <3> HIDE DEF flush_next
    <3>2. indQ' \in Seq(IndOps) /\ writeQ' \in Seq(WriteOps)
      BY <3>1, EmptySeq DEF TypeOK, QueueType
    <3> QED BY <3>1, <3>2 DEF TypeOK, QueueType
  <2>3. FlagType'
    <3>1. indQ \in Seq(FlushOps) /\ writeQ \in Seq(FlushOps)
      <4>1. IndOps \subseteq FlushOps /\ WriteOps \subseteq FlushOps
        BY DEF IndOps, WriteOps, Commands, FlushOps, Ops
      <4> QED BY <4>1, SeqMono DEF TypeOK, QueueType
    <3>2. flush' \in Seq(FlushOps)
      BY <3>1 DEF TypeOK, FlagType
    <3>3. ctl' = Main \/ ctl' = [ctl EXCEPT !.pc = "flush_write", !.user = FALSE]
          \/ ctl' = [ctl EXCEPT !.pc = "flush_ind", !.user = FALSE]
      OBVIOUS
    <3>4. UNCHANGED <<writer, inReq, nextId>>
      OBVIOUS
    <3> HIDE DEF flush_next
    <3> QED BY <3>2, <3>3, <3>4, MainFacts DEF TypeOK, FlagType
  <2> QED BY <2>1, <2>2, <2>3 DEF TypeOK
<1> QED BY <1>1, <1>2

LEMMA SendType ==
  ASSUME TypeOK, NEW kind, NEW len \in Lens, NEW retry \in BOOLEAN,
         bt_att_send(kind, len, retry)
  PROVE  TypeOK'
<1> DEFINE op == [id |-> nextId, leg |-> 1, kind |-> kind, len |-> len,
                  retry |-> retry, live |-> kind # "CMD"]
<1>1. nextId \in Ids /\ nextId + 1 \in 1 .. MaxId + 1
  BY BearerAssumption DEF bt_att_send, TypeOK, FlagType, Ids
<1>2. kind \in {"REQ", "MTU", "IND", "CMD"} => op \in Ops({kind})
  BY <1>1, BearerAssumption DEF Ops
<1>3. kind = "CMD" => ~op.live
  OBVIOUS
<1>4. ChanType' /\ PendType' /\ PeerType'
  BY DEF bt_att_send, chanVars, pendVars, peerVars, TypeOK, ChanType, PendType, PeerType
<1>5. QueueType'
  <2>1. \/ /\ kind = "MTU" /\ chanQ' = [chanQ EXCEPT ![Oldest] = Append(@, op)]
           /\ UNCHANGED <<reqQ, indQ, writeQ>>
        \/ kind = "REQ" /\ reqQ' = Append(reqQ, op) /\ UNCHANGED <<chanQ, indQ, writeQ>>
        \/ kind = "IND" /\ indQ' = Append(indQ, op) /\ UNCHANGED <<chanQ, reqQ, writeQ>>
        \/ kind = "CMD" /\ writeQ' = Append(writeQ, op) /\ UNCHANGED <<chanQ, reqQ, indQ>>
    BY DEF bt_att_send
  <2> HIDE DEF op
  <2>2. CASE kind = "MTU" /\ chanQ' = [chanQ EXCEPT ![Oldest] = Append(@, op)]
             /\ UNCHANGED <<reqQ, indQ, writeQ>>
    <3>1. op \in ChanOps
      BY <1>2, <2>2 DEF ChanOps, Ops
    <3>2. CASE Oldest \in Chan
      <4>1. Append(chanQ[Oldest], op) \in Seq(ChanOps)
        BY <3>1, <3>2, PlaceFacts, SeqFacts
      <4> QED BY <2>2, <4>1, UpdateFacts DEF TypeOK, QueueType
    <3>3. CASE Oldest \notin Chan
      BY <2>2, <3>3 DEF TypeOK, QueueType
    <3> QED BY <3>2, <3>3
  <2>3. CASE kind = "REQ" /\ reqQ' = Append(reqQ, op) /\ UNCHANGED <<chanQ, indQ, writeQ>>
    BY <1>2, <2>3, SeqFacts DEF TypeOK, QueueType, ReqOps
  <2>4. CASE kind = "IND" /\ indQ' = Append(indQ, op) /\ UNCHANGED <<chanQ, reqQ, writeQ>>
    BY <1>2, <2>4, SeqFacts DEF TypeOK, QueueType, IndOps
  <2>5. CASE kind = "CMD" /\ writeQ' = Append(writeQ, op) /\ UNCHANGED <<chanQ, reqQ, indQ>>
    <3>1. op \in Commands
      BY <1>3, <1>2, <2>5 DEF Commands
    <3> QED BY <2>5, <3>1, SeqFacts DEF TypeOK, QueueType, WriteOps
  <2> QED BY <2>1, <2>2, <2>3, <2>4, <2>5
<1>6. FlagType'
  BY <1>1, WakeType DEF bt_att_send, TypeOK, FlagType
<1>7. GhostType'
  BY <1>1, BearerAssumption DEF bt_att_send, TypeOK, GhostType
<1> QED BY <1>4, <1>5, <1>6, <1>7 DEF TypeOK

LEMMA ResendType ==
  ASSUME TypeOK, NEW len \in Lens, NEW front \in BOOLEAN, bt_att_resend(len, front)
  PROVE  TypeOK'
<1> DEFINE old == pendReq[ctl.chan]
           op == [id |-> old.id, leg |-> legs[old.id] + 1, kind |-> "REQ",
                  len |-> len, retry |-> FALSE, live |-> TRUE]
<1>1. ctl.chan \in Chan
  BY DEF TypeOK, FlagType
<1>2. old \in Ops({"REQ", "MTU"})
  BY <1>1, PlaceFacts DEF bt_att_resend, NoOp
<1>3. old.id \in Ids /\ legs[old.id] + 1 \in 1 .. MaxLegs
  BY <1>2, BearerAssumption DEF bt_att_resend, Ops, TypeOK, GhostType
<1>4. op \in ReqOps
  BY <1>3 DEF ReqOps, Ops
<1>5. ChanType' /\ PendType' /\ PeerType'
  BY DEF bt_att_resend, chanVars, pendVars, peerVars, TypeOK, ChanType, PendType, PeerType
<1>6. QueueType'
  <2>1. Append(reqQ, op) \in Seq(ReqOps) /\ <<op>> \o reqQ \in Seq(ReqOps)
    BY <1>4, SeqFacts, PushFacts DEF TypeOK, QueueType
  <2>2. (reqQ' = Append(reqQ, op) \/ reqQ' = <<op>> \o reqQ) /\ UNCHANGED <<chanQ, indQ, writeQ>>
    BY DEF bt_att_resend
  <2> QED BY <2>1, <2>2 DEF TypeOK, QueueType
<1>7. FlagType'
  BY WakeType DEF bt_att_resend, TypeOK, FlagType
<1>8. GhostType'
  BY <1>3, BearerAssumption DEF bt_att_resend, TypeOK, GhostType
<1> QED BY <1>5, <1>6, <1>7, <1>8 DEF TypeOK

LEMMA ChanSendType ==
  ASSUME TypeOK, NEW c \in Chan, bt_att_chan_send(c)
  PROVE  TypeOK'
<1>1. RspOp("RSP") \in ChanOps
  BY DEF ChanOps
<1>2. Append(chanQ[c], RspOp("RSP")) \in Seq(ChanOps)
  BY <1>1, SeqFacts, PlaceFacts
<1>3. QueueType'
  BY <1>2, UpdateFacts DEF bt_att_chan_send, TypeOK, QueueType
<1>4. FlagType'
  BY WakeType DEF bt_att_chan_send, TypeOK, FlagType
<1>5. ChanType' /\ PendType' /\ GhostType'
  BY DEF bt_att_chan_send, chanVars, pendVars, ghostVars, TypeOK, ChanType, PendType, GhostType
<1>6. PeerType'
  BY DEF bt_att_chan_send, TypeOK, PeerType
<1> QED BY <1>3, <1>4, <1>5, <1>6 DEF TypeOK

LEMMA SetMtuType ==
  ASSUME TypeOK, NEW m \in Lens, bt_att_set_mtu(m)
  PROVE  TypeOK'
<1>1. ChanType'
  BY DEF bt_att_set_mtu, TypeOK, ChanType
<1> QED BY <1>1 DEF bt_att_set_mtu, queueVars, pendVars, peerVars, ghostVars, TypeOK,
                    QueueType, PendType, FlagType, PeerType, GhostType

LEMMA AttachType ==
  ASSUME TypeOK, NEW c \in Chan, NEW m \in Lens, bt_att_attach_chan(c, m)
  PROVE  TypeOK'
<1>1. ChanType'
  BY DEF bt_att_attach_chan, TypeOK, ChanType
<1>2. FlagType'
  BY WakeType DEF bt_att_attach_chan, TypeOK, FlagType
<1> QED BY <1>1, <1>2 DEF bt_att_attach_chan, queueVars, pendVars, peerVars, ghostVars,
                          TypeOK, QueueType, PendType, PeerType, GhostType

LEMMA UnrefType ==
  ASSUME TypeOK, bt_att_unref
  PROVE  TypeOK'
<1>1. ref' \in BOOLEAN
  BY DEF bt_att_unref
<1>2. CASE bt_att_free /\ UNCHANGED <<ctl, flush>>
  <2>1. FlagType'
    BY <1>1, <1>2, FreeBearerType DEF TypeOK, FlagType
  <2> QED BY <1>1, <1>2, <2>1, FreeBearerType DEF TypeOK
<1>3. CASE UNCHANGED <<link, mtu, attMtu, sec, queueVars, pendVars, writer, inReq,
                       nextId, peerVars, ghostVars, ctl, flush>>
  BY <1>1, <1>3 DEF queueVars, pendVars, peerVars, ghostVars, TypeOK, ChanType,
     QueueType, PendType, FlagType, PeerType, GhostType
<1> QED BY <1>2, <1>3 DEF bt_att_unref

LEMMA CancelEffectType ==
  ASSUME TypeOK, NEW gone \in SUBSET AnyOps, NEW mute \in SUBSET AnyOps,
         NEW found \in BOOLEAN, CancelEffect(gone, mute, found), UNCHANGED <<legs, calls, blamed>>
  PROVE  GhostType'
<1>1. Instances(gone \cup mute) \subseteq Inst
  BY AnyOpFacts, ZenonT(20) DEF Instances
<1>2. freed' \subseteq Inst
  BY FreeType DEF CancelEffect, TypeOK, GhostType
<1> QED BY <1>1, <1>2 DEF CancelEffect, TypeOK, GhostType

\* cancel_att_send_op keeps an operation what it is.
LEMMA MuteOp ==
  ASSUME NEW kinds, NEW op \in Ops(kinds)
  PROVE  [op EXCEPT !.live = FALSE] \in Ops(kinds)
  BY DEF Ops

LEMMA MuteType ==
  ASSUME NEW S, NEW q \in Seq(S), NEW i \in 1 .. Len(q),
         [q[i] EXCEPT !.live = FALSE] \in S
  PROVE  MuteAt(q, i) \in Seq(S)
  BY DEF MuteAt

LEMMA CancelPendingType ==
  ASSUME TypeOK, NEW c \in Chan, NEW id \in Ids, cancel_pending(c, id),
         UNCHANGED <<legs, calls, blamed>>
  PROVE  QueueType' /\ PendType' /\ GhostType' /\ writer' = writer
<1>1. id # 0
  BY BearerAssumption DEF Ids
<1>2. CASE /\ pendReq[c].id = id /\ CancelEffect({}, {pendReq[c]}, TRUE)
           /\ pendReq' = [pendReq EXCEPT ![c].live = FALSE] /\ UNCHANGED pendInd
  <2>1. pendReq[c] \in Ops({"REQ", "MTU"})
    BY <1>1, <1>2, PlaceFacts DEF NoOp
  <2>2. [pendReq[c] EXCEPT !.live = FALSE] \in Ops({"REQ", "MTU"})
    BY <2>1, MuteOp
  <2>3. PendType'
    BY <1>2, <2>2, UpdateFacts DEF TypeOK, PendType
  <2>4. GhostType'
    BY <1>2, PlaceFacts, CancelEffectType
  <2> QED BY <2>3, <2>4 DEF cancel_pending, queueVars, TypeOK, QueueType
<1>3. CASE /\ pendInd[c].id = id /\ CancelEffect({}, {pendInd[c]}, TRUE)
           /\ pendInd' = [pendInd EXCEPT ![c].live = FALSE] /\ UNCHANGED pendReq
  <2>1. pendInd[c] \in Ops({"IND"})
    BY <1>1, <1>3, PlaceFacts DEF NoOp
  <2>2. [pendInd[c] EXCEPT !.live = FALSE] \in Ops({"IND"})
    BY <2>1, MuteOp
  <2>3. PendType'
    BY <1>3, <2>2, UpdateFacts DEF TypeOK, PendType
  <2>4. GhostType'
    BY <1>3, PlaceFacts, CancelEffectType
  <2> QED BY <2>3, <2>4 DEF cancel_pending, queueVars, TypeOK, QueueType
<1> QED BY <1>2, <1>3 DEF cancel_pending

LEMMA CancelChanQueueType ==
  ASSUME TypeOK, NEW c \in Chan, NEW id \in Ids, cancel_chan_queue(c, id),
         UNCHANGED <<legs, calls, blamed>>
  PROVE  QueueType' /\ PendType' /\ GhostType' /\ writer' \in [Chan -> BOOLEAN]
<1>1. PICK i \in At(chanQ[c], id) :
         /\ CancelEffect({chanQ[c][i]}, {}, TRUE)
         /\ chanQ' = [chanQ EXCEPT ![c] = DropAt(@, i)]
  BY DEF cancel_chan_queue
<1>2. i \in 1 .. Len(chanQ[c]) /\ chanQ[c] \in Seq(ChanOps)
  BY PlaceFacts DEF At
<1>3. DropAt(chanQ[c], i) \in Seq(ChanOps) /\ chanQ[c][i] \in AnyOps
  BY <1>2, DropFacts, OpSets
<1>4. QueueType'
  BY <1>1, <1>3, UpdateFacts DEF cancel_chan_queue, TypeOK, QueueType
<1>5. GhostType'
  BY <1>1, <1>3, CancelEffectType
<1> QED BY <1>4, <1>5, WakeType DEF cancel_chan_queue, pendVars, TypeOK, PendType

\* One shared queue, with what bt_att_cancel makes of it.
LEMMA SharedQueueType ==
  ASSUME TypeOK, NEW S \in SUBSET AnyOps, NEW q \in Seq(S), NEW id \in Ids,
         NEW i \in At(q, id), \A o \in S : o.id # 0 => [o EXCEPT !.live = FALSE] \in S,
         IF Flushing THEN CancelEffect({}, {q[i]}, TRUE)
                     ELSE CancelEffect({q[i]}, {}, TRUE),
         UNCHANGED <<legs, calls, blamed>>
  PROVE  /\ (IF Flushing THEN MuteAt(q, i) ELSE DropAt(q, i)) \in Seq(S)
         /\ GhostType'
<1>1. i \in 1 .. Len(q) /\ q[i] \in S /\ q[i].id # 0
  BY SeqFacts, BearerAssumption DEF At, Ids
<1>2. DropAt(q, i) \in Seq(S)
  BY <1>1, DropFacts
<1>3. MuteAt(q, i) \in Seq(S)
  BY <1>1, MuteType
<1>4. GhostType'
  BY <1>1, CancelEffectType
<1> QED BY <1>2, <1>3, <1>4

LEMMA CancelSharedType ==
  ASSUME TypeOK, NEW id \in Ids, cancel_shared(id), UNCHANGED <<legs, calls, blamed>>
  PROVE  QueueType' /\ PendType' /\ GhostType' /\ writer' \in [Chan -> BOOLEAN]
<1>1. PendType' /\ writer' \in [Chan -> BOOLEAN]
  BY WakeType DEF cancel_shared, pendVars, TypeOK, PendType
<1>2. ASSUME NEW i \in At(reqQ, id),
             IF Flushing THEN CancelEffect({}, {reqQ[i]}, TRUE)
                         ELSE CancelEffect({reqQ[i]}, {}, TRUE),
             reqQ' = IF Flushing THEN MuteAt(reqQ, i) ELSE DropAt(reqQ, i),
             UNCHANGED <<chanQ, indQ, writeQ>>
      PROVE  QueueType' /\ GhostType'
  <2>1. \A o \in ReqOps : [o EXCEPT !.live = FALSE] \in ReqOps
    BY MuteOp DEF ReqOps
  <2>2. reqQ' \in Seq(ReqOps) /\ GhostType'
    BY <1>2, <2>1, OpSets, SharedQueueType DEF TypeOK, QueueType
  <2> QED BY <1>2, <2>2 DEF TypeOK, QueueType
<1>3. ASSUME NEW i \in At(indQ, id),
             IF Flushing THEN CancelEffect({}, {indQ[i]}, TRUE)
                         ELSE CancelEffect({indQ[i]}, {}, TRUE),
             indQ' = IF Flushing THEN MuteAt(indQ, i) ELSE DropAt(indQ, i),
             UNCHANGED <<chanQ, reqQ, writeQ>>
      PROVE  QueueType' /\ GhostType'
  <2>1. \A o \in IndOps : [o EXCEPT !.live = FALSE] \in IndOps
    BY MuteOp DEF IndOps
  <2>2. indQ' \in Seq(IndOps) /\ GhostType'
    BY <1>3, <2>1, OpSets, SharedQueueType DEF TypeOK, QueueType
  <2> QED BY <1>3, <2>2 DEF TypeOK, QueueType
<1>4. ASSUME NEW i \in At(writeQ, id),
             IF Flushing THEN CancelEffect({}, {writeQ[i]}, TRUE)
                         ELSE CancelEffect({writeQ[i]}, {}, TRUE),
             writeQ' = IF Flushing THEN MuteAt(writeQ, i) ELSE DropAt(writeQ, i),
             UNCHANGED <<chanQ, reqQ, indQ>>
      PROVE  QueueType' /\ GhostType'
  <2>1. \A o \in WriteOps : o.id # 0 => [o EXCEPT !.live = FALSE] \in WriteOps
    <3>1. ASSUME NEW o \in Commands
          PROVE  [o EXCEPT !.live = FALSE] \in WriteOps
      <4>1. o \in Ops({"CMD"}) /\ [o EXCEPT !.live = FALSE] \in Ops({"CMD"})
        BY <3>1, MuteOp DEF Commands
      <4>2. ~[o EXCEPT !.live = FALSE].live
        BY <4>1 DEF Ops
      <4> QED BY <4>1, <4>2 DEF WriteOps, Commands
    <3> QED BY <3>1 DEF WriteOps, RspOp
  <2>2. writeQ' \in Seq(WriteOps) /\ GhostType'
    BY <1>4, <2>1, OpSets, SharedQueueType DEF TypeOK, QueueType
  <2> QED BY <1>4, <2>2 DEF TypeOK, QueueType
<1> QED BY <1>1, <1>2, <1>3, <1>4 DEF cancel_shared

LEMMA CancelMissingType ==
  ASSUME TypeOK, NEW id \in Ids, cancel_missing(id), UNCHANGED <<legs, calls, blamed>>
  PROVE  QueueType' /\ PendType' /\ GhostType' /\ writer' \in [Chan -> BOOLEAN]
<1>1. Detached \subseteq AnyOps
  <2>1. ctl.chan \in Chan
    BY DEF TypeOK, FlagType
  <2> QED BY <2>1, SharedFacts, PlaceFacts DEF Detached
<1>2. {o \in Detached : o.id = id} \in SUBSET AnyOps
  BY <1>1
<1>3. GhostType'
  BY <1>2, CancelEffectType DEF cancel_missing
<1> QED BY <1>3 DEF cancel_missing, queueVars, pendVars, TypeOK, QueueType, PendType, FlagType

LEMMA CancelType ==
  ASSUME TypeOK, NEW id \in Ids, bt_att_cancel(id)
  PROVE  TypeOK'
<1>1. \A c \in Attached : c \in Chan
  BY DEF Attached
<1>2. QueueType' /\ PendType' /\ GhostType' /\ writer' \in [Chan -> BOOLEAN]
  BY <1>1, CancelPendingType, CancelChanQueueType, CancelSharedType, CancelMissingType
     DEF bt_att_cancel, TypeOK, FlagType
<1>3. ChanType' /\ PeerType'
  BY DEF bt_att_cancel, chanVars, peerVars, TypeOK, ChanType, PeerType
<1>4. FlagType'
  BY <1>2 DEF bt_att_cancel, TypeOK, FlagType
<1> QED BY <1>2, <1>3, <1>4 DEF TypeOK

LEMMA CancelAllType ==
  ASSUME TypeOK, bt_att_cancel_all
  PROVE  TypeOK'
<1>1. ChanType' /\ FlagType' /\ PeerType'
  BY DEF bt_att_cancel_all, chanVars, peerVars, TypeOK, ChanType, FlagType, PeerType
<1>2. QueueType'
  BY EmptySeq DEF bt_att_cancel_all, TypeOK, QueueType
<1>3. PendType'
  <2>1. \A d \in Chan :
          /\ pendReq[d] # NoOp => [pendReq[d] EXCEPT !.live = FALSE] \in Ops({"REQ", "MTU"})
          /\ pendInd[d] # NoOp => [pendInd[d] EXCEPT !.live = FALSE] \in Ops({"IND"})
    BY PlaceFacts, MuteOp
  <2>2. \A d \in Chan : /\ pendReq[d] \in Ops({"REQ", "MTU"}) \cup {NoOp}
                        /\ pendInd[d] \in Ops({"IND"}) \cup {NoOp}
    BY PlaceFacts
  <2> QED BY <2>1, <2>2 DEF bt_att_cancel_all, PendType
<1>4. GhostType'
  <2> DEFINE done == SharedOps \cup {pendReq[c] : c \in Attached}
                               \cup {pendInd[c] : c \in Attached}
  <2>1. done \subseteq AnyOps
    BY SharedFacts, PlaceFacts, ZenonT(20) DEF Attached
  <2>2. Instances(done) \subseteq Inst
    BY <2>1, AnyOpFacts, ZenonT(20) DEF Instances
  <2>3. freed' \subseteq Inst
    BY SharedFacts, FreeType DEF bt_att_cancel_all, TypeOK, GhostType
  <2>4. asked' = asked \cup Instances(done) /\ silenced' = silenced \cup Instances(done)
        /\ UNCHANGED <<legs, calls, blamed>>
    BY DEF bt_att_cancel_all
  <2> QED BY <2>2, <2>3, <2>4 DEF TypeOK, GhostType
<1> QED BY <1>1, <1>2, <1>3, <1>4 DEF TypeOK

LEMMA PeerStepType ==
  ASSUME TypeOK, NEW c \in Chan, Peer(c)
  PROVE  TypeOK'
<1> USE DEF chanVars, queueVars, pendVars, peerVars, ghostVars
<1>1. CASE hang_up(c)
  BY <1>1 DEF hang_up, TypeOK, ChanType, QueueType, PendType, FlagType, PeerType, GhostType
<1>2. ASSUME NEW ans \in Answers, peer_answers(c, ans)
      PROVE  TypeOK'
  <2>1. ChanType' /\ QueueType' /\ PendType' /\ FlagType' /\ GhostType'
    BY <1>2 DEF peer_answers, TypeOK, ChanType, QueueType, PendType, FlagType, GhostType
  <2>2. ASSUME NEW q \in Seq(Sent), q # <<>>
        PROVE  [q EXCEPT ![1].ans = ans] \in Seq(Sent)
    <3>1. q[1] \in Sent
      BY <2>2
    <3>2. [q[1] EXCEPT !.ans = ans] \in Sent
      BY <3>1 DEF Sent
    <3> QED BY <2>2, <3>2
  <2>3. wire[c] \in Seq(Sent) /\ iwire[c] \in Seq(Sent)
    BY DEF TypeOK, PeerType
  <2>4. CASE wire[c] # <<>> /\ wire' = [wire EXCEPT ![c][1].ans = ans] /\ UNCHANGED iwire
    <3>1. [wire[c] EXCEPT ![1].ans = ans] \in Seq(Sent)
      BY <2>2, <2>3, <2>4
    <3>2. wire' \in [Chan -> Seq(Sent)]
      BY <2>4, <3>1, UpdateFacts DEF TypeOK, PeerType
    <3>3. UNCHANGED <<inbox, peerWait, owed>>
      BY <1>2 DEF peer_answers
    <3> QED BY <2>1, <2>4, <3>2, <3>3 DEF TypeOK, PeerType
  <2>5. CASE iwire[c] # <<>> /\ iwire' = [iwire EXCEPT ![c][1].ans = ans] /\ UNCHANGED wire
    <3>1. [iwire[c] EXCEPT ![1].ans = ans] \in Seq(Sent)
      BY <2>2, <2>3, <2>5
    <3>2. iwire' \in [Chan -> Seq(Sent)]
      BY <2>5, <3>1, UpdateFacts DEF TypeOK, PeerType
    <3>3. UNCHANGED <<inbox, peerWait, owed>>
      BY <1>2 DEF peer_answers
    <3> QED BY <2>1, <2>5, <3>2, <3>3 DEF TypeOK, PeerType
  <2> QED BY <1>2, <2>4, <2>5 DEF peer_answers
<1>3. ASSUME NEW kind \in PeerKinds, peer_sends(c, kind)
      PROVE  TypeOK'
  <2>1. ChanType' /\ QueueType' /\ PendType' /\ FlagType' /\ GhostType'
    BY <1>3 DEF peer_sends, TypeOK, ChanType, QueueType, PendType, FlagType, GhostType
  <2>2. inbox[c] \cup {kind} \in SUBSET {"REQ", "IND", "NFY", "RSP", "CONF", "BADCONF"}
        /\ peerWait[c] \cup ({kind} \cap {"REQ", "IND"}) \in SUBSET {"REQ", "IND"}
    BY BearerAssumption DEF TypeOK, PeerType
  <2>3. inbox' \in [Chan -> SUBSET {"REQ", "IND", "NFY", "RSP", "CONF", "BADCONF"}]
    BY <1>3, <2>2 DEF peer_sends, TypeOK, PeerType
  <2>4. peerWait' \in [Chan -> SUBSET {"REQ", "IND"}]
    BY <1>3, <2>2 DEF peer_sends, TypeOK, PeerType
  <2> QED BY <1>3, <2>1, <2>3, <2>4 DEF peer_sends, TypeOK, PeerType
<1>4. ASSUME NEW kind \in {"RSP", "CONF", "BADCONF"}, peer_strays(c, kind)
      PROVE  TypeOK'
  <2>1. ChanType' /\ QueueType' /\ PendType' /\ FlagType' /\ GhostType'
    BY <1>4 DEF peer_strays, TypeOK, ChanType, QueueType, PendType, FlagType, GhostType
  <2>2. inbox[c] \cup {kind} \in SUBSET {"REQ", "IND", "NFY", "RSP", "CONF", "BADCONF"}
    BY DEF TypeOK, PeerType
  <2>3. inbox' \in [Chan -> SUBSET {"REQ", "IND", "NFY", "RSP", "CONF", "BADCONF"}]
    BY <1>4, <2>2 DEF peer_strays, TypeOK, PeerType
  <2> QED BY <1>4, <2>1, <2>3 DEF peer_strays, TypeOK, PeerType
<1> QED BY <1>1, <1>2, <1>3, <1>4 DEF Peer

LEMMA StutterType ==
  ASSUME TypeOK, UNCHANGED vars
  PROVE  TypeOK'
  BY DEF vars, chanVars, queueVars, pendVars, peerVars, ghostVars, TypeOK,
         ChanType, QueueType, PendType, FlagType, PeerType, GhostType

LEMMA NextType == TypeOK /\ [Next]_vars => TypeOK'
<1> SUFFICES ASSUME TypeOK, [Next]_vars
             PROVE  TypeOK'
  OBVIOUS
<1>1. ASSUME NEW c \in Chan, MainLoop(c)
      PROVE  TypeOK'
  BY <1>1, WriteType, WriterOffType, WriteFailsType, ReadRspType, ReadConfType,
     ReadStrayType, ReadReqType, ReadUnaskedType, TimeoutType, DisconnectType
     DEF MainLoop
<1>2. CASE Continue
  BY <1>2, EndCallbackType, DetachType, FlushType DEF Continue
<1>3. CASE User
  <2>1. ASSUME NEW kind \in ClientKinds, NEW len \in Lens, NEW retry \in BOOLEAN,
               bt_att_send(kind, len, retry)
        PROVE  TypeOK'
    BY <2>1, SendType
  <2>2. ASSUME NEW len \in Lens, NEW front \in BOOLEAN, bt_att_resend(len, front)
        PROVE  TypeOK'
    BY <2>2, ResendType
  <2>3. ASSUME NEW c \in Chan, NEW m \in Lens, bt_att_attach_chan(c, m)
        PROVE  TypeOK'
    BY <2>3, AttachType
  <2> QED BY <1>3, <2>1, <2>2, <2>3, ChanSendType, CancelType, CancelAllType,
             SetMtuType, UnrefType DEF User
<1> QED BY <1>1, <1>2, <1>3, PeerStepType, StutterType DEF Next

\* Every queue and every slot of the bearer only ever holds operations of the
\* kinds the code expects there, whatever the peer and the user do.
THEOREM TypeCorrect == Spec => []TypeOK
  BY InitType, NextType, PTL DEF Spec

-----------------------------------------------------------------------------
(* The sequential protocol: the initial state, what leaves a channel's slots *)
(* alone, then the actions that use them.                                    *)

LEMMA InitSlots == Init => SlotInv
  BY DEF Init, SlotInv, SlotOK, SlotReserved, WireMatches, Delivering, Main, Chan

\* Nothing SlotOK(d) mentions has changed for channel d.
LEMMA SlotFrame ==
  ASSUME NEW d \in Chan, SlotOK(d), link'[d] = link[d], chanQ'[d] = chanQ[d],
         pendReq'[d] = pendReq[d], pendInd'[d] = pendInd[d], wire'[d] = wire[d],
         iwire'[d] = iwire[d], inbox'[d] \cap {"RSP", "CONF"} = {},
         \/ ctl'.pc = ctl.pc /\ ctl'.chan = ctl.chan
         \/ ctl'.pc \notin {"rsp", "conf"} \/ ctl'.chan # d
  PROVE  SlotOK(d)'
  BY DEF SlotOK, SlotReserved, WireMatches, Delivering

\* The bearer of the channel has been shut down, and its slots only emptied.
LEMMA SlotShut ==
  ASSUME TypeOK, NEW d \in Chan, SlotOK(d), link'[d] \in {"shut", "gone"},
         chanQ'[d] = chanQ[d] \/ chanQ'[d] = <<>>,
         pendReq'[d] = pendReq[d] \/ pendReq'[d] = NoOp,
         inbox'[d] \cap {"RSP", "CONF"} = {}
  PROVE  SlotOK(d)'
  BY DEF SlotOK, SlotReserved

\* An operation that reserves no slot is queued on the channel.
LEMMA SlotReply ==
  ASSUME TypeOK, NEW d \in Chan, SlotOK(d), NEW kind \in {"RSP", "CONF"},
         chanQ'[d] = Append(chanQ[d], RspOp(kind)), link'[d] = link[d],
         pendReq'[d] = pendReq[d], pendInd'[d] = pendInd[d], wire'[d] = wire[d],
         iwire'[d] = iwire[d], inbox'[d] \cap {"RSP", "CONF"} = {}, ctl' = ctl
  PROVE  SlotOK(d)'
<1>1. SlotReserved(d)'
  <2>1. chanQ[d] \in Seq(ChanOps)
    BY PlaceFacts
  <2>2. \A i \in DOMAIN chanQ'[d] : IsReq(chanQ'[d][i]) =>
           i \in DOMAIN chanQ[d] /\ chanQ'[d][i] = chanQ[d][i]
    BY <2>1 DEF IsReq, RspOp
  <2> QED BY <2>2 DEF SlotOK, SlotReserved
<1> QED BY <1>1 DEF SlotOK, WireMatches, Delivering

\* A slot the peer or the socket has an operation of is not empty.
LEMMA SlotFull ==
  ASSUME TypeOK, NEW c \in Chan, WireMatches(c)
  PROVE  /\ wire[c] # <<>> => pendReq[c] # NoOp
         /\ iwire[c] # <<>> => pendInd[c] # NoOp
         /\ Tail(wire[c]) = <<>> \/ wire[c] = <<>>
         /\ Tail(iwire[c]) = <<>> \/ iwire[c] = <<>>
<1>1. wire[c] \in Seq(Sent) /\ iwire[c] \in Seq(Sent)
  BY DEF TypeOK, PeerType
<1>2. /\ wire[c] # <<>> => wire[c][1] \in Sent
      /\ iwire[c] # <<>> => iwire[c][1] \in Sent
  BY <1>1, SeqFacts
<1>3. \A m \in Sent : m.id # 0
  BY BearerAssumption DEF Sent, Ids
<1>4. InstOf(NoOp)[1] = 0
  BY DEF InstOf, NoOp
<1>5. \A m \in Sent : InstOf(NoOp) # <<m.id, m.leg>>
  BY <1>3, <1>4
<1>6. /\ Tail(wire[c]) = <<>> \/ wire[c] = <<>>
      /\ Tail(iwire[c]) = <<>> \/ iwire[c] = <<>>
  BY <1>1, SeqFacts DEF WireMatches
<1> QED BY <1>2, <1>5, <1>6 DEF WireMatches

LEMMA SlotWrite ==
  ASSUME TypeOK, SlotInv, NEW c \in Chan, can_write_data(c)
  PROVE  SlotInv'
<1> DEFINE op  == Picked(c)
           msg == [id |-> op.id, leg |-> op.leg, ans |-> "none"]
<1>1. /\ link[c] = "up" /\ link' = link /\ ctl' = ctl /\ ctl = Main /\ inbox' = inbox
  BY DEF can_write_data, chanVars
<1>2. ASSUME NEW d \in Chan, d # c
      PROVE  SlotOK(d)'
  <2>1. /\ chanQ'[d] = chanQ[d] /\ pendReq'[d] = pendReq[d] /\ pendInd'[d] = pendInd[d]
        /\ wire'[d] = wire[d] /\ iwire'[d] = iwire[d]
    BY <1>2 DEF can_write_data, pick_next_send_op, TypeOK, QueueType, PendType,
                PeerType, pendVars
  <2> QED BY <1>1, <2>1, SlotFrame DEF SlotInv, SlotOK
<1>3. SlotOK(c)'
  <2>1. chanQ[c] \in Seq(ChanOps) /\ SlotOK(c)
    BY PlaceFacts DEF SlotInv
  <2>2. \/ PicksChan(c) /\ op = chanQ[c][1] /\ chanQ'[c] = Tail(chanQ[c])
        \/ ~PicksChan(c) /\ chanQ[c] = <<>> /\ chanQ'[c] = chanQ[c]
    BY <2>1, SeqFacts, PickedType
       DEF can_write_data, pick_next_send_op, TypeOK, QueueType, PicksChan, PicksWrite,
           PicksReq, PicksInd
  <2>3. \A i \in DOMAIN chanQ'[c] :
          i \in Nat /\ i + 1 \in DOMAIN chanQ[c] /\ chanQ'[c][i] = chanQ[c][i + 1]
    <3>1. CASE PicksChan(c)
      <4>1. /\ Len(Tail(chanQ[c])) = Len(chanQ[c]) - 1 /\ Len(chanQ[c]) \in Nat
            /\ Len(chanQ[c]) > 0
            /\ \A i \in 1 .. Len(chanQ[c]) - 1 : Tail(chanQ[c])[i] = chanQ[c][i + 1]
        BY <2>1, <3>1, SeqFacts DEF PicksChan
      <4>2. chanQ'[c] = Tail(chanQ[c]) /\ Tail(chanQ[c]) \in Seq(ChanOps)
        BY <2>1, <2>2, <3>1, SeqFacts DEF PicksChan
      <4>3. DOMAIN chanQ'[c] = 1 .. Len(chanQ[c]) - 1 /\ DOMAIN chanQ[c] = 1 .. Len(chanQ[c])
        BY <2>1, <4>1, <4>2
      <4> QED BY <4>1, <4>2, <4>3
    <3>2. CASE ~PicksChan(c)
      BY <2>2, <3>2
    <3> QED BY <3>1, <3>2
  <2>4. IsReq(op) => pendReq[c] = NoOp /\ \A i \in DOMAIN chanQ'[c] : ~IsReq(chanQ'[c][i])
    <3>1. CASE PicksChan(c)
      <4>1. 1 \in DOMAIN chanQ[c] /\ op = chanQ[c][1]
        BY <2>1, <2>2, <3>1, SeqFacts DEF PicksChan
      <4>2. \A i \in DOMAIN chanQ'[c] : i + 1 # 1
        BY <2>1, <2>2, <3>1, SeqFacts DEF PicksChan
      <4> QED BY <2>1, <2>3, <4>1, <4>2 DEF SlotOK, SlotReserved
    <3>2. CASE ~PicksChan(c)
      <4>1. IsReq(op) => PicksReq(c)
        BY <3>2, PickedType DEF can_write_data, PicksNone, IsReq, WriteOps, Commands, IndOps, Ops, RspOp
      <4> QED BY <2>2, <3>2, <4>1 DEF PicksReq
    <3> QED BY <3>1, <3>2
  <2>5. op.kind = "IND" => pendInd[c] = NoOp
    <3>1. op.kind = "IND" => PicksInd(c)
      BY PickedType DEF can_write_data, PicksNone, ChanOps, WriteOps, Commands, ReqOps, Ops, RspOp
    <3> QED BY <3>1 DEF PicksInd
  <2>6. SlotReserved(c)'
    <3>1. CASE IsReq(op)
      BY <2>4, <3>1 DEF SlotReserved
    <3>2. CASE ~IsReq(op)
      <4>1. pendReq' = pendReq
        BY <3>2 DEF can_write_data, IsReq, pendVars
      <4> QED BY <2>1, <2>3, <4>1 DEF SlotOK, SlotReserved
    <3> QED BY <3>1, <3>2
  <2>7. /\ pendReq[c] = NoOp => wire[c] = <<>>
        /\ pendInd[c] = NoOp => iwire[c] = <<>>
    BY <1>1, <2>1, SlotFull DEF SlotOK
  <2>9. WireMatches(c)'
    <3>1. CASE IsReq(op)
      <4>1. wire' = [wire EXCEPT ![c] = Append(@, msg)] /\ pendReq' = [pendReq EXCEPT ![c] = op]
            /\ UNCHANGED <<pendInd, iwire>>
        BY <3>1 DEF can_write_data, IsReq
      <4>2. wire'[c] = <<msg>> /\ pendReq'[c] = op
        BY <2>4, <2>7, <3>1, <4>1 DEF TypeOK, PeerType, PendType
      <4> QED BY <1>1, <2>1, <4>1, <4>2 DEF SlotOK, WireMatches, InstOf
    <3>2. CASE op.kind = "IND"
      <4>1. iwire' = [iwire EXCEPT ![c] = Append(@, msg)] /\ pendInd' = [pendInd EXCEPT ![c] = op]
            /\ UNCHANGED <<pendReq, wire>>
        BY <3>2 DEF can_write_data
      <4>2. iwire'[c] = <<msg>> /\ pendInd'[c] = op
        BY <2>5, <2>7, <3>2, <4>1 DEF TypeOK, PeerType, PendType
      <4> QED BY <1>1, <2>1, <4>1, <4>2 DEF SlotOK, WireMatches, InstOf
    <3>3. CASE ~IsReq(op) /\ op.kind # "IND"
      <4>1. UNCHANGED <<pendReq, pendInd, wire, iwire>>
        BY <3>3 DEF can_write_data, IsReq, pendVars
      <4> QED BY <1>1, <2>1, <4>1 DEF SlotOK, WireMatches
    <3> QED BY <3>1, <3>2, <3>3
  <2>10. Delivering(c)'
    BY <1>1, MainFacts DEF Delivering
  <2> QED BY <1>1, <2>1, <2>6, <2>9, <2>10 DEF SlotOK
<1> QED BY <1>2, <1>3 DEF SlotInv

\* No channel has anything queued, pending or on the wire.
LEMMA SlotEmpty ==
  ASSUME NEW d \in Chan, chanQ'[d] = <<>>, wire'[d] = <<>>, iwire'[d] = <<>>,
         inbox'[d] = {}
  PROVE  SlotOK(d)'
  BY DEF SlotOK, SlotReserved, WireMatches, Delivering

LEMMA SlotBearerFree ==
  ASSUME bt_att_free
  PROVE  SlotInv'
  BY SlotEmpty DEF bt_att_free, SlotInv

LEMMA ReservedTail ==
  ASSUME TypeOK, NEW c \in Chan, SlotReserved(c), chanQ[c] # <<>>,
         chanQ'[c] = Tail(chanQ[c]), pendReq'[c] = pendReq[c]
  PROVE  SlotReserved(c)'
<1>1. /\ Len(Tail(chanQ[c])) = Len(chanQ[c]) - 1 /\ Len(chanQ[c]) \in Nat
      /\ \A i \in 1 .. Len(chanQ[c]) - 1 : Tail(chanQ[c])[i] = chanQ[c][i + 1]
      /\ Tail(chanQ[c]) \in Seq(ChanOps)
  BY PlaceFacts, SeqFacts
<1>2. DOMAIN chanQ'[c] = 1 .. Len(chanQ[c]) - 1 /\ DOMAIN chanQ[c] = 1 .. Len(chanQ[c])
  BY <1>1, PlaceFacts
<1>3. \A i \in DOMAIN chanQ'[c] :
        i \in Nat /\ i + 1 \in DOMAIN chanQ[c] /\ chanQ'[c][i] = chanQ[c][i + 1]
  BY <1>1, <1>2
<1> QED BY <1>3 DEF SlotReserved

LEMMA ReservedDrop ==
  ASSUME TypeOK, NEW c \in Chan, SlotReserved(c), NEW k \in DOMAIN chanQ[c],
         chanQ'[c] = DropAt(chanQ[c], k), pendReq'[c] = pendReq[c]
  PROVE  SlotReserved(c)'
<1> DEFINE old(i) == IF i < k THEN i ELSE i + 1
<1>1. chanQ[c] \in Seq(ChanOps) /\ k \in 1 .. Len(chanQ[c]) /\ Len(chanQ[c]) \in Nat
  BY PlaceFacts
<1>2. /\ DropAt(chanQ[c], k) \in Seq(ChanOps) /\ Len(DropAt(chanQ[c], k)) = Len(chanQ[c]) - 1
      /\ \A i \in 1 .. Len(chanQ[c]) - 1 : DropAt(chanQ[c], k)[i] = chanQ[c][old(i)]
  BY <1>1, DropFacts
<1>3. DOMAIN chanQ'[c] = 1 .. Len(chanQ[c]) - 1 /\ DOMAIN chanQ[c] = 1 .. Len(chanQ[c])
  BY <1>1, <1>2
<1>4. \A i \in DOMAIN chanQ'[c] :
        i \in Nat /\ old(i) \in DOMAIN chanQ[c] /\ chanQ'[c][i] = chanQ[c][old(i)]
  BY <1>1, <1>2, <1>3
<1>5. \A i, j \in DOMAIN chanQ'[c] : old(i) = old(j) => i = j
  BY <1>1, <1>3
<1> HIDE DEF old
<1> QED BY <1>4, <1>5 DEF SlotReserved

LEMMA SlotWriterOff ==
  ASSUME SlotInv, NEW c \in Chan, can_write_data_idle(c) \/ watch_callback_error(c)
  PROVE  SlotInv'
<1>1. UNCHANGED <<link, chanQ, pendReq, pendInd, wire, iwire, inbox, ctl>>
  BY DEF can_write_data_idle, watch_callback_error, chanVars, queueVars, pendVars, peerVars
<1> QED BY <1>1, SlotFrame DEF SlotInv, SlotOK

LEMMA SlotWriteFails ==
  ASSUME TypeOK, SlotInv, NEW c \in Chan, can_write_data_fails(c)
  PROVE  SlotInv'
<1>1. /\ UNCHANGED <<link, pendReq, pendInd, wire, iwire, inbox, ctl>>
      /\ pick_next_send_op(c)
  BY DEF can_write_data_fails, chanVars, pendVars, peerVars
<1>2. ASSUME NEW d \in Chan
      PROVE  SlotOK(d)'
  <2>1. CASE chanQ'[d] = chanQ[d]
    BY <1>1, <2>1, SlotFrame DEF SlotInv, SlotOK
  <2>2. CASE d = c /\ PicksChan(c) /\ chanQ' = [chanQ EXCEPT ![c] = Tail(@)]
    <3>1. chanQ[c] # <<>> /\ chanQ'[c] = Tail(chanQ[c])
      BY <2>2 DEF PicksChan, TypeOK, QueueType
    <3>2. SlotReserved(c)'
      BY <1>1, <3>1, ReservedTail DEF SlotInv, SlotOK
    <3> QED BY <1>1, <2>2, <3>2 DEF SlotInv, SlotOK, WireMatches, Delivering
  <2> QED BY <1>1, <2>1, <2>2 DEF pick_next_send_op, TypeOK, QueueType
<1> QED BY <1>2 DEF SlotInv

\* A request put back into the queue finds no other there, as its slot was full.
LEMMA SlotRetried ==
  ASSUME TypeOK, NEW c \in Chan, SlotReserved(c), NEW ans, handle_error_rsp(c, ans)
  PROVE  SlotReserved(c)'
<1> DEFINE op == [pendReq[c] EXCEPT !.retry = TRUE]
<1>1. /\ pendReq[c] # NoOp /\ chanQ' = [chanQ EXCEPT ![c] = <<op>> \o @]
      /\ pendReq' = [pendReq EXCEPT ![c] = NoOp]
  BY DEF handle_error_rsp
<1>2. \A i \in DOMAIN chanQ[c] : ~IsReq(chanQ[c][i])
  BY <1>1 DEF SlotReserved
<1>3. op \in ChanOps
  BY PlaceFacts, <1>1 DEF Ops, ChanOps
<1>4. chanQ'[c] = <<op>> \o chanQ[c] /\ pendReq'[c] = NoOp
  BY <1>1 DEF TypeOK, QueueType, PendType
<1>5. \A i \in DOMAIN chanQ'[c] : i = 1 \/ ~IsReq(chanQ'[c][i])
  <2> HIDE DEF op
  <2>1. chanQ[c] \in Seq(ChanOps) /\ Len(chanQ[c]) \in Nat
        /\ DOMAIN chanQ'[c] = 1 .. Len(chanQ[c]) + 1
        /\ \A i \in 2 .. Len(chanQ[c]) + 1 : chanQ'[c][i] = chanQ[c][i - 1]
    BY <1>3, <1>4, PlaceFacts, PushFacts
  <2>2. \A i \in 2 .. Len(chanQ[c]) + 1 : i - 1 \in DOMAIN chanQ[c]
    BY <2>1
  <2> QED BY <1>2, <2>1, <2>2
<1> QED BY <1>4, <1>5 DEF SlotReserved

\* What is read after io_shutdown: nothing more is sent on the channel.
LEMMA SlotReadShut ==
  ASSUME TypeOK, SlotInv, NEW c \in Chan, link[c] = "shut", read_rsp(c) \/ read_conf(c)
  PROVE  SlotInv'
<1>1. /\ ctl = Main /\ UNCHANGED inbox
      /\ \A d \in Chan \ {c} : wire'[d] = wire[d] /\ iwire'[d] = iwire[d]
      /\ (\E ans : handle_rsp(c, ans)) \/ handle_conf(c)
  BY DEF read_rsp, read_conf, Readable, TypeOK, PeerType
<1>2. SlotOK(c) /\ SlotReserved(c)
  BY DEF SlotInv, SlotOK
<1>3. CASE \E ans : handle_error_rsp(c, ans)
  <2>1. PICK ans : handle_error_rsp(c, ans)
    BY <1>3
  <2>2. /\ UNCHANGED <<link, pendInd, ctl>>
        /\ \A d \in Chan \ {c} : chanQ'[d] = chanQ[d] /\ pendReq'[d] = pendReq[d]
    BY <2>1 DEF handle_error_rsp, TypeOK, QueueType, PendType
  <2>3. SlotReserved(c)'
    BY <1>2, <2>1, SlotRetried
  <2>4. SlotOK(c)'
    BY <1>1, <1>2, <2>2, <2>3 DEF SlotOK
  <2>5. ASSUME NEW d \in Chan, d # c
        PROVE  SlotOK(d)'
    BY <1>1, <2>2, <2>5, SlotFrame DEF SlotInv, SlotOK
  <2> QED BY <2>4, <2>5 DEF SlotInv
<1>4. CASE /\ link' = link \/ io_shutdown(c)
           /\ chanQ' = chanQ
           /\ ctl' = ctl \/ ctl' = In("rsp", c, TRUE) \/ ctl' = In("conf", c, TRUE)
           /\ pendReq' = pendReq \/ pendReq' = [pendReq EXCEPT ![c] = NoOp]
           /\ pendInd' = pendInd \/ pendInd' = [pendInd EXCEPT ![c] = NoOp]
  <2>1. /\ link'[c] = "shut" /\ pendReq'[c] \in {pendReq[c], NoOp}
        /\ \A d \in Chan \ {c} : /\ link'[d] = link[d] /\ pendReq'[d] = pendReq[d]
                                 /\ pendInd'[d] = pendInd[d]
    BY <1>4 DEF io_shutdown, TypeOK, ChanType, PendType
  <2>2. \/ ctl'.pc = ctl.pc /\ ctl'.chan = ctl.chan
        \/ ctl'.chan = c
    BY <1>4 DEF In
  <2>3. SlotOK(c)'
    BY <1>1, <1>2, <1>4, <2>1, SlotShut DEF SlotOK
  <2>4. ASSUME NEW d \in Chan, d # c
        PROVE  SlotOK(d)'
    BY <1>1, <1>4, <2>1, <2>2, <2>4, SlotFrame DEF SlotInv, SlotOK
  <2> QED BY <2>3, <2>4 DEF SlotInv
<1> QED BY <1>1, <1>3, <1>4 DEF handle_rsp, handle_conf, chanVars, queueVars, pendVars

LEMMA SlotReadRsp ==
  ASSUME TypeOK, SlotInv, NEW c \in Chan, link[c] # "shut", read_rsp(c)
  PROVE  SlotInv'
<1> DEFINE ans == Head(wire[c]).ans
<1>1. /\ link[c] \in {"up", "down"} /\ wire[c] # <<>> /\ wire' = [wire EXCEPT ![c] = Tail(@)]
      /\ UNCHANGED <<iwire, inbox>> /\ handle_rsp(c, ans) /\ ctl = Main
  BY DEF read_rsp, Readable, Attached
<1>2. SlotOK(c) /\ WireMatches(c) /\ pendReq[c] # NoOp /\ wire'[c] = <<>>
      /\ \A i \in DOMAIN chanQ[c] : ~IsReq(chanQ[c][i])
  BY <1>1, SlotFull DEF SlotInv, SlotOK, SlotReserved, TypeOK, PeerType
<1>3. CASE handle_error_rsp(c, ans)
  <2> DEFINE op == [pendReq[c] EXCEPT !.retry = TRUE]
  <2>1. /\ chanQ' = [chanQ EXCEPT ![c] = <<op>> \o @] /\ pendReq' = [pendReq EXCEPT ![c] = NoOp]
        /\ UNCHANGED <<link, pendInd, ctl>>
    BY <1>3 DEF handle_error_rsp
  <2>2. ASSUME NEW d \in Chan, d # c
        PROVE  SlotOK(d)'
    BY <1>1, <2>1, <2>2, SlotFrame DEF SlotInv, SlotOK, TypeOK, QueueType, PendType, PeerType
  <2>3. SlotReserved(c)'
    BY <1>2, <1>3, SlotRetried DEF SlotOK
  <2>4. SlotOK(c)'
    BY <1>1, <1>2, <2>1, <2>3, MainFacts DEF SlotOK, WireMatches, Delivering
  <2> QED BY <2>2, <2>4 DEF SlotInv
<1>4. CASE /\ ctl' = In("rsp", c, TRUE)
           /\ UNCHANGED <<link, chanQ, pendReq, pendInd>>
  <2>1. ctl'.pc = "rsp" /\ ctl'.chan = c
    BY <1>4 DEF In
  <2>2. ASSUME NEW d \in Chan, d # c
        PROVE  SlotOK(d)'
    BY <1>1, <1>4, <2>1, <2>2, SlotFrame DEF SlotInv, SlotOK, TypeOK, PeerType
  <2>3. SlotOK(c)'
    <3>1. SlotReserved(c)'
      BY <1>2, <1>4 DEF SlotOK, SlotReserved
    <3>2. WireMatches(c)'
      BY <1>1, <1>2, <1>4 DEF WireMatches
    <3>3. Delivering(c)'
      BY <1>2, <2>1 DEF Delivering
    <3> QED BY <1>1, <1>2, <3>1, <3>2, <3>3 DEF SlotOK
  <2> QED BY <2>2, <2>3 DEF SlotInv
<1>5. CASE /\ pendReq' = [pendReq EXCEPT ![c] = NoOp]
           /\ UNCHANGED <<link, chanQ, pendInd, ctl>>
  <2>2. ASSUME NEW d \in Chan, d # c
        PROVE  SlotOK(d)'
    BY <1>1, <1>5, <2>2, SlotFrame DEF SlotInv, SlotOK, TypeOK, PendType, PeerType
  <2>3. SlotOK(c)'
    BY <1>1, <1>2, <1>5, MainFacts DEF SlotOK, SlotReserved, WireMatches, Delivering
  <2> QED BY <2>2, <2>3 DEF SlotInv
<1> QED BY <1>1, <1>2, <1>3, <1>4, <1>5 DEF handle_rsp, chanVars, queueVars, pendVars

LEMMA SlotReadConf ==
  ASSUME TypeOK, SlotInv, NEW c \in Chan, link[c] # "shut", read_conf(c)
  PROVE  SlotInv'
<1>1. /\ link[c] \in {"up", "down"} /\ iwire[c] # <<>> /\ iwire' = [iwire EXCEPT ![c] = Tail(@)]
      /\ UNCHANGED <<wire, inbox>> /\ handle_conf(c) /\ ctl = Main
  BY DEF read_conf, Readable, Attached
<1>2. SlotOK(c) /\ WireMatches(c) /\ pendInd[c] # NoOp /\ iwire'[c] = <<>>
  BY <1>1, SlotFull DEF SlotInv, SlotOK, TypeOK, PeerType
<1>3. UNCHANGED <<link, chanQ, pendReq>>
  BY <1>1, <1>2 DEF handle_conf, chanVars, queueVars, pendVars
<1>4. SlotReserved(c)' /\ WireMatches(c)'
  BY <1>1, <1>2, <1>3 DEF SlotOK, SlotReserved, WireMatches
<1>5. CASE ctl' = In("conf", c, TRUE) /\ UNCHANGED pendInd
  <2>1. ctl'.pc = "conf" /\ ctl'.chan = c
    BY <1>5 DEF In
  <2>2. ASSUME NEW d \in Chan, d # c
        PROVE  SlotOK(d)'
    BY <1>1, <1>3, <1>5, <2>1, <2>2, SlotFrame DEF SlotInv, SlotOK, TypeOK, PeerType
  <2>3. Delivering(c)'
    BY <1>2, <2>1 DEF Delivering
  <2> QED BY <1>1, <1>2, <1>4, <2>2, <2>3 DEF SlotInv, SlotOK
<1>6. CASE pendInd' = [pendInd EXCEPT ![c] = NoOp] /\ ctl' = ctl
  <2>1. ASSUME NEW d \in Chan, d # c
        PROVE  SlotOK(d)'
    BY <1>1, <1>3, <1>6, <2>1, SlotFrame DEF SlotInv, SlotOK, TypeOK, PendType, PeerType
  <2>2. Delivering(c)'
    BY <1>1, <1>6, MainFacts DEF Delivering
  <2> QED BY <1>1, <1>2, <1>4, <2>1, <2>2 DEF SlotInv, SlotOK
<1> QED BY <1>1, <1>2, <1>5, <1>6 DEF handle_conf, pendVars

LEMMA SlotReadStray ==
  ASSUME TypeOK, SlotInv, NEW c \in Chan, read_stray(c)
  PROVE  SlotInv'
<1>1. /\ io_shutdown(c) /\ inbox' = [inbox EXCEPT ![c] = @ \ {"BADCONF"}]
      /\ UNCHANGED <<chanQ, pendReq, pendInd, wire, iwire, ctl>>
  BY DEF read_stray, SlotInv, SlotOK, queueVars, pendVars
<1>2. ASSUME NEW d \in Chan
      PROVE  SlotOK(d)'
  <2>1. inbox'[d] \cap {"RSP", "CONF"} = {}
    BY <1>1 DEF SlotInv, SlotOK, TypeOK, PeerType
  <2>2. CASE d = c
    BY <1>1, <2>1, <2>2, SlotShut DEF SlotInv, io_shutdown, TypeOK, ChanType
  <2>3. CASE d # c
    BY <1>1, <2>1, <2>3, SlotFrame DEF SlotInv, io_shutdown, TypeOK, ChanType
  <2> QED BY <2>2, <2>3
<1> QED BY <1>2 DEF SlotInv

LEMMA SlotReadReq ==
  ASSUME TypeOK, SlotInv, NEW c \in Chan, read_req(c)
  PROVE  SlotInv'
<1>1. /\ inbox' = [inbox EXCEPT ![c] = @ \ {"REQ"}]
      /\ UNCHANGED <<chanQ, pendReq, pendInd, wire, iwire, ctl>>
      /\ io_shutdown(c) \/ link' = link
  BY DEF read_req, queueVars, pendVars, respond_not_supported
<1>2. ASSUME NEW d \in Chan
      PROVE  SlotOK(d)'
  <2>1. inbox'[d] \cap {"RSP", "CONF"} = {}
    BY <1>1 DEF SlotInv, SlotOK, TypeOK, PeerType
  <2>2. CASE d = c /\ io_shutdown(c)
    BY <1>1, <2>1, <2>2, SlotShut DEF SlotInv, io_shutdown, TypeOK, ChanType
  <2>3. CASE link'[d] = link[d]
    BY <1>1, <2>1, <2>3, SlotFrame DEF SlotInv
  <2> QED BY <1>1, <2>2, <2>3 DEF io_shutdown, TypeOK, ChanType
<1> QED BY <1>2 DEF SlotInv

LEMMA SlotReadUnasked ==
  ASSUME TypeOK, SlotInv, NEW c \in Chan, NEW kind, read_unasked(c, kind)
  PROVE  SlotInv'
<1>1. /\ inbox' = [inbox EXCEPT ![c] = @ \ {kind}]
      /\ UNCHANGED <<link, pendReq, pendInd, wire, iwire, ctl>>
      /\ chanQ' = chanQ \/ chanQ' = [chanQ EXCEPT ![c] = Append(@, RspOp("CONF"))]
  BY DEF read_unasked, chanVars, queueVars, pendVars, respond_not_supported
<1>2. ASSUME NEW d \in Chan
      PROVE  SlotOK(d)'
  <2>1. inbox'[d] \cap {"RSP", "CONF"} = {}
    BY <1>1 DEF SlotInv, SlotOK, TypeOK, PeerType
  <2>2. CASE chanQ'[d] = Append(chanQ[d], RspOp("CONF"))
    BY <1>1, <2>1, <2>2, SlotReply DEF SlotInv
  <2>3. CASE chanQ'[d] = chanQ[d]
    BY <1>1, <2>1, <2>3, SlotFrame DEF SlotInv
  <2> QED BY <1>1, <2>2, <2>3 DEF TypeOK, QueueType
<1> QED BY <1>2 DEF SlotInv

LEMMA SlotEndCallback ==
  ASSUME TypeOK, SlotInv, end_callback
  PROVE  SlotInv'
<1>1. PICK c \in Chan : c = ctl.chan
  BY DEF TypeOK, FlagType
<1>2. CASE ~ref
  BY <1>2, SlotBearerFree DEF end_callback
<1>3. CASE ref
  <2>0. c = ctl.chan /\ SlotOK(c)
    BY <1>1 DEF SlotInv
  <2>1. /\ UNCHANGED <<link, chanQ, wire, iwire, inbox>> /\ ctl' = Main
        /\ \/ /\ ctl.pc = "rsp" /\ pendReq' = [pendReq EXCEPT ![c] = NoOp]
              /\ UNCHANGED pendInd
           \/ /\ ctl.pc = "conf" /\ pendInd' = [pendInd EXCEPT ![c] = NoOp]
              /\ UNCHANGED pendReq
    BY <1>1, <1>3 DEF end_callback, queueVars, peerVars
  <2>2. ASSUME NEW d \in Chan, d # c
        PROVE  SlotOK(d)'
    BY <2>0, <2>1, <2>2, SlotFrame, MainFacts DEF SlotInv, SlotOK, TypeOK, PendType
  <2>3. Delivering(c)'
    BY <2>1, MainFacts DEF Delivering
  <2>4. CASE /\ ctl.pc = "rsp" /\ pendReq' = [pendReq EXCEPT ![c] = NoOp]
             /\ UNCHANGED pendInd
    <3>1. pendReq'[c] = NoOp
      BY <2>0, <2>4 DEF TypeOK, PendType
    <3>2. SlotReserved(c)'
      BY <2>0, <2>1, <3>1 DEF SlotOK, SlotReserved
    <3>3. link[c] \in {"new", "up", "down"} => WireMatches(c)'
      BY <2>0, <2>1, <2>4 DEF SlotOK, WireMatches, Delivering
    <3> QED BY <2>0, <2>1, <2>2, <2>3, <3>2, <3>3 DEF SlotInv, SlotOK
  <2>5. CASE /\ ctl.pc = "conf" /\ pendInd' = [pendInd EXCEPT ![c] = NoOp]
             /\ UNCHANGED pendReq
    <3>1. SlotReserved(c)'
      BY <2>0, <2>1, <2>5 DEF SlotOK, SlotReserved
    <3>2. link[c] \in {"new", "up", "down"} => WireMatches(c)'
      BY <2>0, <2>1, <2>5 DEF SlotOK, WireMatches, Delivering
    <3> QED BY <2>0, <2>1, <2>2, <2>3, <3>1, <3>2 DEF SlotInv, SlotOK
  <2> QED BY <2>1, <2>4, <2>5
<1> QED BY <1>2, <1>3 DEF TypeOK, ChanType

LEMMA SlotTimeout ==
  ASSUME TypeOK, SlotInv, NEW c \in Chan, timeout_cb(c)
  PROVE  SlotInv'
<1>1. /\ io_shutdown(c) /\ UNCHANGED <<chanQ, wire, iwire, inbox, ctl>>
      /\ pendReq' = pendReq \/ pendReq' = [pendReq EXCEPT ![c] = NoOp]
      /\ pendInd' = pendInd \/ pendInd' = [pendInd EXCEPT ![c] = NoOp]
  BY DEF timeout_cb, queueVars, peerVars
<1>2. ASSUME NEW d \in Chan
      PROVE  SlotOK(d)'
  <2>1. CASE d = c
    BY <1>1, <2>1, SlotShut DEF SlotInv, SlotOK, io_shutdown, TypeOK, ChanType, PendType
  <2>2. CASE d # c
    BY <1>1, <2>2, SlotFrame DEF SlotInv, SlotOK, io_shutdown, TypeOK, ChanType, PendType
  <2> QED BY <2>1, <2>2
<1> QED BY <1>2 DEF SlotInv

LEMMA SlotDisconnect ==
  ASSUME TypeOK, SlotInv, NEW c \in Chan, disconnect_cb(c)
  PROVE  SlotInv'
<1>1. /\ link' = [link EXCEPT ![c] = "gone"] /\ pendReq' = [pendReq EXCEPT ![c] = NoOp]
      /\ UNCHANGED <<chanQ, pendInd, wire, iwire, inbox>>
      /\ ctl' = In("detach", c, pendReq[c].live)
  BY DEF disconnect_cb, queueVars, peerVars
<1>2. ctl'.pc = "detach"
  BY <1>1 DEF In
<1>3. ASSUME NEW d \in Chan
      PROVE  SlotOK(d)'
  <2>1. CASE d = c
    BY <1>1, <2>1, SlotShut DEF SlotInv, SlotOK, TypeOK, ChanType, PendType
  <2>2. CASE d # c
    BY <1>1, <1>2, <2>2, SlotFrame DEF SlotInv, SlotOK, TypeOK, ChanType, PendType
  <2> QED BY <2>1, <2>2
<1> QED BY <1>3 DEF SlotInv

LEMMA SlotDetach ==
  ASSUME TypeOK, SlotInv, detach_chan
  PROVE  SlotInv'
<1>1. PICK c \in Chan : c = ctl.chan
  BY DEF TypeOK, FlagType
<1>2. /\ chanQ' = [chanQ EXCEPT ![c] = <<>>] /\ pendInd' = [pendInd EXCEPT ![c] = NoOp]
      /\ wire' = [wire EXCEPT ![c] = <<>>] /\ iwire' = [iwire EXCEPT ![c] = <<>>]
      /\ inbox' = [inbox EXCEPT ![c] = {}]
      /\ link' = link /\ pendReq' = pendReq
      /\ ctl' = Main \/ ctl' = In("flush_req", c, pendInd[c].live)
  BY <1>1 DEF detach_chan, chanVars
<1>3. ctl'.pc \notin {"rsp", "conf"}
  BY <1>2, MainFacts DEF In
<1>4. ASSUME NEW d \in Chan
      PROVE  SlotOK(d)'
  <2>1. CASE d = c
    <3>1. chanQ'[c] = <<>> /\ wire'[c] = <<>> /\ iwire'[c] = <<>> /\ inbox'[c] = {}
      BY <1>2 DEF TypeOK, QueueType, PeerType
    <3> QED BY <2>1, <3>1, SlotEmpty
  <2>2. CASE d # c
    BY <1>2, <1>3, <2>2, SlotFrame
       DEF SlotInv, SlotOK, TypeOK, QueueType, PendType, PeerType
  <2> QED BY <2>1, <2>2
<1> QED BY <1>4 DEF SlotInv

LEMMA SlotFlush ==
  ASSUME TypeOK, SlotInv, disc_att_send_op \/ flush_next
  PROVE  SlotInv'
<1>1. UNCHANGED <<link, chanQ, pendReq, pendInd, wire, iwire, inbox>>
  BY DEF disc_att_send_op, flush_next, chanVars, queueVars, pendVars, peerVars
<1>2. ctl'.pc \notin {"rsp", "conf"}
  <2>1. CASE disc_att_send_op
    BY <2>1 DEF disc_att_send_op, Flushing, TypeOK, FlagType
  <2>2. CASE flush_next
    BY <2>2, MainFacts DEF flush_next, TypeOK, FlagType
  <2> QED BY <2>1, <2>2
<1> QED BY <1>1, <1>2, SlotFrame DEF SlotInv, SlotOK

LEMMA SlotSend ==
  ASSUME TypeOK, SlotInv, NEW kind, NEW len \in Lens, NEW retry \in BOOLEAN,
         bt_att_send(kind, len, retry), MtuAlone
  PROVE  SlotInv'
<1> DEFINE op == [id |-> nextId, leg |-> 1, kind |-> kind, len |-> len,
                  retry |-> retry, live |-> kind # "CMD"]
<1>1. UNCHANGED <<link, pendReq, pendInd, wire, iwire, inbox, ctl>>
  BY DEF bt_att_send, chanVars, pendVars, peerVars
<1>2. \/ chanQ' = chanQ
      \/ /\ chanQ' = [chanQ EXCEPT ![Oldest] = Append(@, op)] /\ pendReq[Oldest] = NoOp
         /\ \A o \in InSeq(chanQ[Oldest]) : o.kind \in {"RSP", "CONF"}
  BY DEF bt_att_send
<1> HIDE DEF op
<1>3. ASSUME NEW d \in Chan
      PROVE  SlotOK(d)'
  <2>1. CASE chanQ'[d] = chanQ[d]
    BY <1>1, <2>1, SlotFrame DEF SlotInv, SlotOK
  <2>2. CASE /\ chanQ'[d] = Append(chanQ[d], op) /\ pendReq[d] = NoOp
             /\ \A o \in InSeq(chanQ[d]) : o.kind \in {"RSP", "CONF"}
    <3>1. chanQ[d] \in Seq(ChanOps)
      BY PlaceFacts
    <3>2. \A i \in DOMAIN chanQ'[d] : i = Len(chanQ[d]) + 1 \/ ~IsReq(chanQ'[d][i])
      BY <2>2, <3>1 DEF InSeq, IsReq
    <3>3. SlotReserved(d)'
      BY <1>1, <2>2, <3>2 DEF SlotReserved
    <3> QED BY <1>1, <3>3 DEF SlotInv, SlotOK, WireMatches, Delivering
  <2> QED BY <1>2, <2>1, <2>2 DEF TypeOK, QueueType
<1> QED BY <1>3 DEF SlotInv

LEMMA SlotUserFrame ==
  ASSUME TypeOK, SlotInv,
         \/ \E len \in Lens, front \in BOOLEAN : bt_att_resend(len, front)
         \/ \E m \in Lens : bt_att_set_mtu(m)
         \/ \E id : cancel_shared(id) \/ cancel_missing(id),
         UNCHANGED <<link, wire, iwire, inbox>>,
         ctl'.pc = ctl.pc /\ ctl'.chan = ctl.chan
  PROVE  SlotInv'
<1>1. UNCHANGED <<chanQ, pendReq, pendInd>>
  BY DEF bt_att_resend, bt_att_set_mtu, cancel_shared, cancel_missing, queueVars, pendVars
<1> QED BY <1>1, SlotFrame DEF SlotInv, SlotOK

LEMMA SlotChanSend ==
  ASSUME TypeOK, SlotInv, NEW c \in Chan, bt_att_chan_send(c)
  PROVE  SlotInv'
<1>1. /\ chanQ' = [chanQ EXCEPT ![c] = Append(@, RspOp("RSP"))]
      /\ UNCHANGED <<link, pendReq, pendInd, wire, iwire, inbox, ctl>>
  BY DEF bt_att_chan_send, chanVars, pendVars
<1>2. ASSUME NEW d \in Chan
      PROVE  SlotOK(d)'
  <2>1. CASE d = c
    BY <1>1, <2>1, SlotReply DEF SlotInv, SlotOK, TypeOK, QueueType
  <2>2. CASE d # c
    BY <1>1, <2>2, SlotFrame DEF SlotInv, SlotOK, TypeOK, QueueType
  <2> QED BY <2>1, <2>2
<1> QED BY <1>2 DEF SlotInv

LEMMA MuteInst ==
  ASSUME NEW kinds, NEW op \in Ops(kinds)
  PROVE  /\ InstOf([op EXCEPT !.live = FALSE]) = InstOf(op)
         /\ [op EXCEPT !.live = FALSE] # NoOp /\ op # NoOp
<1>1. /\ [op EXCEPT !.live = FALSE].id = op.id /\ [op EXCEPT !.live = FALSE].leg = op.leg
      /\ op.id # 0
  BY BearerAssumption DEF Ops, Ids
<1> QED BY <1>1 DEF InstOf, NoOp

\* cancel_att_send_op on a channel's slots: they stay full, of the same.
LEMMA SlotMute ==
  ASSUME TypeOK, NEW d \in Chan, SlotOK(d), chanQ'[d] = chanQ[d],
         UNCHANGED <<link, wire, iwire, inbox, ctl>>,
         \/ pendReq'[d] = pendReq[d]
         \/ pendReq[d] # NoOp /\ pendReq'[d] = [pendReq[d] EXCEPT !.live = FALSE],
         \/ pendInd'[d] = pendInd[d]
         \/ pendInd[d] # NoOp /\ pendInd'[d] = [pendInd[d] EXCEPT !.live = FALSE]
  PROVE  SlotOK(d)'
<1>1. /\ InstOf(pendReq'[d]) = InstOf(pendReq[d])
      /\ pendReq[d] # NoOp => pendReq'[d] # NoOp
      /\ pendReq[d] = NoOp => pendReq'[d] = NoOp
      /\ InstOf(pendInd'[d]) = InstOf(pendInd[d])
  BY PlaceFacts, MuteInst
<1>2. SlotReserved(d)'
  BY <1>1 DEF SlotOK, SlotReserved
<1>3. WireMatches(d) => WireMatches(d)'
  BY <1>1 DEF WireMatches, InstOf
<1> QED BY <1>2, <1>3 DEF SlotOK, Delivering

LEMMA SlotCancelPending ==
  ASSUME TypeOK, SlotInv, NEW c \in Chan, NEW id \in Ids, cancel_pending(c, id),
         UNCHANGED <<link, wire, iwire, inbox, ctl>>
  PROVE  SlotInv'
<1>1. \A o : o.id = id => o # NoOp
  BY BearerAssumption DEF Ids, NoOp
<1>2. /\ chanQ' = chanQ
      /\ \/ /\ pendReq' = [pendReq EXCEPT ![c].live = FALSE] /\ pendReq[c] # NoOp
            /\ pendInd' = pendInd
         \/ /\ pendInd' = [pendInd EXCEPT ![c].live = FALSE] /\ pendInd[c] # NoOp
            /\ pendReq' = pendReq
  BY <1>1 DEF cancel_pending, queueVars
<1>3. ASSUME NEW d \in Chan
      PROVE  SlotOK(d)'
  BY <1>2, SlotMute DEF SlotInv, TypeOK, PendType
<1> QED BY <1>3 DEF SlotInv

LEMMA SlotCancelChanQueue ==
  ASSUME TypeOK, SlotInv, NEW c \in Chan, NEW id \in Ids, cancel_chan_queue(c, id),
         UNCHANGED <<link, wire, iwire, inbox, ctl>>
  PROVE  SlotInv'
<1>1. PICK i \in DOMAIN chanQ[c] : chanQ' = [chanQ EXCEPT ![c] = DropAt(@, i)]
  BY DEF cancel_chan_queue, At
<1>2. UNCHANGED <<pendReq, pendInd>>
  BY DEF cancel_chan_queue, pendVars
<1>3. ASSUME NEW d \in Chan
      PROVE  SlotOK(d)'
  <2>1. CASE d = c
    <3>1. chanQ'[c] = DropAt(chanQ[c], i)
      BY <1>1 DEF TypeOK, QueueType
    <3>2. SlotReserved(c)'
      BY <1>2, <3>1, ReservedDrop DEF SlotInv, SlotOK
    <3> QED BY <1>2, <2>1, <3>2 DEF SlotInv, SlotOK, WireMatches, Delivering
  <2>2. CASE d # c
    BY <1>1, <1>2, <2>2, SlotFrame DEF SlotInv, SlotOK, TypeOK, QueueType
  <2> QED BY <2>1, <2>2
<1> QED BY <1>3 DEF SlotInv

LEMMA SlotCancel ==
  ASSUME TypeOK, SlotInv, NEW id \in Ids, bt_att_cancel(id)
  PROVE  SlotInv'
<1>1. UNCHANGED <<link, wire, iwire, inbox, ctl>>
  BY DEF bt_att_cancel, chanVars, peerVars
<1>2. \/ \E c \in Chan : cancel_pending(c, id) \/ cancel_chan_queue(c, id)
      \/ cancel_shared(id) \/ cancel_missing(id)
  BY DEF bt_att_cancel, Attached
<1> QED BY <1>1, <1>2, SlotCancelPending, SlotCancelChanQueue, SlotUserFrame

LEMMA SlotCancelAll ==
  ASSUME TypeOK, SlotInv, bt_att_cancel_all
  PROVE  SlotInv'
<1>1. UNCHANGED <<link, wire, iwire, inbox, ctl, chanQ>>
  BY DEF bt_att_cancel_all, chanVars, peerVars
<1>2. ASSUME NEW d \in Chan
      PROVE  SlotOK(d)'
  <2>1. \/ pendReq'[d] = pendReq[d]
        \/ pendReq[d] # NoOp /\ pendReq'[d] = [pendReq[d] EXCEPT !.live = FALSE]
    BY DEF bt_att_cancel_all
  <2>2. \/ pendInd'[d] = pendInd[d]
        \/ pendInd[d] # NoOp /\ pendInd'[d] = [pendInd[d] EXCEPT !.live = FALSE]
    BY DEF bt_att_cancel_all
  <2> QED BY <1>1, <2>1, <2>2, SlotMute DEF SlotInv
<1> QED BY <1>2 DEF SlotInv

LEMMA SlotAttach ==
  ASSUME TypeOK, SlotInv, NEW c \in Chan, NEW m \in Lens, bt_att_attach_chan(c, m)
  PROVE  SlotInv'
<1>1. /\ UNCHANGED <<chanQ, pendReq, pendInd, wire, iwire, inbox, ctl>>
      /\ link[c] = "new" /\ link' = [link EXCEPT ![c] = "up"]
  BY DEF bt_att_attach_chan, queueVars, pendVars, peerVars
<1>2. ASSUME NEW d \in Chan
      PROVE  SlotOK(d)'
  BY <1>1 DEF SlotInv, SlotOK, SlotReserved, WireMatches, Delivering, TypeOK, ChanType
<1> QED BY <1>2 DEF SlotInv

LEMMA SlotUnref ==
  ASSUME TypeOK, SlotInv, bt_att_unref
  PROVE  SlotInv'
<1>1. CASE bt_att_free
  BY <1>1, SlotBearerFree
<1>2. CASE UNCHANGED <<link, chanQ, pendReq, pendInd, wire, iwire, inbox, ctl>>
  BY <1>2, SlotFrame DEF SlotInv, SlotOK
<1> QED BY <1>1, <1>2 DEF bt_att_unref, queueVars, pendVars, peerVars

LEMMA SlotPeer ==
  ASSUME TypeOK, SlotInv, NEW c \in Chan, Peer(c), ~Rogue
  PROVE  SlotInv'
<1>1. CASE hang_up(c)
  <2>1. /\ link[c] = "up" /\ link' = [link EXCEPT ![c] = "down"]
        /\ UNCHANGED <<chanQ, pendReq, pendInd, wire, iwire, inbox, ctl>>
    BY <1>1 DEF hang_up, queueVars, pendVars, peerVars
  <2> QED BY <2>1 DEF SlotInv, SlotOK, SlotReserved, WireMatches, Delivering, TypeOK, ChanType
<1>2. ASSUME NEW ans \in Answers, peer_answers(c, ans)
      PROVE  SlotInv'
  <2>1. /\ UNCHANGED <<link, chanQ, pendReq, pendInd, inbox, ctl>> /\ ctl = Main
        /\ \/ /\ wire[c] # <<>> /\ wire' = [wire EXCEPT ![c][1].ans = ans] /\ iwire' = iwire
           \/ /\ iwire[c] # <<>> /\ iwire' = [iwire EXCEPT ![c][1].ans = ans] /\ wire' = wire
    BY <1>2 DEF peer_answers, chanVars, queueVars, pendVars
  <2>2. ASSUME NEW q \in Seq(Sent), q # <<>>
        PROVE  /\ Len([q EXCEPT ![1].ans = ans]) = Len(q)
               /\ [q EXCEPT ![1].ans = ans] # <<>>
               /\ [q EXCEPT ![1].ans = ans][1].id = q[1].id
               /\ [q EXCEPT ![1].ans = ans][1].leg = q[1].leg
    BY <2>2 DEF Sent
  <2>3. wire[c] \in Seq(Sent) /\ iwire[c] \in Seq(Sent)
    BY DEF TypeOK, PeerType
  <2>4. ASSUME NEW d \in Chan, d # c
        PROVE  SlotOK(d)'
    BY <2>1, <2>4, SlotFrame DEF SlotInv, SlotOK, TypeOK, PeerType
  <2>5. SlotReserved(c)' /\ Delivering(c)'
    BY <2>1, MainFacts DEF SlotInv, SlotOK, SlotReserved, Delivering
  <2>6. WireMatches(c) => WireMatches(c)'
    BY <2>1, <2>2, <2>3 DEF WireMatches, TypeOK, PeerType, InstOf
  <2> QED BY <2>1, <2>4, <2>5, <2>6 DEF SlotInv, SlotOK
<1>3. ASSUME NEW kind \in PeerKinds, peer_sends(c, kind)
      PROVE  SlotInv'
  <2>1. /\ UNCHANGED <<link, chanQ, pendReq, pendInd, wire, iwire, ctl>>
        /\ inbox' = [inbox EXCEPT ![c] = @ \cup {kind}] /\ kind \notin {"RSP", "CONF"}
    BY <1>3, BearerAssumption DEF peer_sends, chanVars, queueVars, pendVars
  <2>2. ASSUME NEW d \in Chan
        PROVE  SlotOK(d)'
    <3>1. inbox'[d] \cap {"RSP", "CONF"} = {}
      BY <2>1 DEF SlotInv, SlotOK, TypeOK, PeerType
    <3> QED BY <2>1, <3>1, SlotFrame DEF SlotInv
  <2> QED BY <2>2 DEF SlotInv
<1> QED BY <1>1, <1>2, <1>3 DEF Peer, peer_strays

LEMMA NextSlots ==
  ASSUME ~Rogue, MtuAlone
  PROVE  TypeOK /\ SlotInv /\ [Next]_vars => SlotInv'
<1> SUFFICES ASSUME TypeOK, SlotInv, [Next]_vars
             PROVE  SlotInv'
  OBVIOUS
<1>1. ASSUME NEW c \in Chan, MainLoop(c)
      PROVE  SlotInv'
  BY <1>1, SlotWrite, SlotWriterOff, SlotWriteFails, SlotReadRsp, SlotReadConf, SlotReadShut,
     SlotReadStray, SlotReadReq, SlotReadUnasked, SlotTimeout, SlotDisconnect
     DEF MainLoop
<1>2. CASE Continue
  BY <1>2, SlotEndCallback, SlotDetach, SlotFlush DEF Continue
<1>3. CASE User
  <2>1. ASSUME NEW kind \in ClientKinds, NEW len \in Lens, NEW retry \in BOOLEAN,
               bt_att_send(kind, len, retry)
        PROVE  SlotInv'
    BY <2>1, SlotSend
  <2>2. ASSUME NEW len \in Lens, NEW front \in BOOLEAN, bt_att_resend(len, front)
        PROVE  SlotInv'
    <3>1. UNCHANGED <<link, wire, iwire, inbox>> /\ ctl'.pc = ctl.pc /\ ctl'.chan = ctl.chan
      BY <2>2 DEF bt_att_resend, chanVars, peerVars, TypeOK, FlagType
    <3> QED BY <2>2, <3>1, SlotUserFrame
  <2>3. ASSUME NEW m \in Lens, bt_att_set_mtu(m)
        PROVE  SlotInv'
    <3>1. UNCHANGED <<link, wire, iwire, inbox, ctl>>
      BY <2>3 DEF bt_att_set_mtu, peerVars
    <3> QED BY <2>3, <3>1, SlotUserFrame
  <2>4. ASSUME NEW c \in Chan, NEW m \in Lens, bt_att_attach_chan(c, m)
        PROVE  SlotInv'
    BY <2>4, SlotAttach
  <2> QED BY <1>3, <2>1, <2>2, <2>3, <2>4, SlotChanSend, SlotCancel, SlotCancelAll,
             SlotUnref DEF User
<1>4. CASE UNCHANGED vars
  <2>1. UNCHANGED <<link, chanQ, pendReq, pendInd, wire, iwire, inbox, ctl>>
    BY <1>4 DEF vars, chanVars, queueVars, pendVars, peerVars
  <2> QED BY <2>1, SlotFrame DEF SlotInv, SlotOK
<1> QED BY <1>1, <1>2, <1>3, <1>4, SlotPeer DEF Next

\* The slots stay reserved: a request in chan->queue, which pick_next_send_op
\* takes without a look at pending_req, finds the slot empty, and what is on the
\* wire is what the slots hold.
THEOREM SlotsHold ==
  ASSUME ~Rogue, MtuAlone
  PROVE  Spec => []SlotInv
  BY InitType, NextType, InitSlots, NextSlots, PTL DEF Spec

\* On a channel that is up at most one request and one indication of ours are
\* unanswered, and the slot holds what the peer answers: whatever is cancelled,
\* retried, timed out or refused by the socket, as long as the peer answers only
\* what it was asked and the user exchanges the MTU with no request pending.
THEOREM SequentialHolds ==
  ASSUME ~Rogue, MtuAlone
  PROVE  Spec => []SequentialProtocol
<1>1. SlotInv => SequentialProtocol
  BY DEF SlotInv, SlotOK, SequentialProtocol
<1>2. Spec => []SlotInv
  BY SlotsHold
<1> QED BY <1>1, <1>2, PTL

-----------------------------------------------------------------------------
(* Wake-ups: the invariant.                                                 *)

\* The response callback of channel c runs; handle_rsp wakes c's writer after it.
InRsp(c) == ctl.pc = "rsp" /\ ctl.chan = c

\* The write handler is missing only on a channel that has nothing to write or
\* that is about to be woken: bt_att_set_mtu, called from the response callback,
\* wakes nobody.
WakeOK(c) ==
    link[c] = "up" /\ mtu[c] = attMtu /\ HasWork(c) => writer[c] \/ InRsp(c)

\* Nothing is queued for all channels that the largest channel cannot carry.
SizeInv ==
    /\ \A o \in SharedOps : o.len <= attMtu
    /\ \A c \in Chan : mtu[c] <= attMtu

\* Channels are attached in order, and the Exchange MTU request is only ever on
\* the oldest channel that is left.
HoldsMtu(c) ==
    \/ pendReq[c].kind = "MTU"
    \/ \E o \in InSeq(chanQ[c]) : o.kind = "MTU"
OrderInv ==
    \A c, d \in Chan : d < c =>
        /\ link[c] # "new" => link[d] # "new"
        /\ HoldsMtu(c) => link[d] = "gone"

CtlInv ==
    /\ ctl.pc = "rsp" => ctl.chan \in Attached
    /\ ctl.pc = "detach" => link[ctl.chan] = "gone"

WakeInv == (\A c \in Chan : WakeOK(c)) /\ SizeInv /\ OrderInv /\ CtlInv

-----------------------------------------------------------------------------
(* What most steps do to it: no channel comes up and no MTU changes, nothing *)
(* too long is queued, an Exchange MTU request only on the oldest channel,   *)
(* and a channel that gets work is woken.                                    *)

Closing ==
    /\ UNCHANGED <<mtu, attMtu>>
    /\ \A c \in Chan : \/ link'[c] = link[c]
                       \/ /\ link[c] \notin {"new", "gone"}
                          /\ link'[c] \in {"down", "shut", "gone"}
SmallNew == \A o \in SharedOps' : o \in SharedOps \/ o.len <= attMtu
IsOldest(c) == \A d \in Chan : d < c => link[d] = "gone"
NoNewMtu == \A c \in Chan : HoldsMtu(c)' => HoldsMtu(c) \/ IsOldest(c)
Woken(c) ==
    link'[c] = "up" /\ mtu[c] = attMtu /\ HasWork(c)' =>
        \/ writer'[c]
        \/ HasWork(c) /\ writer'[c] = writer[c] /\ (InRsp(c) => InRsp(c)')
Calm == Closing /\ SmallNew /\ NoNewMtu /\ (\A c \in Chan : Woken(c)) /\ CtlInv'

LEMMA WakeFrame ==
  ASSUME TypeOK, WakeInv, Calm
  PROVE  WakeInv'
<1>1. \A c \in Chan : link'[c] = "up" => link[c] = "up"
  BY DEF Calm, Closing
<1>2. \A c \in Chan : WakeOK(c)'
  BY <1>1 DEF WakeInv, Calm, Closing, Woken, WakeOK
<1>3. SizeInv'
  BY DEF WakeInv, SizeInv, Calm, Closing, SmallNew
<1>4. OrderInv'
  <2>1. \A c \in Chan : /\ link'[c] # "new" => link[c] # "new"
                        /\ link[c] # "new" => link'[c] # "new"
                        /\ link[c] = "gone" => link'[c] = "gone"
    BY DEF Calm, Closing
  <2> QED BY <2>1 DEF WakeInv, OrderInv, Calm, NoNewMtu, IsOldest
<1> QED BY <1>2, <1>3, <1>4 DEF WakeInv, Calm

LEMMA QueueEmpty ==
  ASSUME NEW S, NEW q \in Seq(S)
  PROVE  q = <<>> <=> InSeq(q) = {}
<1>1. q # <<>> => 1 \in DOMAIN q
  OBVIOUS
<1> QED BY <1>1 DEF InSeq

\* A step that only takes operations off the queues, or fills or mutes slots,
\* and leaves the writers and control alone.
Shrink ==
    /\ \A c \in Chan : InSeq(chanQ'[c]) \subseteq InSeq(chanQ[c])
    /\ InSeq(reqQ') \subseteq InSeq(reqQ) /\ InSeq(indQ') \subseteq InSeq(indQ)
    /\ InSeq(writeQ') \subseteq InSeq(writeQ)
SlotsStay(c) ==
    /\ pendReq'[c] = NoOp => pendReq[c] = NoOp
    /\ pendInd'[c] = NoOp => pendInd[c] = NoOp

LEMMA ShrinkWork ==
  ASSUME TypeOK, TypeOK', Shrink
  PROVE  /\ SmallNew
         /\ \A c \in Chan : SlotsStay(c) => (HasWork(c)' => HasWork(c))
<1>1. SmallNew
  BY DEF Shrink, SmallNew, SharedOps
<1>2. /\ reqQ' # <<>> => reqQ # <<>>
      /\ indQ' # <<>> => indQ # <<>>
      /\ writeQ' # <<>> => writeQ # <<>>
  <2>1. /\ reqQ \in Seq(ReqOps) /\ indQ \in Seq(IndOps) /\ writeQ \in Seq(WriteOps)
        /\ reqQ' \in Seq(ReqOps) /\ indQ' \in Seq(IndOps) /\ writeQ' \in Seq(WriteOps)
    BY DEF TypeOK, QueueType
  <2> QED BY <2>1, QueueEmpty DEF Shrink
<1>3. ASSUME NEW c \in Chan, chanQ'[c] # <<>>
      PROVE  chanQ[c] # <<>>
  <2>1. chanQ[c] \in Seq(ChanOps) /\ chanQ'[c] \in Seq(ChanOps)
    BY DEF TypeOK, QueueType
  <2> QED BY <1>3, <2>1, QueueEmpty DEF Shrink
<1>4. ASSUME NEW c \in Chan, SlotsStay(c), HasWork(c)'
      PROVE  HasWork(c)
  BY <1>2, <1>3, <1>4 DEF SlotsStay, HasWork
<1> QED BY <1>1, <1>4

-----------------------------------------------------------------------------
(* Main loop callbacks.                                                     *)

LEMMA PopShrinks ==
  ASSUME TypeOK, NEW c \in Chan, pick_next_send_op(c)
  PROVE  Shrink
<1>1. /\ chanQ[c] \in Seq(ChanOps) /\ chanQ \in [Chan -> Seq(ChanOps)]
      /\ reqQ \in Seq(ReqOps) /\ indQ \in Seq(IndOps) /\ writeQ \in Seq(WriteOps)
  BY DEF TypeOK, QueueType
<1>2. CASE PicksChan(c) /\ chanQ' = [chanQ EXCEPT ![c] = Tail(@)]
           /\ UNCHANGED <<reqQ, indQ, writeQ>>
  <2>1. InSeq(Tail(chanQ[c])) \subseteq InSeq(chanQ[c])
    BY <1>1, <1>2, TailKeeps DEF PicksChan
  <2>2. \A k \in Chan : chanQ'[k] = IF k = c THEN Tail(chanQ[c]) ELSE chanQ[k]
    BY <1>1, <1>2
  <2> QED BY <1>2, <2>1, <2>2 DEF Shrink
<1>3. CASE PicksWrite(c) /\ writeQ' = Tail(writeQ) /\ UNCHANGED <<chanQ, reqQ, indQ>>
  <2>1. InSeq(writeQ') \subseteq InSeq(writeQ)
    BY <1>1, <1>3, TailKeeps DEF PicksWrite, Fits
  <2> QED BY <1>3, <2>1 DEF Shrink
<1>4. CASE PicksReq(c) /\ reqQ' = Tail(reqQ) /\ UNCHANGED <<chanQ, indQ, writeQ>>
  <2>1. InSeq(reqQ') \subseteq InSeq(reqQ)
    BY <1>1, <1>4, TailKeeps DEF PicksReq, Fits
  <2> QED BY <1>4, <2>1 DEF Shrink
<1>5. CASE PicksInd(c) /\ indQ' = Tail(indQ) /\ UNCHANGED <<chanQ, reqQ, writeQ>>
  <2>1. InSeq(indQ') \subseteq InSeq(indQ)
    BY <1>1, <1>5, TailKeeps DEF PicksInd, Fits
  <2> QED BY <1>5, <2>1 DEF Shrink
<1> QED BY <1>2, <1>3, <1>4, <1>5 DEF pick_next_send_op

LEMMA CalmWrite ==
  ASSUME TypeOK, TypeOK', WakeInv, NEW c \in Chan, can_write_data(c)
  PROVE  Calm
<1> DEFINE op == Picked(c)
<1>1. /\ UNCHANGED <<link, mtu, attMtu, writer, ctl>> /\ ctl = Main
      /\ pick_next_send_op(c) /\ ~PicksNone(c)
      /\ \/ op.kind \in {"REQ", "MTU"} /\ pendReq' = [pendReq EXCEPT ![c] = op]
            /\ pendInd' = pendInd
         \/ op.kind = "IND" /\ pendInd' = [pendInd EXCEPT ![c] = op]
            /\ pendReq' = pendReq
         \/ UNCHANGED <<pendReq, pendInd>>
  BY DEF can_write_data, chanVars, pendVars
<1>2. op.kind = "MTU" => op \in InSeq(chanQ[c])
  <2>1. PicksChan(c) => op \in InSeq(chanQ[c])
    BY PickedType, TailKeeps DEF TypeOK, QueueType, PicksChan
  <2>2. ~PicksChan(c) => op.kind # "MTU"
    BY <1>1, PickedType DEF PicksNone, WriteOps, Commands, ReqOps, IndOps, Ops, RspOp
  <2> QED BY <2>1, <2>2
<1>3. Shrink
  BY <1>1, PopShrinks
<1>4. /\ pendReq \in [Chan -> Ops({"REQ", "MTU"}) \cup {NoOp}]
      /\ pendInd \in [Chan -> Ops({"IND"}) \cup {NoOp}]
  BY DEF TypeOK, PendType
<1> HIDE DEF op
<1>5. \A k \in Chan : SlotsStay(k)
  BY <1>1, <1>4 DEF SlotsStay, NoOp
<1>6. NoNewMtu
  BY <1>1, <1>2, <1>3, <1>4 DEF NoNewMtu, HoldsMtu, Shrink
<1>7. Closing /\ CtlInv'
  BY <1>1 DEF Closing, CtlInv, Main
<1>8. \A k \in Chan : Woken(k)
  BY <1>1, <1>3, <1>5, ShrinkWork DEF Woken, InRsp, Main
<1> QED BY <1>3, <1>6, <1>7, <1>8, ShrinkWork DEF Calm

LEMMA CalmIdle ==
  ASSUME TypeOK, TypeOK', WakeInv, NEW c \in Chan, can_write_data_idle(c)
  PROVE  Calm
<1>1. /\ UNCHANGED <<link, mtu, attMtu, chanQ, reqQ, indQ, writeQ, pendReq, pendInd, ctl>>
      /\ ctl = Main /\ PicksNone(c) /\ writer' = [writer EXCEPT ![c] = FALSE]
  BY DEF can_write_data_idle, chanVars, queueVars, pendVars
<1>2. mtu[c] = attMtu => ~HasWork(c)
  <2>1. /\ reqQ # <<>> => Head(reqQ) \in SharedOps
        /\ indQ # <<>> => Head(indQ) \in SharedOps
        /\ writeQ # <<>> => Head(writeQ) \in SharedOps
    BY TailKeeps DEF SharedOps, TypeOK, QueueType
  <2> QED BY <1>1, <2>1 DEF WakeInv, SizeInv, PicksNone, PicksChan, PicksWrite,
                            PicksReq, PicksInd, Fits, HasWork
<1>3. \A k \in Chan : Woken(k)
  BY <1>1, <1>2 DEF Woken, HasWork, InRsp, TypeOK, FlagType
<1> QED BY <1>1, <1>3 DEF Calm, Closing, SmallNew, SharedOps, NoNewMtu, HoldsMtu,
                          CtlInv, Main

LEMMA CalmWriteFails ==
  ASSUME TypeOK, TypeOK', WakeInv, NEW c \in Chan,
         can_write_data_fails(c) \/ watch_callback_error(c)
  PROVE  Calm
<1>1. /\ UNCHANGED <<link, mtu, attMtu, pendReq, pendInd, ctl>> /\ ctl = Main
      /\ link[c] # "up" /\ \A k \in Chan \ {c} : writer'[k] = writer[k]
  BY DEF can_write_data_fails, watch_callback_error, chanVars, pendVars, TypeOK, FlagType
<1>2. Shrink
  BY PopShrinks DEF can_write_data_fails, watch_callback_error, queueVars, Shrink
<1>3. \A k \in Chan : Woken(k)
  BY <1>1, <1>2, ShrinkWork DEF Woken, SlotsStay, InRsp, Main
<1>4. NoNewMtu
  BY <1>1, <1>2 DEF NoNewMtu, HoldsMtu, Shrink
<1> QED BY <1>1, <1>2, <1>3, <1>4, ShrinkWork DEF Calm, Closing, CtlInv, Main

\* wakeup_writer and wakeup_chan_writer do what they are for.
LEMMA WakeupFacts ==
  ASSUME TypeOK, TypeOK'
  PROVE  /\ wakeup_writer => \A k \in Chan : Woken(k)
         /\ \A c \in Chan : wakeup_chan_writer(c) =>
              /\ Woken(c)
              /\ \A k \in Chan : k # c => writer'[k] = writer[k]
<1>1. wakeup_writer => \A k \in Chan : Woken(k)
  BY DEF wakeup_writer, Woken, Attached, HasWork
<1>2. ASSUME NEW c \in Chan, wakeup_chan_writer(c)
      PROVE  Woken(c) /\ \A k \in Chan : k # c => writer'[k] = writer[k]
  <2>1. writer' = [k \in Chan |-> writer[k] \/ (k = c /\ HasWork(c)')]
    BY <1>2, Zenon DEF wakeup_chan_writer, HasWork
  <2>2. writer'[c] = (writer[c] \/ HasWork(c)')
    BY <2>1, Zenon
  <2>3. ASSUME NEW k \in Chan, k # c PROVE writer'[k] = writer[k]
    <3>1. writer'[k] = (writer[k] \/ FALSE)
      BY <2>1, <2>3, Zenon
    <3> QED BY <3>1 DEF TypeOK, FlagType
  <2> QED BY <2>2, <2>3 DEF Woken
<1> QED BY <1>1, <1>2

\* A step that leaves writers, slots and queues alone.
LEMMA CalmStill ==
  ASSUME WakeInv, Closing, CtlInv',
         UNCHANGED <<chanQ, reqQ, indQ, writeQ, pendReq, pendInd, writer>>,
         \A k \in Chan : link'[k] = "up" /\ InRsp(k) => InRsp(k)'
  PROVE  Calm
<1>1. \A k \in Chan : Woken(k)
  BY DEF Woken, HasWork
<1> QED BY <1>1 DEF Calm, SmallNew, SharedOps, NoNewMtu, HoldsMtu

\* A slot that is emptied and the writer of its channel woken.
LEMMA CalmFreed ==
  ASSUME TypeOK, TypeOK', WakeInv, Closing, CtlInv', NEW c \in Chan,
         UNCHANGED <<chanQ, reqQ, indQ, writeQ>>,
         \A k \in Chan \ {c} : pendReq'[k] = pendReq[k] /\ pendInd'[k] = pendInd[k],
         pendReq'[c] \in {NoOp, pendReq[c]},
         link'[c] = "up" => wakeup_chan_writer(c),
         \A k \in Chan \ {c} : /\ writer'[k] = writer[k]
                               /\ link'[k] = "up" /\ InRsp(k) => InRsp(k)'
  PROVE  Calm
<1>1. \A k \in Chan : Woken(k)
  <2>1. Woken(c)
    BY WakeupFacts DEF Woken
  <2> QED BY <2>1 DEF Woken, HasWork
<1>2. NoNewMtu
  BY DEF NoNewMtu, HoldsMtu, NoOp
<1> QED BY <1>1, <1>2 DEF Calm, SmallNew, SharedOps

LEMMA CalmErrorRsp ==
  ASSUME TypeOK, TypeOK', WakeInv, NEW c \in Chan, NEW ecode, handle_error_rsp(c, ecode)
  PROVE  Calm
<1> DEFINE op == [pendReq[c] EXCEPT !.retry = TRUE]
<1>1. /\ UNCHANGED <<link, mtu, attMtu, reqQ, indQ, writeQ, pendInd, ctl>>
      /\ chanQ' = [chanQ EXCEPT ![c] = <<op>> \o @] /\ pendReq[c] # NoOp
      /\ pendReq' = [pendReq EXCEPT ![c] = NoOp] /\ wakeup_chan_writer(c)
  BY DEF handle_error_rsp
<1>2. /\ pendReq[c] \in Ops({"REQ", "MTU"}) /\ chanQ[c] \in Seq(ChanOps)
      /\ chanQ \in [Chan -> Seq(ChanOps)]
      /\ pendReq \in [Chan -> Ops({"REQ", "MTU"}) \cup {NoOp}]
  BY <1>1, PlaceFacts DEF TypeOK, QueueType, PendType
<1>3. op \in Ops({"REQ", "MTU"}) /\ op \in ChanOps /\ op.kind = pendReq[c].kind
  BY <1>2 DEF Ops, ChanOps
<1> HIDE DEF op
<1>4. InSeq(<<op>> \o chanQ[c]) = {op} \cup InSeq(chanQ[c])
  <2>1. /\ DOMAIN (<<op>> \o chanQ[c]) = 1 .. Len(chanQ[c]) + 1
        /\ (<<op>> \o chanQ[c])[1] = op
        /\ \A i \in 2 .. Len(chanQ[c]) + 1 : (<<op>> \o chanQ[c])[i] = chanQ[c][i - 1]
        /\ Len(chanQ[c]) \in Nat /\ DOMAIN chanQ[c] = 1 .. Len(chanQ[c])
    BY <1>2, <1>3, PushFacts
  <2>2. \A i \in DOMAIN chanQ[c] : /\ i + 1 \in 2 .. Len(chanQ[c]) + 1
                                   /\ (<<op>> \o chanQ[c])[i + 1] = chanQ[c][i]
    BY <2>1
  <2>3. \A i \in 2 .. Len(chanQ[c]) + 1 : i - 1 \in DOMAIN chanQ[c]
    BY <2>1
  <2> QED BY <2>1, <2>2, <2>3 DEF InSeq
<1>5. NoNewMtu
  <2>1. ASSUME NEW k \in Chan, HoldsMtu(k)', k = c PROVE HoldsMtu(k)
    <3>1. pendReq'[c] = NoOp /\ chanQ'[c] = <<op>> \o chanQ[c]
      BY <1>1, <1>2
    <3>2. \E o \in InSeq(chanQ'[c]) : o.kind = "MTU"
      BY <2>1, <3>1 DEF HoldsMtu, NoOp
    <3> QED BY <1>3, <1>4, <2>1, <3>1, <3>2 DEF HoldsMtu
  <2>2. ASSUME NEW k \in Chan, HoldsMtu(k)', k # c PROVE HoldsMtu(k)
    BY <1>1, <1>2, <2>2 DEF HoldsMtu
  <2> QED BY <2>1, <2>2 DEF NoNewMtu
<1>6. \A k \in Chan : Woken(k)
  <2>1. Woken(c) /\ \A k \in Chan : k # c => writer'[k] = writer[k]
    BY <1>1, WakeupFacts
  <2> QED BY <1>1, <1>2, <2>1 DEF Woken, HasWork, InRsp
<1> QED BY <1>1, <1>5, <1>6 DEF Calm, Closing, SmallNew, SharedOps, WakeInv, CtlInv,
                                Attached

LEMMA CalmHandleRsp ==
  ASSUME TypeOK, TypeOK', WakeInv, NEW c \in Chan, NEW ans, handle_rsp(c, ans),
         c \in Attached, ctl = Main
  PROVE  Calm
<1>1. link \in [Chan -> {"new", "up", "down", "shut", "gone"}]
      /\ pendReq \in [Chan -> Ops({"REQ", "MTU"}) \cup {NoOp}]
  BY DEF TypeOK, ChanType, PendType
<1>2. CASE io_shutdown(c) /\ UNCHANGED <<mtu, attMtu, chanQ, reqQ, indQ, writeQ,
                                         pendReq, pendInd, writer, ctl>>
  <2>1. Closing
    BY <1>1, <1>2 DEF Closing, io_shutdown, Attached
  <2> QED BY <1>2, <2>1, CalmStill DEF CtlInv, Main, InRsp
<1>3. CASE handle_error_rsp(c, ans)
  BY <1>3, CalmErrorRsp
<1>4. CASE ctl' = In("rsp", c, TRUE) /\ UNCHANGED <<chanVars, queueVars, pendVars, writer>>
  <2>1. Closing
    BY <1>4 DEF Closing, chanVars
  <2>2. CtlInv'
    BY <1>4 DEF CtlInv, In, Attached, chanVars
  <2> QED BY <1>4, <2>1, <2>2, CalmStill DEF Main, InRsp, queueVars, pendVars
<1>5. CASE /\ pendReq' = [pendReq EXCEPT ![c] = NoOp] /\ wakeup_chan_writer(c)
           /\ UNCHANGED <<chanVars, queueVars, pendInd, ctl>>
  <2>1. Closing /\ CtlInv'
    BY <1>5 DEF Closing, chanVars, CtlInv, Main
  <2>2. \A k \in Chan : k # c => writer'[k] = writer[k]
    BY <1>5, WakeupFacts
  <2>3. /\ \A k \in Chan \ {c} : pendReq'[k] = pendReq[k] /\ pendInd'[k] = pendInd[k]
        /\ pendReq'[c] = NoOp
    BY <1>1, <1>5
  <2> QED BY <1>5, <2>1, <2>2, <2>3, CalmFreed DEF queueVars, InRsp, Main
<1> QED BY <1>2, <1>3, <1>4, <1>5 DEF handle_rsp, queueVars, pendVars

LEMMA CalmHandleConf ==
  ASSUME TypeOK, TypeOK', WakeInv, NEW c \in Chan, handle_conf(c),
         c \in Attached, ctl = Main
  PROVE  Calm
<1>1. link \in [Chan -> {"new", "up", "down", "shut", "gone"}]
      /\ pendInd \in [Chan -> Ops({"IND"}) \cup {NoOp}]
  BY DEF TypeOK, ChanType, PendType
<1>2. CASE io_shutdown(c) /\ UNCHANGED <<mtu, attMtu, chanQ, reqQ, indQ, writeQ,
                                         pendReq, pendInd, writer, ctl>>
  <2>1. Closing
    BY <1>1, <1>2 DEF Closing, io_shutdown, Attached
  <2> QED BY <1>2, <2>1, CalmStill DEF CtlInv, Main, InRsp
<1>3. CASE ctl' = In("conf", c, TRUE) /\ UNCHANGED <<chanVars, queueVars, pendVars, writer>>
  <2>1. Closing /\ CtlInv'
    BY <1>3 DEF Closing, chanVars, CtlInv, In
  <2> QED BY <1>3, <2>1, CalmStill DEF Main, InRsp, queueVars, pendVars
<1>4. CASE /\ pendInd' = [pendInd EXCEPT ![c] = NoOp] /\ wakeup_chan_writer(c)
           /\ UNCHANGED <<chanVars, queueVars, pendReq, ctl>>
  <2>1. Closing /\ CtlInv'
    BY <1>4 DEF Closing, chanVars, CtlInv, Main
  <2>2. \A k \in Chan : k # c => writer'[k] = writer[k]
    BY <1>4, WakeupFacts
  <2>3. /\ \A k \in Chan \ {c} : pendReq'[k] = pendReq[k] /\ pendInd'[k] = pendInd[k]
        /\ pendReq'[c] = pendReq[c]
    BY <1>1, <1>4
  <2> QED BY <1>4, <2>1, <2>2, <2>3, CalmFreed DEF queueVars, InRsp, Main
<1> QED BY <1>2, <1>3, <1>4 DEF handle_conf, queueVars, pendVars

LEMMA CalmRead ==
  ASSUME TypeOK, TypeOK', WakeInv, NEW c \in Chan,
         read_rsp(c) \/ read_conf(c) \/ read_stray(c)
  PROVE  Calm
<1>1. c \in Attached /\ ctl = Main
  BY DEF read_rsp, read_conf, read_stray, Readable
<1>2. \/ \E ans : handle_rsp(c, ans)
      \/ handle_conf(c)
      \/ io_shutdown(c) /\ UNCHANGED <<mtu, attMtu, chanQ, reqQ, indQ, writeQ,
                                       pendReq, pendInd, writer, ctl>>
  BY DEF read_rsp, read_conf, read_stray, queueVars, pendVars
<1>3. CASE io_shutdown(c) /\ UNCHANGED <<mtu, attMtu, chanQ, reqQ, indQ, writeQ,
                                         pendReq, pendInd, writer, ctl>>
  <2>1. Closing
    BY <1>1, <1>3 DEF Closing, io_shutdown, Attached, TypeOK, ChanType
  <2> QED BY <1>1, <1>3, <2>1, CalmStill DEF CtlInv, Main, InRsp
<1> QED BY <1>1, <1>2, <1>3, CalmHandleRsp, CalmHandleConf

\* A PDU is put into a queue, and the writers are woken.
LEMMA CalmQueued ==
  ASSUME TypeOK, TypeOK', WakeInv, Closing, CtlInv',
         UNCHANGED <<pendReq, pendInd>>, SmallNew,
         \A k \in Chan : \A o \in InSeq(chanQ'[k]) :
            o \in InSeq(chanQ[k]) \/ o.kind # "MTU" \/ IsOldest(k),
         \/ wakeup_writer
         \/ \E c \in Chan : /\ wakeup_chan_writer(c) /\ UNCHANGED <<reqQ, indQ, writeQ>>
                            /\ \A k \in Chan \ {c} : chanQ'[k] = chanQ[k],
         \A k \in Chan : link'[k] = "up" /\ InRsp(k) => InRsp(k)'
  PROVE  Calm
<1>1. NoNewMtu
  BY DEF NoNewMtu, HoldsMtu
<1>2. \A k \in Chan : Woken(k)
  <2>1. CASE wakeup_writer
    BY <2>1, WakeupFacts
  <2>2. ASSUME NEW c \in Chan, wakeup_chan_writer(c), UNCHANGED <<reqQ, indQ, writeQ>>,
               \A k \in Chan \ {c} : chanQ'[k] = chanQ[k]
        PROVE  \A k \in Chan : Woken(k)
    <3>1. Woken(c) /\ \A k \in Chan : k # c => writer'[k] = writer[k]
      BY <2>2, WakeupFacts
    <3> QED BY <2>2, <3>1 DEF Woken, HasWork
  <2> QED BY <2>1, <2>2
<1> QED BY <1>1, <1>2 DEF Calm

LEMMA CalmRefused ==
  ASSUME TypeOK, TypeOK', WakeInv, Closing, CtlInv', ctl = Main,
         UNCHANGED <<pendReq, pendInd>>, respond_not_supported
  PROVE  Calm
<1>1. writeQ \in Seq(WriteOps) /\ RspOp("RSP") \in WriteOps
  BY DEF TypeOK, QueueType, WriteOps, Commands
<1>2. InSeq(writeQ') = InSeq(writeQ) \cup {RspOp("RSP")}
  BY <1>1, AppendKeeps DEF respond_not_supported
<1>3. RspOp("RSP").len <= attMtu
  BY DEF TypeOK, ChanType, Lens, RspOp
<1>4. SmallNew
  BY <1>2, <1>3 DEF SmallNew, SharedOps, respond_not_supported
<1> QED BY <1>4, CalmQueued DEF respond_not_supported, Main, InRsp

LEMMA CalmReadReq ==
  ASSUME TypeOK, TypeOK', WakeInv, NEW c \in Chan, read_req(c)
  PROVE  Calm
<1>1. /\ UNCHANGED <<mtu, attMtu, pendReq, pendInd, ctl>> /\ ctl = Main
      /\ c \in Attached
  BY DEF read_req, Readable, pendVars
<1>2. CASE io_shutdown(c) /\ UNCHANGED <<queueVars, writer>>
  <2>1. Closing
    BY <1>1, <1>2 DEF Closing, io_shutdown, Attached, TypeOK, ChanType
  <2> QED BY <1>1, <1>2, <2>1, CalmStill DEF CtlInv, Main, InRsp, queueVars
<1>3. CASE UNCHANGED <<link, queueVars, writer>>
  BY <1>1, <1>3, CalmStill DEF Closing, CtlInv, Main, InRsp, queueVars
<1>4. CASE UNCHANGED link /\ respond_not_supported
  BY <1>1, <1>4, CalmRefused DEF Closing, CtlInv, Main
<1> QED BY <1>2, <1>3, <1>4 DEF read_req

LEMMA AppendChan ==
  ASSUME TypeOK, NEW c \in Chan, NEW op \in ChanOps, op.kind # "MTU",
         chanQ' = [chanQ EXCEPT ![c] = Append(@, op)]
  PROVE  /\ \A k \in Chan : \A o \in InSeq(chanQ'[k]) : o \in InSeq(chanQ[k]) \/ o.kind # "MTU"
         /\ \A k \in Chan \ {c} : chanQ'[k] = chanQ[k]
<1>1. chanQ \in [Chan -> Seq(ChanOps)] /\ chanQ[c] \in Seq(ChanOps)
  BY DEF TypeOK, QueueType
<1>2. InSeq(Append(chanQ[c], op)) = InSeq(chanQ[c]) \cup {op}
  BY <1>1, AppendKeeps
<1>3. \A k \in Chan : chanQ'[k] = IF k = c THEN Append(chanQ[c], op) ELSE chanQ[k]
  BY <1>1
<1> QED BY <1>2, <1>3

LEMMA CalmReadUnasked ==
  ASSUME TypeOK, TypeOK', WakeInv, NEW c \in Chan, NEW kind, read_unasked(c, kind)
  PROVE  Calm
<1>1. UNCHANGED <<link, mtu, attMtu, pendReq, pendInd, ctl>> /\ ctl = Main
  BY DEF read_unasked, Readable, pendVars, chanVars
<1>2. Closing /\ CtlInv'
  BY <1>1 DEF Closing, CtlInv, Main
<1>3. CASE respond_not_supported
  BY <1>1, <1>2, <1>3, CalmRefused
<1>4. CASE /\ chanQ' = [chanQ EXCEPT ![c] = Append(@, RspOp("CONF"))]
           /\ UNCHANGED <<reqQ, indQ, writeQ>> /\ wakeup_chan_writer(c)
  <2>1. RspOp("CONF") \in ChanOps /\ RspOp("CONF").kind # "MTU"
    BY DEF ChanOps, RspOp
  <2>2. SmallNew
    BY <1>4 DEF SmallNew, SharedOps
  <2> QED BY <1>1, <1>2, <1>4, <2>1, <2>2, AppendChan, CalmQueued DEF Main, InRsp
<1>5. CASE UNCHANGED <<queueVars, writer>>
  BY <1>1, <1>2, <1>5, CalmStill DEF Main, InRsp, queueVars
<1> QED BY <1>3, <1>4, <1>5 DEF read_unasked

LEMMA CalmTimeout ==
  ASSUME TypeOK, TypeOK', WakeInv, NEW c \in Chan, timeout_cb(c) \/ disconnect_cb(c)
  PROVE  Calm
<1>1. /\ UNCHANGED <<mtu, attMtu, chanQ, reqQ, indQ, writeQ, writer>> /\ ctl = Main
      /\ c \in Attached
      /\ \/ link' = [link EXCEPT ![c] = "shut"] /\ ctl' = ctl
         \/ link' = [link EXCEPT ![c] = "gone"] /\ ctl' = In("detach", c, pendReq[c].live)
      /\ \/ pendReq' = pendReq
         \/ pendReq' = [pendReq EXCEPT ![c] = NoOp]
      /\ \/ pendInd' = pendInd
         \/ pendInd' = [pendInd EXCEPT ![c] = NoOp]
  BY DEF timeout_cb, disconnect_cb, io_shutdown, queueVars, Attached
<1>2. /\ link \in [Chan -> {"new", "up", "down", "shut", "gone"}]
      /\ pendReq \in [Chan -> Ops({"REQ", "MTU"}) \cup {NoOp}]
      /\ pendInd \in [Chan -> Ops({"IND"}) \cup {NoOp}]
  BY DEF TypeOK, ChanType, PendType
<1>3. link'[c] # "up" /\ Closing /\ CtlInv'
  BY <1>1, <1>2 DEF Closing, CtlInv, Main, In, Attached
<1>4. /\ \A k \in Chan \ {c} : pendReq'[k] = pendReq[k] /\ pendInd'[k] = pendInd[k]
      /\ pendReq'[c] \in {NoOp, pendReq[c]}
  BY <1>1, <1>2
<1> QED BY <1>1, <1>3, <1>4, CalmFreed DEF InRsp, Main

\* Only entries taken away; slots stay full or empty, with what they hold.
LEMMA CalmShrink ==
  ASSUME TypeOK, TypeOK', WakeInv, Closing, CtlInv', Shrink,
         \A k \in Chan : SlotsStay(k) /\ pendReq'[k].kind = pendReq[k].kind,
         \A k \in Chan : writer'[k] = writer[k] \/ Woken(k),
         \A k \in Chan : link'[k] = "up" /\ InRsp(k) => InRsp(k)'
  PROVE  Calm
<1>1. NoNewMtu
  BY DEF NoNewMtu, HoldsMtu, Shrink
<1>2. \A k \in Chan : Woken(k)
  BY ShrinkWork DEF Woken
<1> QED BY <1>1, <1>2, ShrinkWork DEF Calm

-----------------------------------------------------------------------------
(* What goes on once callbacks return.                                      *)

LEMMA CalmBearerFree ==
  ASSUME TypeOK, TypeOK', WakeInv, bt_att_free, ctl' = Main
  PROVE  Calm
<1>1. \A k \in Chan : link'[k] # "up"
  BY DEF bt_att_free, Attached, TypeOK, ChanType
<1>2. Closing
  BY DEF bt_att_free, Closing, Attached, TypeOK, ChanType
<1>3. NoNewMtu
  BY DEF bt_att_free, NoNewMtu, HoldsMtu, NoOp, InSeq
<1>4. SmallNew
  BY DEF bt_att_free, SmallNew, SharedOps, InSeq
<1> QED BY <1>1, <1>2, <1>3, <1>4 DEF Calm, Woken, CtlInv, Main

LEMMA CalmEndCallback ==
  ASSUME TypeOK, TypeOK', WakeInv, end_callback
  PROVE  Calm
<1> DEFINE c == ctl.chan
<1>1. c \in Chan /\ ctl' = Main
  BY DEF end_callback, TypeOK, FlagType
<1>2. CASE bt_att_free
  BY <1>1, <1>2, CalmBearerFree
<1>3. CASE /\ wakeup_chan_writer(c) /\ UNCHANGED <<link, mtu, attMtu, queueVars>>
           /\ \/ pendReq' = [pendReq EXCEPT ![c] = NoOp] /\ pendInd' = pendInd
              \/ pendInd' = [pendInd EXCEPT ![c] = NoOp] /\ pendReq' = pendReq
  <2>1. Closing /\ CtlInv'
    BY <1>1, <1>3 DEF Closing, CtlInv, Main
  <2>2. \A k \in Chan : k # c => writer'[k] = writer[k]
    BY <1>1, <1>3, WakeupFacts
  <2>3. /\ \A k \in Chan \ {c} : pendReq'[k] = pendReq[k] /\ pendInd'[k] = pendInd[k]
        /\ pendReq'[c] \in {NoOp, pendReq[c]}
    BY <1>1, <1>3 DEF TypeOK, PendType
  <2>4. \A k \in Chan \ {c} : ~InRsp(k)
    BY DEF InRsp
  <2> QED BY <1>1, <1>3, <2>1, <2>2, <2>3, <2>4, CalmFreed DEF queueVars
<1> QED BY <1>2, <1>3 DEF end_callback

LEMMA CalmDetach ==
  ASSUME TypeOK, TypeOK', WakeInv, detach_chan
  PROVE  Calm
<1> DEFINE c == ctl.chan
<1>1. /\ UNCHANGED <<link, mtu, attMtu, pendReq, indQ, writeQ>> /\ ctl.pc = "detach"
      /\ chanQ' = [chanQ EXCEPT ![c] = <<>>] /\ writer' = [writer EXCEPT ![c] = FALSE]
      /\ pendInd' = [pendInd EXCEPT ![c] = NoOp]
      /\ reqQ' = reqQ \/ reqQ' = <<>>
      /\ ctl' = Main \/ ctl' = In("flush_req", c, pendInd[c].live)
  BY DEF detach_chan, chanVars
<1>2. link[c] = "gone"
  BY <1>1 DEF WakeInv, CtlInv
<1>3. /\ \A k \in Chan : chanQ'[k] = IF k = c THEN <<>> ELSE chanQ[k]
      /\ \A k \in Chan \ {c} : writer'[k] = writer[k] /\ pendInd'[k] = pendInd[k]
  BY <1>1 DEF TypeOK, QueueType, FlagType, PendType
<1>4. Shrink
  BY <1>1, <1>3 DEF Shrink, InSeq
<1>5. Closing /\ CtlInv'
  BY <1>1 DEF Closing, CtlInv, Main, In
<1>6. NoNewMtu
  BY <1>1, <1>4 DEF NoNewMtu, HoldsMtu, Shrink
<1>7. \A k \in Chan : Woken(k)
  <2>1. Woken(c)
    BY <1>1, <1>2 DEF Woken
  <2>2. ASSUME NEW k \in Chan, k # c
        PROVE  Woken(k)
    <3>1. HasWork(k)' => HasWork(k)
      BY <1>1, <1>3, <1>4, <2>2, ShrinkWork DEF SlotsStay
    <3> QED BY <1>1, <1>3, <2>2, <3>1 DEF Woken, InRsp
  <2> QED BY <2>1, <2>2
<1> QED BY <1>4, <1>5, <1>6, <1>7, ShrinkWork DEF Calm

LEMMA CalmFlush ==
  ASSUME TypeOK, TypeOK', WakeInv, disc_att_send_op \/ flush_next
  PROVE  Calm
<1>1. UNCHANGED <<link, mtu, attMtu, chanQ, reqQ, pendReq, pendInd, writer>> /\ Flushing
  BY DEF disc_att_send_op, flush_next, chanVars, queueVars, pendVars
<1>2. /\ indQ' = indQ \/ indQ' = <<>>
      /\ writeQ' = writeQ \/ writeQ' = <<>>
  BY DEF disc_att_send_op, flush_next, queueVars
<1>3. ctl'.pc \notin {"rsp", "detach"}
  <2>1. \/ ctl' = [ctl EXCEPT !.user = Head(flush).live]
        \/ ctl' = [ctl EXCEPT !.pc = "flush_ind", !.user = FALSE]
        \/ ctl' = [ctl EXCEPT !.pc = "flush_write", !.user = FALSE]
        \/ ctl' = Main
    BY DEF disc_att_send_op, flush_next
  <2>2. ctl \in [pc : {"main", "rsp", "conf", "detach", "flush_req", "flush_ind",
                      "flush_write"}, chan : Chan, user : BOOLEAN, again : BOOLEAN]
    BY DEF TypeOK, FlagType
  <2>3. ctl'.pc \in {ctl.pc, "flush_ind", "flush_write", "main"}
    BY <2>1, <2>2, MainFacts
  <2> QED BY <1>1, <2>3 DEF Flushing
<1>4. Shrink
  BY <1>1, <1>2 DEF Shrink, InSeq
<1> QED BY <1>1, <1>3, <1>4, CalmShrink DEF Closing, CtlInv, SlotsStay, InRsp, Flushing

-----------------------------------------------------------------------------
(* The user and the peer.                                                   *)

LEMMA OldestFacts ==
  ASSUME TypeOK, OrderInv, Attached # {}
  PROVE  /\ Oldest \in Attached /\ Oldest \in Chan /\ IsOldest(Oldest)
         /\ \A c \in Attached : Oldest <= c
<1>1. NChans \in Nat /\ Attached \subseteq 1 .. NChans
  BY BearerAssumption DEF Attached, Chan
<1>2. \E c \in Attached : \A d \in Attached : c <= d
  BY <1>1, FirstPlace
<1>3. Oldest \in Attached /\ \A d \in Attached : Oldest <= d
  BY <1>2, Zenon DEF Oldest
<1>4. ASSUME NEW d \in Chan, d < Oldest
      PROVE  link[d] = "gone"
  <2>1. d \notin Attached
    BY <1>1, <1>3, <1>4 DEF Chan
  <2>2. link[d] # "new"
    BY <1>3, <1>4 DEF OrderInv, Attached
  <2> QED BY <2>1, <2>2 DEF Attached, TypeOK, ChanType
<1> QED BY <1>3, <1>4 DEF IsOldest, Attached

LEMMA CalmSend ==
  ASSUME TypeOK, TypeOK', WakeInv, NEW kind \in ClientKinds, NEW len \in Lens,
         NEW retry \in BOOLEAN, bt_att_send(kind, len, retry)
  PROVE  Calm
<1> DEFINE op == [id |-> nextId, leg |-> 1, kind |-> kind, len |-> len,
                  retry |-> retry, live |-> kind # "CMD"]
<1>1. /\ UNCHANGED <<link, mtu, attMtu, pendReq, pendInd, ctl>> /\ wakeup_writer
      /\ Attached # {} /\ nextId <= MaxId /\ len <= attMtu
      /\ \/ chanQ' = [chanQ EXCEPT ![Oldest] = Append(@, op)] /\ kind = "MTU"
            /\ UNCHANGED <<reqQ, indQ, writeQ>>
         \/ kind = "REQ" /\ reqQ' = Append(reqQ, op) /\ UNCHANGED <<chanQ, indQ, writeQ>>
         \/ kind = "IND" /\ indQ' = Append(indQ, op) /\ UNCHANGED <<chanQ, reqQ, writeQ>>
         \/ kind = "CMD" /\ writeQ' = Append(writeQ, op) /\ UNCHANGED <<chanQ, reqQ, indQ>>
  BY DEF bt_att_send, chanVars, pendVars
<1>2. kind = "CMD" => ~op.live
  OBVIOUS
<1>3. op \in Ops({kind}) /\ op.len = len
  <2>1. nextId \in Ids
    BY <1>1 DEF TypeOK, FlagType, Ids
  <2>2. (kind # "CMD") \in BOOLEAN
    OBVIOUS
  <2> HIDE DEF op
  <2>3. op \in Ops({kind}) <=> [id |-> nextId, leg |-> 1, kind |-> kind, len |-> len,
                  retry |-> retry, live |-> kind # "CMD"] \in Ops({kind})
    BY DEF op
  <2>4. 1 \in 1 .. MaxLegs
    BY BearerAssumption
  <2>5. [id |-> nextId, leg |-> 1, kind |-> kind, len |-> len,
                  retry |-> retry, live |-> kind # "CMD"] \in Ops({kind})
    BY <2>1, <2>2, <2>4, Zenon DEF Ops
  <2> QED BY <2>3, <2>5 DEF op
<1>4. /\ chanQ \in [Chan -> Seq(ChanOps)] /\ reqQ \in Seq(ReqOps)
      /\ indQ \in Seq(IndOps) /\ writeQ \in Seq(WriteOps)
  BY DEF TypeOK, QueueType
<1> HIDE DEF op
<1>5. Closing /\ CtlInv'
  BY <1>1 DEF Closing, WakeInv, CtlInv, Attached
<1>6. CASE kind = "MTU" /\ chanQ' = [chanQ EXCEPT ![Oldest] = Append(@, op)]
           /\ UNCHANGED <<reqQ, indQ, writeQ>>
  <2>1. Oldest \in Chan /\ IsOldest(Oldest)
    BY <1>1, OldestFacts DEF WakeInv
  <2>2. \A k \in Chan : chanQ'[k] = IF k = Oldest THEN Append(chanQ[k], op) ELSE chanQ[k]
    BY <1>4, <1>6, <2>1
  <2>3. \A k \in Chan : \A o \in InSeq(chanQ'[k]) : o \in InSeq(chanQ[k]) \/ IsOldest(k)
    BY <2>1, <2>2
  <2>4. SmallNew
    BY <1>6 DEF SmallNew, SharedOps
  <2> QED BY <1>1, <1>5, <2>3, <2>4, CalmQueued DEF InRsp
<1>7. CASE chanQ' = chanQ
  <2>1. SharedOps' \subseteq SharedOps \cup {op}
    <3>1. CASE kind = "REQ" /\ reqQ' = Append(reqQ, op) /\ UNCHANGED <<indQ, writeQ>>
      <4>1. op \in ReqOps
        BY <1>3, <3>1 DEF ReqOps
      <4>2. InSeq(reqQ') = InSeq(reqQ) \cup {op}
        BY <1>4, <3>1, <4>1, AppendKeeps
      <4> QED BY <3>1, <4>2 DEF SharedOps
    <3>2. CASE kind = "IND" /\ indQ' = Append(indQ, op) /\ UNCHANGED <<reqQ, writeQ>>
      <4>1. op \in IndOps
        BY <1>3, <3>2 DEF IndOps
      <4>2. InSeq(indQ') = InSeq(indQ) \cup {op}
        BY <1>4, <3>2, <4>1, AppendKeeps
      <4> QED BY <3>2, <4>2 DEF SharedOps
    <3>3. CASE kind = "CMD" /\ writeQ' = Append(writeQ, op) /\ UNCHANGED <<reqQ, indQ>>
      <4>1. op \in WriteOps
        BY <1>2, <1>3, <3>3 DEF WriteOps, Commands
      <4>2. InSeq(writeQ') = InSeq(writeQ) \cup {op}
        BY <1>4, <3>3, <4>1, AppendKeeps
      <4> QED BY <3>3, <4>2 DEF SharedOps
    <3>4. CASE UNCHANGED <<reqQ, indQ, writeQ>>
      BY <3>4 DEF SharedOps
    <3> QED BY <1>1, <3>1, <3>2, <3>3, <3>4
  <2>2. SmallNew
    BY <1>1, <1>3, <2>1 DEF SmallNew
  <2> QED BY <1>1, <1>5, <1>7, <2>2, CalmQueued DEF InRsp
<1> QED BY <1>1, <1>6, <1>7

LEMMA CalmChanSend ==
  ASSUME TypeOK, TypeOK', WakeInv, NEW c \in Chan, bt_att_chan_send(c)
  PROVE  Calm
<1>1. /\ UNCHANGED <<link, mtu, attMtu, reqQ, indQ, writeQ, pendReq, pendInd, ctl>>
      /\ chanQ' = [chanQ EXCEPT ![c] = Append(@, RspOp("RSP"))]
      /\ wakeup_chan_writer(c)
  BY DEF bt_att_chan_send, chanVars, pendVars
<1>2. Closing /\ CtlInv' /\ SmallNew
  BY <1>1 DEF Closing, WakeInv, CtlInv, Attached, SmallNew, SharedOps
<1>3. RspOp("RSP") \in ChanOps /\ RspOp("RSP").kind # "MTU"
  BY DEF ChanOps, RspOp
<1> QED BY <1>1, <1>2, <1>3, AppendChan, CalmQueued DEF InRsp

LEMMA CalmResend ==
  ASSUME TypeOK, TypeOK', WakeInv, NEW len \in Lens, NEW front \in BOOLEAN,
         bt_att_resend(len, front)
  PROVE  Calm
<1> DEFINE old == pendReq[ctl.chan]
           op == [id |-> old.id, leg |-> legs[old.id] + 1, kind |-> "REQ",
                  len |-> len, retry |-> FALSE, live |-> TRUE]
<1>1. /\ UNCHANGED <<link, mtu, attMtu, chanQ, indQ, writeQ, pendReq, pendInd>>
      /\ ctl' = [ctl EXCEPT !.again = TRUE] /\ wakeup_writer /\ len <= attMtu
      /\ reqQ' = IF front THEN <<op>> \o reqQ ELSE Append(reqQ, op)
      /\ old.kind = "REQ" /\ legs[old.id] < MaxLegs
  BY DEF bt_att_resend, chanVars, pendVars
<1>2. op.len = len /\ op \in ReqOps
  <2>1. old \in Ops({"REQ", "MTU"})
    BY <1>1, PlaceFacts DEF TypeOK, FlagType, NoOp
  <2>2. old.id \in Ids
    BY <2>1 DEF Ops
  <2>3. legs[old.id] + 1 \in 1 .. MaxLegs
    BY <1>1, <2>2, BearerAssumption DEF TypeOK, GhostType
  <2> QED BY <2>2, <2>3 DEF ReqOps, Ops
<1>3. reqQ \in Seq(ReqOps) /\ ctl'.pc = ctl.pc /\ ctl'.chan = ctl.chan
  BY <1>1 DEF TypeOK, QueueType, FlagType
<1> HIDE DEF op
<1>4. InSeq(reqQ') \subseteq InSeq(reqQ) \cup {op}
  <2>1. CASE reqQ' = Append(reqQ, op)
    BY <1>2, <1>3, <2>1, AppendKeeps
  <2>2. CASE reqQ' = <<op>> \o reqQ
    BY <1>2, <1>3, <2>2, PushFacts DEF InSeq
  <2> QED BY <1>1, <2>1, <2>2
<1>5. SmallNew
  BY <1>1, <1>2, <1>4 DEF SmallNew, SharedOps
<1>6. Closing /\ CtlInv'
  BY <1>1, <1>3 DEF Closing, WakeInv, CtlInv, Attached
<1> QED BY <1>1, <1>3, <1>5, <1>6, CalmQueued DEF InRsp

LEMMA MuteSlot ==
  ASSUME TypeOK, NEW c \in Chan
  PROVE  /\ pendReq[c] # NoOp =>
              /\ [pendReq[c] EXCEPT !.live = FALSE] # NoOp
              /\ [pendReq[c] EXCEPT !.live = FALSE].kind = pendReq[c].kind
         /\ pendInd[c] # NoOp => [pendInd[c] EXCEPT !.live = FALSE] # NoOp
<1>1. ASSUME NEW op \in Ops({"REQ", "MTU"})
      PROVE  [op EXCEPT !.live = FALSE] # NoOp /\ [op EXCEPT !.live = FALSE].kind = op.kind
  BY MuteInst DEF Ops
<1>2. ASSUME NEW op \in Ops({"IND"})
      PROVE  [op EXCEPT !.live = FALSE] # NoOp
  BY MuteInst
<1> QED BY <1>1, <1>2, PlaceFacts

LEMMA CalmCancelPending ==
  ASSUME TypeOK, TypeOK', WakeInv, NEW c \in Chan, NEW id \in Ids, cancel_pending(c, id),
         Closing, CtlInv', ctl' = ctl
  PROVE  Calm
<1>1. \A o : o.id = id => o # NoOp
  BY BearerAssumption DEF Ids, NoOp
<1>2. /\ UNCHANGED <<chanQ, reqQ, indQ, writeQ, writer>>
      /\ \/ /\ pendReq' = [pendReq EXCEPT ![c].live = FALSE] /\ pendReq[c] # NoOp
            /\ pendInd' = pendInd
         \/ /\ pendInd' = [pendInd EXCEPT ![c].live = FALSE] /\ pendInd[c] # NoOp
            /\ pendReq' = pendReq
  BY <1>1 DEF cancel_pending, queueVars
<1>3. \A k \in Chan : SlotsStay(k) /\ pendReq'[k].kind = pendReq[k].kind
  BY <1>2, MuteSlot DEF SlotsStay, TypeOK, PendType
<1>4. Shrink
  BY <1>2 DEF Shrink
<1> QED BY <1>2, <1>3, <1>4, CalmShrink DEF InRsp

LEMMA CalmCancelChanQueue ==
  ASSUME TypeOK, TypeOK', WakeInv, NEW c \in Chan, NEW id \in Ids,
         cancel_chan_queue(c, id), Closing, CtlInv', ctl' = ctl
  PROVE  Calm
<1>1. PICK i \in DOMAIN chanQ[c] : chanQ' = [chanQ EXCEPT ![c] = DropAt(@, i)]
  BY DEF cancel_chan_queue, At
<1>2. /\ UNCHANGED <<reqQ, indQ, writeQ, pendReq, pendInd>>
      /\ wakeup_chan_writer(c)
  BY DEF cancel_chan_queue, pendVars
<1>3. \A k \in Chan : writer'[k] = writer[k] \/ Woken(k)
  BY <1>2, WakeupFacts
<1>4. chanQ \in [Chan -> Seq(ChanOps)] /\ chanQ[c] \in Seq(ChanOps)
  BY DEF TypeOK, QueueType
<1>5. InSeq(DropAt(chanQ[c], i)) \subseteq InSeq(chanQ[c])
  <2>1. Len(chanQ[c]) \in Nat /\ i \in 1 .. Len(chanQ[c])
    BY <1>4
  <2>2. \A j \in 1 .. Len(chanQ[c]) - 1 :
           DropAt(chanQ[c], i)[j] = IF j < i THEN chanQ[c][j] ELSE chanQ[c][j + 1]
    BY <1>4, <2>1, DropFacts
  <2>3. DOMAIN DropAt(chanQ[c], i) = 1 .. Len(chanQ[c]) - 1
    BY DEF DropAt
  <2>4. \A j \in 1 .. Len(chanQ[c]) - 1 : j \in DOMAIN chanQ[c] /\ j + 1 \in DOMAIN chanQ[c]
    BY <1>4, <2>1
  <2> QED BY <2>2, <2>3, <2>4 DEF InSeq
<1>6. Shrink
  BY <1>1, <1>2, <1>4, <1>5 DEF Shrink
<1> QED BY <1>2, <1>3, <1>6, CalmShrink DEF SlotsStay, InRsp

\* An entry that leaves a queue or loses its handlers leaves no longer one.
LEMMA CancelledLens ==
  ASSUME NEW kinds, NEW q \in Seq(Ops(kinds) \cup {RspOp("RSP")}), NEW i \in DOMAIN q
  PROVE  /\ \A o \in InSeq(DropAt(q, i)) : o \in InSeq(q)
         /\ \A o \in InSeq(MuteAt(q, i)) : \E p \in InSeq(q) : o.len = p.len
<1>1. Len(q) \in Nat /\ DOMAIN q = 1 .. Len(q)
  OBVIOUS
<1>2. \A o \in InSeq(DropAt(q, i)) : o \in InSeq(q)
  <2>1. \A j \in 1 .. Len(q) - 1 : DropAt(q, i)[j] = IF j < i THEN q[j] ELSE q[j + 1]
    BY <1>1, DropFacts
  <2>2. DOMAIN DropAt(q, i) = 1 .. Len(q) - 1
    BY DEF DropAt
  <2>3. \A j \in 1 .. Len(q) - 1 : j \in DOMAIN q /\ j + 1 \in DOMAIN q
    BY <1>1
  <2> QED BY <2>1, <2>2, <2>3 DEF InSeq
<1>3. \A j \in DOMAIN q : MuteAt(q, i)[j].len = q[j].len
  <2>1. \A j \in DOMAIN q : q[j] \in Ops(kinds) \cup {RspOp("RSP")}
    BY <1>1
  <2>2. [q[i] EXCEPT !.live = FALSE].len = q[i].len
    BY <2>1 DEF Ops, RspOp
  <2>3. \A j \in DOMAIN q : j # i => MuteAt(q, i)[j] = q[j]
    BY DEF MuteAt
  <2>4. MuteAt(q, i)[i] = [q[i] EXCEPT !.live = FALSE]
    BY DEF MuteAt
  <2> QED BY <2>2, <2>3, <2>4
<1>4. DOMAIN MuteAt(q, i) = DOMAIN q
  BY DEF MuteAt
<1> QED BY <1>2, <1>3, <1>4 DEF InSeq

LEMMA CalmCancelShared ==
  ASSUME TypeOK, TypeOK', WakeInv, NEW id \in Ids, cancel_shared(id),
         Closing, CtlInv', ctl' = ctl
  PROVE  Calm
<1>1. UNCHANGED <<chanQ, pendReq, pendInd>> /\ wakeup_writer
  BY DEF cancel_shared, pendVars
<1>2. /\ reqQ \in Seq(Ops({"REQ"}) \cup {RspOp("RSP")})
      /\ indQ \in Seq(Ops({"IND"}) \cup {RspOp("RSP")})
      /\ writeQ \in Seq(Ops({"CMD"}) \cup {RspOp("RSP")})
  <2>1. reqQ \in Seq(ReqOps) /\ indQ \in Seq(IndOps) /\ writeQ \in Seq(WriteOps)
    BY DEF TypeOK, QueueType
  <2>2. /\ ReqOps \subseteq Ops({"REQ"}) \cup {RspOp("RSP")}
        /\ IndOps \subseteq Ops({"IND"}) \cup {RspOp("RSP")}
    BY DEF ReqOps, IndOps
  <2> QED BY <2>1, <2>2, SeqMono DEF WriteOps, Commands
<1>3. SmallNew
  <2>1. CASE \E i \in At(reqQ, id) : /\ reqQ' \in {MuteAt(reqQ, i), DropAt(reqQ, i)}
                                     /\ UNCHANGED <<indQ, writeQ>>
    BY <1>2, <2>1, CancelledLens DEF At, SmallNew, SharedOps, WakeInv, SizeInv
  <2>2. CASE \E i \in At(indQ, id) : /\ indQ' \in {MuteAt(indQ, i), DropAt(indQ, i)}
                                     /\ UNCHANGED <<reqQ, writeQ>>
    BY <1>2, <2>2, CancelledLens DEF At, SmallNew, SharedOps, WakeInv, SizeInv
  <2>3. CASE \E i \in At(writeQ, id) : /\ writeQ' \in {MuteAt(writeQ, i), DropAt(writeQ, i)}
                                       /\ UNCHANGED <<reqQ, indQ>>
    BY <1>2, <2>3, CancelledLens DEF At, SmallNew, SharedOps, WakeInv, SizeInv
  <2> QED BY <2>1, <2>2, <2>3 DEF cancel_shared
<1> QED BY <1>1, <1>3, CalmQueued DEF InRsp

LEMMA CalmCancel ==
  ASSUME TypeOK, TypeOK', WakeInv, NEW id \in Ids, bt_att_cancel(id)
  PROVE  Calm
<1>1. UNCHANGED <<link, mtu, attMtu, ctl>>
  BY DEF bt_att_cancel, chanVars
<1>2. Closing /\ CtlInv'
  BY <1>1 DEF Closing, WakeInv, CtlInv, Attached
<1>3. CASE cancel_missing(id)
  BY <1>1, <1>2, <1>3, CalmStill DEF cancel_missing, queueVars, pendVars, InRsp
<1>4. \/ \E c \in Chan : cancel_pending(c, id) \/ cancel_chan_queue(c, id)
      \/ cancel_shared(id) \/ cancel_missing(id)
  BY DEF bt_att_cancel, Attached
<1> QED BY <1>1, <1>2, <1>3, <1>4, CalmCancelPending, CalmCancelChanQueue, CalmCancelShared

LEMMA CalmCancelAll ==
  ASSUME TypeOK, TypeOK', WakeInv, bt_att_cancel_all
  PROVE  Calm
<1>1. /\ UNCHANGED <<link, mtu, attMtu, chanQ, writer, ctl>>
      /\ reqQ' = <<>> /\ indQ' = <<>> /\ writeQ' = <<>>
      /\ \A k \in Chan : /\ pendReq'[k] \in {pendReq[k], [pendReq[k] EXCEPT !.live = FALSE]}
                         /\ pendReq[k] = NoOp => pendReq'[k] = NoOp
                         /\ pendInd'[k] \in {pendInd[k], [pendInd[k] EXCEPT !.live = FALSE]}
  BY DEF bt_att_cancel_all, chanVars
<1>2. Closing /\ CtlInv' /\ Shrink
  BY <1>1 DEF Closing, WakeInv, CtlInv, Attached, Shrink, InSeq
<1>3. \A k \in Chan : SlotsStay(k) /\ pendReq'[k].kind = pendReq[k].kind
  BY <1>1, MuteSlot DEF SlotsStay
<1> QED BY <1>1, <1>2, <1>3, CalmShrink DEF InRsp

LEMMA CalmUnref ==
  ASSUME TypeOK, TypeOK', WakeInv, bt_att_unref
  PROVE  Calm
<1>1. CASE ctl = Main /\ bt_att_free
  BY <1>1, CalmBearerFree DEF bt_att_unref
<1>2. CASE UNCHANGED <<link, mtu, attMtu, queueVars, pendVars, writer>>
  BY <1>2, CalmStill DEF bt_att_unref, Closing, WakeInv, CtlInv, Attached, InRsp,
                         queueVars, pendVars
<1> QED BY <1>1, <1>2 DEF bt_att_unref

LEMMA CalmPeer ==
  ASSUME TypeOK, TypeOK', WakeInv, NEW c \in Chan, Peer(c)
  PROVE  Calm
<1>1. UNCHANGED <<mtu, attMtu, chanQ, reqQ, indQ, writeQ, pendReq, pendInd, writer, ctl>>
      /\ ctl = Main
  BY DEF Peer, hang_up, peer_answers, peer_sends, peer_strays, chanVars, queueVars, pendVars
<1>2. \/ link[c] = "up" /\ link' = [link EXCEPT ![c] = "down"]
      \/ link' = link
  BY DEF Peer, hang_up, peer_answers, peer_sends, peer_strays, chanVars
<1> QED BY <1>1, <1>2, CalmStill DEF Closing, CtlInv, Main, InRsp, TypeOK, ChanType

LEMMA WakeSetMtu ==
  ASSUME TypeOK, WakeInv, NEW m \in Lens, bt_att_set_mtu(m)
  PROVE  WakeInv'
<1>1. /\ UNCHANGED <<link, chanQ, reqQ, indQ, writeQ, pendReq, pendInd, writer, ctl>>
      /\ ctl.pc = "rsp" /\ pendReq[ctl.chan].kind = "MTU"
      /\ mtu' = [mtu EXCEPT ![Oldest] = m]
      /\ attMtu' = IF m > attMtu THEN m ELSE attMtu
  BY DEF bt_att_set_mtu, queueVars, pendVars
<1>2. ctl.chan \in Attached /\ HoldsMtu(ctl.chan)
  BY <1>1 DEF WakeInv, CtlInv, HoldsMtu
<1>3. Oldest = ctl.chan /\ Oldest \in Chan
  <2>1. /\ Oldest \in Attached /\ Oldest \in Chan /\ Oldest <= ctl.chan
        /\ ctl.chan \in Chan
    BY <1>2, OldestFacts DEF WakeInv, Attached
  <2>2. ~(Oldest < ctl.chan)
    BY <1>2, <2>1 DEF WakeInv, OrderInv, Attached
  <2> QED BY <2>1, <2>2, BearerAssumption DEF Chan
<1>4. mtu \in [Chan -> Nat] /\ attMtu \in Nat /\ m \in Nat
  BY BearerAssumption DEF TypeOK, ChanType, Lens
<1>5. ASSUME NEW k \in Chan
      PROVE  WakeOK(k)' /\ mtu'[k] <= attMtu'
  <2>1. CASE k = Oldest
    BY <1>1, <1>3, <1>4, <2>1 DEF WakeOK, InRsp
  <2>2. CASE k # Oldest
    <3>1. mtu'[k] = mtu[k] /\ mtu[k] <= attMtu
      BY <1>1, <1>4, <2>2 DEF WakeInv, SizeInv
    <3>2. mtu'[k] <= attMtu' /\ (mtu'[k] = attMtu' => mtu[k] = attMtu)
      BY <1>1, <1>4, <3>1
    <3> QED BY <1>1, <3>2 DEF WakeInv, WakeOK, HasWork, InRsp
  <2> QED BY <2>1, <2>2
<1>6. SizeInv'
  <2>1. \A o \in SharedOps : o.len <= attMtu
    BY DEF WakeInv, SizeInv
  <2>2. \A o \in SharedOps : o.len \in Nat
    <3>1. SharedOps \subseteq AnyOps
      BY SharedFacts
    <3>2. \A o \in AnyOps : o.len \in Nat
      BY BearerAssumption DEF AnyOps, UserOps, Ops, Lens, RspOp, NoOp
    <3> QED BY <3>1, <3>2
  <2>3. SharedOps' = SharedOps
    BY <1>1 DEF SharedOps
  <2>4. \A o \in SharedOps : o.len <= attMtu'
    BY <1>1, <1>4, <2>1, <2>2
  <2> QED BY <1>5, <2>3, <2>4 DEF SizeInv
<1>7. OrderInv' /\ CtlInv'
  BY <1>1 DEF WakeInv, OrderInv, HoldsMtu, CtlInv, Attached
<1> QED BY <1>5, <1>6, <1>7 DEF WakeInv

LEMMA WakeAttach ==
  ASSUME TypeOK, TypeOK', WakeInv, NEW c \in Chan, NEW m \in Lens, bt_att_attach_chan(c, m)
  PROVE  WakeInv'
<1>1. /\ UNCHANGED <<chanQ, reqQ, indQ, writeQ, pendReq, pendInd, ctl>> /\ ctl = Main
      /\ link[c] = "new" /\ \A d \in Chan : d < c => link[d] # "new"
      /\ link' = [link EXCEPT ![c] = "up"] /\ mtu' = [mtu EXCEPT ![c] = m]
      /\ attMtu' = (IF m > attMtu THEN m ELSE attMtu) /\ wakeup_chan_writer(c)
  BY DEF bt_att_attach_chan, queueVars, pendVars
<1>2. /\ mtu \in [Chan -> Nat] /\ attMtu \in Nat /\ m \in Nat
      /\ link \in [Chan -> {"new", "up", "down", "shut", "gone"}]
  BY BearerAssumption DEF TypeOK, ChanType, Lens
<1>3. writer' = [k \in Chan |-> writer[k] \/ (k = c /\ HasWork(c)')]
  BY <1>1, Zenon DEF wakeup_chan_writer, HasWork
<1>4. ASSUME NEW k \in Chan
      PROVE  WakeOK(k)' /\ mtu'[k] <= attMtu'
  <2>1. CASE k = c
    <3>1. HasWork(c)' => writer'[c]
      BY <1>3, Zenon
    <3>2. WakeOK(c)'
      BY <3>1, Zenon DEF WakeOK
    <3>3. mtu'[c] <= attMtu'
      BY <1>1, <1>2
    <3> QED BY <2>1, <3>2, <3>3
  <2>2. CASE k # c
    <3>1. mtu'[k] = mtu[k] /\ mtu[k] <= attMtu /\ link'[k] = link[k]
      BY <1>1, <1>2, <2>2 DEF WakeInv, SizeInv
    <3>2. mtu'[k] <= attMtu' /\ (mtu'[k] = attMtu' => mtu[k] = attMtu)
      BY <1>1, <1>2, <3>1
    <3>3. writer'[k] = writer[k]
      BY <1>1, <2>2, WakeupFacts
    <3> QED BY <1>1, <3>1, <3>2, <3>3 DEF WakeInv, WakeOK, HasWork, InRsp
  <2> QED BY <2>1, <2>2
<1>5. SizeInv'
  <2>1. \A o \in SharedOps : o.len <= attMtu
    BY DEF WakeInv, SizeInv
  <2>2. \A o \in SharedOps : o.len \in Nat
    <3>1. SharedOps \subseteq AnyOps
      BY SharedFacts
    <3>2. \A o \in AnyOps : o.len \in Nat
      BY BearerAssumption DEF AnyOps, UserOps, Ops, Lens, RspOp, NoOp
    <3> QED BY <3>1, <3>2
  <2>3. SharedOps' = SharedOps
    BY <1>1 DEF SharedOps
  <2>4. \A o \in SharedOps : o.len <= attMtu'
    BY <1>1, <1>2, <2>1, <2>2
  <2> QED BY <1>4, <2>3, <2>4 DEF SizeInv
<1>6. OrderInv'
  <2>1. \A k \in Chan : HoldsMtu(k)' <=> HoldsMtu(k)
    BY <1>1 DEF HoldsMtu
  <2>2. \A k \in Chan : link'[k] = IF k = c THEN "up" ELSE link[k]
    BY <1>1, <1>2
  <2> QED BY <1>1, <2>1, <2>2 DEF WakeInv, OrderInv
<1>7. CtlInv'
  BY <1>1 DEF CtlInv, Main
<1> QED BY <1>4, <1>5, <1>6, <1>7 DEF WakeInv

-----------------------------------------------------------------------------
(* The theorem.                                                             *)

LEMMA InitWake == Init => WakeInv
<1> SUFFICES ASSUME Init
             PROVE  WakeInv
  OBVIOUS
<1>1. \A c \in Chan : WakeOK(c)
  BY DEF Init, WakeOK, HasWork
<1>2. SizeInv
  BY DEF Init, SizeInv, SharedOps, InSeq
<1>3. OrderInv
  <2>1. \A c, d \in Chan : d < c => link[c] = "new"
    BY BearerAssumption DEF Init, Chan
  <2>2. \A c \in Chan : ~HoldsMtu(c)
    BY DEF Init, HoldsMtu, InSeq, NoOp
  <2> QED BY <2>1, <2>2 DEF OrderInv
<1>4. CtlInv
  BY DEF Init, CtlInv, Main
<1> QED BY <1>1, <1>2, <1>3, <1>4 DEF WakeInv

LEMMA NextWake == TypeOK /\ WakeInv /\ [Next]_vars => WakeInv'
<1> SUFFICES ASSUME TypeOK, WakeInv, [Next]_vars
             PROVE  WakeInv'
  OBVIOUS
<1>1. TypeOK'
  BY NextType
<1>2. ASSUME NEW c \in Chan, MainLoop(c)
      PROVE  WakeInv'
  BY <1>1, <1>2, WakeFrame, CalmWrite, CalmIdle, CalmWriteFails, CalmRead, CalmReadReq,
     CalmReadUnasked, CalmTimeout DEF MainLoop
<1>3. CASE Continue
  BY <1>1, <1>3, WakeFrame, CalmEndCallback, CalmDetach, CalmFlush DEF Continue
<1>4. CASE User
  <2>1. ASSUME NEW kind \in ClientKinds, NEW len \in Lens, NEW retry \in BOOLEAN,
               bt_att_send(kind, len, retry)
        PROVE  WakeInv'
    BY <1>1, <2>1, WakeFrame, CalmSend
  <2>2. ASSUME NEW len \in Lens, NEW front \in BOOLEAN, bt_att_resend(len, front)
        PROVE  WakeInv'
    BY <1>1, <2>2, WakeFrame, CalmResend
  <2>3. ASSUME NEW c \in Chan, NEW m \in Lens, bt_att_attach_chan(c, m)
        PROVE  WakeInv'
    BY <1>1, <2>3, WakeAttach
  <2>4. CASE \/ \E c \in Chan : bt_att_chan_send(c)
             \/ \E id \in Ids : bt_att_cancel(id)
             \/ bt_att_cancel_all \/ bt_att_unref
    BY <1>1, <2>4, WakeFrame, CalmChanSend, CalmCancel, CalmCancelAll, CalmUnref
  <2> QED BY <1>4, <2>1, <2>2, <2>3, <2>4, WakeSetMtu DEF User
<1>5. ASSUME NEW c \in Chan, Peer(c)
      PROVE  WakeInv'
  BY <1>1, <1>5, WakeFrame, CalmPeer
<1>6. CASE UNCHANGED vars
  <2>1. UNCHANGED <<link, mtu, attMtu, chanQ, reqQ, indQ, writeQ, pendReq, pendInd,
                    writer, ctl>>
    BY <1>6 DEF vars, chanVars, queueVars, pendVars
  <2> QED BY <2>1, CalmStill, WakeFrame DEF Closing, WakeInv, CtlInv, Attached, InRsp
<1> QED BY <1>2, <1>3, <1>4, <1>5, <1>6 DEF Next

\* Whatever the peer sends, however channels are attached and lost and whatever is
\* cancelled, resent or timed out: a channel of the largest MTU that is up and has
\* something to send has its write handler (wakeup_chan_writer,
\* wakeup_writer, write_watch_destroy).
THEOREM WakeupsHold == Spec => []NoLostWakeup
<1>1. TypeOK /\ WakeInv => NoLostWakeup
  <2>1. ASSUME WakeInv, ctl = Main, NEW c \in Chan, link[c] = "up", mtu[c] = attMtu,
               ~PicksNone(c)
        PROVE  writer[c]
    <3>1. HasWork(c)
      BY <2>1 DEF PicksNone, PicksChan, PicksWrite, PicksReq, PicksInd, Fits, HasWork
    <3> QED BY <2>1, <3>1 DEF WakeInv, WakeOK, InRsp, Main
  <2> QED BY <2>1 DEF NoLostWakeup
<1> QED BY <1>1, InitType, NextType, InitWake, NextWake, PTL DEF Spec

-----------------------------------------------------------------------------
(* The server side of a channel: in_req is what the peer waits for.         *)

RspAt(q) == {i \in DOMAIN q : q[i].kind = "RSP"}
OneRsp(q) == \A i, j \in RspAt(q) : i = j

\* in_req says that the peer waits for a response, which its handler owes or
\* which is in the channel's own queue: not both, and not twice.
ServeOK(c) ==
    /\ inReq[c] => "REQ" \in peerWait[c]
    /\ "REQ" \in inbox[c] => "REQ" \in peerWait[c] /\ ~inReq[c]
    /\ c \in owed => inReq[c] /\ RspAt(chanQ[c]) = {}
    /\ RspAt(chanQ[c]) # {} => inReq[c]
    /\ OneRsp(chanQ[c])

\* No response takes the way of the shared queue, what the peer sends is of the
\* kinds that are handled, and nobody is blamed.
ServeInv ==
    /\ \A c \in Chan : ServeOK(c) /\ inbox[c] \subseteq PeerKinds
    /\ RspAt(writeQ) = {} /\ blamed = {}

\* What most steps do to a channel's own queue: no response is added.
Fewer(q, r) ==
    /\ RspAt(q) = {} => RspAt(r) = {}
    /\ OneRsp(q) => OneRsp(r)

LEMMA FewerPop ==
  ASSUME NEW S, NEW q \in Seq(S), q # <<>>
  PROVE  /\ Fewer(q, Tail(q))
         /\ OneRsp(q) /\ Head(q).kind = "RSP" => RspAt(Tail(q)) = {}
<1>1. /\ Len(q) \in Nat \ {0} /\ DOMAIN q = 1 .. Len(q) /\ Head(q) = q[1]
      /\ DOMAIN Tail(q) = 1 .. Len(q) - 1
      /\ \A i \in DOMAIN Tail(q) : Tail(q)[i] = q[i + 1]
  OBVIOUS
<1>2. \A i \in RspAt(Tail(q)) : i + 1 \in RspAt(q) /\ i + 1 # 1
  BY <1>1 DEF RspAt
<1>3. \A i, j \in RspAt(Tail(q)) : i \in Nat /\ j \in Nat
  BY <1>1 DEF RspAt
<1>4. Head(q).kind = "RSP" => 1 \in RspAt(q)
  BY <1>1 DEF RspAt
<1> QED BY <1>2, <1>3, <1>4 DEF Fewer, OneRsp

LEMMA FewerPush ==
  ASSUME NEW S, NEW q \in Seq(S), NEW e \in S, e.kind # "RSP"
  PROVE  Fewer(q, <<e>> \o q)
<1> DEFINE r == <<e>> \o q
<1>1. /\ Len(q) \in Nat /\ DOMAIN q = 1 .. Len(q) /\ DOMAIN r = 1 .. Len(q) + 1
      /\ r[1] = e /\ \A i \in 2 .. Len(q) + 1 : r[i] = q[i - 1]
  BY PushFacts
<1> HIDE DEF r
<1>2. \A i \in RspAt(r) : i \in 2 .. Len(q) + 1 /\ i - 1 \in RspAt(q) /\ i \in Nat
  BY <1>1 DEF RspAt
<1>3. Fewer(q, r)
  BY <1>2 DEF Fewer, OneRsp
<1> QED BY <1>3 DEF r

LEMMA FewerAppend ==
  ASSUME NEW S, NEW q \in Seq(S), NEW e
  PROVE  /\ e.kind # "RSP" => Fewer(q, Append(q, e))
         /\ RspAt(q) = {} => OneRsp(Append(q, e))
<1>1. q \in Seq(S \cup {e}) /\ e \in S \cup {e}
  BY SeqMono
<1>2. /\ Len(q) \in Nat /\ DOMAIN q = 1 .. Len(q) /\ DOMAIN Append(q, e) = 1 .. Len(q) + 1
      /\ \A i \in 1 .. Len(q) : Append(q, e)[i] = q[i]
      /\ Append(q, e)[Len(q) + 1] = e
  BY <1>1
<1>3. \A i \in RspAt(Append(q, e)) : i \in RspAt(q) \/ i = Len(q) + 1
  BY <1>2 DEF RspAt
<1>4. e.kind # "RSP" => \A i \in RspAt(Append(q, e)) : i \in RspAt(q)
  BY <1>2 DEF RspAt
<1> QED BY <1>3, <1>4 DEF Fewer, OneRsp

LEMMA FewerDrop ==
  ASSUME NEW S, NEW q \in Seq(S), NEW k \in DOMAIN q
  PROVE  Fewer(q, DropAt(q, k))
<1>1. /\ Len(q) \in Nat /\ DOMAIN q = 1 .. Len(q) /\ k \in 1 .. Len(q)
      /\ DOMAIN DropAt(q, k) = 1 .. Len(q) - 1
      /\ \A i \in 1 .. Len(q) - 1 :
           DropAt(q, k)[i] = IF i < k THEN q[i] ELSE q[i + 1]
  BY DropFacts DEF DropAt
<1>2. \A i \in RspAt(DropAt(q, k)) :
         /\ i \in Nat
         /\ i < k => i \in RspAt(q)
         /\ ~(i < k) => i + 1 \in RspAt(q)
  BY <1>1 DEF RspAt
<1>3. OneRsp(q) => OneRsp(DropAt(q, k))
  BY <1>1, <1>2 DEF OneRsp
<1>4. RspAt(q) = {} => RspAt(DropAt(q, k)) = {}
  BY <1>2
<1> QED BY <1>3, <1>4 DEF Fewer

LEMMA NoRsp ==
  ASSUME NEW q
  PROVE  RspAt(q) = {} <=> \A o \in InSeq(q) : o.kind # "RSP"
  BY DEF RspAt, InSeq

\* A step that leaves the server side of every channel alone.
Serving ==
    /\ UNCHANGED <<inReq, owed, blamed>>
    /\ \A c \in Chan : /\ inbox'[c] \subseteq inbox[c]
                       /\ "REQ" \in peerWait[c] => "REQ" \in peerWait'[c]
                       /\ Fewer(chanQ[c], chanQ'[c])
    /\ RspAt(writeQ) = {} => RspAt(writeQ') = {}

LEMMA ServeFrame ==
  ASSUME ServeInv, Serving
  PROVE  ServeInv'
<1>1. ASSUME NEW c \in Chan
      PROVE  ServeOK(c)' /\ (inbox[c] \subseteq PeerKinds)'
  BY DEF ServeInv, Serving, ServeOK, Fewer
<1> QED BY <1>1 DEF ServeInv, Serving

\* ... one that does not even look at the queues.
LEMMA ServeStill ==
  ASSUME ServeInv, UNCHANGED <<inReq, owed, blamed, chanQ, writeQ>>,
         \A c \in Chan : /\ inbox'[c] \subseteq inbox[c]
                         /\ "REQ" \in peerWait[c] => "REQ" \in peerWait'[c]
  PROVE  ServeInv'
  BY ServeFrame DEF Serving, Fewer

\* Everything of the bearer is cleared.
LEMMA ServeBearerFree ==
  ASSUME ServeInv, bt_att_free
  PROVE  ServeInv'
<1>1. ASSUME NEW c \in Chan
      PROVE  ServeOK(c)' /\ (inbox[c] \subseteq PeerKinds)'
  BY DEF bt_att_free, ServeOK, RspAt, OneRsp
<1> QED BY <1>1 DEF bt_att_free, ServeInv, RspAt

LEMMA ServePop ==
  ASSUME TypeOK, NEW c \in Chan, pick_next_send_op(c)
  PROVE  /\ \A k \in Chan : Fewer(chanQ[k], chanQ'[k])
         /\ \A k \in Chan \ {c} : chanQ'[k] = chanQ[k]
         /\ PicksChan(c) => chanQ'[c] = Tail(chanQ[c]) /\ writeQ' = writeQ
         /\ RspAt(writeQ) = {} => RspAt(writeQ') = {}
<1>1. chanQ[c] \in Seq(ChanOps) /\ chanQ \in [Chan -> Seq(ChanOps)]
  BY DEF TypeOK, QueueType
<1>2. RspAt(writeQ) = {} => RspAt(writeQ') = {}
  BY PopShrinks, NoRsp DEF Shrink
<1>3. CASE PicksChan(c) /\ chanQ' = [chanQ EXCEPT ![c] = Tail(@)] /\ writeQ' = writeQ
  <2>1. \A k \in Chan : chanQ'[k] = IF k = c THEN Tail(chanQ[c]) ELSE chanQ[k]
    BY <1>1, <1>3
  <2>2. Fewer(chanQ[c], Tail(chanQ[c]))
    BY <1>1, <1>3, FewerPop DEF PicksChan
  <2> QED BY <1>2, <1>3, <2>1, <2>2 DEF Fewer
<1>4. CASE ~PicksChan(c) /\ chanQ' = chanQ
  BY <1>2, <1>4 DEF Fewer
<1>5. PicksWrite(c) \/ PicksReq(c) \/ PicksInd(c) => ~PicksChan(c)
  BY DEF PicksWrite, PicksReq, PicksInd
<1> QED BY <1>3, <1>4, <1>5 DEF pick_next_send_op

LEMMA ServeWrite ==
  ASSUME TypeOK, ServeInv, NEW c \in Chan, can_write_data(c)
  PROVE  ServeInv'
<1> DEFINE op == Picked(c)
<1>1. /\ UNCHANGED <<inbox, owed, blamed>> /\ pick_next_send_op(c) /\ ~PicksNone(c)
      /\ \/ /\ UNCHANGED inReq
            /\ peerWait' = peerWait \/ peerWait' = [peerWait EXCEPT ![c] = @ \ {"IND"}]
         \/ /\ op.kind = "RSP" /\ inReq' = [inReq EXCEPT ![c] = FALSE]
            /\ peerWait' = [peerWait EXCEPT ![c] = @ \ {"REQ"}]
  BY DEF can_write_data, InReqAfterRsp
<1>2. CASE /\ UNCHANGED inReq
           /\ peerWait' = peerWait \/ peerWait' = [peerWait EXCEPT ![c] = @ \ {"IND"}]
  <2>1. \A k \in Chan : "REQ" \in peerWait[k] => "REQ" \in peerWait'[k]
    BY <1>2 DEF TypeOK, PeerType
  <2> QED BY <1>1, <1>2, <2>1, ServePop, ServeFrame DEF Serving
<1>3. CASE /\ op.kind = "RSP" /\ inReq' = [inReq EXCEPT ![c] = FALSE]
           /\ peerWait' = [peerWait EXCEPT ![c] = @ \ {"REQ"}]
  <2>1. chanQ[c] \in Seq(ChanOps) /\ writeQ \in Seq(WriteOps)
    BY DEF TypeOK, QueueType
  <2>2. PicksChan(c) /\ op = Head(chanQ[c])
    <3>1. PicksWrite(c) => op \in InSeq(writeQ)
      BY <2>1, PickedType, TailKeeps DEF PicksWrite, Fits
    <3>2. ~PicksWrite(c)
      BY <1>3, <3>1, NoRsp DEF ServeInv
    <3>3. ~PicksReq(c) /\ ~PicksInd(c)
      BY <1>3, PickedType DEF ReqOps, IndOps, Ops
    <3> QED BY <1>1, <3>2, <3>3, PickedType DEF PicksNone
  <2> HIDE DEF op
  <2>3. /\ chanQ'[c] = Tail(chanQ[c]) /\ writeQ' = writeQ
        /\ \A k \in Chan \ {c} : chanQ'[k] = chanQ[k]
    BY <1>1, <2>2, ServePop
  <2>4. RspAt(chanQ'[c]) = {}
    BY <1>3, <2>1, <2>2, <2>3, FewerPop DEF ServeInv, ServeOK, PicksChan
  <2>5. 1 \in RspAt(chanQ[c])
    BY <1>3, <2>1, <2>2 DEF RspAt, PicksChan
  <2>6. inReq[c] /\ c \notin owed /\ "REQ" \notin inbox[c]
    BY <2>5 DEF ServeInv, ServeOK
  <2>7. ServeOK(c)' /\ (inbox[c] \subseteq PeerKinds)'
    BY <1>1, <1>3, <2>4, <2>6 DEF ServeInv, ServeOK, OneRsp, TypeOK, FlagType
  <2>8. ASSUME NEW k \in Chan, k # c
        PROVE  ServeOK(k)' /\ (inbox[k] \subseteq PeerKinds)'
    <3>1. /\ inReq'[k] = inReq[k] /\ peerWait'[k] = peerWait[k] /\ chanQ'[k] = chanQ[k]
          /\ inbox' = inbox /\ owed' = owed
      BY <1>1, <1>3, <2>3, <2>8 DEF TypeOK, FlagType, PeerType
    <3> QED BY <3>1 DEF ServeInv, ServeOK
  <2> QED BY <1>1, <2>3, <2>7, <2>8 DEF ServeInv
<1> QED BY <1>1, <1>2, <1>3

LEMMA ServeWriteFails ==
  ASSUME TypeOK, ServeInv, NEW c \in Chan,
         can_write_data_idle(c) \/ can_write_data_fails(c) \/ watch_callback_error(c)
  PROVE  ServeInv'
<1>1. UNCHANGED <<inReq, owed, blamed, inbox, peerWait>>
  BY DEF can_write_data_idle, can_write_data_fails, watch_callback_error, peerVars, ghostVars
<1>2. CASE pick_next_send_op(c)
  BY <1>1, <1>2, ServePop, ServeFrame DEF Serving
<1>3. CASE UNCHANGED queueVars
  BY <1>1, <1>3, ServeStill DEF queueVars
<1> QED BY <1>2, <1>3 DEF can_write_data_idle, can_write_data_fails, watch_callback_error

LEMMA ServeErrorRsp ==
  ASSUME TypeOK, NEW c \in Chan, NEW ecode, handle_error_rsp(c, ecode)
  PROVE  \A k \in Chan : Fewer(chanQ[k], chanQ'[k])
<1> DEFINE op == [pendReq[c] EXCEPT !.retry = TRUE]
<1>1. chanQ' = [chanQ EXCEPT ![c] = <<op>> \o @] /\ pendReq[c] # NoOp
  BY DEF handle_error_rsp
<1>2. /\ pendReq[c] \in Ops({"REQ", "MTU"}) /\ chanQ[c] \in Seq(ChanOps)
      /\ chanQ \in [Chan -> Seq(ChanOps)]
  BY <1>1, PlaceFacts DEF TypeOK, QueueType
<1>3. op \in ChanOps /\ op.kind # "RSP"
  BY <1>2 DEF Ops, ChanOps
<1> HIDE DEF op
<1>4. Fewer(chanQ[c], <<op>> \o chanQ[c])
  BY <1>2, <1>3, FewerPush
<1>5. \A k \in Chan : chanQ'[k] = IF k = c THEN <<op>> \o chanQ[c] ELSE chanQ[k]
  BY <1>1, <1>2
<1> QED BY <1>4, <1>5 DEF Fewer

LEMMA ServeRead ==
  ASSUME TypeOK, ServeInv, NEW c \in Chan, read_rsp(c) \/ read_conf(c) \/ read_stray(c)
  PROVE  ServeInv'
<1>1. UNCHANGED <<owed, peerWait>> /\ \A k \in Chan : inbox'[k] \subseteq inbox[k]
  BY DEF read_rsp, read_conf, read_stray, TypeOK, PeerType
<1>2. ASSUME NEW ans, handle_rsp(c, ans)
      PROVE  /\ UNCHANGED <<inReq, blamed, writeQ>>
             /\ \A k \in Chan : Fewer(chanQ[k], chanQ'[k])
  <2>1. CASE handle_error_rsp(c, ans)
    BY <2>1, ServeErrorRsp DEF handle_error_rsp, ghostVars
  <2>2. CASE UNCHANGED <<queueVars, inReq, blamed>>
    BY <2>2 DEF queueVars, Fewer
  <2> QED BY <1>2, <2>1, <2>2 DEF handle_rsp, ghostVars
<1>3. CASE UNCHANGED <<inReq, blamed, writeQ, chanQ>>
  BY <1>1, <1>3, ServeStill
<1>4. \/ \E ans : handle_rsp(c, ans)
      \/ UNCHANGED <<inReq, blamed, writeQ, chanQ>>
  BY DEF read_rsp, read_conf, read_stray, handle_conf, queueVars, ghostVars
<1> QED BY <1>1, <1>2, <1>3, <1>4, ServeFrame DEF Serving

\* The hypothesis that every kind the peer sends has a handler is used here: what
\* respond_not_supported queues for all channels may leave on another one.
LEMMA ServeReadReq ==
  ASSUME Handled = PeerKinds, TypeOK, ServeInv, NEW c \in Chan, read_req(c)
  PROVE  ServeInv'
<1>1. "REQ" \in inbox[c] /\ "REQ" \in Handled /\ ~inReq[c] /\ "REQ" \in peerWait[c]
  BY DEF read_req, ServeInv, ServeOK
<1>2. RspAt(chanQ[c]) = {} /\ RspAt(writeQ) = {} /\ blamed = {}
  BY <1>1 DEF ServeInv, ServeOK
<1>3. /\ UNCHANGED <<peerWait, queueVars, blamed>>
      /\ inbox' = [inbox EXCEPT ![c] = @ \ {"REQ"}]
      /\ inReq' = [inReq EXCEPT ![c] = TRUE] /\ owed' = owed \cup {c}
  BY <1>1, Zenon DEF read_req
<1>4. ServeOK(c)' /\ (inbox[c] \subseteq PeerKinds)'
  BY <1>1, <1>2, <1>3 DEF ServeInv, ServeOK, OneRsp, queueVars, TypeOK, FlagType, PeerType
<1>5. ASSUME NEW k \in Chan, k # c
      PROVE  ServeOK(k)' /\ (inbox[k] \subseteq PeerKinds)'
  <2>1. /\ inReq'[k] = inReq[k] /\ inbox'[k] = inbox[k] /\ (k \in owed' <=> k \in owed)
        /\ peerWait' = peerWait /\ chanQ' = chanQ
    BY <1>3, <1>5 DEF TypeOK, FlagType, PeerType, queueVars
  <2> QED BY <2>1 DEF ServeInv, ServeOK
<1> QED BY <1>2, <1>3, <1>4, <1>5 DEF ServeInv, queueVars

\* The channel's own queue gets an operation that is not a response.
LEMMA ServeQueued ==
  ASSUME TypeOK, ServeInv, NEW c \in Chan, NEW op, op.kind # "RSP",
         chanQ' = [chanQ EXCEPT ![c] = Append(@, op)],
         UNCHANGED <<inReq, owed, blamed, peerWait, writeQ>>,
         \A k \in Chan : inbox'[k] \subseteq inbox[k]
  PROVE  ServeInv'
<1>1. chanQ[c] \in Seq(ChanOps) /\ chanQ \in [Chan -> Seq(ChanOps)]
  BY DEF TypeOK, QueueType
<1>2. Fewer(chanQ[c], Append(chanQ[c], op))
  BY <1>1, FewerAppend
<1>3. \A k \in Chan : chanQ'[k] = IF k = c THEN Append(chanQ[c], op) ELSE chanQ[k]
  BY <1>1
<1> QED BY <1>2, <1>3, ServeFrame DEF Serving, Fewer

LEMMA ServeReadUnasked ==
  ASSUME Handled = PeerKinds, TypeOK, ServeInv, NEW c \in Chan, NEW kind,
         read_unasked(c, kind)
  PROVE  ServeInv'
<1>1. /\ UNCHANGED <<inReq, owed, blamed, peerWait>>
      /\ \A k \in Chan : inbox'[k] \subseteq inbox[k]
  BY DEF read_unasked, ghostVars, TypeOK, PeerType
<1>2. kind \in Handled
  BY DEF read_unasked, ServeInv
<1>3. CASE /\ chanQ' = [chanQ EXCEPT ![c] = Append(@, RspOp("CONF"))] /\ writeQ' = writeQ
  <2>1. RspOp("CONF").kind # "RSP"
    BY DEF RspOp
  <2> QED BY <1>1, <1>3, <2>1, ServeQueued
<1>4. CASE UNCHANGED queueVars
  BY <1>1, <1>4, ServeStill DEF queueVars
<1> QED BY <1>2, <1>3, <1>4 DEF read_unasked

LEMMA ServeEnd ==
  ASSUME TypeOK, ServeInv, NEW c \in Chan, timeout_cb(c) \/ disconnect_cb(c)
  PROVE  ServeInv'
  BY ServeStill DEF timeout_cb, disconnect_cb, queueVars, peerVars

LEMMA ServeContinue ==
  ASSUME TypeOK, ServeInv, Continue
  PROVE  ServeInv'
<1>1. CASE end_callback
  <2>1. CASE bt_att_free
    BY <2>1, ServeBearerFree
  <2>2. CASE UNCHANGED <<inReq, queueVars, peerVars, blamed>>
    BY <2>2, ServeStill DEF queueVars, peerVars
  <2> QED BY <1>1, <2>1, <2>2 DEF end_callback
<1>2. CASE detach_chan
  <2> DEFINE c == ctl.chan
  <2>1. /\ c \in Chan /\ UNCHANGED <<writeQ, blamed>> /\ owed' = owed \ {c}
        /\ \A k \in Chan :
             /\ chanQ'[k] = IF k = c THEN <<>> ELSE chanQ[k]
             /\ inReq'[k] = IF k = c THEN FALSE ELSE inReq[k]
             /\ inbox'[k] = IF k = c THEN {} ELSE inbox[k]
             /\ peerWait'[k] = IF k = c THEN {} ELSE peerWait[k]
    BY <1>2 DEF detach_chan, TypeOK, QueueType, FlagType, PeerType
  <2> HIDE DEF c
  <2>2. ASSUME NEW k \in Chan
        PROVE  ServeOK(k)' /\ (inbox[k] \subseteq PeerKinds)'
    <3>1. RspAt(<<>>) = {} /\ OneRsp(<<>>)
      BY DEF RspAt, OneRsp
    <3>2. CASE k = c
      BY <2>1, <3>1, <3>2 DEF ServeOK
    <3>3. CASE k # c
      BY <2>1, <3>3 DEF ServeInv, ServeOK
    <3> QED BY <3>2, <3>3
  <2> QED BY <2>1, <2>2 DEF ServeInv
<1>3. CASE disc_att_send_op
  BY <1>3, ServeStill DEF disc_att_send_op, queueVars, peerVars
<1>4. CASE flush_next
  <2>1. UNCHANGED <<inReq, owed, blamed, chanQ, inbox, peerWait>>
        /\ (writeQ' = writeQ \/ writeQ' = <<>>)
    BY <1>4 DEF flush_next, peerVars, ghostVars
  <2> QED BY <2>1, ServeFrame DEF Serving, Fewer, RspAt
<1> QED BY <1>1, <1>2, <1>3, <1>4 DEF Continue

LEMMA ServeSend ==
  ASSUME TypeOK, ServeInv, OrderInv, NEW kind \in ClientKinds, NEW len \in Lens,
         NEW retry \in BOOLEAN, bt_att_send(kind, len, retry)
  PROVE  ServeInv'
<1> DEFINE op == [id |-> nextId, leg |-> 1, kind |-> kind, len |-> len,
                  retry |-> retry, live |-> kind # "CMD"]
<1>1. /\ UNCHANGED <<inReq, owed, blamed, peerWait, inbox>> /\ Attached # {}
      /\ \/ chanQ' = [chanQ EXCEPT ![Oldest] = Append(@, op)] /\ writeQ' = writeQ
         \/ UNCHANGED <<chanQ, writeQ>>
         \/ writeQ' = Append(writeQ, op) /\ UNCHANGED chanQ
  BY DEF bt_att_send, peerVars
<1>2. op.kind = kind /\ kind # "RSP"
  BY BearerAssumption
<1> HIDE DEF op
<1>3. CASE chanQ' = [chanQ EXCEPT ![Oldest] = Append(@, op)] /\ writeQ' = writeQ
  BY <1>1, <1>2, <1>3, OldestFacts, ServeQueued
<1>4. CASE UNCHANGED <<chanQ, writeQ>>
  BY <1>1, <1>4, ServeStill
<1>5. CASE writeQ' = Append(writeQ, op) /\ UNCHANGED chanQ
  <2>1. Fewer(writeQ, Append(writeQ, op))
    BY <1>2, FewerAppend DEF TypeOK, QueueType
  <2> QED BY <1>1, <1>5, <2>1, ServeFrame DEF Serving, Fewer
<1> QED BY <1>1, <1>3, <1>4, <1>5

\* The handler of the one request that is being served responds.
LEMMA ServeChanSend ==
  ASSUME TypeOK, ServeInv, NEW c \in Chan, bt_att_chan_send(c)
  PROVE  ServeInv'
<1>1. /\ UNCHANGED <<inReq, blamed, peerWait, inbox, writeQ>> /\ c \in owed
      /\ owed' = owed \ {c} /\ chanQ' = [chanQ EXCEPT ![c] = Append(@, RspOp("RSP"))]
  BY DEF bt_att_chan_send, ghostVars
<1>2. chanQ[c] \in Seq(ChanOps) /\ chanQ \in [Chan -> Seq(ChanOps)]
  BY DEF TypeOK, QueueType
<1>3. OneRsp(Append(chanQ[c], RspOp("RSP"))) /\ inReq[c]
  BY <1>1, <1>2, FewerAppend DEF ServeInv, ServeOK
<1>4. \A k \in Chan : chanQ'[k] = IF k = c THEN Append(chanQ[c], RspOp("RSP")) ELSE chanQ[k]
  BY <1>1, <1>2
<1>5. ServeOK(c)'
  BY <1>1, <1>3, <1>4 DEF ServeInv, ServeOK
<1>6. \A k \in Chan \ {c} : ServeOK(k)'
  BY <1>1, <1>4 DEF ServeInv, ServeOK
<1> QED BY <1>1, <1>5, <1>6 DEF ServeInv

LEMMA ServeCancel ==
  ASSUME TypeOK, ServeInv, NEW id \in Ids, bt_att_cancel(id)
  PROVE  ServeInv'
<1>1. UNCHANGED <<inReq, owed, blamed, peerWait, inbox>>
  BY DEF bt_att_cancel, peerVars
<1>2. ASSUME NEW c \in Chan, cancel_chan_queue(c, id)
      PROVE  Serving
  <2>1. PICK i \in DOMAIN chanQ[c] : chanQ' = [chanQ EXCEPT ![c] = DropAt(@, i)]
    BY <1>2 DEF cancel_chan_queue, At
  <2>2. chanQ[c] \in Seq(ChanOps) /\ chanQ \in [Chan -> Seq(ChanOps)]
    BY DEF TypeOK, QueueType
  <2>3. Fewer(chanQ[c], DropAt(chanQ[c], i))
    BY <2>2, FewerDrop
  <2>4. \A k \in Chan : chanQ'[k] = IF k = c THEN DropAt(chanQ[c], i) ELSE chanQ[k]
    BY <2>1, <2>2
  <2>5. writeQ' = writeQ
    BY <1>2 DEF cancel_chan_queue
  <2> QED BY <1>1, <2>3, <2>4, <2>5 DEF Serving, Fewer
<1>3. CASE cancel_shared(id)
  <2>1. UNCHANGED chanQ /\ (\/ writeQ' = writeQ
                            \/ \E i \in DOMAIN writeQ :
                                 writeQ' \in {MuteAt(writeQ, i), DropAt(writeQ, i)})
    BY <1>3 DEF cancel_shared, At
  <2>2. ASSUME NEW i \in DOMAIN writeQ, RspAt(writeQ) = {}
        PROVE  RspAt(MuteAt(writeQ, i)) = {}
    <3>1. \A j \in DOMAIN writeQ : writeQ[j] \in WriteOps
      BY DEF TypeOK, QueueType
    <3>2. [writeQ[i] EXCEPT !.live = FALSE].kind = writeQ[i].kind
      BY <3>1 DEF WriteOps, Commands, Ops, RspOp
    <3>3. /\ DOMAIN MuteAt(writeQ, i) = DOMAIN writeQ
          /\ \A j \in DOMAIN writeQ : j # i => MuteAt(writeQ, i)[j] = writeQ[j]
          /\ MuteAt(writeQ, i)[i] = [writeQ[i] EXCEPT !.live = FALSE]
      BY DEF MuteAt
    <3> QED BY <2>2, <3>2, <3>3 DEF RspAt
  <2>3. \A i \in DOMAIN writeQ : Fewer(writeQ, DropAt(writeQ, i))
    BY FewerDrop DEF TypeOK, QueueType
  <2> QED BY <1>1, <2>1, <2>2, <2>3, ServeFrame DEF Serving, Fewer
<1>4. CASE UNCHANGED queueVars
  BY <1>1, <1>4, ServeStill DEF queueVars
<1> QED BY <1>2, <1>3, <1>4, ServeFrame DEF bt_att_cancel, cancel_pending, cancel_missing,
                                            Attached

LEMMA ServeUser ==
  ASSUME TypeOK, ServeInv, OrderInv, User
  PROVE  ServeInv'
<1>1. CASE bt_att_cancel_all
  <2>1. UNCHANGED <<inReq, owed, blamed, chanQ, inbox, peerWait>> /\ writeQ' = <<>>
    BY <1>1 DEF bt_att_cancel_all, peerVars
  <2> QED BY <2>1, ServeFrame DEF Serving, Fewer, RspAt
<1>2. ASSUME NEW len \in Lens, NEW front \in BOOLEAN, bt_att_resend(len, front)
      PROVE  ServeInv'
  BY <1>2, ServeStill DEF bt_att_resend, peerVars
<1>3. ASSUME NEW m \in Lens, bt_att_set_mtu(m)
      PROVE  ServeInv'
  BY <1>3, ServeStill DEF bt_att_set_mtu, queueVars, peerVars, ghostVars
<1>4. ASSUME NEW c \in Chan, NEW m \in Lens, bt_att_attach_chan(c, m)
      PROVE  ServeInv'
  BY <1>4, ServeStill DEF bt_att_attach_chan, queueVars, peerVars, ghostVars
<1>5. CASE bt_att_unref
  <2>1. CASE UNCHANGED <<queueVars, inReq, peerVars, ghostVars>>
    BY <2>1, ServeStill DEF queueVars, peerVars, ghostVars
  <2> QED BY <1>5, <2>1, ServeBearerFree DEF bt_att_unref
<1> QED BY <1>1, <1>2, <1>3, <1>4, <1>5, ServeSend, ServeChanSend, ServeCancel DEF User

\* A peer that keeps to the protocol sends a request only when it waits for no
\* response, so that in_req is not set.
LEMMA ServePeer ==
  ASSUME ~Rogue, TypeOK, ServeInv, NEW c \in Chan, Peer(c)
  PROVE  ServeInv'
<1>1. CASE \/ hang_up(c)
           \/ \E ans \in Answers : peer_answers(c, ans)
  BY <1>1, ServeStill DEF hang_up, peer_answers, queueVars, peerVars, ghostVars
<1>2. ASSUME NEW kind \in PeerKinds, peer_sends(c, kind)
      PROVE  ServeInv'
  <2>1. /\ UNCHANGED <<inReq, owed, blamed, queueVars>>
        /\ kind = "REQ" => "REQ" \notin peerWait[c]
        /\ \A k \in Chan :
             /\ inbox'[k] = IF k = c THEN inbox[c] \cup {kind} ELSE inbox[k]
             /\ peerWait'[k] = IF k = c THEN peerWait[c] \cup ({kind} \cap {"REQ", "IND"})
                                        ELSE peerWait[k]
    BY <1>2 DEF peer_sends, ghostVars, TypeOK, PeerType
  <2>2. ServeOK(c)' /\ (inbox[c] \subseteq PeerKinds)'
    BY <2>1 DEF ServeInv, ServeOK, queueVars
  <2>3. \A k \in Chan \ {c} : ServeOK(k)' /\ (inbox[k] \subseteq PeerKinds)'
    BY <2>1 DEF ServeInv, ServeOK, queueVars
  <2> QED BY <2>1, <2>2, <2>3 DEF ServeInv, queueVars
<1>3. ASSUME NEW kind, peer_strays(c, kind)
      PROVE  FALSE
  BY <1>3 DEF peer_strays
<1> QED BY <1>1, <1>2, <1>3 DEF Peer

LEMMA InitServe == Init => ServeInv
  BY DEF Init, ServeInv, ServeOK, RspAt, OneRsp

LEMMA NextServe ==
  ASSUME ~Rogue, Handled = PeerKinds
  PROVE  TypeOK /\ WakeInv /\ ServeInv /\ [Next]_vars => ServeInv'
<1> SUFFICES ASSUME TypeOK, WakeInv, ServeInv, [Next]_vars
             PROVE  ServeInv'
  OBVIOUS
<1>1. ASSUME NEW c \in Chan, MainLoop(c)
      PROVE  ServeInv'
  BY <1>1, ServeWrite, ServeWriteFails, ServeRead, ServeReadReq, ServeReadUnasked, ServeEnd
     DEF MainLoop
<1>2. CASE UNCHANGED vars
  BY <1>2, ServeStill DEF vars, queueVars, peerVars, ghostVars
<1> QED BY <1>1, <1>2, ServeContinue, ServeUser, ServePeer DEF Next, WakeInv

\* A peer that keeps to the protocol, all of whose PDUs have a handler, is never
\* taken for one that broke it, however many channels it has, and whatever the
\* user sends, resends and cancels meanwhile (can_read_data: in_req is cleared
\* when, and only when, the response is written).
THEOREM NeverBlamedHolds ==
  ASSUME ~Rogue, Handled = PeerKinds
  PROVE  Spec => []NeverBlamed
<1>1. ServeInv => NeverBlamed
  BY DEF ServeInv, NeverBlamed
<1> QED BY <1>1, InitType, NextType, InitWake, NextWake, InitServe, NextServe, PTL DEF Spec

-----------------------------------------------------------------------------
(* Where operations are.                                                    *)

\* The places an operation can be in: the queues of a channel and its slots, and
\* the shared queues and the one being flushed, which count as channel 1's.
PlaceKinds == {"chan", "preq", "pind", "req", "ind", "write", "flush"}
Content(k, c) ==
    CASE k = "chan" -> chanQ[c]
      [] k = "preq" -> <<pendReq[c]>>
      [] k = "pind" -> <<pendInd[c]>>
      [] k = "req" /\ c = 1   -> reqQ
      [] k = "ind" /\ c = 1   -> indQ
      [] k = "write" /\ c = 1 -> writeQ
      [] k = "flush" /\ c = 1 -> flush
      [] OTHER -> <<>>

PlacesOf(q, x) == {i \in DOMAIN q : InstOf(q[i]) = x}
InQ(q, x) == PlacesOf(q, x) # {}
Solo(q) == \A x \in Inst : \A i, j \in PlacesOf(q, x) : i = j
Holds(k, c, x) == InQ(Content(k, c), x)

Alive(x) == Created(x) /\ x \notin freed
OnlyIn(k, c, x) ==
    \A l \in PlaceKinds, d \in Chan : Holds(l, d, x) <=> l = k /\ d = c

\* An operation that has been created and not been destroyed is in one place.
Placed(x) ==
    \/ Alive(x) /\ \E k \in PlaceKinds, c \in Chan : OnlyIn(k, c, x)
    \/ ~Alive(x) /\ \A k \in PlaceKinds, c \in Chan : ~Holds(k, c, x)

\* Only what disconnect_cb has started to destroy is left on a channel that is
\* not attached and in the queue that is flushed; ids are handed out in order; a
\* request in a channel's own queue finds the slot empty.
TidyInv ==
    /\ Flushing \/ flush = <<>>
    /\ \A c \in Chan \ Attached :
         /\ pendReq[c] = NoOp
         /\ ~(ctl.pc = "detach" /\ ctl.chan = c) => chanQ[c] = <<>> /\ pendInd[c] = NoOp
    /\ \A i \in Ids : i >= nextId => legs[i] = 0

PlaceInv ==
    /\ \A x \in Inst : Placed(x) /\ (x \in freed => Created(x))
    /\ \A k \in PlaceKinds, c \in Chan : Solo(Content(k, c))
    /\ \A c \in Chan : SlotReserved(c)
    /\ TidyInv

-----------------------------------------------------------------------------
(* What a change of one queue does to the places of an operation.           *)

Same(q, r) ==
    /\ \A x \in Inst : InQ(r, x) <=> InQ(q, x)
    /\ Solo(q) => Solo(r)
Loses(q, r, y) ==
    /\ \A x \in Inst : InQ(r, x) <=> InQ(q, x) /\ x # y
    /\ Solo(q) => Solo(r)
Gains(q, r, y) ==
    /\ \A x \in Inst : InQ(r, x) <=> InQ(q, x) \/ x = y
    /\ Solo(q) /\ (y \in Inst => ~InQ(q, y)) => Solo(r)

\* The operations of r are those of q, at the places f gives.
LEMMA Renumbered ==
  ASSUME NEW q, NEW r, NEW f \in [DOMAIN r -> DOMAIN q],
         \A i \in DOMAIN r : InstOf(r[i]) = InstOf(q[f[i]]),
         \A i, j \in DOMAIN r : f[i] = f[j] => i = j
  PROVE  /\ \A x \in Inst : InQ(r, x) => InQ(q, x)
         /\ Solo(q) => Solo(r)
<1>1. \A x \in Inst : \A i \in PlacesOf(r, x) : f[i] \in PlacesOf(q, x)
  BY DEF PlacesOf
<1>2. \A x \in Inst : \A i \in PlacesOf(r, x) : i \in DOMAIN r
  BY DEF PlacesOf
<1>3. \A x \in Inst : InQ(r, x) => InQ(q, x)
  BY <1>1 DEF InQ
<1>4. Solo(q) => Solo(r)
  BY <1>1, <1>2 DEF Solo
<1> QED BY <1>3, <1>4

LEMMA LoseTail ==
  ASSUME NEW S, NEW q \in Seq(S), q # <<>>, Solo(q)
  PROVE  Loses(q, Tail(q), InstOf(Head(q)))
<1> DEFINE f == [i \in DOMAIN Tail(q) |-> i + 1]
<1>1. /\ Len(q) \in Nat \ {0} /\ DOMAIN q = 1 .. Len(q) /\ Head(q) = q[1]
      /\ DOMAIN Tail(q) = 1 .. Len(q) - 1
      /\ \A i \in DOMAIN Tail(q) : Tail(q)[i] = q[i + 1]
  OBVIOUS
<1>2. /\ f \in [DOMAIN Tail(q) -> DOMAIN q]
      /\ \A i \in DOMAIN Tail(q) : InstOf(Tail(q)[i]) = InstOf(q[f[i]])
      /\ \A i, j \in DOMAIN Tail(q) : f[i] = f[j] => i = j
  BY <1>1
<1>3. /\ \A x \in Inst : InQ(Tail(q), x) => InQ(q, x)
      /\ Solo(Tail(q))
  BY <1>2, Renumbered
<1>4. ASSUME NEW x \in Inst, InQ(Tail(q), x)
      PROVE  x # InstOf(Head(q))
  <2>1. PICK i \in DOMAIN Tail(q) : InstOf(q[i + 1]) = x
    BY <1>1, <1>4 DEF InQ, PlacesOf
  <2>2. i + 1 \in DOMAIN q /\ 1 \in DOMAIN q /\ i + 1 # 1
    BY <1>1
  <2>3. InstOf(q[1]) # x
    BY <2>1, <2>2 DEF Solo, PlacesOf
  <2> QED BY <1>1, <2>3
<1>5. ASSUME NEW x \in Inst, InQ(q, x), x # InstOf(Head(q))
      PROVE  InQ(Tail(q), x)
  <2>1. PICK i \in DOMAIN q : InstOf(q[i]) = x
    BY <1>5 DEF InQ, PlacesOf
  <2>2. i - 1 \in DOMAIN Tail(q) /\ Tail(q)[i - 1] = q[i]
    BY <1>1, <1>5, <2>1
  <2> QED BY <2>1, <2>2 DEF InQ, PlacesOf
<1> QED BY <1>3, <1>4, <1>5 DEF Loses

LEMMA LoseDrop ==
  ASSUME NEW S, NEW q \in Seq(S), NEW k \in DOMAIN q, Solo(q)
  PROVE  Loses(q, DropAt(q, k), InstOf(q[k]))
<1> DEFINE r == DropAt(q, k)
           f == [i \in DOMAIN r |-> IF i < k THEN i ELSE i + 1]
<1>1. /\ Len(q) \in Nat /\ DOMAIN q = 1 .. Len(q) /\ k \in 1 .. Len(q)
      /\ DOMAIN r = 1 .. Len(q) - 1
      /\ \A i \in 1 .. Len(q) - 1 : r[i] = IF i < k THEN q[i] ELSE q[i + 1]
  BY DropFacts DEF DropAt
<1> HIDE DEF r
<1>2. /\ f \in [DOMAIN r -> DOMAIN q]
      /\ \A i \in DOMAIN r : InstOf(r[i]) = InstOf(q[f[i]]) /\ f[i] # k
      /\ \A i, j \in DOMAIN r : f[i] = f[j] => i = j
  BY <1>1
<1>3. /\ \A x \in Inst : InQ(r, x) => InQ(q, x)
      /\ Solo(r)
  BY <1>2, Renumbered
<1>4. ASSUME NEW x \in Inst, InQ(r, x)
      PROVE  x # InstOf(q[k])
  <2>1. PICK i \in DOMAIN r : InstOf(q[f[i]]) = x
    BY <1>2, <1>4 DEF InQ, PlacesOf
  <2>2. f[i] \in DOMAIN q /\ f[i] # k
    BY <1>2
  <2> HIDE DEF f
  <2> QED BY <2>1, <2>2 DEF Solo, PlacesOf
<1>5. ASSUME NEW x \in Inst, InQ(q, x), x # InstOf(q[k])
      PROVE  InQ(r, x)
  <2>1. PICK i \in DOMAIN q : InstOf(q[i]) = x
    BY <1>5 DEF InQ, PlacesOf
  <2>2. i # k
    BY <1>5, <2>1
  <2>3. \E j \in DOMAIN r : r[j] = q[i]
    <3>1. CASE i < k
      BY <1>1, <3>1
    <3>2. CASE i > k
      <4>1. i - 1 \in DOMAIN r /\ r[i - 1] = q[i]
        BY <1>1, <3>2
      <4> QED BY <4>1
    <3> QED BY <1>1, <2>2, <3>1, <3>2
  <2> QED BY <2>1, <2>3 DEF InQ, PlacesOf
<1> QED BY <1>3, <1>4, <1>5 DEF Loses, r

LEMMA GainAppend ==
  ASSUME NEW S, NEW q \in Seq(S), NEW e
  PROVE  Gains(q, Append(q, e), InstOf(e))
<1>1. q \in Seq(S \cup {e}) /\ e \in S \cup {e}
  BY SeqMono
<1>2. /\ Len(q) \in Nat /\ DOMAIN q = 1 .. Len(q) /\ DOMAIN Append(q, e) = 1 .. Len(q) + 1
      /\ \A i \in 1 .. Len(q) : Append(q, e)[i] = q[i]
      /\ Append(q, e)[Len(q) + 1] = e
  BY <1>1
<1>3. \A x : PlacesOf(Append(q, e), x) =
               PlacesOf(q, x) \cup (IF x = InstOf(e) THEN {Len(q) + 1} ELSE {})
  BY <1>2 DEF PlacesOf
<1> QED BY <1>3 DEF Gains, InQ, Solo

LEMMA GainPush ==
  ASSUME NEW S, NEW q \in Seq(S), NEW e \in S
  PROVE  Gains(q, <<e>> \o q, InstOf(e))
<1> DEFINE r == <<e>> \o q
<1>1. /\ Len(q) \in Nat /\ DOMAIN q = 1 .. Len(q) /\ DOMAIN r = 1 .. Len(q) + 1
      /\ r[1] = e /\ \A i \in 2 .. Len(q) + 1 : r[i] = q[i - 1]
  BY PushFacts
<1> HIDE DEF r
<1>2. \A x : \A i \in PlacesOf(r, x) :
         \/ i = 1 /\ x = InstOf(e)
         \/ i # 1 /\ i \in Nat /\ i - 1 \in PlacesOf(q, x)
  BY <1>1 DEF PlacesOf
<1>3. \A x : \A i \in PlacesOf(q, x) : i + 1 \in PlacesOf(r, x)
  <2>1. \A i \in DOMAIN q : i + 1 \in DOMAIN r /\ r[i + 1] = q[i]
    BY <1>1
  <2> QED BY <2>1 DEF PlacesOf
<1>4. 1 \in PlacesOf(r, InstOf(e))
  BY <1>1 DEF PlacesOf
<1>5. \A x \in Inst : InQ(r, x) <=> InQ(q, x) \/ x = InstOf(e)
  BY <1>2, <1>3, <1>4 DEF InQ
<1>6. ASSUME Solo(q), InstOf(e) \in Inst => ~InQ(q, InstOf(e))
      PROVE  Solo(r)
  BY <1>2, <1>6 DEF Solo, InQ
<1> QED BY <1>5, <1>6 DEF Gains, r

LEMMA SameMute ==
  ASSUME NEW q, NEW i \in DOMAIN q, InstOf([q[i] EXCEPT !.live = FALSE]) = InstOf(q[i])
  PROVE  Same(q, MuteAt(q, i))
<1>1. /\ DOMAIN MuteAt(q, i) = DOMAIN q
      /\ \A j \in DOMAIN q : InstOf(MuteAt(q, i)[j]) = InstOf(q[j])
  BY DEF MuteAt
<1>2. \A x : PlacesOf(MuteAt(q, i), x) = PlacesOf(q, x)
  BY <1>1 DEF PlacesOf
<1> QED BY <1>2 DEF Same, InQ, Solo

LEMMA OnePlace ==
  /\ \A o, x : InQ(<<o>>, x) <=> InstOf(o) = x
  /\ \A o : Solo(<<o>>)
  /\ \A x : ~InQ(<<>>, x)
  /\ Solo(<<>>)
<1>1. \A o : DOMAIN <<o>> = {1} /\ <<o>>[1] = o
  OBVIOUS
<1>2. DOMAIN <<>> = {}
  OBVIOUS
<1> QED BY <1>1, <1>2 DEF InQ, PlacesOf, Solo

LEMMA InstanceFacts ==
  ASSUME NEW o \in AnyOps
  PROVE  /\ Instances({o}) = {InstOf(o)} \cap Inst
         /\ InstOf(o) \in Inst <=> o.id # 0
<1>1. InstOf(o) \in Inst <=> o.id # 0
  BY AnyOpFacts, BearerAssumption DEF InstOf, Inst, Ids
<1>2. Instances({o}) = IF o.id # 0 THEN {InstOf(o)} ELSE {}
  BY DEF Instances
<1> QED BY <1>1, <1>2

-----------------------------------------------------------------------------
(* What a step does to an operation: the four ways in which one keeps it in  *)
(* one place.                                                               *)

LEMMA PlaceFrame ==
  ASSUME NEW x, Placed(x),
         \/ /\ \A k \in PlaceKinds, c \in Chan : Holds(k, c, x)' <=> Holds(k, c, x)
            /\ Alive(x)' <=> Alive(x)
         \/ /\ \A k \in PlaceKinds, c \in Chan : ~Holds(k, c, x)'
            /\ ~Alive(x)'
         \/ Alive(x)' /\ \E k \in PlaceKinds, c \in Chan : OnlyIn(k, c, x)'
  PROVE  Placed(x)'
<1>1. CASE /\ \A k \in PlaceKinds, c \in Chan : Holds(k, c, x)' <=> Holds(k, c, x)
           /\ Alive(x)' <=> Alive(x)
  <2>1. CASE Alive(x)
    <3>1. PICK k \in PlaceKinds, c \in Chan : OnlyIn(k, c, x)
      BY <2>1 DEF Placed
    <3>2. OnlyIn(k, c, x)'
      BY <1>1, <3>1 DEF OnlyIn
    <3> QED BY <1>1, <2>1, <3>2 DEF Placed
  <2>2. CASE ~Alive(x)
    BY <1>1, <2>2 DEF Placed
  <2> QED BY <2>1, <2>2
<1> QED BY <1>1 DEF Placed

\* No operation is created or destroyed, and none changes its place.
LEMMA PlaceStill ==
  ASSUME NEW x \in Inst, Placed(x), UNCHANGED <<legs, freed>>,
         \A k \in PlaceKinds, c \in Chan : Same(Content(k, c), Content(k, c)')
  PROVE  Placed(x)'
<1>1. \A k \in PlaceKinds, c \in Chan : Holds(k, c, x)' <=> Holds(k, c, x)
  BY DEF Holds, Same
<1>2. Alive(x)' <=> Alive(x)
  BY DEF Alive, Created
<1> QED BY <1>1, <1>2, PlaceFrame

\* Operations leave their places and are destroyed.
LEMMA PlaceFreed ==
  ASSUME NEW x \in Inst, Placed(x), UNCHANGED legs,
         \A k \in PlaceKinds, c \in Chan : Holds(k, c, x)' => Holds(k, c, x),
         x \in freed' <=> \/ x \in freed
                          \/ \E k \in PlaceKinds, c \in Chan :
                               Holds(k, c, x) /\ ~Holds(k, c, x)'
  PROVE  Placed(x)' /\ (x \in freed' => x \in freed \/ Created(x))
<1>1. CASE \E k \in PlaceKinds, c \in Chan : Holds(k, c, x) /\ ~Holds(k, c, x)'
  <2>1. PICK k \in PlaceKinds, c \in Chan : Holds(k, c, x) /\ ~Holds(k, c, x)'
    BY <1>1
  <2>2. Alive(x) /\ OnlyIn(k, c, x)
    BY <2>1 DEF Placed, OnlyIn
  <2>3. \A l \in PlaceKinds, d \in Chan : ~Holds(l, d, x)'
    BY <2>1, <2>2 DEF OnlyIn
  <2>4. x \in freed' /\ ~Alive(x)'
    BY <1>1 DEF Alive
  <2> QED BY <2>2, <2>3, <2>4, PlaceFrame DEF Alive
<1>2. CASE ~\E k \in PlaceKinds, c \in Chan : Holds(k, c, x) /\ ~Holds(k, c, x)'
  <2>1. x \in freed' <=> x \in freed
    BY <1>2
  <2>2. Alive(x)' <=> Alive(x)
    BY <2>1 DEF Alive, Created
  <2> QED BY <1>2, <2>1, <2>2, PlaceFrame
<1> QED BY <1>1, <1>2

\* One operation moves from one place to another.
LEMMA PlaceMoved ==
  ASSUME NEW x \in Inst, Placed(x), UNCHANGED <<legs, freed>>,
         NEW y, NEW k \in PlaceKinds, NEW c \in Chan, NEW l \in PlaceKinds, NEW d \in Chan,
         ~(l = k /\ d = c), x = y => Holds(k, c, x),
         Holds(k, c, x)' <=> Holds(k, c, x) /\ x # y,
         Holds(l, d, x)' <=> Holds(l, d, x) \/ x = y,
         \A m \in PlaceKinds, e \in Chan : ~(m = k /\ e = c) /\ ~(m = l /\ e = d) =>
            (Holds(m, e, x)' <=> Holds(m, e, x))
  PROVE  Placed(x)'
<1>1. Alive(x)' <=> Alive(x)
  BY DEF Alive, Created
<1>2. CASE x = y
  <2>1. Alive(x) /\ OnlyIn(k, c, x)
    BY <1>2 DEF Placed, OnlyIn
  <2>2. OnlyIn(l, d, x)'
    BY <1>2, <2>1 DEF OnlyIn
  <2> QED BY <1>1, <2>1, <2>2, PlaceFrame
<1>3. CASE x # y
  BY <1>1, <1>3, PlaceFrame
<1> QED BY <1>2, <1>3

\* An operation is created in one place.
LEMMA PlaceBegun ==
  ASSUME NEW x \in Inst, Placed(x), x \in freed => Created(x), UNCHANGED freed,
         NEW y, NEW k \in PlaceKinds, NEW c \in Chan,
         Created(x)' <=> Created(x) \/ x = y, ~Created(y),
         Holds(k, c, x)' <=> Holds(k, c, x) \/ x = y,
         \A m \in PlaceKinds, e \in Chan : ~(m = k /\ e = c) =>
            (Holds(m, e, x)' <=> Holds(m, e, x))
  PROVE  Placed(x)' /\ (x \in freed' => Created(x)')
<1>1. CASE x = y
  <2>1. ~Alive(x) /\ Alive(x)'
    BY <1>1 DEF Alive
  <2>2. OnlyIn(k, c, x)'
    BY <1>1, <2>1 DEF Placed, OnlyIn
  <2> QED BY <1>1, <2>1, <2>2, PlaceFrame DEF Alive
<1>2. CASE x # y
  <2>1. Alive(x)' <=> Alive(x)
    BY <1>2 DEF Alive
  <2> QED BY <1>2, <2>1, PlaceFrame
<1> QED BY <1>1, <1>2

Tidy == (\A c \in Chan : SlotReserved(c)) /\ TidyInv

LEMMA StillKeeps ==
  ASSUME PlaceInv, UNCHANGED <<legs, freed>>, Tidy',
         \A k \in PlaceKinds, c \in Chan : Same(Content(k, c), Content(k, c)')
  PROVE  PlaceInv'
<1>1. \A x \in Inst : Placed(x)' /\ (x \in freed => Created(x))'
  BY PlaceStill DEF PlaceInv, Created
<1>2. \A k \in PlaceKinds, c \in Chan : Solo(Content(k, c))'
  BY DEF PlaceInv, Same
<1> QED BY <1>1, <1>2 DEF PlaceInv, Tidy

LEMMA FreeKeeps ==
  ASSUME PlaceInv, UNCHANGED legs, Tidy', NEW y, NEW k \in PlaceKinds, NEW c \in Chan,
         y \in Inst => Holds(k, c, y), freed' = freed \cup ({y} \cap Inst),
         Loses(Content(k, c), Content(k, c)', y),
         \A m \in PlaceKinds, e \in Chan : ~(m = k /\ e = c) =>
            Same(Content(m, e), Content(m, e)')
  PROVE  PlaceInv'
<1>1. \A m \in PlaceKinds, e \in Chan : Solo(Content(m, e))'
  BY DEF PlaceInv, Same, Loses
<1>2. ASSUME NEW x \in Inst
      PROVE  Placed(x)' /\ (x \in freed => Created(x))'
  <2>1. /\ Holds(k, c, x)' <=> Holds(k, c, x) /\ x # y
        /\ \A m \in PlaceKinds, e \in Chan : ~(m = k /\ e = c) =>
              (Holds(m, e, x)' <=> Holds(m, e, x))
    BY DEF Holds, Loses, Same
  <2>2. \A m \in PlaceKinds, e \in Chan : Holds(m, e, x)' => Holds(m, e, x)
    BY <2>1
  <2>3. x \in freed' <=> \/ x \in freed
                         \/ \E m \in PlaceKinds, e \in Chan :
                              Holds(m, e, x) /\ ~Holds(m, e, x)'
    BY <2>1
  <2> QED BY <2>2, <2>3, PlaceFreed DEF PlaceInv, Created
<1> QED BY <1>1, <1>2 DEF PlaceInv, Tidy

LEMMA MoveKeeps ==
  ASSUME PlaceInv, UNCHANGED <<legs, freed>>, Tidy',
         NEW y, NEW k \in PlaceKinds, NEW c \in Chan, NEW l \in PlaceKinds, NEW d \in Chan,
         ~(l = k /\ d = c), y \in Inst => Holds(k, c, y),
         Loses(Content(k, c), Content(k, c)', y), Gains(Content(l, d), Content(l, d)', y),
         \A m \in PlaceKinds, e \in Chan : ~(m = k /\ e = c) /\ ~(m = l /\ e = d) =>
            Same(Content(m, e), Content(m, e)')
  PROVE  PlaceInv'
<1>1. ASSUME NEW x \in Inst
      PROVE  Placed(x)' /\ (x \in freed => Created(x))'
  <2>1. /\ Holds(k, c, x)' <=> Holds(k, c, x) /\ x # y
        /\ Holds(l, d, x)' <=> Holds(l, d, x) \/ x = y
        /\ \A m \in PlaceKinds, e \in Chan : ~(m = k /\ e = c) /\ ~(m = l /\ e = d) =>
              (Holds(m, e, x)' <=> Holds(m, e, x))
    BY DEF Holds, Loses, Gains, Same
  <2>2. /\ x \in Inst /\ Placed(x) /\ UNCHANGED <<legs, freed>> /\ (x = y => Holds(k, c, x))
        /\ k \in PlaceKinds /\ l \in PlaceKinds /\ c \in Chan /\ d \in Chan
        /\ ~(l = k /\ d = c)
    BY DEF PlaceInv
  <2>3. Placed(x)'
    BY ONLY <2>1, <2>2, PlaceMoved, SMTT(30)
  <2> QED BY <2>3 DEF PlaceInv, Created
<1>2. y \in Inst => ~Holds(l, d, y)
  BY DEF PlaceInv, Placed, OnlyIn
<1>3. \A m \in PlaceKinds, e \in Chan : Solo(Content(m, e))'
  BY <1>2 DEF PlaceInv, Same, Loses, Gains, Holds
<1> QED BY <1>1, <1>3 DEF PlaceInv, Tidy

LEMMA BeginKeeps ==
  ASSUME PlaceInv, UNCHANGED freed, Tidy', NEW y, NEW k \in PlaceKinds, NEW c \in Chan,
         \A x \in Inst : Created(x)' <=> Created(x) \/ x = y,
         y \in Inst, ~Created(y), Gains(Content(k, c), Content(k, c)', y),
         \A m \in PlaceKinds, e \in Chan : ~(m = k /\ e = c) =>
            Same(Content(m, e), Content(m, e)')
  PROVE  PlaceInv'
<1>1. ASSUME NEW x \in Inst
      PROVE  Placed(x)' /\ (x \in freed => Created(x))'
  <2>1. /\ Holds(k, c, x)' <=> Holds(k, c, x) \/ x = y
        /\ \A m \in PlaceKinds, e \in Chan : ~(m = k /\ e = c) =>
              (Holds(m, e, x)' <=> Holds(m, e, x))
    BY DEF Holds, Gains, Same
  <2> QED BY <2>1, PlaceBegun DEF PlaceInv
<1>2. ~Holds(k, c, y)
  BY DEF PlaceInv, Placed, Alive
<1>3. \A m \in PlaceKinds, e \in Chan : Solo(Content(m, e))'
  BY <1>2 DEF PlaceInv, Same, Gains, Holds
<1> QED BY <1>1, <1>3 DEF PlaceInv, Tidy

\* The slots.
LEMMA SlotPlaces ==
  ASSUME NEW o, NEW p
  PROVE  /\ Loses(<<o>>, <<NoOp>>, InstOf(o)) /\ Gains(<<NoOp>>, <<o>>, InstOf(o))
         /\ InstOf(o) = InstOf(p) => Same(<<o>>, <<p>>)
<1>1. \A x \in Inst : InstOf(NoOp) # x
  BY BearerAssumption DEF Inst, Ids, InstOf, NoOp
<1> QED BY <1>1, OnePlace DEF Loses, Gains, Same

\* What a step must not do to keep a channel's own queue and its slots in order.
LEMMA TidyFrame ==
  ASSUME TidyInv, UNCHANGED <<flush, legs, nextId>>,
         \/ ctl'.pc = ctl.pc /\ ctl'.chan = ctl.chan
         \/ {ctl.pc, ctl'.pc} \subseteq {"main", "rsp", "conf"},
         \A c \in Chan : \/ c \in Attached /\ c \in Attached'
                         \/ /\ c \notin Attached
                            /\ chanQ'[c] \in {chanQ[c], <<>>}
                            /\ pendReq'[c] \in {pendReq[c], NoOp}
                            /\ pendInd'[c] \in {pendInd[c], NoOp}
  PROVE  TidyInv'
<1>1. (Flushing \/ flush = <<>>)'
  BY DEF TidyInv, Flushing
<1>2. ASSUME NEW c \in Chan, c \notin Attached'
      PROVE  /\ pendReq'[c] = NoOp
             /\ ~(ctl'.pc = "detach" /\ ctl'.chan = c) => chanQ'[c] = <<>> /\ pendInd'[c] = NoOp
  BY <1>2 DEF TidyInv
<1> QED BY <1>1, <1>2 DEF TidyInv

LEMMA ReservedKeep ==
  ASSUME NEW c \in Chan, SlotReserved(c), chanQ'[c] \in {chanQ[c], <<>>},
         pendReq[c] = NoOp => pendReq'[c] = NoOp
  PROVE  SlotReserved(c)'
  BY DEF SlotReserved

LEMMA ReservedAppend ==
  ASSUME TypeOK, NEW c \in Chan, SlotReserved(c), NEW op, pendReq'[c] = pendReq[c],
         chanQ'[c] = Append(chanQ[c], op),
         IsReq(op) => /\ pendReq[c] = NoOp
                      /\ \A i \in DOMAIN chanQ[c] : ~IsReq(chanQ[c][i])
  PROVE  SlotReserved(c)'
<1>1. chanQ[c] \in Seq(ChanOps \cup {op}) /\ op \in ChanOps \cup {op}
  BY PlaceFacts, SeqMono
<1>2. /\ Len(chanQ[c]) \in Nat /\ DOMAIN chanQ[c] = 1 .. Len(chanQ[c])
      /\ DOMAIN chanQ'[c] = 1 .. Len(chanQ[c]) + 1
      /\ \A i \in 1 .. Len(chanQ[c]) : chanQ'[c][i] = chanQ[c][i]
      /\ chanQ'[c][Len(chanQ[c]) + 1] = op
  BY <1>1
<1>3. \A i \in DOMAIN chanQ'[c] : i \in DOMAIN chanQ[c] \/ i = Len(chanQ[c]) + 1
  BY <1>2
<1> QED BY <1>2, <1>3 DEF SlotReserved

-----------------------------------------------------------------------------
(* Main loop callbacks.                                                     *)

LEMMA ContentFacts ==
  ASSUME NEW c \in Chan
  PROVE  /\ Content("chan", c) = chanQ[c] /\ Content("preq", c) = <<pendReq[c]>>
         /\ Content("pind", c) = <<pendInd[c]>>
         /\ Content("req", 1) = reqQ /\ Content("ind", 1) = indQ
         /\ Content("write", 1) = writeQ /\ Content("flush", 1) = flush
         /\ 1 \in Chan
         /\ {"chan", "preq", "pind", "req", "ind", "write", "flush"} = PlaceKinds
  BY BearerAssumption DEF Content, PlaceKinds, Chan

\* Where pick_next_send_op takes the operation from.
LEMMA PickPlace ==
  ASSUME TypeOK, PlaceInv, NEW c \in Chan, pick_next_send_op(c), ~PicksNone(c)
  PROVE  \E k \in {"chan", "req", "ind", "write"}, d \in Chan :
           /\ k = "chan" <=> PicksChan(c)
           /\ k = "chan" => d = c
           /\ InQ(Content(k, d), InstOf(Picked(c)))
           /\ Loses(Content(k, d), Content(k, d)', InstOf(Picked(c)))
           /\ \A m \in PlaceKinds, e \in Chan :
                m \notin {"preq", "pind", "flush"} /\ ~(m = k /\ e = d) =>
                Content(m, e)' = Content(m, e)
<1>1. /\ chanQ[c] \in Seq(ChanOps) /\ chanQ \in [Chan -> Seq(ChanOps)] /\ 1 \in Chan
      /\ reqQ \in Seq(ReqOps) /\ indQ \in Seq(IndOps) /\ writeQ \in Seq(WriteOps)
  BY ContentFacts DEF TypeOK, QueueType
<1>2. ASSUME NEW S, NEW q \in Seq(S), q # <<>>
      PROVE  InQ(q, InstOf(Head(q)))
  <2>1. 1 \in DOMAIN q /\ q[1] = Head(q)
    BY <1>2
  <2> QED BY <2>1 DEF InQ, PlacesOf
<1>3. Solo(chanQ[c]) /\ Solo(reqQ) /\ Solo(indQ) /\ Solo(writeQ)
  BY ContentFacts DEF PlaceInv
<1>4. CASE PicksChan(c) /\ chanQ' = [chanQ EXCEPT ![c] = Tail(@)]
           /\ UNCHANGED <<reqQ, indQ, writeQ>>
  <2>1. /\ Picked(c) = Head(chanQ[c]) /\ chanQ[c] # <<>> /\ chanQ'[c] = Tail(chanQ[c])
        /\ \A e \in Chan : e # c => chanQ'[e] = chanQ[e]
    BY <1>1, <1>4, PickedType DEF PicksChan
  <2>2. InQ(Content("chan", c), InstOf(Picked(c)))
        /\ Loses(Content("chan", c), Content("chan", c)', InstOf(Picked(c)))
    BY <1>1, <1>2, <1>3, <2>1, LoseTail DEF Content
  <2>3. \A m \in PlaceKinds, e \in Chan :
          m \notin {"preq", "pind", "flush"} /\ ~(m = "chan" /\ e = c) =>
          Content(m, e)' = Content(m, e)
    BY <1>4, <2>1 DEF Content, PlaceKinds
  <2> QED BY <1>4, <2>2, <2>3
<1>5. CASE PicksWrite(c) /\ writeQ' = Tail(writeQ) /\ UNCHANGED <<chanQ, reqQ, indQ>>
  <2>1. Picked(c) = Head(writeQ) /\ writeQ # <<>> /\ ~PicksChan(c)
    BY <1>5, PickedType DEF PicksWrite, Fits
  <2>2. InQ(Content("write", 1), InstOf(Picked(c)))
        /\ Loses(Content("write", 1), Content("write", 1)', InstOf(Picked(c)))
    BY <1>1, <1>2, <1>3, <1>5, <2>1, LoseTail DEF Content
  <2>3. \A m \in PlaceKinds, e \in Chan :
          m \notin {"preq", "pind", "flush"} /\ ~(m = "write" /\ e = 1) =>
          Content(m, e)' = Content(m, e)
    BY <1>5 DEF Content, PlaceKinds
  <2> QED BY <1>1, <2>1, <2>2, <2>3
<1>6. CASE PicksReq(c) /\ reqQ' = Tail(reqQ) /\ UNCHANGED <<chanQ, indQ, writeQ>>
  <2>1. Picked(c) = Head(reqQ) /\ reqQ # <<>> /\ ~PicksChan(c)
    BY <1>6, PickedType DEF PicksReq, Fits
  <2>2. InQ(Content("req", 1), InstOf(Picked(c)))
        /\ Loses(Content("req", 1), Content("req", 1)', InstOf(Picked(c)))
    BY <1>1, <1>2, <1>3, <1>6, <2>1, LoseTail DEF Content
  <2>3. \A m \in PlaceKinds, e \in Chan :
          m \notin {"preq", "pind", "flush"} /\ ~(m = "req" /\ e = 1) =>
          Content(m, e)' = Content(m, e)
    BY <1>6 DEF Content, PlaceKinds
  <2> QED BY <1>1, <2>1, <2>2, <2>3
<1>7. CASE PicksInd(c) /\ indQ' = Tail(indQ) /\ UNCHANGED <<chanQ, reqQ, writeQ>>
  <2>1. Picked(c) = Head(indQ) /\ indQ # <<>> /\ ~PicksChan(c)
    BY <1>7, PickedType DEF PicksInd, Fits
  <2>2. InQ(Content("ind", 1), InstOf(Picked(c)))
        /\ Loses(Content("ind", 1), Content("ind", 1)', InstOf(Picked(c)))
    BY <1>1, <1>2, <1>3, <1>7, <2>1, LoseTail DEF Content
  <2>3. \A m \in PlaceKinds, e \in Chan :
          m \notin {"preq", "pind", "flush"} /\ ~(m = "ind" /\ e = 1) =>
          Content(m, e)' = Content(m, e)
    BY <1>7 DEF Content, PlaceKinds
  <2> QED BY <1>1, <2>1, <2>2, <2>3
<1> QED BY <1>4, <1>5, <1>6, <1>7 DEF pick_next_send_op

\* The channel's own queue after the pop: what is left of it reserves no slot once
\* the request at its head has been taken.
LEMMA PickReserved ==
  ASSUME TypeOK, PlaceInv, NEW c \in Chan, pick_next_send_op(c), ~PicksNone(c),
         \A d \in Chan \ {c} : pendReq'[d] = pendReq[d],
         \/ pendReq'[c] = pendReq[c]
         \/ pendReq[c] # NoOp
         \/ /\ IsReq(Picked(c)) /\ (~PicksChan(c) => chanQ[c] = <<>>)
  PROVE  \A d \in Chan : SlotReserved(d)'
<1>1. chanQ \in [Chan -> Seq(ChanOps)] /\ chanQ[c] \in Seq(ChanOps)
  BY DEF TypeOK, QueueType
<1>2. ~PicksChan(c) => chanQ' = chanQ /\ chanQ[c] = <<>>
  BY DEF pick_next_send_op, PicksChan
<1>3. PicksChan(c) => /\ chanQ[c] # <<>> /\ Picked(c) = chanQ[c][1]
                      /\ chanQ' = [chanQ EXCEPT ![c] = Tail(@)]
  BY <1>1, PickedType DEF pick_next_send_op, PicksChan, PicksWrite, PicksReq, PicksInd
<1>4. \A d \in Chan \ {c} : chanQ'[d] = chanQ[d]
  BY <1>1, <1>2, <1>3
<1>5. \A d \in Chan \ {c} : SlotReserved(d)'
  BY <1>4, ReservedKeep DEF PlaceInv
<1>6. CASE ~PicksChan(c)
  <2>1. SlotReserved(c)'
    BY <1>2, <1>6 DEF SlotReserved
  <2> QED BY <1>5, <2>1
<1>7. CASE PicksChan(c)
  <2>1. chanQ'[c] = Tail(chanQ[c]) /\ SlotReserved(c)
    BY <1>1, <1>3, <1>7 DEF PlaceInv
  <2>2. /\ Len(chanQ[c]) \in Nat \ {0} /\ DOMAIN chanQ[c] = 1 .. Len(chanQ[c])
        /\ DOMAIN chanQ'[c] = 1 .. Len(chanQ[c]) - 1
        /\ \A i \in DOMAIN chanQ'[c] : chanQ'[c][i] = chanQ[c][i + 1]
    BY <1>1, <1>3, <1>7, <2>1
  <2>3. \A i \in DOMAIN chanQ'[c] : i + 1 \in DOMAIN chanQ[c] /\ i + 1 # 1 /\ i \in Nat
    BY <2>2
  <2>4. CASE pendReq'[c] = pendReq[c]
    <3>1. SlotReserved(c)'
      BY <1>3, <1>7, <2>1, <2>4, ReservedTail
    <3> QED BY <1>5, <3>1
  <2>5. CASE pendReq[c] # NoOp \/ IsReq(Picked(c))
    <3>1. \A i \in DOMAIN chanQ'[c] : ~IsReq(chanQ'[c][i])
      <4>1. 1 \in DOMAIN chanQ[c]
        BY <2>2
      <4> QED BY <1>3, <1>7, <2>1, <2>2, <2>3, <2>5, <4>1 DEF SlotReserved
    <3>2. SlotReserved(c)'
      BY <3>1 DEF SlotReserved
    <3> QED BY <1>5, <3>2
  <2> QED BY <2>4, <2>5
<1> QED BY <1>6, <1>7

\* A request or an indication is only picked when its slot is empty.
LEMMA PickFindsSlot ==
  ASSUME TypeOK, PlaceInv, NEW c \in Chan, ~PicksNone(c)
  PROVE  /\ IsReq(Picked(c)) => pendReq[c] = NoOp
         /\ Picked(c).kind = "IND" => pendInd[c] = NoOp
<1>1. chanQ[c] \in Seq(ChanOps) /\ SlotReserved(c)
  BY DEF TypeOK, QueueType, PlaceInv
<1>2. CASE PicksChan(c)
  <2>1. Picked(c) = chanQ[c][1] /\ 1 \in DOMAIN chanQ[c] /\ Picked(c) \in ChanOps
    BY <1>1, <1>2, PickedType DEF PicksChan
  <2>2. Picked(c).kind # "IND"
    BY <2>1 DEF ChanOps, Ops, RspOp
  <2> QED BY <1>1, <2>1, <2>2 DEF SlotReserved
<1>3. CASE PicksWrite(c)
  BY <1>3, PickedType DEF WriteOps, Commands, Ops, RspOp, IsReq
<1>4. CASE PicksReq(c)
  BY <1>4, PickedType DEF ReqOps, Ops, PicksReq
<1>5. CASE PicksInd(c)
  BY <1>5, PickedType DEF IndOps, Ops, PicksInd, IsReq
<1> QED BY <1>2, <1>3, <1>4, <1>5 DEF PicksNone

LEMMA PlaceWrite ==
  ASSUME TypeOK, PlaceInv, NEW c \in Chan, can_write_data(c)
  PROVE  PlaceInv'
<1> DEFINE op == Picked(c)
<1>1. /\ pick_next_send_op(c) /\ ~PicksNone(c) /\ link[c] = "up"
      /\ UNCHANGED <<link, legs, nextId, ctl, flush>>
      /\ \/ IsReq(op) /\ pendReq' = [pendReq EXCEPT ![c] = op] /\ UNCHANGED <<pendInd, freed>>
         \/ op.kind = "IND" /\ pendInd' = [pendInd EXCEPT ![c] = op]
            /\ UNCHANGED <<pendReq, freed>>
         \/ op.kind \in {"RSP", "CONF"} /\ UNCHANGED <<pendReq, pendInd, freed>>
         \/ op.kind = "CMD" /\ Free({op}) /\ UNCHANGED <<pendReq, pendInd>>
  BY DEF can_write_data, chanVars, pendVars, IsReq
<1>2. /\ pendReq \in [Chan -> Ops({"REQ", "MTU"}) \cup {NoOp}]
      /\ pendInd \in [Chan -> Ops({"IND"}) \cup {NoOp}]
      /\ chanQ[c] \in Seq(ChanOps) /\ chanQ \in [Chan -> Seq(ChanOps)]
  BY DEF TypeOK, PendType, QueueType
<1>3. IsReq(op) => pendReq[c] = NoOp
  BY <1>1, PickFindsSlot
<1>4. op.kind = "IND" => pendInd[c] = NoOp
  BY <1>1, PickFindsSlot
<1>5. op \in AnyOps
  BY <1>1, PickedType, OpSets DEF PicksNone
<1>6. op.kind \in {"RSP", "CONF"} => InstOf(op) \notin Inst
  <2>1. \/ op \in ChanOps \/ op \in WriteOps \/ op \in ReqOps \/ op \in IndOps
    BY <1>1, PickedType DEF PicksNone
  <2>2. op.kind \in {"RSP", "CONF"} => op.id = 0
    BY <2>1 DEF ChanOps, WriteOps, Commands, ReqOps, IndOps, Ops, RspOp
  <2> QED BY <1>5, <2>2, InstanceFacts
<1>7. PICK k \in {"chan", "req", "ind", "write"}, d \in Chan :
           /\ k = "chan" <=> PicksChan(c)
           /\ k = "chan" => d = c
           /\ InQ(Content(k, d), InstOf(op))
           /\ Loses(Content(k, d), Content(k, d)', InstOf(op))
           /\ \A m \in PlaceKinds, e \in Chan :
                m \notin {"preq", "pind", "flush"} /\ ~(m = k /\ e = d) =>
                Content(m, e)' = Content(m, e)
  BY <1>1, PickPlace
<1>8. ~PicksChan(c) => chanQ[c] = <<>>
  BY DEF PicksChan
<1> HIDE DEF op
<1>9. \A e \in Chan : Content("flush", e)' = Content("flush", e)
  BY <1>1 DEF Content
<1>10. \A e \in Chan : chanQ[e] = chanQ'[e] \/ e = c
  BY <1>1, <1>2 DEF pick_next_send_op
<1>11. Tidy'
  <2>1. \A e \in Chan : SlotReserved(e)'
    <3>1. \A e \in Chan \ {c} : pendReq'[e] = pendReq[e]
      BY <1>1, <1>2
    <3>2. pendReq'[c] = pendReq[c] \/ IsReq(op)
      BY <1>1
    <3> QED BY <1>1, <1>8, <3>1, <3>2, PickReserved DEF op
  <2>2. TidyInv'
    <3>1. TidyInv
      BY DEF PlaceInv
    <3>2. \A e \in Chan : e # c => /\ pendReq'[e] = pendReq[e] /\ pendInd'[e] = pendInd[e]
                                   /\ chanQ'[e] = chanQ[e]
      BY <1>1, <1>2, <1>10
    <3>3. c \in Attached /\ Attached' = Attached
      BY <1>1 DEF Attached
    <3> QED BY <1>1, <3>1, <3>2, <3>3, TidyFrame
  <2> QED BY <2>1, <2>2 DEF Tidy
<1>12. InstOf(op) \in Inst => Holds(k, d, InstOf(op))
  BY <1>7 DEF Holds
<1>13. \A q : Same(q, q)
  BY DEF Same
<1>14. k \in PlaceKinds /\ k \notin {"preq", "pind"}
  BY DEF PlaceKinds
<1>15. CASE IsReq(op) /\ pendReq' = [pendReq EXCEPT ![c] = op] /\ UNCHANGED <<pendInd, freed>>
  <2>1. Content("preq", c) = <<NoOp>> /\ Content("preq", c)' = <<op>>
    BY <1>2, <1>3, <1>15 DEF Content
  <2>2. Gains(Content("preq", c), Content("preq", c)', InstOf(op))
    BY <2>1, SlotPlaces
  <2>3. \A e \in Chan : /\ Content("pind", e)' = Content("pind", e)
                        /\ e # c => Content("preq", e)' = Content("preq", e)
    BY <1>2, <1>15 DEF Content
  <2>4. \A m \in PlaceKinds, e \in Chan : ~(m = k /\ e = d) /\ ~(m = "preq" /\ e = c) =>
           Same(Content(m, e), Content(m, e)')
    BY <1>7, <1>9, <1>13, <2>3 DEF PlaceKinds
  <2> QED BY <1>1, <1>7, <1>11, <1>12, <1>14, <1>15, <2>2, <2>4, MoveKeeps DEF PlaceKinds
<1>16. CASE op.kind = "IND" /\ pendInd' = [pendInd EXCEPT ![c] = op]
            /\ UNCHANGED <<pendReq, freed>>
  <2>1. Content("pind", c) = <<NoOp>> /\ Content("pind", c)' = <<op>>
    BY <1>2, <1>4, <1>16 DEF Content
  <2>2. Gains(Content("pind", c), Content("pind", c)', InstOf(op))
    BY <2>1, SlotPlaces
  <2>3. \A e \in Chan : /\ Content("preq", e)' = Content("preq", e)
                        /\ e # c => Content("pind", e)' = Content("pind", e)
    BY <1>2, <1>16 DEF Content
  <2>4. \A m \in PlaceKinds, e \in Chan : ~(m = k /\ e = d) /\ ~(m = "pind" /\ e = c) =>
           Same(Content(m, e), Content(m, e)')
    BY <1>7, <1>9, <1>13, <2>3 DEF PlaceKinds
  <2> QED BY <1>1, <1>7, <1>11, <1>12, <1>14, <1>16, <2>2, <2>4, MoveKeeps DEF PlaceKinds
<1>17. CASE /\ UNCHANGED <<pendReq, pendInd>>
            /\ freed' = freed \cup ({InstOf(op)} \cap Inst)
  <2>1. \A e \in Chan : /\ Content("preq", e)' = Content("preq", e)
                        /\ Content("pind", e)' = Content("pind", e)
    BY <1>17 DEF Content
  <2>2. \A m \in PlaceKinds, e \in Chan : ~(m = k /\ e = d) =>
           Same(Content(m, e), Content(m, e)')
    BY <1>7, <1>9, <1>13, <2>1 DEF PlaceKinds
  <2> QED BY <1>1, <1>7, <1>11, <1>12, <1>14, <1>17, <2>2, FreeKeeps
<1>18. op.kind = "CMD" /\ Free({op}) => freed' = freed \cup ({InstOf(op)} \cap Inst)
  BY <1>5, InstanceFacts DEF Free
<1>19. op.kind \in {"RSP", "CONF"} => freed = freed \cup ({InstOf(op)} \cap Inst)
  BY <1>6
<1> QED BY <1>1, <1>15, <1>16, <1>17, <1>18, <1>19

\* No queue and no slot is touched.
LEMMA PlaceUntouched ==
  ASSUME PlaceInv, UNCHANGED <<chanQ, reqQ, indQ, writeQ, flush, pendReq, pendInd, legs, freed>>,
         TidyInv'
  PROVE  PlaceInv'
<1>1. \A k \in PlaceKinds, c \in Chan : Same(Content(k, c), Content(k, c)')
  BY DEF Content, Same
<1>2. Tidy'
  BY DEF Tidy, PlaceInv, SlotReserved
<1> QED BY <1>1, <1>2, StillKeeps

\* A slot is emptied and what it held is destroyed.
LEMMA PlaceSlotFreed ==
  ASSUME TypeOK, PlaceInv, NEW c \in Chan, TidyInv',
         UNCHANGED <<chanQ, reqQ, indQ, writeQ, flush, legs>>,
         \/ /\ pendReq' = [pendReq EXCEPT ![c] = NoOp] /\ pendInd' = pendInd
            /\ Free({pendReq[c]})
         \/ /\ pendInd' = [pendInd EXCEPT ![c] = NoOp] /\ pendReq' = pendReq
            /\ Free({pendInd[c]})
  PROVE  PlaceInv'
<1>1. /\ pendReq \in [Chan -> Ops({"REQ", "MTU"}) \cup {NoOp}]
      /\ pendInd \in [Chan -> Ops({"IND"}) \cup {NoOp}]
      /\ pendReq[c] \in AnyOps /\ pendInd[c] \in AnyOps
  BY PlaceFacts DEF TypeOK, PendType
<1>2. Tidy'
  <2>1. \A d \in Chan : SlotReserved(d)'
    BY <1>1, ReservedKeep DEF PlaceInv
  <2> QED BY <2>1 DEF Tidy
<1>3. \A q : Same(q, q)
  BY DEF Same
<1>4. CASE /\ pendReq' = [pendReq EXCEPT ![c] = NoOp] /\ pendInd' = pendInd
           /\ Free({pendReq[c]})
  <2>1. Content("preq", c) = <<pendReq[c]>> /\ Content("preq", c)' = <<NoOp>>
    BY <1>1, <1>4 DEF Content
  <2>2. /\ Loses(Content("preq", c), Content("preq", c)', InstOf(pendReq[c]))
        /\ Holds("preq", c, InstOf(pendReq[c]))
    BY <2>1, SlotPlaces, OnePlace DEF Holds
  <2>3. \A m \in PlaceKinds, e \in Chan : ~(m = "preq" /\ e = c) =>
           Content(m, e)' = Content(m, e)
    BY <1>1, <1>4 DEF Content, PlaceKinds
  <2>4. freed' = freed \cup ({InstOf(pendReq[c])} \cap Inst)
    BY <1>1, <1>4, InstanceFacts DEF Free
  <2> QED BY <1>2, <1>3, <2>2, <2>3, <2>4, FreeKeeps DEF PlaceKinds
<1>5. CASE /\ pendInd' = [pendInd EXCEPT ![c] = NoOp] /\ pendReq' = pendReq
           /\ Free({pendInd[c]})
  <2>1. Content("pind", c) = <<pendInd[c]>> /\ Content("pind", c)' = <<NoOp>>
    BY <1>1, <1>5 DEF Content
  <2>2. /\ Loses(Content("pind", c), Content("pind", c)', InstOf(pendInd[c]))
        /\ Holds("pind", c, InstOf(pendInd[c]))
    BY <2>1, SlotPlaces, OnePlace DEF Holds
  <2>3. \A m \in PlaceKinds, e \in Chan : ~(m = "pind" /\ e = c) =>
           Content(m, e)' = Content(m, e)
    BY <1>1, <1>5 DEF Content, PlaceKinds
  <2>4. freed' = freed \cup ({InstOf(pendInd[c])} \cap Inst)
    BY <1>1, <1>5, InstanceFacts DEF Free
  <2> QED BY <1>2, <1>3, <2>2, <2>3, <2>4, FreeKeeps DEF PlaceKinds
<1> QED BY <1>4, <1>5

\* A response or a confirmation of ours, which is no operation of the user's, is
\* queued.
LEMMA PlaceReplied ==
  ASSUME TypeOK, PlaceInv, NEW kind \in {"RSP", "CONF"}, TidyInv',
         UNCHANGED <<reqQ, indQ, flush, pendReq, pendInd, legs, freed>>,
         \/ /\ writeQ' = Append(writeQ, RspOp(kind)) /\ chanQ' = chanQ
         \/ \E c \in Chan : /\ chanQ' = [chanQ EXCEPT ![c] = Append(@, RspOp(kind))]
                            /\ writeQ' = writeQ
  PROVE  PlaceInv'
<1> DEFINE op == RspOp(kind)
<1>1. /\ chanQ \in [Chan -> Seq(ChanOps)] /\ writeQ \in Seq(WriteOps) /\ 1 \in Chan
  BY BearerAssumption DEF TypeOK, QueueType, Chan
<1>2. InstOf(op) \notin Inst /\ ~IsReq(op)
  BY BearerAssumption DEF InstOf, RspOp, Inst, Ids, IsReq
<1> HIDE DEF op
<1>3. ASSUME NEW S, NEW q \in Seq(S)
      PROVE  Same(q, Append(q, op))
  BY <1>2, GainAppend DEF Gains, Same
<1>4. CASE writeQ' = Append(writeQ, op) /\ chanQ' = chanQ
  <2>1. \A k \in PlaceKinds, e \in Chan : Same(Content(k, e), Content(k, e)')
    <3>1. \A k \in PlaceKinds, e \in Chan :
             ~(k = "write" /\ e = 1) => Content(k, e)' = Content(k, e)
      BY <1>4 DEF Content, PlaceKinds
    <3>2. Same(Content("write", 1), Content("write", 1)')
      BY <1>1, <1>3, <1>4 DEF Content
    <3>3. \A q : Same(q, q)
      BY DEF Same
    <3> QED BY <3>1, <3>2, <3>3
  <2>2. Tidy'
    BY <1>4 DEF Tidy, PlaceInv, SlotReserved
  <2> QED BY <2>1, <2>2, StillKeeps
<1>5. ASSUME NEW c \in Chan, chanQ' = [chanQ EXCEPT ![c] = Append(@, op)], writeQ' = writeQ
      PROVE  PlaceInv'
  <2>1. chanQ'[c] = Append(chanQ[c], op) /\ \A e \in Chan : e # c => chanQ'[e] = chanQ[e]
    BY <1>1, <1>5
  <2>2. \A k \in PlaceKinds, e \in Chan : Same(Content(k, e), Content(k, e)')
    <3>1. \A k \in PlaceKinds, e \in Chan :
             ~(k = "chan" /\ e = c) => Content(k, e)' = Content(k, e)
      BY <1>5, <2>1 DEF Content, PlaceKinds
    <3>2. Same(Content("chan", c), Content("chan", c)')
      BY <1>1, <1>3, <2>1 DEF Content
    <3>3. \A q : Same(q, q)
      BY DEF Same
    <3> QED BY <3>1, <3>2, <3>3
  <2>3. \A e \in Chan : SlotReserved(e)'
    <3>1. SlotReserved(c)'
      BY <1>2, <2>1, ReservedAppend DEF PlaceInv
    <3> QED BY <2>1, <3>1, ReservedKeep DEF PlaceInv
  <2> QED BY <2>2, <2>3, StillKeeps DEF Tidy
<1> QED BY <1>4, <1>5 DEF op

LEMMA PlaceIdle ==
  ASSUME TypeOK, PlaceInv, NEW c \in Chan, can_write_data_idle(c) \/ watch_callback_error(c)
  PROVE  PlaceInv'
<1>1. UNCHANGED <<link, chanQ, reqQ, indQ, writeQ, flush, pendReq, pendInd, legs, freed,
                  nextId, ctl>>
  BY DEF can_write_data_idle, watch_callback_error, chanVars, queueVars, pendVars, ghostVars
<1>2. TidyInv'
  BY <1>1 DEF PlaceInv, TidyInv, Flushing, Attached
<1> QED BY <1>1, <1>2, PlaceUntouched

LEMMA PlaceWriteFails ==
  ASSUME TypeOK, PlaceInv, NEW c \in Chan, can_write_data_fails(c)
  PROVE  PlaceInv'
<1> DEFINE op == Picked(c)
<1>1. /\ pick_next_send_op(c) /\ ~PicksNone(c) /\ Free({op}) /\ c \in Attached
      /\ UNCHANGED <<link, legs, nextId, ctl, flush, pendReq, pendInd>>
  BY DEF can_write_data_fails, chanVars, pendVars, Attached
<1>2. op \in AnyOps
  BY <1>1, PickedType, OpSets DEF PicksNone
<1>3. PICK k \in {"chan", "req", "ind", "write"}, d \in Chan :
           /\ k = "chan" <=> PicksChan(c)
           /\ k = "chan" => d = c
           /\ InQ(Content(k, d), InstOf(op))
           /\ Loses(Content(k, d), Content(k, d)', InstOf(op))
           /\ \A m \in PlaceKinds, e \in Chan :
                m \notin {"preq", "pind", "flush"} /\ ~(m = k /\ e = d) =>
                Content(m, e)' = Content(m, e)
  BY <1>1, PickPlace
<1> HIDE DEF op
<1>4. freed' = freed \cup ({InstOf(op)} \cap Inst)
  BY <1>1, <1>2, InstanceFacts DEF Free
<1>5. \A m \in PlaceKinds, e \in Chan : ~(m = k /\ e = d) => Same(Content(m, e), Content(m, e)')
  <2>1. \A m \in {"preq", "pind", "flush"}, e \in Chan : Content(m, e)' = Content(m, e)
    BY <1>1 DEF Content
  <2>2. \A q : Same(q, q)
    BY DEF Same
  <2> QED BY <1>3, <2>1, <2>2 DEF PlaceKinds
<1>6. Tidy'
  <2>1. \A e \in Chan : SlotReserved(e)'
    BY <1>1, PickReserved
  <2>2. \A e \in Chan : e # c => chanQ'[e] = chanQ[e]
    BY <1>1 DEF pick_next_send_op, TypeOK, QueueType
  <2>3. Attached' = Attached /\ TidyInv
    BY <1>1 DEF Attached, PlaceInv
  <2>4. TidyInv'
    BY <1>1, <2>2, <2>3, TidyFrame
  <2> QED BY <2>1, <2>4 DEF Tidy
<1> QED BY <1>1, <1>3, <1>4, <1>5, <1>6, FreeKeeps DEF PlaceKinds, Holds

LEMMA PlaceErrorRsp ==
  ASSUME TypeOK, PlaceInv, NEW c \in Attached, NEW ecode, handle_error_rsp(c, ecode)
  PROVE  PlaceInv'
<1> DEFINE old == pendReq[c]
           op == [old EXCEPT !.retry = TRUE]
<1>1. /\ UNCHANGED <<link, reqQ, indQ, writeQ, flush, pendInd, legs, freed, nextId, ctl>>
      /\ chanQ' = [chanQ EXCEPT ![c] = <<op>> \o @] /\ pendReq' = [pendReq EXCEPT ![c] = NoOp]
      /\ old # NoOp /\ c \in Chan
  BY DEF handle_error_rsp, ghostVars, Attached
<1>2. /\ pendReq \in [Chan -> Ops({"REQ", "MTU"}) \cup {NoOp}] /\ old \in Ops({"REQ", "MTU"})
      /\ chanQ \in [Chan -> Seq(ChanOps)] /\ chanQ[c] \in Seq(ChanOps)
  BY <1>1, PlaceFacts DEF TypeOK, PendType, QueueType
<1>3. op \in ChanOps /\ InstOf(op) = InstOf(old)
  BY <1>2 DEF Ops, ChanOps, InstOf
<1> HIDE DEF op, old
<1>4. /\ chanQ'[c] = <<op>> \o chanQ[c] /\ pendReq'[c] = NoOp /\ pendReq[c] = old
      /\ \A e \in Chan : e # c => chanQ'[e] = chanQ[e] /\ pendReq'[e] = pendReq[e]
  BY <1>1, <1>2 DEF old
<1>5. Gains(Content("chan", c), Content("chan", c)', InstOf(old))
  BY <1>2, <1>3, <1>4, GainPush DEF Content
<1>6. /\ Loses(Content("preq", c), Content("preq", c)', InstOf(old))
      /\ Holds("preq", c, InstOf(old))
  BY <1>4, SlotPlaces, OnePlace DEF Content, Holds
<1>7. \A m \in PlaceKinds, e \in Chan : ~(m = "preq" /\ e = c) /\ ~(m = "chan" /\ e = c) =>
         Same(Content(m, e), Content(m, e)')
  <2>1. \A m \in PlaceKinds, e \in Chan : ~(m = "preq" /\ e = c) /\ ~(m = "chan" /\ e = c) =>
           Content(m, e)' = Content(m, e)
    BY <1>1, <1>4 DEF Content, PlaceKinds
  <2> QED BY <2>1 DEF Same
<1>8. Tidy'
  <2>1. SlotReserved(c)'
    <3>1. \A i \in DOMAIN chanQ[c] : ~IsReq(chanQ[c][i])
      BY <1>1, <1>4 DEF PlaceInv, SlotReserved
    <3>2. /\ Len(chanQ[c]) \in Nat /\ DOMAIN chanQ[c] = 1 .. Len(chanQ[c])
          /\ DOMAIN chanQ'[c] = 1 .. Len(chanQ[c]) + 1
          /\ \A i \in 2 .. Len(chanQ[c]) + 1 : chanQ'[c][i] = chanQ[c][i - 1]
      BY <1>2, <1>3, <1>4, PushFacts
    <3>3. \A i \in DOMAIN chanQ'[c] : i = 1 \/ ~IsReq(chanQ'[c][i])
      <4>1. \A i \in DOMAIN chanQ'[c] : i = 1 \/ (i \in 2 .. Len(chanQ[c]) + 1 /\ i - 1 \in DOMAIN chanQ[c])
        BY <3>2
      <4> QED BY <3>1, <3>2, <4>1
    <3> QED BY <1>4, <3>3 DEF SlotReserved
  <2>2. \A e \in Chan : SlotReserved(e)'
    BY <1>4, <2>1, ReservedKeep DEF PlaceInv
  <2>3. Attached' = Attached /\ TidyInv
    BY <1>1 DEF Attached, PlaceInv
  <2>4. TidyInv'
    BY <1>1, <1>4, <2>3, TidyFrame
  <2> QED BY <2>2, <2>4 DEF Tidy
<1> QED BY <1>1, <1>5, <1>6, <1>7, <1>8, MoveKeeps DEF PlaceKinds

\* Nothing but the state of the channel c, which stays attached, and the callback
\* that runs change for TidyInv.
LEMMA TidyStays ==
  ASSUME TidyInv, UNCHANGED <<flush, legs, nextId, chanQ>>,
         \/ ctl'.pc = ctl.pc /\ ctl'.chan = ctl.chan
         \/ {ctl.pc, ctl'.pc} \subseteq {"main", "rsp", "conf"},
         NEW c \in Chan, c \in Attached, c \in Attached',
         \A d \in Chan \ {c} : /\ link'[d] = link[d]
                               /\ pendReq'[d] = pendReq[d] /\ pendInd'[d] = pendInd[d]
  PROVE  TidyInv'
<1>1. \A d \in Chan : d \in Attached' <=> d \in Attached
  BY DEF Attached
<1> QED BY <1>1, TidyFrame

LEMMA PlaceRead ==
  ASSUME TypeOK, PlaceInv, NEW c \in Chan, read_rsp(c) \/ read_conf(c) \/ read_stray(c)
  PROVE  PlaceInv'
<1>1. ctl = Main /\ c \in Attached
  BY DEF read_rsp, read_conf, read_stray, Readable, Attached
<1>2. \/ \E ans : handle_rsp(c, ans)
      \/ handle_conf(c)
      \/ io_shutdown(c) /\ UNCHANGED <<queueVars, pendVars, ctl, flush, nextId, ghostVars>>
  BY DEF read_rsp, read_conf, read_stray
<1>3. /\ link \in [Chan -> {"new", "up", "down", "shut", "gone"}]
      /\ pendReq \in [Chan -> Ops({"REQ", "MTU"}) \cup {NoOp}]
      /\ pendInd \in [Chan -> Ops({"IND"}) \cup {NoOp}]
  BY DEF TypeOK, ChanType, PendType
<1>4. CASE io_shutdown(c) /\ UNCHANGED <<queueVars, pendVars, ctl, flush, nextId, ghostVars>>
  <2>1. c \in Attached' /\ \A d \in Chan \ {c} : link'[d] = link[d]
    BY <1>3, <1>4 DEF io_shutdown, Attached
  <2>2. TidyInv'
    BY <1>1, <1>4, <2>1, TidyStays DEF PlaceInv, queueVars, pendVars, ghostVars
  <2> QED BY <1>4, <2>2, PlaceUntouched DEF queueVars, pendVars, ghostVars
<1>5. CASE /\ UNCHANGED <<chanVars, queueVars, pendVars, flush, nextId, legs, freed>>
           /\ \E pc \in {"rsp", "conf"} : ctl' = In(pc, c, TRUE)
  <2>1. ctl'.pc \in {"rsp", "conf"} /\ ctl.pc = "main"
    BY <1>1, <1>5 DEF In, Main
  <2>2. TidyInv'
    BY <1>1, <1>5, <2>1, TidyStays DEF PlaceInv, queueVars, pendVars, chanVars, Attached
  <2> QED BY <1>5, <2>2, PlaceUntouched DEF queueVars, pendVars
<1>6. CASE /\ UNCHANGED <<chanVars, queueVars, ctl, flush, nextId, legs>>
           /\ \/ /\ pendReq' = [pendReq EXCEPT ![c] = NoOp] /\ pendInd' = pendInd
                 /\ Free({pendReq[c]})
              \/ /\ pendInd' = [pendInd EXCEPT ![c] = NoOp] /\ pendReq' = pendReq
                 /\ Free({pendInd[c]})
  <2>1. TidyInv'
    BY <1>1, <1>3, <1>6, TidyStays DEF PlaceInv, queueVars, chanVars, Attached
  <2> QED BY <1>6, <2>1, PlaceSlotFreed DEF queueVars
<1>7. ASSUME NEW ans, handle_rsp(c, ans)
      PROVE  PlaceInv'
  BY <1>1, <1>4, <1>5, <1>6, <1>7, PlaceErrorRsp DEF handle_rsp, pendVars
<1>8. CASE handle_conf(c)
  BY <1>4, <1>5, <1>6, <1>8 DEF handle_conf, pendVars
<1> QED BY <1>2, <1>4, <1>7, <1>8

LEMMA PlaceReadOther ==
  ASSUME TypeOK, PlaceInv, NEW c \in Chan,
         read_req(c) \/ \E kind \in {"IND", "NFY"} : read_unasked(c, kind)
  PROVE  PlaceInv'
<1>1. /\ ctl = Main /\ c \in Attached /\ UNCHANGED <<pendReq, pendInd, ctl, flush, nextId, legs, freed>>
  BY DEF read_req, read_unasked, Readable, Attached, pendVars, ghostVars
<1>2. /\ \/ link' = link \/ io_shutdown(c)
      /\ \/ UNCHANGED queueVars
         \/ respond_not_supported
         \/ /\ chanQ' = [chanQ EXCEPT ![c] = Append(@, RspOp("CONF"))]
            /\ UNCHANGED <<reqQ, indQ, writeQ>>
  BY DEF read_req, read_unasked, chanVars
<1>3. c \in Attached' /\ \A d \in Chan \ {c} : link'[d] = link[d]
  BY <1>1, <1>2 DEF io_shutdown, Attached, TypeOK, ChanType
<1>4. \A d \in Chan : d \in Attached' <=> d \in Attached
  BY <1>1, <1>3 DEF Attached
<1>5. TidyInv'
  <2>1. \A d \in Chan \ {c} : chanQ'[d] = chanQ[d]
    BY <1>2 DEF queueVars, respond_not_supported, TypeOK, QueueType
  <2> QED BY <1>1, <1>4, <2>1, TidyFrame DEF PlaceInv
<1> QED BY <1>1, <1>2, <1>5, PlaceReplied, PlaceUntouched DEF queueVars, respond_not_supported

LEMMA PlaceTimeout ==
  ASSUME TypeOK, PlaceInv, NEW c \in Chan, timeout_cb(c)
  PROVE  PlaceInv'
<1>1. /\ UNCHANGED <<chanQ, reqQ, indQ, writeQ, flush, legs, nextId, ctl>> /\ c \in Attached
      /\ link' = [link EXCEPT ![c] = "shut"]
      /\ \/ /\ pendReq' = [pendReq EXCEPT ![c] = NoOp] /\ pendInd' = pendInd
            /\ Free({pendReq[c]})
         \/ /\ pendInd' = [pendInd EXCEPT ![c] = NoOp] /\ pendReq' = pendReq
            /\ Free({pendInd[c]})
  BY DEF timeout_cb, io_shutdown, queueVars
<1>2. /\ c \in Attached' /\ \A d \in Chan \ {c} : /\ link'[d] = link[d]
                               /\ pendReq'[d] = pendReq[d] /\ pendInd'[d] = pendInd[d]
  BY <1>1 DEF Attached, TypeOK, ChanType, PendType
<1>3. TidyInv'
  BY <1>1, <1>2, TidyStays DEF PlaceInv
<1> QED BY <1>1, <1>3, PlaceSlotFreed

LEMMA PlaceDisconnect ==
  ASSUME TypeOK, PlaceInv, NEW c \in Chan, disconnect_cb(c)
  PROVE  PlaceInv'
<1>1. /\ UNCHANGED <<chanQ, reqQ, indQ, writeQ, flush, legs, nextId, pendInd>> /\ ctl = Main
      /\ link' = [link EXCEPT ![c] = "gone"]
      /\ pendReq' = [pendReq EXCEPT ![c] = NoOp] /\ Free({pendReq[c]})
      /\ ctl' = In("detach", c, pendReq[c].live)
  BY DEF disconnect_cb, queueVars
<1>2. ctl'.pc = "detach" /\ ctl'.chan = c /\ ctl.pc = "main"
  BY <1>1 DEF In, Main
<1>3. /\ pendReq'[c] = NoOp
      /\ \A d \in Chan \ {c} : /\ d \in Attached' <=> d \in Attached
                               /\ pendReq'[d] = pendReq[d]
  BY <1>1 DEF Attached, TypeOK, ChanType, PendType
<1>4. TidyInv'
  <2>1. flush' = <<>>
    BY <1>1, <1>2 DEF PlaceInv, TidyInv, Flushing
  <2>2. ASSUME NEW d \in Chan, d \notin Attached'
        PROVE  /\ pendReq'[d] = NoOp
               /\ ~(ctl'.pc = "detach" /\ ctl'.chan = d) => chanQ'[d] = <<>> /\ pendInd'[d] = NoOp
    BY <1>1, <1>2, <1>3, <2>2 DEF PlaceInv, TidyInv
  <2> QED BY <1>1, <2>1, <2>2 DEF PlaceInv, TidyInv
<1> QED BY <1>1, <1>4, PlaceSlotFreed

-----------------------------------------------------------------------------
(* What goes on once callbacks return.                                      *)

LEMMA InstancesIn ==
  ASSUME NEW ops, NEW x \in Inst
  PROVE  x \in Instances(ops) <=> \E o \in ops : InstOf(o) = x
<1>1. \A o : InstOf(o) = x => o.id # 0
  BY BearerAssumption DEF InstOf, Inst, Ids
<1> QED BY <1>1 DEF Instances

LEMMA InQOps ==
  ASSUME NEW q, NEW x
  PROVE  InQ(q, x) <=> \E o \in InSeq(q) : InstOf(o) = x
  BY DEF InQ, PlacesOf, InSeq

\* Whole queues are emptied.
LEMMA FreeMany ==
  ASSUME PlaceInv, UNCHANGED legs, Tidy', NEW ops, freed' = freed \cup Instances(ops),
         \A k \in PlaceKinds, c \in Chan : Solo(Content(k, c))',
         \A x \in Inst, k \in PlaceKinds, c \in Chan : Holds(k, c, x)' => Holds(k, c, x),
         \A x \in Inst : (\E o \in ops : InstOf(o) = x) <=>
            \E k \in PlaceKinds, c \in Chan : Holds(k, c, x) /\ ~Holds(k, c, x)'
  PROVE  PlaceInv'
<1>1. ASSUME NEW x \in Inst
      PROVE  Placed(x)' /\ (x \in freed => Created(x))'
  <2>1. x \in Instances(ops) <=> \E k \in PlaceKinds, c \in Chan :
                                    Holds(k, c, x) /\ ~Holds(k, c, x)'
    BY InstancesIn
  <2>2. x \in freed' <=> \/ x \in freed
                         \/ \E k \in PlaceKinds, c \in Chan :
                              Holds(k, c, x) /\ ~Holds(k, c, x)'
    BY <2>1
  <2> QED BY <2>2, PlaceFreed DEF PlaceInv, Created
<1> QED BY <1>1 DEF PlaceInv, Tidy

LEMMA PlaceBearerFree ==
  ASSUME TypeOK, PlaceInv, bt_att_free, UNCHANGED flush,
         ctl.pc \in {"main", "rsp", "conf"}
  PROVE  PlaceInv'
<1> DEFINE ops == AllOps(Attached) \cup SharedOps
<1>1. /\ freed' = freed \cup Instances(ops) /\ UNCHANGED <<legs, nextId>>
      /\ \A c \in Chan : /\ chanQ'[c] = <<>> /\ pendReq'[c] = NoOp /\ pendInd'[c] = NoOp
      /\ reqQ' = <<>> /\ indQ' = <<>> /\ writeQ' = <<>>
  BY DEF bt_att_free, Free
<1>2. flush = <<>> /\ flush' = <<>>
  BY DEF PlaceInv, TidyInv, Flushing
<1>3. \A c \in Chan \ Attached :
         chanQ[c] = <<>> /\ pendReq[c] = NoOp /\ pendInd[c] = NoOp
  BY DEF PlaceInv, TidyInv
<1>4. \A x \in Inst : InstOf(NoOp) # x
  BY BearerAssumption DEF Inst, Ids, InstOf, NoOp
<1>5. ASSUME NEW k \in PlaceKinds, NEW c \in Chan
      PROVE  Content(k, c)' \in {<<>>, <<NoOp>>}
  BY <1>1, <1>2 DEF Content, PlaceKinds
<1>6. \A k \in PlaceKinds, c \in Chan :
         Solo(Content(k, c))' /\ \A x \in Inst : ~Holds(k, c, x)'
  BY <1>4, <1>5, OnePlace DEF Holds
<1>7. Tidy'
  BY <1>1, <1>2 DEF Tidy, TidyInv, SlotReserved, PlaceInv
<1>8. ASSUME NEW x \in Inst
      PROVE  (\E o \in ops : InstOf(o) = x) <=> \E k \in PlaceKinds, c \in Chan : Holds(k, c, x)
  <2>1. ASSUME NEW o \in SharedOps, InstOf(o) = x
        PROVE  \E k \in PlaceKinds, c \in Chan : Holds(k, c, x)
    <3>1. InQ(reqQ, x) \/ InQ(indQ, x) \/ InQ(writeQ, x)
      BY <2>1, InQOps DEF SharedOps
    <3>2. 1 \in Chan /\ {"req", "ind", "write"} \subseteq PlaceKinds
      BY BearerAssumption DEF Chan, PlaceKinds
    <3> QED BY <3>1, <3>2 DEF Holds, Content
  <2>2. ASSUME NEW c \in Attached, NEW o \in InSeq(chanQ[c]) \cup {pendReq[c], pendInd[c]},
               InstOf(o) = x
        PROVE  \E k \in PlaceKinds : Holds(k, c, x)
    <3>1. InQ(chanQ[c], x) \/ InQ(<<pendReq[c]>>, x) \/ InQ(<<pendInd[c]>>, x)
      BY <2>2, InQOps, OnePlace
    <3> QED BY <3>1 DEF Holds, Content, PlaceKinds
  <2>3. ASSUME NEW k \in PlaceKinds, NEW c \in Chan, Holds(k, c, x)
        PROVE  \/ \E o \in SharedOps : InstOf(o) = x
               \/ /\ c \in Attached
                  /\ \E o \in InSeq(chanQ[c]) \cup {pendReq[c], pendInd[c]} : InstOf(o) = x
    <3>1. CASE k = "chan"
      <4>1. InQ(chanQ[c], x)
        BY <2>3, <3>1 DEF Holds, Content
      <4> QED BY <1>3, <4>1, InQOps, OnePlace
    <3>2. CASE k \in {"preq", "pind"}
      <4>1. InstOf(pendReq[c]) = x \/ InstOf(pendInd[c]) = x
        BY <2>3, <3>2, OnePlace DEF Holds, Content
      <4> QED BY <1>3, <1>4, <4>1
    <3>3. CASE k \in {"req", "ind", "write", "flush"}
      <4>1. InQ(reqQ, x) \/ InQ(indQ, x) \/ InQ(writeQ, x)
        BY <1>2, <2>3, <3>3, OnePlace DEF Holds, Content
      <4> QED BY <4>1, InQOps DEF SharedOps
    <3> QED BY <3>1, <3>2, <3>3 DEF PlaceKinds
  <2>4. \A o : o \in AllOps(Attached) <=>
          \E c \in Attached : o \in InSeq(chanQ[c]) \cup {pendReq[c], pendInd[c]}
    BY DEF AllOps
  <2>5. Attached \subseteq Chan
    BY DEF Attached
  <2> QED BY <2>1, <2>2, <2>3, <2>4, <2>5
<1> HIDE DEF ops
<1> QED BY <1>1, <1>6, <1>7, <1>8, FreeMany

LEMMA PlaceEndCallback ==
  ASSUME TypeOK, PlaceInv, end_callback
  PROVE  PlaceInv'
<1> DEFINE c == ctl.chan
<1>1. c \in Chan /\ ctl' = Main /\ ctl.pc \in {"rsp", "conf"} /\ flush' = flush
  BY DEF end_callback, TypeOK, FlagType
<1>2. CASE bt_att_free
  BY <1>1, <1>2, PlaceBearerFree
<1>3. CASE /\ UNCHANGED <<link, queueVars, nextId, legs>>
           /\ \/ /\ pendReq' = [pendReq EXCEPT ![c] = NoOp] /\ pendInd' = pendInd
                 /\ Free({pendReq[c]})
              \/ /\ pendInd' = [pendInd EXCEPT ![c] = NoOp] /\ pendReq' = pendReq
                 /\ Free({pendInd[c]})
  <2>1. ctl'.pc = "main" /\ Attached' = Attached
    BY <1>1, <1>3 DEF Main, Attached
  <2>2. \A d \in Chan : pendReq'[d] \in {pendReq[d], NoOp} /\ pendInd'[d] \in {pendInd[d], NoOp}
    BY <1>3 DEF TypeOK, PendType
  <2>3. TidyInv'
    BY <1>1, <1>3, <2>1, <2>2, TidyFrame DEF PlaceInv, queueVars
  <2> QED BY <1>1, <1>3, <2>3, PlaceSlotFreed DEF queueVars
<1> QED BY <1>2, <1>3 DEF end_callback

\* queue_remove_all detaches a shared queue.
LEMMA FlushMoves ==
  ASSUME NEW x \in Inst, Placed(x), Alive(x)' <=> Alive(x), NEW k \in {"req", "ind", "write"},
         ~Holds("flush", 1, x), Holds("flush", 1, x)' <=> Holds(k, 1, x), ~Holds(k, 1, x)',
         \A l \in PlaceKinds, d \in Chan : ~(l \in {k, "flush"} /\ d = 1) =>
            (Holds(l, d, x)' <=> Holds(l, d, x))
  PROVE  Placed(x)'
<1>1. 1 \in Chan /\ k \in PlaceKinds /\ "flush" \in PlaceKinds /\ k # "flush"
  BY BearerAssumption DEF Chan, PlaceKinds
<1>2. CASE Holds(k, 1, x)
  <2>1. Alive(x) /\ OnlyIn(k, 1, x)
    BY <1>1, <1>2 DEF Placed, OnlyIn
  <2>2. OnlyIn("flush", 1, x)'
    BY <1>1, <1>2, <2>1 DEF OnlyIn
  <2> QED BY <1>1, <2>1, <2>2, PlaceFrame
<1>3. CASE ~Holds(k, 1, x)
  <2>1. \A l \in PlaceKinds, d \in Chan : Holds(l, d, x)' <=> Holds(l, d, x)
    BY <1>3
  <2> QED BY <2>1, PlaceFrame
<1> QED BY <1>2, <1>3

LEMMA PlaceDetach ==
  ASSUME TypeOK, PlaceInv, detach_chan
  PROVE  PlaceInv'
<1>1. PICK c \in Chan : c = ctl.chan
  BY DEF TypeOK, FlagType
<1> DEFINE ops == {pendInd[c]} \cup InSeq(chanQ[c])
<1>2. /\ UNCHANGED <<link, pendReq, indQ, writeQ, legs, nextId>> /\ ctl.pc = "detach"
      /\ freed' = freed \cup Instances(ops) /\ c \in Chan
      /\ chanQ' = [chanQ EXCEPT ![c] = <<>>] /\ pendInd' = [pendInd EXCEPT ![c] = NoOp]
      /\ \/ ctl' = Main /\ UNCHANGED <<flush, reqQ>>
         \/ ctl' = In("flush_req", c, pendInd[c].live) /\ flush' = reqQ /\ reqQ' = <<>>
  BY <1>1 DEF detach_chan, chanVars, Free
<1>3. \A d \in Chan : /\ chanQ'[d] = IF d = c THEN <<>> ELSE chanQ[d]
                      /\ pendInd'[d] = IF d = c THEN NoOp ELSE pendInd[d]
  BY <1>2 DEF TypeOK, QueueType, PendType
<1>4. flush = <<>>
  BY <1>2 DEF PlaceInv, TidyInv, Flushing
<1>5. Tidy'
  <2>1. \A d \in Chan : SlotReserved(d)'
    BY <1>2, <1>3, ReservedKeep DEF PlaceInv
  <2>2. (Flushing \/ flush = <<>>)'
    BY <1>2, <1>4 DEF Flushing, In
  <2>3. \A d \in Chan : d \notin Attached' =>
           pendReq'[d] = NoOp /\ chanQ'[d] = <<>> /\ pendInd'[d] = NoOp
    BY <1>1, <1>2, <1>3 DEF PlaceInv, TidyInv, Attached
  <2>4. TidyInv'
    BY <1>2, <2>2, <2>3 DEF PlaceInv, TidyInv
  <2> QED BY <2>1, <2>4 DEF Tidy
<1>6. /\ Content("chan", c) = chanQ[c] /\ Content("chan", c)' = <<>>
      /\ Content("pind", c) = <<pendInd[c]>> /\ Content("pind", c)' = <<NoOp>>
      /\ Content("flush", 1) = <<>> /\ Content("flush", 1)' = flush'
      /\ Content("req", 1) = reqQ /\ Content("req", 1)' = reqQ' /\ 1 \in Chan
      /\ "req" \in PlaceKinds /\ "chan" \in PlaceKinds /\ "pind" \in PlaceKinds
      /\ "flush" \in PlaceKinds
  <2>1. 1 \in Chan
    BY BearerAssumption DEF Chan
  <2> QED BY <1>2, <1>3, <1>4, <2>1 DEF Content, PlaceKinds
<1>7. \A k \in PlaceKinds, d \in Chan :
         ~(k \in {"chan", "pind"} /\ d = c) /\ ~(k \in {"req", "flush"} /\ d = 1) =>
         Content(k, d)' = Content(k, d)
  BY <1>2, <1>3 DEF Content, PlaceKinds
<1>8. \A x \in Inst : InstOf(NoOp) # x
  BY BearerAssumption DEF Inst, Ids, InstOf, NoOp
<1>9. \A k \in PlaceKinds, d \in Chan : Solo(Content(k, d))'
  <2>1. \A k \in PlaceKinds, d \in Chan : Solo(Content(k, d))
    BY DEF PlaceInv
  <2>2. Solo(reqQ)
    BY <1>6, <2>1
  <2> QED BY <1>2, <1>4, <1>6, <1>7, <2>1, <2>2, OnePlace
<1>10. ASSUME NEW x \in Inst
      PROVE  Placed(x)' /\ (x \in freed => Created(x))'
  <2>1. Placed(x) /\ (x \in freed => Created(x)) /\ (Created(x)' <=> Created(x))
    BY <1>2 DEF PlaceInv, Created
  <2>2. x \in freed' <=> x \in freed \/ Holds("chan", c, x) \/ Holds("pind", c, x)
    <3>1. x \in Instances(ops) <=> \E o \in ops : InstOf(o) = x
      BY InstancesIn
    <3>2. Holds("chan", c, x) <=> \E o \in InSeq(chanQ[c]) : InstOf(o) = x
      BY <1>6, InQOps DEF Holds
    <3>3. Holds("pind", c, x) <=> InstOf(pendInd[c]) = x
      BY <1>6, OnePlace DEF Holds
    <3> QED BY <1>2, <3>1, <3>2, <3>3
  <2>3. ~Holds("chan", c, x)' /\ ~Holds("pind", c, x)' /\ ~Holds("flush", 1, x)
    BY <1>6, <1>8, OnePlace DEF Holds
  <2>4. \A k \in PlaceKinds, d \in Chan :
           ~(k \in {"chan", "pind"} /\ d = c) /\ ~(k \in {"req", "flush"} /\ d = 1) =>
           (Holds(k, d, x)' <=> Holds(k, d, x))
    BY <1>7 DEF Holds
  <2>5. \/ /\ Holds("req", 1, x)' <=> Holds("req", 1, x)
           /\ Holds("flush", 1, x)' <=> Holds("flush", 1, x)
        \/ /\ Holds("flush", 1, x)' <=> Holds("req", 1, x)
           /\ ~Holds("req", 1, x)'
    BY <1>2, <1>4, <1>6, OnePlace DEF Holds
  <2>6. CASE Holds("chan", c, x) \/ Holds("pind", c, x)
    <3>1. Alive(x) /\ ~Alive(x)'
      BY <1>2, <1>6, <2>1, <2>2, <2>6 DEF Placed, Alive
    <3>2. \E k \in {"chan", "pind"} : OnlyIn(k, c, x)
      BY <1>2, <1>6, <2>1, <2>6 DEF Placed, OnlyIn
    <3>3. \A k \in PlaceKinds, d \in Chan : ~Holds(k, d, x)'
      BY <1>6, <2>3, <2>4, <2>5, <3>2 DEF OnlyIn
    <3> QED BY <2>1, <3>1, <3>3, PlaceFrame DEF Alive
  <2>7. CASE ~Holds("chan", c, x) /\ ~Holds("pind", c, x)
    <3>1. (x \in freed' <=> x \in freed) /\ (Alive(x)' <=> Alive(x))
      BY <2>1, <2>2, <2>7 DEF Alive
    <3>2. \A k \in PlaceKinds, d \in Chan : ~(k \in {"req", "flush"} /\ d = 1) =>
             (Holds(k, d, x)' <=> Holds(k, d, x))
      BY <2>3, <2>4, <2>7
    <3>3. CASE /\ Holds("req", 1, x)' <=> Holds("req", 1, x)
               /\ Holds("flush", 1, x)' <=> Holds("flush", 1, x)
      <4>1. \A k \in PlaceKinds, d \in Chan : Holds(k, d, x)' <=> Holds(k, d, x)
        BY <3>2, <3>3
      <4> QED BY <2>1, <3>1, <4>1, PlaceFrame
    <3>4. CASE (Holds("flush", 1, x)' <=> Holds("req", 1, x)) /\ ~Holds("req", 1, x)'
      BY <2>1, <2>3, <3>1, <3>2, <3>4, FlushMoves
    <3> QED BY <2>5, <3>3, <3>4
  <2> QED BY <2>6, <2>7
<1> QED BY <1>5, <1>9, <1>10 DEF PlaceInv, Tidy

LEMMA PlaceFlush ==
  ASSUME TypeOK, PlaceInv, disc_att_send_op
  PROVE  PlaceInv'
<1> DEFINE op == Head(flush)
<1>1. /\ flush # <<>> /\ flush' = Tail(flush) /\ Free({op}) /\ Flushing
      /\ UNCHANGED <<link, chanQ, reqQ, indQ, writeQ, pendReq, pendInd, legs, nextId>>
      /\ ctl' = [ctl EXCEPT !.user = op.live]
  BY DEF disc_att_send_op, chanVars, queueVars, pendVars
<1>2. flush \in Seq(FlushOps) /\ op \in AnyOps
  BY <1>1, OpSets, SeqFacts DEF TypeOK, FlagType
<1>3. ctl'.pc = ctl.pc /\ ctl'.chan = ctl.chan
  BY <1>1 DEF TypeOK, FlagType
<1>4. Tidy'
  BY <1>1, <1>3 DEF Tidy, PlaceInv, TidyInv, SlotReserved, Flushing, Attached
<1>5. 1 \in Chan /\ "flush" \in PlaceKinds /\ Content("flush", 1) = flush
      /\ Content("flush", 1)' = flush'
  BY BearerAssumption DEF Content, PlaceKinds, Chan
<1>6. Solo(flush) /\ 1 \in DOMAIN flush /\ flush[1] = op
  BY <1>1, <1>2, <1>5 DEF PlaceInv
<1>7. Loses(Content("flush", 1), Content("flush", 1)', InstOf(op))
  BY <1>1, <1>2, <1>5, <1>6, LoseTail
<1>8. Holds("flush", 1, InstOf(op))
  BY <1>5, <1>6 DEF Holds, InQ, PlacesOf
<1>9. freed' = freed \cup ({InstOf(op)} \cap Inst)
  BY <1>1, <1>2, InstanceFacts DEF Free
<1>10. \A m \in PlaceKinds, e \in Chan : ~(m = "flush" /\ e = 1) =>
          Same(Content(m, e), Content(m, e)')
  <2>1. \A m \in PlaceKinds, e \in Chan : ~(m = "flush" /\ e = 1) =>
           Content(m, e)' = Content(m, e)
    BY <1>1 DEF Content, PlaceKinds
  <2> QED BY <2>1 DEF Same
<1> HIDE DEF op
<1> QED BY <1>1, <1>4, <1>5, <1>7, <1>8, <1>9, <1>10, FreeKeeps

\* queue_remove_all begins with the next shared queue.
LEMMA PlaceFlushBegins ==
  ASSUME PlaceInv, TidyInv', NEW k \in {"ind", "write"}, flush = <<>>,
         flush' = Content(k, 1), Content(k, 1)' = <<>>,
         UNCHANGED <<chanQ, reqQ, pendReq, pendInd, legs, freed>>,
         \A l \in {"ind", "write"} \ {k} : Content(l, 1)' = Content(l, 1)
  PROVE  PlaceInv'
<1>1. /\ 1 \in Chan /\ k \in PlaceKinds /\ "flush" \in PlaceKinds
      /\ Content("flush", 1) = <<>> /\ Content("flush", 1)' = Content(k, 1)
  BY BearerAssumption DEF Content, PlaceKinds, Chan
<1>2. \A l \in PlaceKinds, d \in Chan : ~(l \in {k, "flush"} /\ d = 1) =>
         Content(l, d)' = Content(l, d)
  <2>1. \A l \in PlaceKinds, d \in Chan : d # 1 => Content(l, d)' = Content(l, d)
    BY DEF Content, PlaceKinds
  <2>2. \A l \in {"chan", "preq", "pind", "req"} : Content(l, 1)' = Content(l, 1)
    BY DEF Content
  <2> QED BY <2>1, <2>2 DEF PlaceKinds
<1>3. \A l \in PlaceKinds, d \in Chan : Solo(Content(l, d))'
  <2>1. \A l \in PlaceKinds, d \in Chan : Solo(Content(l, d))
    BY DEF PlaceInv
  <2> QED BY <1>1, <1>2, <2>1, OnePlace
<1>4. \A d \in Chan : SlotReserved(d)'
  BY DEF PlaceInv, SlotReserved
<1>5. ASSUME NEW x \in Inst
      PROVE  Placed(x)' /\ (x \in freed => Created(x))'
  <2>1. Placed(x) /\ (x \in freed => Created(x)) /\ (Alive(x)' <=> Alive(x))
    BY DEF PlaceInv, Alive, Created
  <2>2. /\ ~Holds("flush", 1, x) /\ (Holds("flush", 1, x)' <=> Holds(k, 1, x))
        /\ ~Holds(k, 1, x)'
    BY <1>1, OnePlace DEF Holds
  <2>3. \A l \in PlaceKinds, d \in Chan : ~(l \in {k, "flush"} /\ d = 1) =>
           (Holds(l, d, x)' <=> Holds(l, d, x))
    BY <1>2 DEF Holds
  <2>4. Placed(x)'
    BY <2>1, <2>2, <2>3, FlushMoves
  <2> QED BY <2>1, <2>4 DEF Created
<1> QED BY <1>3, <1>4, <1>5 DEF PlaceInv

LEMMA PlaceFlushNext ==
  ASSUME TypeOK, PlaceInv, flush_next
  PROVE  PlaceInv'
<1>1. /\ flush = <<>> /\ Flushing
      /\ UNCHANGED <<link, chanQ, reqQ, pendReq, pendInd, legs, freed, nextId>>
  BY DEF flush_next, chanVars, pendVars, ghostVars
<1>2. ASSUME (Flushing \/ flush = <<>>)'
      PROVE  TidyInv'
  BY <1>1, <1>2 DEF PlaceInv, TidyInv, Flushing, Attached
<1>3. CASE /\ ctl.pc = "flush_req" /\ ctl' = [ctl EXCEPT !.pc = "flush_ind", !.user = FALSE]
           /\ flush' = indQ /\ indQ' = <<>> /\ writeQ' = writeQ
  <2>1. Flushing'
    BY <1>3 DEF Flushing, TypeOK, FlagType
  <2>2. TidyInv'
    BY <1>2, <2>1
  <2>3. /\ flush' = Content("ind", 1) /\ Content("ind", 1)' = <<>>
        /\ Content("write", 1)' = Content("write", 1)
    BY <1>3 DEF Content
  <2> QED BY <1>1, <2>2, <2>3, PlaceFlushBegins
<1>4. CASE /\ ctl.pc = "flush_ind" /\ ctl' = [ctl EXCEPT !.pc = "flush_write", !.user = FALSE]
           /\ flush' = writeQ /\ writeQ' = <<>> /\ indQ' = indQ
  <2>1. Flushing'
    BY <1>4 DEF Flushing, TypeOK, FlagType
  <2>2. TidyInv'
    BY <1>2, <2>1
  <2>3. /\ flush' = Content("write", 1) /\ Content("write", 1)' = <<>>
        /\ Content("ind", 1)' = Content("ind", 1)
    BY <1>4 DEF Content
  <2> QED BY <1>1, <2>2, <2>3, PlaceFlushBegins
<1>5. CASE UNCHANGED <<flush, indQ, writeQ>>
  <2>1. TidyInv'
    BY <1>1, <1>2, <1>5
  <2> QED BY <1>1, <1>5, <2>1, PlaceUntouched
<1> QED BY <1>3, <1>4, <1>5 DEF flush_next

-----------------------------------------------------------------------------
(* The API.                                                                 *)

\* An operation is created and queued.
LEMMA PlaceQueued ==
  ASSUME TypeOK, PlaceInv, Tidy', NEW op, InstOf(op) \in Inst, ~Created(InstOf(op)),
         \A x \in Inst : Created(x)' <=> Created(x) \/ x = InstOf(op),
         UNCHANGED <<pendReq, pendInd, flush, freed>>,
         NEW k \in {"chan", "req", "ind", "write"}, NEW c \in Chan,
         Gains(Content(k, c), Content(k, c)', InstOf(op)),
         \A m \in {"chan", "req", "ind", "write"}, e \in Chan : ~(m = k /\ e = c) =>
            Content(m, e)' = Content(m, e)
  PROVE  PlaceInv'
<1>1. \A m \in PlaceKinds, e \in Chan : ~(m = k /\ e = c) =>
         Same(Content(m, e), Content(m, e)')
  <2>1. \A m \in {"preq", "pind", "flush"}, e \in Chan : Content(m, e)' = Content(m, e)
    BY DEF Content
  <2>2. \A m \in PlaceKinds, e \in Chan : ~(m = k /\ e = c) => Content(m, e)' = Content(m, e)
    BY <2>1 DEF PlaceKinds
  <2> QED BY <2>2 DEF Same
<1> QED BY <1>1, BeginKeeps DEF PlaceKinds

LEMMA PlaceSend ==
  ASSUME MtuAlone, TypeOK, OrderInv, PlaceInv, NEW kind \in ClientKinds, NEW len \in Lens,
         NEW retry \in BOOLEAN, bt_att_send(kind, len, retry)
  PROVE  PlaceInv'
<1> DEFINE op == [id |-> nextId, leg |-> 1, kind |-> kind, len |-> len,
                  retry |-> retry, live |-> kind # "CMD"]
<1>1. /\ UNCHANGED <<link, pendReq, pendInd, ctl, flush, freed>>
      /\ Attached # {} /\ nextId <= MaxId /\ nextId' = nextId + 1
      /\ legs' = [legs EXCEPT ![nextId] = 1]
      /\ \/ /\ kind = "MTU" /\ pendReq[Oldest] = NoOp
            /\ \A o \in InSeq(chanQ[Oldest]) : o.kind \in {"RSP", "CONF"}
            /\ chanQ' = [chanQ EXCEPT ![Oldest] = Append(@, op)]
            /\ UNCHANGED <<reqQ, indQ, writeQ>>
         \/ /\ kind = "REQ" /\ reqQ' = Append(reqQ, op) /\ UNCHANGED <<chanQ, indQ, writeQ>>
         \/ /\ kind = "IND" /\ indQ' = Append(indQ, op) /\ UNCHANGED <<chanQ, reqQ, writeQ>>
         \/ /\ kind = "CMD" /\ writeQ' = Append(writeQ, op) /\ UNCHANGED <<chanQ, reqQ, indQ>>
  BY DEF bt_att_send, chanVars, pendVars
<1>2. nextId \in Ids /\ nextId \in Nat /\ legs \in [Ids -> 0 .. MaxLegs] /\ legs[nextId] = 0
  BY <1>1, BearerAssumption DEF TypeOK, FlagType, GhostType, Ids, PlaceInv, TidyInv
<1>3. /\ InstOf(op) = <<nextId, 1>> /\ InstOf(op) \in Inst /\ ~Created(InstOf(op))
      /\ op.kind = kind
  BY <1>2, BearerAssumption DEF InstOf, Inst, Created
<1> HIDE DEF op
<1>4. \A x \in Inst : Created(x)' <=> Created(x) \/ x = InstOf(op)
  <2>1. ASSUME NEW x \in Inst
        PROVE  Created(x)' <=> Created(x) \/ x = InstOf(op)
    <3>1. PICK i \in Ids, l \in 1 .. MaxLegs : x = <<i, l>>
      BY DEF Inst
    <3>2. (Created(x)' <=> l <= legs'[i]) /\ (Created(x) <=> l <= legs[i])
      BY <3>1 DEF Created
    <3>3. CASE i = nextId
      <4>1. legs'[i] = 1 /\ legs[i] = 0 /\ l \in Nat \ {0}
        BY <1>1, <1>2, <3>3
      <4> QED BY <1>3, <3>1, <3>2, <3>3, <4>1
    <3>4. CASE i # nextId
      <4>1. legs'[i] = legs[i] /\ x # InstOf(op)
        BY <1>1, <1>2, <1>3, <3>1, <3>4
      <4> QED BY <3>2, <4>1
    <3> QED BY <3>3, <3>4
  <2> QED BY <2>1
<1>5. /\ Oldest \in Attached /\ Oldest \in Chan
  BY <1>1, OldestFacts
<1>6. /\ chanQ \in [Chan -> Seq(ChanOps)]
      /\ reqQ \in Seq(ReqOps) /\ indQ \in Seq(IndOps) /\ writeQ \in Seq(WriteOps) /\ 1 \in Chan
  BY BearerAssumption DEF TypeOK, QueueType, Chan
<1>7. ASSUME \A d \in Chan : chanQ'[d] = chanQ[d] \/ d \in Attached
      PROVE  TidyInv'
  <2>1. Attached' = Attached /\ TidyInv
    BY <1>1 DEF Attached, PlaceInv
  <2>2. \A i \in Ids : i >= nextId' => legs'[i] = 0
    <3>1. \A i \in Ids : i >= nextId + 1 => i # nextId /\ i >= nextId
      BY <1>2 DEF Ids
    <3> QED BY <1>1, <1>2, <2>1, <3>1 DEF TidyInv
  <2>3. (Flushing \/ flush = <<>>)'
    BY <1>1, <2>1 DEF TidyInv, Flushing
  <2>4. \A d \in Chan \ Attached :
           /\ pendReq'[d] = NoOp
           /\ ~(ctl'.pc = "detach" /\ ctl'.chan = d) => chanQ'[d] = <<>> /\ pendInd'[d] = NoOp
    BY <1>1, <1>7, <2>1 DEF TidyInv
  <2> QED BY <2>1, <2>2, <2>3, <2>4 DEF TidyInv
<1>8. CASE chanQ' = chanQ
  <2>1. Tidy'
    BY <1>1, <1>7, <1>8 DEF Tidy, PlaceInv, SlotReserved
  <2>2. \A e \in Chan : Content("chan", e)' = Content("chan", e)
    BY <1>8 DEF Content
  <2>3. CASE reqQ' = Append(reqQ, op) /\ UNCHANGED <<indQ, writeQ>>
    <3>1. Gains(Content("req", 1), Content("req", 1)', InstOf(op))
      BY <1>6, <2>3, GainAppend DEF Content
    <3>2. \A m \in {"chan", "req", "ind", "write"}, e \in Chan : ~(m = "req" /\ e = 1) =>
             Content(m, e)' = Content(m, e)
      BY <2>2, <2>3 DEF Content
    <3> QED BY <1>1, <1>3, <1>4, <1>6, <2>1, <3>1, <3>2, PlaceQueued
  <2>4. CASE indQ' = Append(indQ, op) /\ UNCHANGED <<reqQ, writeQ>>
    <3>1. Gains(Content("ind", 1), Content("ind", 1)', InstOf(op))
      BY <1>6, <2>4, GainAppend DEF Content
    <3>2. \A m \in {"chan", "req", "ind", "write"}, e \in Chan : ~(m = "ind" /\ e = 1) =>
             Content(m, e)' = Content(m, e)
      BY <2>2, <2>4 DEF Content
    <3> QED BY <1>1, <1>3, <1>4, <1>6, <2>1, <3>1, <3>2, PlaceQueued
  <2>5. CASE writeQ' = Append(writeQ, op) /\ UNCHANGED <<reqQ, indQ>>
    <3>1. Gains(Content("write", 1), Content("write", 1)', InstOf(op))
      BY <1>6, <2>5, GainAppend DEF Content
    <3>2. \A m \in {"chan", "req", "ind", "write"}, e \in Chan : ~(m = "write" /\ e = 1) =>
             Content(m, e)' = Content(m, e)
      BY <2>2, <2>5 DEF Content
    <3> QED BY <1>1, <1>3, <1>4, <1>6, <2>1, <3>1, <3>2, PlaceQueued
  <2>6. chanQ[Oldest] # Append(chanQ[Oldest], op)
    <3>1. chanQ[Oldest] \in Seq(ChanOps \cup {op}) /\ op \in ChanOps \cup {op}
      BY <1>5, <1>6, SeqMono
    <3>2. Len(Append(chanQ[Oldest], op)) = Len(chanQ[Oldest]) + 1 /\ Len(chanQ[Oldest]) \in Nat
      BY <3>1
    <3> QED BY <3>2
  <2> QED BY <1>1, <1>5, <1>6, <1>8, <2>3, <2>4, <2>5, <2>6
<1>9. CASE /\ pendReq[Oldest] = NoOp
           /\ \A o \in InSeq(chanQ[Oldest]) : o.kind \in {"RSP", "CONF"}
           /\ chanQ' = [chanQ EXCEPT ![Oldest] = Append(@, op)]
           /\ UNCHANGED <<reqQ, indQ, writeQ>>
  <2>1. PICK c \in Chan : c = Oldest
    BY <1>5
  <2>2. /\ chanQ'[c] = Append(chanQ[c], op) /\ c \in Attached
        /\ \A e \in Chan : e # c => chanQ'[e] = chanQ[e]
    BY <1>5, <1>6, <1>9, <2>1
  <2>3. \A e \in Chan : SlotReserved(e)'
    <3>1. \A i \in DOMAIN chanQ[c] : ~IsReq(chanQ[c][i])
      BY <1>9, <2>1 DEF InSeq, IsReq
    <3>2. SlotReserved(c)'
      BY <1>1, <1>9, <2>1, <2>2, <3>1, ReservedAppend DEF PlaceInv
    <3> QED BY <1>1, <2>2, <3>2, ReservedKeep DEF PlaceInv
  <2>4. Tidy'
    BY <1>7, <2>2, <2>3 DEF Tidy
  <2>5. Gains(Content("chan", c), Content("chan", c)', InstOf(op))
    BY <1>6, <2>2, GainAppend DEF Content
  <2>6. \A m \in {"chan", "req", "ind", "write"}, e \in Chan : ~(m = "chan" /\ e = c) =>
           Content(m, e)' = Content(m, e)
    BY <1>9, <2>2 DEF Content
  <2> QED BY <1>1, <1>3, <1>4, <2>4, <2>5, <2>6, PlaceQueued
<1> QED BY <1>1, <1>8, <1>9

LEMMA PlaceResend ==
  ASSUME TypeOK, PlaceInv, NEW len \in Lens, NEW front \in BOOLEAN, bt_att_resend(len, front)
  PROVE  PlaceInv'
<1> DEFINE old == pendReq[ctl.chan]
           op == [id |-> old.id, leg |-> legs[old.id] + 1, kind |-> "REQ",
                  len |-> len, retry |-> FALSE, live |-> TRUE]
<1>1. /\ UNCHANGED <<link, chanQ, indQ, writeQ, pendReq, pendInd, flush, freed, nextId>>
      /\ ctl' = [ctl EXCEPT !.again = TRUE]
      /\ legs' = [legs EXCEPT ![old.id] = @ + 1]
      /\ reqQ' = IF front THEN <<op>> \o reqQ ELSE Append(reqQ, op)
      /\ old.kind = "REQ" /\ legs[old.id] < MaxLegs
  BY DEF bt_att_resend, chanVars, pendVars
<1>2. PICK c \in Chan : c = ctl.chan
  BY DEF TypeOK, FlagType
<1>3. old \in Ops({"REQ", "MTU"}) /\ old.id \in Ids /\ old.leg \in 1 .. MaxLegs
  BY <1>1, <1>2, PlaceFacts DEF NoOp, Ops
<1>4. /\ legs \in [Ids -> 0 .. MaxLegs] /\ legs[old.id] \in 0 .. MaxLegs
      /\ legs[old.id] + 1 \in 1 .. MaxLegs
  BY <1>1, <1>3, BearerAssumption DEF TypeOK, GhostType
<1>5. op \in ReqOps /\ InstOf(op) = <<old.id, legs[old.id] + 1>>
  BY <1>3, <1>4 DEF ReqOps, Ops, InstOf
<1>6. InstOf(old) \in Inst /\ InstOf(old) = <<old.id, old.leg>>
  BY <1>3 DEF InstOf, Inst
<1>7. Created(InstOf(old))
  <2>1. Holds("preq", c, InstOf(old)) /\ "preq" \in PlaceKinds
    BY <1>2, OnePlace DEF Holds, Content, PlaceKinds
  <2> QED BY <1>6, <2>1 DEF PlaceInv, Placed, Alive
<1>8. \A i \in Ids : i >= nextId => i # old.id
  <2>1. old.leg <= legs[old.id]
    BY <1>6, <1>7 DEF Created
  <2> QED BY <1>3, <1>4, <2>1 DEF PlaceInv, TidyInv
<1>9. ctl'.pc = ctl.pc /\ ctl'.chan = ctl.chan
  BY <1>1 DEF TypeOK, FlagType
<1>10. InstOf(op) \in Inst /\ ~Created(InstOf(op))
  BY <1>3, <1>4, <1>5 DEF Inst, Created
<1>11. \A x \in Inst : Created(x)' <=> Created(x) \/ x = InstOf(op)
  <2>1. ASSUME NEW i \in Ids, NEW l \in 1 .. MaxLegs
        PROVE  l <= legs'[i] <=> l <= legs[i] \/ <<i, l>> = InstOf(op)
    <3>1. CASE i = old.id
      <4>1. legs'[i] = legs[i] + 1 /\ l \in Nat /\ legs[i] \in Nat
        BY <1>1, <1>4, <3>1
      <4>2. <<i, l>> = InstOf(op) <=> l = legs[i] + 1
        BY <1>5, <3>1
      <4> QED BY <4>1, <4>2
    <3>2. CASE i # old.id
      <4>1. legs'[i] = legs[i] /\ <<i, l>> # InstOf(op)
        BY <1>1, <1>4, <1>5, <3>2
      <4> QED BY <4>1
    <3> QED BY <3>1, <3>2
  <2>2. ASSUME NEW x \in Inst
        PROVE  Created(x)' <=> Created(x) \/ x = InstOf(op)
    <3>1. PICK i \in Ids, l \in 1 .. MaxLegs : x = <<i, l>>
      BY DEF Inst
    <3>2. (Created(x)' <=> l <= legs'[i]) /\ (Created(x) <=> l <= legs[i])
      BY <3>1 DEF Created
    <3> QED BY <2>1, <3>1, <3>2
  <2> QED BY <2>2
<1>12. Tidy'
  <2>1. \A i \in Ids : i >= nextId' => legs'[i] = 0
    BY <1>1, <1>4, <1>8 DEF PlaceInv, TidyInv
  <2> QED BY <1>1, <1>9, <2>1 DEF Tidy, PlaceInv, TidyInv, SlotReserved, Flushing, Attached
<1>13. reqQ \in Seq(ReqOps) /\ 1 \in Chan
  BY BearerAssumption DEF TypeOK, QueueType, Chan
<1> HIDE DEF op, old
<1>14. Gains(reqQ, reqQ', InstOf(op))
  BY <1>1, <1>5, <1>13, GainAppend, GainPush
<1>15. Gains(Content("req", 1), Content("req", 1)', InstOf(op))
  BY <1>14 DEF Content
<1>16. \A m \in {"chan", "req", "ind", "write"}, e \in Chan : ~(m = "req" /\ e = 1) =>
          Content(m, e)' = Content(m, e)
  BY <1>1 DEF Content
<1> QED BY <1>1, <1>10, <1>11, <1>12, <1>13, <1>15, <1>16, PlaceQueued

LEMMA PlaceChanSend ==
  ASSUME TypeOK, PlaceInv, NEW c \in Chan, bt_att_chan_send(c)
  PROVE  PlaceInv'
<1>1. /\ UNCHANGED <<link, reqQ, indQ, writeQ, flush, pendReq, pendInd, legs, freed, nextId, ctl>>
      /\ chanQ' = [chanQ EXCEPT ![c] = Append(@, RspOp("RSP"))] /\ c \in Attached
  BY DEF bt_att_chan_send, chanVars, pendVars, ghostVars
<1>2. Attached' = Attached /\ \A e \in Chan : e # c => chanQ'[e] = chanQ[e]
  BY <1>1 DEF Attached, TypeOK, QueueType
<1>3. TidyInv'
  BY <1>1, <1>2, TidyFrame DEF PlaceInv
<1> QED BY <1>1, <1>3, PlaceReplied

\* Slots lose their handlers and keep what they hold.
LEMMA SlotsSame ==
  ASSUME PlaceInv,
         \A c \in Chan : /\ InstOf(pendReq'[c]) = InstOf(pendReq[c])
                         /\ InstOf(pendInd'[c]) = InstOf(pendInd[c])
                         /\ pendReq[c] = NoOp => pendReq'[c] = NoOp
                         /\ pendInd[c] = NoOp => pendInd'[c] = NoOp,
         UNCHANGED <<chanQ, link, ctl, flush, legs, nextId>>
  PROVE  /\ \A k \in {"chan", "preq", "pind", "flush"}, c \in Chan :
              Same(Content(k, c), Content(k, c)')
         /\ Tidy'
<1>1. \A c \in Chan : /\ Same(Content("preq", c), Content("preq", c)')
                      /\ Same(Content("pind", c), Content("pind", c)')
  BY SlotPlaces DEF Content
<1>2. \A k \in {"chan", "flush"}, c \in Chan : Same(Content(k, c), Content(k, c)')
  BY DEF Content, Same
<1>3. \A c \in Chan : SlotReserved(c)'
  BY ReservedKeep DEF PlaceInv
<1>4. TidyInv /\ Attached' = Attached
  BY DEF PlaceInv, Attached
<1>5. TidyInv'
  BY <1>4 DEF TidyInv, Flushing
<1> QED BY <1>1, <1>2, <1>3, <1>5 DEF Tidy

LEMMA NothingFreed == Instances({}) = {}
  BY DEF Instances

LEMMA MuteSlotInst ==
  ASSUME TypeOK, NEW c \in Chan
  PROVE  /\ pendReq[c] # NoOp =>
              InstOf([pendReq[c] EXCEPT !.live = FALSE]) = InstOf(pendReq[c])
         /\ pendInd[c] # NoOp =>
              InstOf([pendInd[c] EXCEPT !.live = FALSE]) = InstOf(pendInd[c])
<1>1. \A op \in Ops({"REQ", "MTU"}) : InstOf([op EXCEPT !.live = FALSE]) = InstOf(op)
  BY MuteInst
<1>2. \A op \in Ops({"IND"}) : InstOf([op EXCEPT !.live = FALSE]) = InstOf(op)
  BY MuteInst
<1> QED BY <1>1, <1>2, PlaceFacts

LEMMA PlaceCancelPending ==
  ASSUME TypeOK, PlaceInv, NEW c \in Chan, NEW id \in Ids, cancel_pending(c, id),
         UNCHANGED <<link, ctl, flush, legs, nextId>>
  PROVE  PlaceInv'
<1>1. \A o : o.id = id => o # NoOp
  BY BearerAssumption DEF Ids, NoOp
<1>2. /\ UNCHANGED <<chanQ, reqQ, indQ, writeQ>> /\ freed' = freed
      /\ \/ /\ pendReq' = [pendReq EXCEPT ![c] = [pendReq[c] EXCEPT !.live = FALSE]]
            /\ pendReq[c] # NoOp /\ pendInd' = pendInd
         \/ /\ pendInd' = [pendInd EXCEPT ![c] = [pendInd[c] EXCEPT !.live = FALSE]]
            /\ pendInd[c] # NoOp /\ pendReq' = pendReq
  BY <1>1, NothingFreed DEF cancel_pending, queueVars, CancelEffect, Free
<1>3. \A d \in Chan : /\ InstOf(pendReq'[d]) = InstOf(pendReq[d])
                      /\ InstOf(pendInd'[d]) = InstOf(pendInd[d])
                      /\ pendReq[d] = NoOp => pendReq'[d] = NoOp
                      /\ pendInd[d] = NoOp => pendInd'[d] = NoOp
  BY <1>2, MuteSlotInst DEF TypeOK, PendType
<1>4. \A k \in {"req", "ind", "write"}, d \in Chan : Same(Content(k, d), Content(k, d)')
  BY <1>2 DEF Content, Same
<1>5. \A k \in PlaceKinds, d \in Chan : Same(Content(k, d), Content(k, d)')
  BY <1>2, <1>3, <1>4, SlotsSame DEF PlaceKinds
<1>6. Tidy'
  BY <1>2, <1>3, SlotsSame
<1> QED BY <1>2, <1>5, <1>6, StillKeeps

LEMMA PlaceCancelChanQueue ==
  ASSUME TypeOK, PlaceInv, NEW c \in Chan, NEW id \in Ids, cancel_chan_queue(c, id),
         UNCHANGED <<link, ctl, flush, legs, nextId>>
  PROVE  PlaceInv'
<1>1. PICK i \in DOMAIN chanQ[c] : /\ chanQ' = [chanQ EXCEPT ![c] = DropAt(@, i)]
                                   /\ Free({chanQ[c][i]})
  BY DEF cancel_chan_queue, CancelEffect, At
<1>2. UNCHANGED <<reqQ, indQ, writeQ, pendReq, pendInd>> /\ c \in Attached
  BY DEF cancel_chan_queue, pendVars
<1>3. /\ chanQ \in [Chan -> Seq(ChanOps)] /\ chanQ[c] \in Seq(ChanOps)
      /\ chanQ[c][i] \in AnyOps
  BY OpSets DEF TypeOK, QueueType
<1>4. chanQ'[c] = DropAt(chanQ[c], i) /\ \A e \in Chan : e # c => chanQ'[e] = chanQ[e]
  BY <1>1, <1>3
<1>5. /\ Loses(Content("chan", c), Content("chan", c)', InstOf(chanQ[c][i]))
      /\ Holds("chan", c, InstOf(chanQ[c][i]))
  <2>1. Solo(chanQ[c])
    BY ContentFacts DEF PlaceInv
  <2> QED BY <1>3, <1>4, <2>1, LoseDrop DEF Content, Holds, InQ, PlacesOf
<1>6. \A m \in PlaceKinds, e \in Chan : ~(m = "chan" /\ e = c) =>
         Same(Content(m, e), Content(m, e)')
  <2>1. \A m \in PlaceKinds, e \in Chan : ~(m = "chan" /\ e = c) =>
           Content(m, e)' = Content(m, e)
    BY <1>2, <1>4 DEF Content, PlaceKinds
  <2> QED BY <2>1 DEF Same
<1>7. freed' = freed \cup ({InstOf(chanQ[c][i])} \cap Inst)
  BY <1>1, <1>3, InstanceFacts DEF Free
<1>8. Tidy'
  <2>1. SlotReserved(c)'
    BY <1>2, <1>4, ReservedDrop DEF PlaceInv
  <2>2. \A e \in Chan : SlotReserved(e)'
    BY <1>2, <1>4, <2>1, ReservedKeep DEF PlaceInv
  <2>3. Attached' = Attached /\ TidyInv
    BY DEF Attached, PlaceInv
  <2>4. TidyInv'
    BY <1>2, <1>4, <2>3, TidyFrame
  <2> QED BY <2>2, <2>4 DEF Tidy
<1> QED BY <1>5, <1>6, <1>7, <1>8, FreeKeeps DEF PlaceKinds

\* What bt_att_cancel does to an entry of a shared queue.
LEMMA PlaceTaken ==
  ASSUME PlaceInv, Tidy', UNCHANGED <<legs, chanQ, pendReq, pendInd, flush>>,
         NEW k \in {"req", "ind", "write"}, NEW q, NEW r, NEW kinds,
         q \in Seq(Ops(kinds) \cup {RspOp("RSP")}), NEW i \in DOMAIN q,
         Content(k, 1) = q, Content(k, 1)' = r, q[i].id # 0,
         \/ r = DropAt(q, i) /\ Free({q[i]}) /\ q[i] \in AnyOps
         \/ r = MuteAt(q, i) /\ freed' = freed,
         \A l \in {"req", "ind", "write"} \ {k} : Content(l, 1)' = Content(l, 1)
  PROVE  PlaceInv'
<1>1. \A m \in PlaceKinds, e \in Chan : ~(m = k /\ e = 1) =>
         Same(Content(m, e), Content(m, e)')
  <2>1. \A m \in {"chan", "preq", "pind", "flush"}, e \in Chan :
           Content(m, e)' = Content(m, e)
    BY DEF Content
  <2>2. \A m \in {"req", "ind", "write"}, e \in Chan : e # 1 => Content(m, e)' = Content(m, e)
    BY DEF Content
  <2>3. \A m \in PlaceKinds, e \in Chan : ~(m = k /\ e = 1) =>
           Content(m, e)' = Content(m, e)
    BY <2>1, <2>2 DEF PlaceKinds
  <2> QED BY <2>3 DEF Same
<1>2. 1 \in Chan /\ k \in PlaceKinds
  BY BearerAssumption DEF Chan, PlaceKinds
<1>3. Solo(q)
  BY <1>2 DEF PlaceInv
<1>4. CASE r = DropAt(q, i) /\ Free({q[i]}) /\ q[i] \in AnyOps
  <2>1. Loses(Content(k, 1), Content(k, 1)', InstOf(q[i]))
    BY <1>3, <1>4, LoseDrop
  <2>2. Holds(k, 1, InstOf(q[i]))
    BY DEF Holds, InQ, PlacesOf
  <2>3. freed' = freed \cup ({InstOf(q[i])} \cap Inst)
    BY <1>4, InstanceFacts DEF Free
  <2> QED BY <1>1, <1>2, <2>1, <2>2, <2>3, FreeKeeps
<1>5. CASE r = MuteAt(q, i) /\ freed' = freed
  <2>1. InstOf([q[i] EXCEPT !.live = FALSE]) = InstOf(q[i])
    <3>1. q[i] \in Ops(kinds)
      BY DEF RspOp
    <3> QED BY <3>1, MuteInst
  <2>2. Same(Content(k, 1), Content(k, 1)')
    BY <1>5, <2>1, SameMute
  <2>3. \A m \in PlaceKinds, e \in Chan : Same(Content(m, e), Content(m, e)')
    BY <1>1, <2>2
  <2> QED BY <1>5, <2>3, StillKeeps
<1> QED BY <1>4, <1>5

LEMMA PlaceCancelShared ==
  ASSUME TypeOK, PlaceInv, NEW id \in Ids, cancel_shared(id),
         UNCHANGED <<link, ctl, flush, legs, nextId>>
  PROVE  PlaceInv'
<1>1. UNCHANGED <<chanQ, pendReq, pendInd>>
  BY DEF cancel_shared, pendVars
<1>2. id # 0
  BY BearerAssumption DEF Ids
<1>3. /\ reqQ \in Seq(Ops({"REQ"}) \cup {RspOp("RSP")})
      /\ indQ \in Seq(Ops({"IND"}) \cup {RspOp("RSP")})
      /\ writeQ \in Seq(Ops({"CMD"}) \cup {RspOp("RSP")})
  <2>1. reqQ \in Seq(ReqOps) /\ indQ \in Seq(IndOps) /\ writeQ \in Seq(WriteOps)
    BY DEF TypeOK, QueueType
  <2>2. /\ ReqOps \subseteq Ops({"REQ"}) \cup {RspOp("RSP")}
        /\ IndOps \subseteq Ops({"IND"}) \cup {RspOp("RSP")}
    BY DEF ReqOps, IndOps
  <2> QED BY <2>1, <2>2, SeqMono DEF WriteOps, Commands
<1>4. \A kinds \in {{"REQ"}, {"IND"}, {"CMD"}} : Ops(kinds) \cup {RspOp("RSP")} \subseteq AnyOps
  BY DEF AnyOps, UserOps, Ops
<1>5. Tidy'
  BY <1>1 DEF Tidy, PlaceInv, TidyInv, SlotReserved, Flushing, Attached
<1>6. /\ Content("req", 1) = reqQ /\ Content("ind", 1) = indQ /\ Content("write", 1) = writeQ
      /\ Content("req", 1)' = reqQ' /\ Content("ind", 1)' = indQ'
      /\ Content("write", 1)' = writeQ'
  BY DEF Content
<1>7. CASE \E i \in At(reqQ, id) :
             /\ \/ reqQ' = DropAt(reqQ, i) /\ Free({reqQ[i]})
                \/ reqQ' = MuteAt(reqQ, i) /\ Free({})
             /\ UNCHANGED <<indQ, writeQ>>
  <2>1. PICK i \in DOMAIN reqQ :
             /\ \/ reqQ' = DropAt(reqQ, i) /\ Free({reqQ[i]})
                \/ reqQ' = MuteAt(reqQ, i) /\ Free({})
             /\ UNCHANGED <<indQ, writeQ>> /\ reqQ[i].id = id
    BY <1>7 DEF At
  <2>2. reqQ[i] \in AnyOps
    BY <1>3, <1>4
  <2> QED BY <1>2, <1>1, <1>3, <1>5, <1>6, <2>1, <2>2, NothingFreed, PlaceTaken DEF Free
<1>8. CASE \E i \in At(indQ, id) :
             /\ \/ indQ' = DropAt(indQ, i) /\ Free({indQ[i]})
                \/ indQ' = MuteAt(indQ, i) /\ Free({})
             /\ UNCHANGED <<reqQ, writeQ>>
  <2>1. PICK i \in DOMAIN indQ :
             /\ \/ indQ' = DropAt(indQ, i) /\ Free({indQ[i]})
                \/ indQ' = MuteAt(indQ, i) /\ Free({})
             /\ UNCHANGED <<reqQ, writeQ>> /\ indQ[i].id = id
    BY <1>8 DEF At
  <2>2. indQ[i] \in AnyOps
    BY <1>3, <1>4
  <2> QED BY <1>2, <1>1, <1>3, <1>5, <1>6, <2>1, <2>2, NothingFreed, PlaceTaken DEF Free
<1>9. CASE \E i \in At(writeQ, id) :
             /\ \/ writeQ' = DropAt(writeQ, i) /\ Free({writeQ[i]})
                \/ writeQ' = MuteAt(writeQ, i) /\ Free({})
             /\ UNCHANGED <<reqQ, indQ>>
  <2>1. PICK i \in DOMAIN writeQ :
             /\ \/ writeQ' = DropAt(writeQ, i) /\ Free({writeQ[i]})
                \/ writeQ' = MuteAt(writeQ, i) /\ Free({})
             /\ UNCHANGED <<reqQ, indQ>> /\ writeQ[i].id = id
    BY <1>9 DEF At
  <2>2. writeQ[i] \in AnyOps
    BY <1>3, <1>4
  <2> QED BY <1>2, <1>1, <1>3, <1>5, <1>6, <2>1, <2>2, NothingFreed, PlaceTaken DEF Free
<1> QED BY <1>1, <1>7, <1>8, <1>9 DEF cancel_shared, CancelEffect

LEMMA PlaceCancel ==
  ASSUME TypeOK, PlaceInv, NEW id \in Ids, bt_att_cancel(id)
  PROVE  PlaceInv'
<1>1. UNCHANGED <<link, ctl, flush, legs, nextId>>
  BY DEF bt_att_cancel, chanVars
<1>2. \/ \E c \in Chan : cancel_pending(c, id) \/ cancel_chan_queue(c, id)
      \/ cancel_shared(id) \/ cancel_missing(id)
  BY DEF bt_att_cancel, Attached
<1>3. CASE cancel_missing(id)
  <2>1. UNCHANGED <<chanQ, reqQ, indQ, writeQ, pendReq, pendInd>> /\ freed' = freed
    BY <1>3, NothingFreed DEF cancel_missing, queueVars, pendVars, CancelEffect, Free
  <2>2. TidyInv'
    BY <1>1, <2>1 DEF PlaceInv, TidyInv, Flushing, Attached
  <2> QED BY <1>1, <2>1, <2>2, PlaceUntouched
<1> QED BY <1>1, <1>2, <1>3, PlaceCancelPending, PlaceCancelChanQueue, PlaceCancelShared

LEMMA PlaceCancelAll ==
  ASSUME TypeOK, PlaceInv, bt_att_cancel_all
  PROVE  PlaceInv'
<1>1. /\ UNCHANGED <<link, ctl, flush, legs, nextId, chanQ>>
      /\ freed' = freed \cup Instances(SharedOps)
      /\ reqQ' = <<>> /\ indQ' = <<>> /\ writeQ' = <<>>
      /\ \A c \in Chan :
           /\ \/ pendReq'[c] = pendReq[c]
              \/ pendReq[c] # NoOp /\ pendReq'[c] = [pendReq[c] EXCEPT !.live = FALSE]
           /\ \/ pendInd'[c] = pendInd[c]
              \/ pendInd[c] # NoOp /\ pendInd'[c] = [pendInd[c] EXCEPT !.live = FALSE]
  BY DEF bt_att_cancel_all, chanVars, Free
<1>2. \A c \in Chan : /\ InstOf(pendReq'[c]) = InstOf(pendReq[c])
                      /\ InstOf(pendInd'[c]) = InstOf(pendInd[c])
                      /\ pendReq[c] = NoOp => pendReq'[c] = NoOp
                      /\ pendInd[c] = NoOp => pendInd'[c] = NoOp
  BY <1>1, MuteSlotInst
<1>3. /\ \A k \in {"chan", "preq", "pind", "flush"}, c \in Chan :
            Same(Content(k, c), Content(k, c)')
      /\ Tidy'
  BY <1>1, <1>2, SlotsSame
<1>4. \A k \in {"req", "ind", "write"}, c \in Chan : Content(k, c)' = <<>>
  BY <1>1 DEF Content
<1>5. \A k \in PlaceKinds, c \in Chan : Solo(Content(k, c))'
  <2>1. \A k \in {"chan", "preq", "pind", "flush"}, c \in Chan : Solo(Content(k, c))'
    BY <1>3 DEF PlaceInv, Same, PlaceKinds
  <2>2. \A k \in {"req", "ind", "write"}, c \in Chan : Solo(Content(k, c))'
    BY <1>4, OnePlace
  <2> QED BY <2>1, <2>2 DEF PlaceKinds
<1>6. ASSUME NEW x \in Inst
      PROVE  /\ \A k \in {"chan", "preq", "pind", "flush"}, c \in Chan :
                   Holds(k, c, x)' <=> Holds(k, c, x)
             /\ \A k \in {"req", "ind", "write"}, c \in Chan : ~Holds(k, c, x)'
             /\ (\E o \in SharedOps : InstOf(o) = x) <=>
                  \E k \in {"req", "ind", "write"}, c \in Chan : Holds(k, c, x)
  <2>1. 1 \in Chan
    BY BearerAssumption DEF Chan
  <2>2. (\E o \in SharedOps : InstOf(o) = x) <=> InQ(reqQ, x) \/ InQ(indQ, x) \/ InQ(writeQ, x)
    BY InQOps DEF SharedOps
  <2>3. \A c \in Chan : c # 1 => ~Holds("req", c, x) /\ ~Holds("ind", c, x) /\ ~Holds("write", c, x)
    BY OnePlace DEF Holds, Content
  <2>4. /\ Holds("req", 1, x) <=> InQ(reqQ, x)
        /\ Holds("ind", 1, x) <=> InQ(indQ, x)
        /\ Holds("write", 1, x) <=> InQ(writeQ, x)
    BY DEF Holds, Content
  <2>5. \A k \in {"chan", "preq", "pind", "flush"}, c \in Chan :
           Holds(k, c, x)' <=> Holds(k, c, x)
    BY <1>3 DEF Holds, Same
  <2>6. \A k \in {"req", "ind", "write"}, c \in Chan : ~Holds(k, c, x)'
    BY <1>4, OnePlace DEF Holds
  <2> QED BY <2>1, <2>2, <2>3, <2>4, <2>5, <2>6
<1>7. \A x \in Inst, k \in PlaceKinds, c \in Chan : Holds(k, c, x)' => Holds(k, c, x)
  BY <1>6 DEF PlaceKinds
<1>8. \A x \in Inst : (\E o \in SharedOps : InstOf(o) = x) <=>
         \E k \in PlaceKinds, c \in Chan : Holds(k, c, x) /\ ~Holds(k, c, x)'
  <2>1. ASSUME NEW x \in Inst
        PROVE  (\E k \in {"req", "ind", "write"}, c \in Chan : Holds(k, c, x)) <=>
               \E k \in PlaceKinds, c \in Chan : Holds(k, c, x) /\ ~Holds(k, c, x)'
    BY <1>6 DEF PlaceKinds
  <2> QED BY <1>6, <2>1
<1> QED BY <1>1, <1>3, <1>5, <1>7, <1>8, FreeMany

LEMMA PlaceAttach ==
  ASSUME TypeOK, PlaceInv, NEW c \in Chan, NEW m \in Lens, bt_att_attach_chan(c, m)
  PROVE  PlaceInv'
<1>1. /\ UNCHANGED <<chanQ, reqQ, indQ, writeQ, flush, pendReq, pendInd, legs, freed, nextId, ctl>>
      /\ link' = [link EXCEPT ![c] = "up"] /\ c \notin Attached
  BY DEF bt_att_attach_chan, queueVars, pendVars, ghostVars, Attached
<1>2. \A d \in Chan : d \in Attached => d \in Attached'
  BY <1>1 DEF Attached, TypeOK, ChanType
<1>3. TidyInv'
  BY <1>1, <1>2, TidyFrame DEF PlaceInv
<1> QED BY <1>1, <1>3, PlaceUntouched

LEMMA PlaceUnref ==
  ASSUME TypeOK, PlaceInv, bt_att_unref
  PROVE  PlaceInv'
<1>1. ctl' = ctl /\ flush' = flush
  BY DEF bt_att_unref
<1>2. CASE ctl = Main /\ bt_att_free
  BY <1>1, <1>2, PlaceBearerFree DEF Main
<1>3. CASE UNCHANGED <<link, queueVars, pendVars, nextId, ghostVars>>
  <2>1. TidyInv'
    BY <1>1, <1>3 DEF PlaceInv, TidyInv, Flushing, Attached, queueVars, pendVars, ghostVars
  <2> QED BY <1>1, <1>3, <2>1, PlaceUntouched DEF queueVars, pendVars, ghostVars
<1> QED BY <1>2, <1>3 DEF bt_att_unref

LEMMA PlacePeer ==
  ASSUME TypeOK, PlaceInv, NEW c \in Chan, Peer(c)
  PROVE  PlaceInv'
<1>1. /\ UNCHANGED <<chanQ, reqQ, indQ, writeQ, flush, pendReq, pendInd, legs, freed, nextId, ctl>>
      /\ \/ link[c] = "up" /\ link' = [link EXCEPT ![c] = "down"]
         \/ link' = link
  BY DEF Peer, hang_up, peer_answers, peer_sends, peer_strays, chanVars, queueVars, pendVars,
         ghostVars
<1>2. \A d \in Chan : d \in Attached' <=> d \in Attached
  BY <1>1 DEF Attached, TypeOK, ChanType
<1>3. TidyInv'
  BY <1>1, <1>2, TidyFrame DEF PlaceInv
<1> QED BY <1>1, <1>3, PlaceUntouched

LEMMA InitPlace == Init => PlaceInv
<1> SUFFICES ASSUME Init
             PROVE  PlaceInv
  OBVIOUS
<1>1. \A k \in PlaceKinds, c \in Chan : Content(k, c) \in {<<>>, <<NoOp>>}
  BY DEF Content, PlaceKinds, Init
<1>2. \A x \in Inst : InstOf(NoOp) # x
  BY BearerAssumption DEF Inst, Ids, InstOf, NoOp
<1>3. \A k \in PlaceKinds, c \in Chan : Solo(Content(k, c)) /\ \A x \in Inst : ~Holds(k, c, x)
  BY <1>1, <1>2, OnePlace DEF Holds
<1>4. \A x \in Inst : ~Created(x)
  <2>1. ASSUME NEW i \in Ids, NEW l \in 1 .. MaxLegs
        PROVE  ~(l <= legs[i])
    BY <2>1, BearerAssumption DEF Init
  <2> QED BY <2>1 DEF Created, Inst
<1>5. \A x \in Inst : Placed(x) /\ (x \in freed => Created(x))
  BY <1>3, <1>4 DEF Placed, Alive, Init
<1> QED BY <1>3, <1>5 DEF PlaceInv, TidyInv, SlotReserved, Init, Attached

LEMMA NextPlace ==
  ASSUME MtuAlone
  PROVE  TypeOK /\ WakeInv /\ PlaceInv /\ [Next]_vars => PlaceInv'
<1> SUFFICES ASSUME TypeOK, OrderInv, PlaceInv, [Next]_vars
             PROVE  PlaceInv'
  BY DEF WakeInv
<1>1. ASSUME NEW c \in Chan, MainLoop(c)
      PROVE  PlaceInv'
  BY <1>1, PlaceWrite, PlaceIdle, PlaceWriteFails, PlaceRead, PlaceReadOther, PlaceTimeout,
     PlaceDisconnect DEF MainLoop
<1>2. CASE Continue
  BY <1>2, PlaceEndCallback, PlaceDetach, PlaceFlush, PlaceFlushNext DEF Continue
<1>3. CASE User
  <2>1. ASSUME NEW m \in Lens, bt_att_set_mtu(m)
        PROVE  PlaceInv'
    <3>1. /\ UNCHANGED <<chanQ, reqQ, indQ, writeQ, flush, pendReq, pendInd, legs, freed>>
          /\ UNCHANGED <<link, nextId, ctl>>
      BY <2>1 DEF bt_att_set_mtu, queueVars, pendVars, ghostVars
    <3>2. TidyInv'
      BY <3>1 DEF PlaceInv, TidyInv, Flushing, Attached
    <3> QED BY <3>1, <3>2, PlaceUntouched
  <2> QED BY <1>3, <2>1, PlaceSend, PlaceResend, PlaceChanSend, PlaceCancel, PlaceCancelAll,
             PlaceAttach, PlaceUnref DEF User
<1>4. CASE UNCHANGED vars
  <2>1. /\ UNCHANGED <<chanQ, reqQ, indQ, writeQ, flush, pendReq, pendInd, legs, freed>>
        /\ UNCHANGED <<link, nextId, ctl>>
    BY <1>4 DEF vars, chanVars, queueVars, pendVars, ghostVars
  <2>2. TidyInv'
    BY <2>1 DEF PlaceInv, TidyInv, Flushing, Attached
  <2> QED BY <2>1, <2>2, PlaceUntouched
<1> QED BY <1>1, <1>2, <1>3, <1>4, PlacePeer DEF Next

-----------------------------------------------------------------------------
(* One place means one element of Places.                                   *)

LEMMA PlacesAre ==
  ASSUME NEW x, NEW e
  PROVE  e \in Places(x) <=>
           \/ \E i \in PlacesOf(reqQ, x) : e = <<<<"req">>, i>>
           \/ \E i \in PlacesOf(indQ, x) : e = <<<<"ind">>, i>>
           \/ \E i \in PlacesOf(writeQ, x) : e = <<<<"write">>, i>>
           \/ \E i \in PlacesOf(flush, x) : e = <<<<"flush">>, i>>
           \/ \E c \in Chan : \E i \in PlacesOf(chanQ[c], x) : e = <<<<"chan", c>>, i>>
           \/ \E c \in Chan : InstOf(pendReq[c]) = x /\ e = <<<<"pend", c>>, 1>>
           \/ \E c \in Chan : InstOf(pendInd[c]) = x /\ e = <<<<"pend", c>>, 2>>
<1> DEFINE Pos(name, q) == {<<name, i>> : i \in {j \in DOMAIN q : InstOf(q[j]) = x}}
<1>1. \A name, q : e \in Pos(name, q) <=> \E i \in PlacesOf(q, x) : e = <<name, i>>
  BY DEF PlacesOf
<1>2. ASSUME NEW name, NEW a, NEW b
      PROVE  e \in Pos(name, <<a, b>>) <=> \/ InstOf(a) = x /\ e = <<name, 1>>
                                           \/ InstOf(b) = x /\ e = <<name, 2>>
  <2>1. DOMAIN <<a, b>> = {1, 2} /\ <<a, b>>[1] = a /\ <<a, b>>[2] = b
    OBVIOUS
  <2> QED BY <2>1
<1>3. e \in Places(x) <=>
        \/ e \in Pos(<<"req">>, reqQ) \/ e \in Pos(<<"ind">>, indQ)
        \/ e \in Pos(<<"write">>, writeQ) \/ e \in Pos(<<"flush">>, flush)
        \/ \E c \in Chan : e \in Pos(<<"chan", c>>, chanQ[c])
        \/ \E c \in Chan : e \in Pos(<<"pend", c>>, <<pendReq[c], pendInd[c]>>)
  BY DEF Places
<1> HIDE DEF Pos
<1>4. /\ e \in Pos(<<"req">>, reqQ) <=> \E i \in PlacesOf(reqQ, x) : e = <<<<"req">>, i>>
      /\ e \in Pos(<<"ind">>, indQ) <=> \E i \in PlacesOf(indQ, x) : e = <<<<"ind">>, i>>
      /\ e \in Pos(<<"write">>, writeQ) <=>
            \E i \in PlacesOf(writeQ, x) : e = <<<<"write">>, i>>
      /\ e \in Pos(<<"flush">>, flush) <=>
            \E i \in PlacesOf(flush, x) : e = <<<<"flush">>, i>>
      /\ \A c \in Chan : e \in Pos(<<"chan", c>>, chanQ[c]) <=>
            \E i \in PlacesOf(chanQ[c], x) : e = <<<<"chan", c>>, i>>
  BY <1>1
<1>5. \A c \in Chan : e \in Pos(<<"pend", c>>, <<pendReq[c], pendInd[c]>>) <=>
         \/ InstOf(pendReq[c]) = x /\ e = <<<<"pend", c>>, 1>>
         \/ InstOf(pendInd[c]) = x /\ e = <<<<"pend", c>>, 2>>
  BY <1>2
<1> QED BY <1>3, <1>4, <1>5

LEMMA OnePlaceCounts ==
  ASSUME PlaceInv, NEW x \in Inst
  PROVE  IF Alive(x) THEN \E e : Places(x) = {e} ELSE Places(x) = {}
<1>1. /\ \A q : InQ(q, x) <=> \E i : i \in PlacesOf(q, x)
      /\ \A c \in Chan : /\ Holds("chan", c, x) <=> InQ(chanQ[c], x)
                         /\ Holds("preq", c, x) <=> InstOf(pendReq[c]) = x
                         /\ Holds("pind", c, x) <=> InstOf(pendInd[c]) = x
      /\ Holds("req", 1, x) <=> InQ(reqQ, x)
      /\ Holds("ind", 1, x) <=> InQ(indQ, x)
      /\ Holds("write", 1, x) <=> InQ(writeQ, x)
      /\ Holds("flush", 1, x) <=> InQ(flush, x)
      /\ \A c \in Chan : c # 1 => /\ ~Holds("req", c, x) /\ ~Holds("ind", c, x)
                                  /\ ~Holds("write", c, x) /\ ~Holds("flush", c, x)
  BY OnePlace DEF Holds, Content, InQ
<1>2. 1 \in Chan /\ PlaceKinds = {"chan", "preq", "pind", "req", "ind", "write", "flush"}
  BY BearerAssumption DEF Chan, PlaceKinds
<1>3. CASE ~Alive(x)
  <2>1. \A k \in PlaceKinds, c \in Chan : ~Holds(k, c, x)
    BY <1>3 DEF PlaceInv, Placed
  <2>2. \A e : e \notin Places(x)
    BY <1>1, <1>2, <2>1, PlacesAre
  <2> QED BY <1>3, <2>2
<1>4. CASE Alive(x)
  <2>1. PICK k \in PlaceKinds, c \in Chan : OnlyIn(k, c, x)
    BY <1>4 DEF PlaceInv, Placed
  <2>2. \A l \in PlaceKinds, d \in Chan : Holds(l, d, x) <=> l = k /\ d = c
    BY <2>1 DEF OnlyIn
  <2>3. Holds(k, c, x)
    BY <2>2
  <2>4. Solo(Content(k, c))
    BY DEF PlaceInv
  <2>5. \A l \in PlaceKinds, d \in Chan : Holds(l, d, x) => l = k /\ d = c
    BY <2>2
  <2>6. /\ \A d \in Chan : d # c \/ k # "chan" => \A i : i \notin PlacesOf(chanQ[d], x)
        /\ \A d \in Chan : d # c \/ k # "preq" => InstOf(pendReq[d]) # x
        /\ \A d \in Chan : d # c \/ k # "pind" => InstOf(pendInd[d]) # x
        /\ k # "req" => \A i : i \notin PlacesOf(reqQ, x)
        /\ k # "ind" => \A i : i \notin PlacesOf(indQ, x)
        /\ k # "write" => \A i : i \notin PlacesOf(writeQ, x)
        /\ k # "flush" => \A i : i \notin PlacesOf(flush, x)
    BY <1>1, <1>2, <2>5
  <2>7. CASE k = "chan"
    <3>1. PICK i : i \in PlacesOf(chanQ[c], x)
      BY <1>1, <2>3, <2>7
    <3>2. \A j \in PlacesOf(chanQ[c], x) : j = i
      BY <2>4, <2>7, <3>1 DEF Solo, Content
    <3>3. \A e : e \in Places(x) <=> e = <<<<"chan", c>>, i>>
      BY <2>6, <2>7, <3>1, <3>2, PlacesAre
    <3>4. Places(x) = {<<<<"chan", c>>, i>>}
      BY <3>3
    <3> QED BY <1>4, <3>4
  <2>8. CASE k = "preq"
    <3>1. \A e : e \in Places(x) <=> e = <<<<"pend", c>>, 1>>
      BY <1>1, <2>3, <2>6, <2>8, PlacesAre
    <3>2. Places(x) = {<<<<"pend", c>>, 1>>}
      BY <3>1
    <3> QED BY <1>4, <3>2
  <2>9. CASE k = "pind"
    <3>1. \A e : e \in Places(x) <=> e = <<<<"pend", c>>, 2>>
      BY <1>1, <2>3, <2>6, <2>9, PlacesAre
    <3>2. Places(x) = {<<<<"pend", c>>, 2>>}
      BY <3>1
    <3> QED BY <1>4, <3>2
  <2>10. CASE k \in {"req", "ind", "write", "flush"}
    <3>1. c = 1
      BY <1>1, <2>3, <2>10
    <3>2. Content(k, 1) = CASE k = "req" -> reqQ [] k = "ind" -> indQ
                            [] k = "write" -> writeQ [] k = "flush" -> flush
      BY <2>10 DEF Content
    <3>3. PICK i : i \in PlacesOf(Content(k, 1), x)
      BY <2>3, <3>1 DEF Holds, InQ
    <3>4. \A j \in PlacesOf(Content(k, 1), x) : j = i
      BY <2>4, <3>1, <3>3 DEF Solo
    <3>5. CASE k = "req"
      <4>1. \A e : e \in Places(x) <=> e = <<<<"req">>, i>>
        BY <2>6, <3>2, <3>3, <3>4, <3>5, PlacesAre
      <4>2. Places(x) = {<<<<"req">>, i>>}
        BY <4>1
      <4> QED BY <1>4, <4>2
    <3>6. CASE k = "ind"
      <4>1. \A e : e \in Places(x) <=> e = <<<<"ind">>, i>>
        BY <2>6, <3>2, <3>3, <3>4, <3>6, PlacesAre
      <4>2. Places(x) = {<<<<"ind">>, i>>}
        BY <4>1
      <4> QED BY <1>4, <4>2
    <3>7. CASE k = "write"
      <4>1. \A e : e \in Places(x) <=> e = <<<<"write">>, i>>
        BY <2>6, <3>2, <3>3, <3>4, <3>7, PlacesAre
      <4>2. Places(x) = {<<<<"write">>, i>>}
        BY <4>1
      <4> QED BY <1>4, <4>2
    <3>8. CASE k = "flush"
      <4>1. \A e : e \in Places(x) <=> e = <<<<"flush">>, i>>
        BY <2>6, <3>2, <3>3, <3>4, <3>8, PlacesAre
      <4>2. Places(x) = {<<<<"flush">>, i>>}
        BY <4>1
      <4> QED BY <1>4, <4>2
    <3> QED BY <2>10, <3>5, <3>6, <3>7, <3>8
  <2> QED BY <1>2, <2>7, <2>8, <2>9, <2>10
<1> QED BY <1>3, <1>4

\* Whatever the peer sends, and however operations are queued, retried, resent,
\* cancelled, timed out and flushed: each is in one queue or slot from bt_att_send or
\* bt_att_resend to destroy_att_send_op, and in none afterwards.  The user exchanges
\* the MTU with no request pending: pick_next_send_op puts that request over another.
THEOREM NoneLostHolds ==
  ASSUME MtuAlone
  PROVE  Spec => []NoOpLostOrDoubled
<1>1. PlaceInv => NoOpLostOrDoubled
  <2>1. ASSUME PlaceInv, NEW x \in Inst
        PROVE  Cardinality(Places(x)) = IF Created(x) /\ x \notin freed THEN 1 ELSE 0
    <3>1. CASE Alive(x)
      <4>1. PICK e : Places(x) = {e}
        BY <2>1, <3>1, OnePlaceCounts
      <4> QED BY <3>1, <4>1, FS_Singleton DEF Alive
    <3>2. CASE ~Alive(x)
      <4>1. Places(x) = {}
        BY <2>1, <3>2, OnePlaceCounts
      <4> QED BY <3>2, <4>1, FS_EmptySet DEF Alive
    <3> QED BY <3>1, <3>2
  <2> QED BY <2>1 DEF NoOpLostOrDoubled
<1> QED BY <1>1, InitType, NextType, InitWake, NextWake, InitPlace, NextPlace, PTL DEF Spec

-----------------------------------------------------------------------------
(* The refinement of AttTransaction.                                        *)

\* The response or the confirmation callback of x runs.
InCall(x) ==
    \/ ctl.pc = "rsp" /\ InstOf(pendReq[ctl.chan]) = x
    \/ ctl.pc = "conf" /\ InstOf(pendInd[ctl.chan]) = x

\* A callback has run only for what is being destroyed, or will be when it returns;
\* what bt_att_cancel has silenced has no callback any more, and only that and the
\* commands have none.
CallInv ==
    /\ \A x \in Inst : x \in silenced \/ calls[x] > 0 => Created(x)
    /\ \A x \in Inst : calls[x] > 0 => x \in freed \/ InCall(x)
    /\ \A x \in Inst : InCall(x) => calls[x] > 0
    /\ \A o \in Entries : o.live => InstOf(o) \notin silenced
    /\ \A o \in Entries : InstOf(o) \in Inst /\ ~o.live =>
          o.kind = "CMD" \/ InstOf(o) \in silenced

\* What a step of the bearer does to callbacks.  None comes back to an operation
\* that has lost it, and none is lost but by bt_att_cancel: what is queued after the
\* step was there before, or is a reply, or is new, or has been silenced ...
Heard(o) ==
    \/ \E p \in Entries : /\ InstOf(p) = InstOf(o) /\ p.kind = o.kind
                          /\ p.live <=> o.live
    \/ ~o.live /\ InstOf(o) \notin Inst
    \/ ~Created(InstOf(o)) /\ (o.live \/ o.kind = "CMD")
    \/ ~o.live /\ InstOf(o) \in silenced'
CallbacksKept == \A o \in Entries' : Heard(o)
\* ... what is destroyed has had its callback, or has none, or may be dropped ...
NoneDropped ==
    \A x \in freed' \ freed :
        \/ \A o \in Entries : InstOf(o) = x => ~o.live
        \/ calls'[x] # calls[x] \/ InCall(x) \/ x \in silenced'
        \/ ~ref' \/ x \in Stranded
\* ... to be in a callback is to have been called ...
Enters == \A x \in Inst : InCall(x)' => InCall(x) \/ calls'[x] # calls[x]
\* ... what is silenced loses it in the same step ...
Silences ==
    /\ silenced \subseteq silenced'
    /\ \A x \in silenced' \ silenced :
         /\ \E o \in Entries : InstOf(o) = x
         /\ \A o \in Entries' : InstOf(o) = x => ~o.live
\* ... and one callback runs at most, of an operation that has one.
Tells ==
    \/ calls' = calls /\ \A x \in Inst : InCall(x) => InCall(x)' \/ x \in freed'
    \/ \E op \in Entries :
         /\ op.live /\ ctl.pc \notin {"rsp", "conf"} /\ UNCHANGED silenced
         /\ calls' = [calls EXCEPT ![InstOf(op)] = @ + 1]
         /\ InstOf(op) \in freed' \/ InCall(InstOf(op))'
Begins ==
    \/ UNCHANGED legs
    \/ UNCHANGED freed /\ \A x \in Inst : Created(x) => Created(x)'
Orderly ==
    /\ CallbacksKept /\ NoneDropped /\ Enters /\ Silences /\ Tells /\ Begins
    /\ freed \subseteq freed'

\* A slot keeps what it holds, or what it held has been destroyed.
Emptied(o, p) == InstOf(p) = InstOf(o) \/ (p = NoOp /\ InstOf(o) \in freed')
SlotsFreed ==
    \A c \in Chan : /\ Emptied(pendReq[c], pendReq'[c])
                    /\ Emptied(pendInd[c], pendInd'[c])

\* The steps of the abstract specification for one operation and for one slot.
OpStep(x) == \/ Transaction!Accept(x) \/ Transaction!Tell(x) \/ Transaction!TakeBack(x)
             \/ Transaction!End(x) \/ Transaction!Drop(x) \/ Transaction!Stay(x)
SlotStep(s) == Transaction!Send(s) \/ Transaction!Release(s) \/ InSlot(s)' = InSlot(s)

LEMMA OpsInst == \A kinds : \A o \in Ops(kinds) : InstOf(o) \in Inst
  BY DEF Ops, InstOf, Inst

LEMMA EntriesAre ==
  ASSUME NEW o
  PROVE  o \in Entries <=>
           \/ \E c \in Chan : o \in InSeq(chanQ[c]) \/ o = pendReq[c] \/ o = pendInd[c]
           \/ o \in InSeq(reqQ) \/ o \in InSeq(indQ) \/ o \in InSeq(writeQ)
           \/ o \in InSeq(flush)
  BY DEF Entries, AllOps, SharedOps

LEMMA EntriesType ==
  ASSUME TypeOK, NEW o \in Entries
  PROVE  /\ o \in AnyOps
         /\ o.live => InstOf(o) \in Inst
<1>1. /\ \A c \in Chan : chanQ[c] \in Seq(ChanOps)
      /\ reqQ \in Seq(ReqOps) /\ indQ \in Seq(IndOps) /\ writeQ \in Seq(WriteOps)
      /\ flush \in Seq(FlushOps)
      /\ \A c \in Chan : pendReq[c] \in AnyOps /\ pendInd[c] \in AnyOps
  BY PlaceFacts DEF TypeOK, QueueType, FlagType
<1>2. \A S, q : q \in Seq(S) /\ S \subseteq AnyOps => \A p \in InSeq(q) : p \in AnyOps
  BY DEF InSeq
<1>3. o \in AnyOps
  BY <1>1, <1>2, EntriesAre, OpSets
<1>4. o.live => o.id # 0
  BY <1>3, BearerAssumption DEF AnyOps, UserOps, Ops, RspOp, NoOp, Ids
<1> QED BY <1>3, <1>4, InstanceFacts

\* Where an entry is, it is alone, and it is alive.
LEMMA EntriesPlaced ==
  ASSUME NEW o \in Entries
  PROVE  \E k \in PlaceKinds, c \in Chan : \E i \in DOMAIN Content(k, c) : Content(k, c)[i] = o
<1>1. \A q : o \in InSeq(q) => \E i \in DOMAIN q : q[i] = o
  BY DEF InSeq
<1>2. 1 \in DOMAIN <<o>> /\ <<o>>[1] = o
  OBVIOUS
<1>3. CASE \E c \in Chan : o \in InSeq(chanQ[c]) \/ o = pendReq[c] \/ o = pendInd[c]
  <2>1. PICK c \in Chan : o \in InSeq(chanQ[c]) \/ o = pendReq[c] \/ o = pendInd[c]
    BY <1>3
  <2>2. \E k \in {"chan", "preq", "pind"} : \E i \in DOMAIN Content(k, c) : Content(k, c)[i] = o
    BY <1>1, <1>2, <2>1, ContentFacts
  <2> QED BY <2>2, ContentFacts
<1>4. CASE \/ o \in InSeq(reqQ) \/ o \in InSeq(indQ) \/ o \in InSeq(writeQ)
           \/ o \in InSeq(flush)
  <2>1. PICK c \in Chan : c = 1
    BY BearerAssumption DEF Chan
  <2>2. \E k \in {"req", "ind", "write", "flush"} :
           \E i \in DOMAIN Content(k, 1) : Content(k, 1)[i] = o
    BY <1>1, <1>4, <2>1, ContentFacts
  <2> QED BY <2>1, <2>2, ContentFacts
<1> QED BY <1>3, <1>4, EntriesAre

LEMMA EntriesUnique ==
  ASSUME PlaceInv, NEW o \in Entries, InstOf(o) \in Inst
  PROVE  /\ Alive(InstOf(o))
         /\ \A p \in Entries : InstOf(p) = InstOf(o) => p = o
<1>1. PICK k \in PlaceKinds, c \in Chan : \E i \in DOMAIN Content(k, c) : Content(k, c)[i] = o
  BY EntriesPlaced
<1>2. Holds(k, c, InstOf(o))
  BY <1>1 DEF Holds, InQ, PlacesOf
<1>3. Alive(InstOf(o)) /\ OnlyIn(k, c, InstOf(o))
  BY <1>2 DEF PlaceInv, Placed, OnlyIn
<1>4. ASSUME NEW p \in Entries, InstOf(p) = InstOf(o)
      PROVE  p = o
  <2>1. PICK l \in PlaceKinds, d \in Chan : \E i \in DOMAIN Content(l, d) : Content(l, d)[i] = p
    BY EntriesPlaced
  <2>2. Holds(l, d, InstOf(o))
    BY <1>4, <2>1 DEF Holds, InQ, PlacesOf
  <2>3. l = k /\ d = c
    BY <1>3, <2>2 DEF OnlyIn
  <2> QED BY <1>1, <1>4, <2>1, <2>3 DEF PlaceInv, Solo, PlacesOf
<1> QED BY <1>3, <1>4

\* The other direction: an operation that is alive is an entry.
LEMMA AliveEntry ==
  ASSUME PlaceInv, NEW x \in Inst, Alive(x)
  PROVE  \E o \in Entries : InstOf(o) = x
<1>1. PICK k \in PlaceKinds, c \in Chan : Holds(k, c, x)
  BY DEF PlaceInv, Placed, OnlyIn
<1>2. PICK i \in DOMAIN Content(k, c) : InstOf(Content(k, c)[i]) = x
  BY <1>1 DEF Holds, InQ, PlacesOf
<1>3. Content(k, c)[i] \in Entries
  <2>1. \A q : i \in DOMAIN q => q[i] \in InSeq(q)
    BY DEF InSeq
  <2>2. \A o : i \in DOMAIN <<o>> => <<o>>[i] = o
    OBVIOUS
  <2>3. DOMAIN <<>> = {}
    OBVIOUS
  <2>4. CASE k \in {"chan", "preq", "pind"}
    BY <1>2, <2>1, <2>2, <2>4, EntriesAre DEF Content
  <2>5. CASE k \in {"req", "ind", "write", "flush"}
    BY <1>2, <2>1, <2>3, <2>5, EntriesAre DEF Content
  <2> QED BY <2>4, <2>5 DEF PlaceKinds
<1> QED BY <1>2, <1>3

\* What the invariants say of the entries, as predicates of the state.
UniqueEntries ==
    \A o \in Entries : InstOf(o) \in Inst =>
        /\ Alive(InstOf(o))
        /\ \A p \in Entries : InstOf(p) = InstOf(o) => p = o
AliveEntries == \A x \in Inst : Alive(x) => \E o \in Entries : InstOf(o) = x

LEMMA PlaceEntries == PlaceInv => UniqueEntries /\ AliveEntries
  BY EntriesUnique, AliveEntry DEF UniqueEntries, AliveEntries

LEMMA PlaceEntriesNext == PlaceInv' => UniqueEntries' /\ AliveEntries'
  BY PlaceEntries, PTL

LEMMA CallFrame ==
  ASSUME TypeOK, PlaceInv, CallInv, TypeOK', PlaceInv', Orderly
  PROVE  CallInv'
<1>1. /\ silenced \subseteq Inst /\ silenced' \subseteq Inst
      /\ calls \in [Inst -> Nat] /\ calls' \in [Inst -> Nat]
  BY DEF TypeOK, GhostType
<1>2. \A x \in Inst : Created(x) => Created(x)'
  BY DEF Orderly, Begins, Created
<1>3. \A x \in silenced' \ silenced : Created(x)
  BY <1>1, EntriesUnique DEF Orderly, Silences, Alive
<1>4. ASSUME NEW x \in Inst, calls'[x] # calls[x]
      PROVE  /\ Created(x)
             /\ x \in freed' \/ InCall(x)'
             /\ calls'[x] = calls[x] + 1 /\ calls[x] = 0
             /\ x \notin silenced' /\ x \notin freed
  <2>1. PICK op \in Entries :
           /\ op.live /\ ctl.pc \notin {"rsp", "conf"} /\ UNCHANGED silenced
           /\ calls' = [calls EXCEPT ![InstOf(op)] = @ + 1]
           /\ InstOf(op) \in freed' \/ InCall(InstOf(op))'
    BY <1>4 DEF Orderly, Tells
  <2>2. InstOf(op) \in Inst /\ Alive(InstOf(op))
    BY <2>1, EntriesType, EntriesUnique
  <2>3. x = InstOf(op) /\ calls'[x] = calls[x] + 1
    BY <1>1, <1>4, <2>1, <2>2
  <2>4. x \notin silenced
    BY <2>1, <2>3 DEF CallInv
  <2>5. ~InCall(x)
    BY <2>1 DEF InCall
  <2>6. x \notin freed /\ Created(x)
    BY <2>2, <2>3 DEF Alive
  <2>7. calls[x] \in Nat /\ ~(calls[x] > 0)
    BY <1>1, <2>5, <2>6 DEF CallInv
  <2> QED BY <2>1, <2>3, <2>4, <2>6, <2>7
<1>5. \A x \in Inst : x \in silenced' \/ calls'[x] > 0 => Created(x)'
  <2>1. ASSUME NEW x \in Inst, x \in silenced' \/ calls'[x] > 0
        PROVE  Created(x)
    <3>1. CASE x \in silenced'
      BY <1>3, <3>1 DEF CallInv
    <3>2. CASE calls'[x] # calls[x]
      BY <1>4, <3>2
    <3>3. CASE calls[x] > 0
      BY <3>3 DEF CallInv
    <3> QED BY <2>1, <3>1, <3>2, <3>3
  <2> QED BY <1>2, <2>1
<1>6. \A x \in Inst : calls'[x] > 0 => x \in freed' \/ InCall(x)'
  <2>1. ASSUME NEW x \in Inst, calls'[x] > 0
        PROVE  x \in freed' \/ InCall(x)'
    <3>1. CASE calls'[x] # calls[x]
      BY <1>4, <3>1
    <3>2. CASE calls'[x] = calls[x]
      <4>1. x \in freed \/ InCall(x)
        BY <2>1, <3>2 DEF CallInv
      <4>2. InCall(x) => InCall(x)' \/ x \in freed'
        BY DEF Orderly, Tells, InCall
      <4> QED BY <4>1, <4>2 DEF Orderly
    <3> QED BY <3>1, <3>2
  <2> QED BY <2>1
<1>7. \A o \in Entries' : o.live => InstOf(o) \notin silenced'
  <2>1. ASSUME NEW o \in Entries', o.live, InstOf(o) \in silenced'
        PROVE  FALSE
    <3>1. InstOf(o) \in silenced
      BY <2>1 DEF Orderly, Silences
    <3>2. Created(InstOf(o))
      BY <1>1, <3>1 DEF CallInv
    <3>3. PICK p \in Entries : p.live /\ InstOf(p) = InstOf(o)
      BY <2>1, <3>2 DEF Orderly, CallbacksKept, Heard
    <3> QED BY <3>1, <3>3 DEF CallInv
  <2> QED BY <2>1
<1>8. \A x \in Inst : InCall(x)' => calls'[x] > 0
  <2>1. ASSUME NEW x \in Inst, InCall(x)'
        PROVE  calls'[x] > 0
    <3>1. CASE calls'[x] # calls[x]
      BY <1>1, <1>4, <3>1
    <3>2. CASE calls'[x] = calls[x]
      BY <2>1, <3>2 DEF Orderly, Enters, CallInv
    <3> QED BY <3>1, <3>2
  <2> QED BY <2>1
<1>9. \A o \in Entries' : InstOf(o) \in Inst /\ ~o.live =>
        o.kind = "CMD" \/ InstOf(o) \in silenced'
  <2>1. ASSUME NEW o \in Entries', InstOf(o) \in Inst, ~o.live, InstOf(o) \notin silenced'
        PROVE  o.kind = "CMD"
    <3>1. \/ \E p \in Entries : InstOf(p) = InstOf(o) /\ p.kind = o.kind /\ ~p.live
          \/ o.kind = "CMD"
      BY <2>1 DEF Orderly, CallbacksKept, Heard
    <3>2. InstOf(o) \notin silenced
      BY <2>1 DEF Orderly, Silences
    <3> QED BY <2>1, <3>1, <3>2 DEF CallInv
  <2> QED BY <2>1
<1> QED BY <1>5, <1>6, <1>7, <1>8, <1>9 DEF CallInv, InCall

LEMMA OpFrame ==
  ASSUME TypeOK, PlaceInv, CallInv, TypeOK', PlaceInv', Orderly, NEW x \in Inst
  PROVE  OpStep(x)
<1>1. /\ silenced \subseteq Inst /\ calls[x] \in Nat /\ calls'[x] \in Nat
  BY DEF TypeOK, GhostType
<1>2. /\ Created(x) => Created(x)'
      /\ silenced \subseteq silenced' /\ freed \subseteq freed'
  BY DEF Orderly, Begins, Created, Silences
<1>3. x \in silenced' \ silenced => Created(x)
  BY <1>1, EntriesUnique DEF Orderly, Silences, Alive
<1>4. \/ calls'[x] = calls[x]
      \/ /\ Created(x) /\ calls'[x] = calls[x] + 1 /\ calls[x] = 0
         /\ x \notin silenced' /\ x \notin freed /\ Lives(x)
  <2>1. ASSUME calls'[x] # calls[x]
        PROVE  /\ Created(x) /\ calls'[x] = calls[x] + 1 /\ calls[x] = 0
               /\ x \notin silenced' /\ x \notin freed /\ Lives(x)
    <3>1. PICK op \in Entries :
             /\ op.live /\ ctl.pc \notin {"rsp", "conf"} /\ UNCHANGED silenced
             /\ calls' = [calls EXCEPT ![InstOf(op)] = @ + 1]
      BY <2>1 DEF Orderly, Tells
    <3>2. InstOf(op) \in Inst /\ Alive(InstOf(op))
      BY <3>1, EntriesType, EntriesUnique
    <3>3. x = InstOf(op) /\ calls'[x] = calls[x] + 1
      BY <2>1, <3>1, <3>2 DEF TypeOK, GhostType
    <3>4. x \notin silenced /\ ~InCall(x) /\ x \notin freed /\ Created(x)
      BY <3>1, <3>2, <3>3 DEF CallInv, InCall, Alive
    <3>5. ~(calls[x] > 0)
      BY <3>4 DEF CallInv
    <3>6. Lives(x)
      BY <3>1, <3>3 DEF Lives
    <3> QED BY <1>1, <3>1, <3>3, <3>4, <3>5, <3>6
  <2> QED BY <2>1
<1>5. x \in freed => Created(x)
  BY DEF PlaceInv
<1>6. ~Created(x) => x \notin silenced /\ ~(calls[x] > 0)
  BY DEF CallInv
<1>7. ~Created(x) => x \notin freed'
  <2>1. x \in freed' => Created(x)'
    BY DEF PlaceInv
  <2> QED BY <1>5, <2>1 DEF Orderly, Begins, Created
<1>8. /\ StageOf(x) = CASE x \in freed -> "ended"
                        [] x \in silenced \ freed -> "silent"
                        [] x \notin freed \cup silenced /\ calls[x] > 0 -> "told"
                        [] x \notin freed \cup silenced /\ calls[x] = 0 /\ Created(x) ->
                             IF Lives(x) THEN "open" ELSE "mute"
                        [] OTHER -> "none"
      /\ StageOf(x)' = CASE x \in freed' -> "ended"
                         [] x \in silenced' \ freed' -> "silent"
                         [] x \notin freed' \cup silenced' /\ calls'[x] > 0 -> "told"
                         [] x \notin freed' \cup silenced' /\ calls'[x] = 0 /\ Created(x)' ->
                              IF Lives(x)' THEN "open" ELSE "mute"
                         [] OTHER -> "none"
  BY DEF StageOf
<1>9. /\ [y \in Inst |-> StageOf(y)][x] = StageOf(x)
      /\ [y \in Inst |-> StageOf(y)]'[x] = StageOf(x)'
  OBVIOUS
<1>10. CASE ~Created(x)
  <2>1. StageOf(x) = "none" /\ calls'[x] = calls[x] /\ calls[x] = 0
    BY <1>1, <1>4, <1>5, <1>6, <1>8, <1>10
  <2>2. x \notin freed' /\ x \notin silenced'
    BY <1>3, <1>6, <1>7, <1>10
  <2>3. StageOf(x)' \in {"open", "mute", "none"}
    BY <1>8, <2>1, <2>2
  <2>4. Transaction!Accept(x) \/ Transaction!Stay(x)
    BY <1>1, <1>9, <2>1, <2>3 DEF Transaction!Accept, Transaction!Stay, Transaction!Moves
  <2> QED BY <2>4 DEF OpStep
<1>11. CASE Created(x)
  <2>1. StageOf(x) = IF x \in freed THEN "ended" ELSE IF x \in silenced THEN "silent"
                     ELSE IF calls[x] > 0 THEN "told" ELSE IF Lives(x) THEN "open" ELSE "mute"
    BY <1>1, <1>8, <1>11
  <2>2. StageOf(x)' = IF x \in freed' THEN "ended" ELSE IF x \in silenced' THEN "silent"
                      ELSE IF calls'[x] > 0 THEN "told" ELSE IF Lives(x)' THEN "open" ELSE "mute"
    BY <1>1, <1>2, <1>8, <1>11
  <2>3. CASE calls'[x] # calls[x]
    <3>1. Lives(x)
      BY <1>4, <2>3
    <3>2. Transaction!Tell(x)
      BY <1>1, <1>2, <1>4, <1>9, <2>1, <2>2, <2>3, <3>1 DEF Transaction!Tell, Transaction!Moves
    <3> QED BY <3>2 DEF OpStep
  <2>4. CASE calls'[x] = calls[x]
    <3>1. calls'[x] = calls[x] + 0
      BY <1>1, <2>4
    <3>2. Lives(x)' => Lives(x)
      BY <1>11 DEF Orderly, CallbacksKept, Heard, Lives
    <3>3. ASSUME Lives(x), x \notin freed', x \notin silenced'
          PROVE  Lives(x)'
      <4>1. Alive(x)'
        BY <1>2, <1>11, <3>3 DEF Alive
      <4>2. PICK p \in Entries' : InstOf(p) = x
        BY <4>1, PlaceEntriesNext DEF AliveEntries
      <4>3. CASE ~p.live
        <5>1. PICK o \in Entries : InstOf(o) = x /\ ~o.live
          BY <1>11, <3>3, <4>2, <4>3 DEF Orderly, CallbacksKept, Heard
        <5>2. PICK q \in Entries : InstOf(q) = x /\ q.live
          BY <3>3 DEF Lives
        <5> QED BY <5>1, <5>2, EntriesUnique
      <4> QED BY <4>2, <4>3 DEF Lives
    <3>4. Lives(x) /\ x \in freed' /\ x \notin freed /\ ~(calls[x] > 0) =>
            x \in silenced' \/ ~ref' \/ x \in Stranded
      BY <2>4 DEF Orderly, NoneDropped, Lives, CallInv
    <3>5. \/ StageOf(x)' = StageOf(x)
          \/ /\ StageOf(x) \in {"open", "mute", "told"} /\ StageOf(x)' \in {"silent", "ended"}
             /\ x \in silenced'
          \/ StageOf(x) \in {"mute", "told", "silent"} /\ StageOf(x)' \in {"ended"}
          \/ StageOf(x) \in {"open"} /\ StageOf(x)' \in {"ended"} /\ (~ref' \/ x \in Stranded)
      BY <1>2, <2>1, <2>2, <2>4, <3>2, <3>3, <3>4
    <3>6. \/ Transaction!TakeBack(x) \/ Transaction!End(x) \/ Transaction!Drop(x)
          \/ Transaction!Stay(x)
      BY <1>9, <2>4, <3>1, <3>5
      DEF Transaction!TakeBack, Transaction!End, Transaction!Drop, Transaction!Stay,
          Transaction!Moves
    <3> QED BY <3>6 DEF OpStep
  <2> QED BY <2>3, <2>4
<1> QED BY <1>10, <1>11

\* Slots.
LEMMA SlotFacts ==
  ASSUME NEW s \in Slots
  PROVE  /\ s[1] \in Chan /\ s[2] \in {"REQ", "IND"} /\ s = <<s[1], s[2]>>
         /\ InSlot(s) = InstOf(IF s[2] = "REQ" THEN pendReq[s[1]] ELSE pendInd[s[1]])
         /\ InSlot(s)' = InstOf(IF s[2] = "REQ" THEN pendReq'[s[1]] ELSE pendInd'[s[1]])
  BY DEF Slots, InSlot

LEMMA SlotsType ==
  ASSUME TypeOK, NEW s \in Slots
  PROVE  InSlot(s) \in Inst \/ InSlot(s) = InstOf(NoOp)
<1>1. \A c \in Chan : /\ pendReq[c] \in Ops({"REQ", "MTU"}) \/ pendReq[c] = NoOp
                      /\ pendInd[c] \in Ops({"IND"}) \/ pendInd[c] = NoOp
  BY PlaceFacts
<1> QED BY <1>1, OpsInst, SlotFacts

LEMMA StageEnded ==
  ASSUME NEW x \in Inst, x \in freed'
  PROVE  [y \in Inst |-> StageOf(y)]'[x] = "ended"
  BY DEF StageOf

LEMMA SlotsFrame ==
  ASSUME TypeOK, SlotsFreed, NEW s \in Slots
  PROVE  SlotStep(s)
<1>1. /\ [t \in Slots |-> InSlot(t)][s] = InSlot(s)
      /\ [t \in Slots |-> InSlot(t)]'[s] = InSlot(s)'
  OBVIOUS
<1>2. InSlot(s)' = InSlot(s) \/ (InSlot(s)' = InstOf(NoOp) /\ InSlot(s) \in freed')
  BY SlotFacts DEF SlotsFreed, Emptied
<1>3. ASSUME InSlot(s)' # InSlot(s)
      PROVE  SlotStep(s)
  <2>1. InSlot(s)' = InstOf(NoOp) /\ InSlot(s) \in freed' /\ InSlot(s) \in Inst
    BY <1>2, <1>3, SlotsType
  <2>2. [y \in Inst |-> StageOf(y)]'[InSlot(s)] = "ended"
    <3>1. ASSUME NEW x \in Inst, x = InSlot(s)
          PROVE  [y \in Inst |-> StageOf(y)]'[x] = "ended"
      BY <2>1, <3>1, StageEnded
    <3> QED BY <2>1, <3>1
  <2>3. Transaction!Release(s)
    BY <1>1, <2>1, <2>2 DEF Transaction!Release
  <2> QED BY <2>3 DEF SlotStep
<1>4. InSlot(s)' = InSlot(s) => SlotStep(s)
  BY DEF SlotStep
<1> QED BY <1>3, <1>4

-----------------------------------------------------------------------------
(* What is in the queues and the slots after a step.                        *)

HeardQ(q) == \A o \in InSeq(q) : Heard(o)

LEMMA OldEntries ==
  /\ \A c \in Chan : /\ InSeq(chanQ[c]) \subseteq Entries
                     /\ pendReq[c] \in Entries /\ pendInd[c] \in Entries
  /\ InSeq(reqQ) \subseteq Entries /\ InSeq(indQ) \subseteq Entries
  /\ InSeq(writeQ) \subseteq Entries /\ InSeq(flush) \subseteq Entries
  BY EntriesAre

LEMMA OldHeard ==
  /\ \A o \in Entries : Heard(o)
  /\ \A c \in Chan : HeardQ(chanQ[c]) /\ Heard(pendReq[c]) /\ Heard(pendInd[c])
  /\ HeardQ(reqQ) /\ HeardQ(indQ) /\ HeardQ(writeQ) /\ HeardQ(flush)
  /\ Heard(NoOp) /\ \A kind : Heard(RspOp(kind))
<1>1. \A o \in Entries : Heard(o)
  BY DEF Heard
<1>2. Heard(NoOp) /\ \A kind : Heard(RspOp(kind))
  BY BearerAssumption DEF Heard, NoOp, RspOp, InstOf, Inst, Ids
<1> QED BY <1>1, <1>2, OldEntries DEF HeardQ

LEMMA NewEntries ==
  ASSUME NEW o
  PROVE  o \in Entries' <=>
           \/ \E c \in Chan : o \in InSeq(chanQ'[c]) \/ o = pendReq'[c] \/ o = pendInd'[c]
           \/ o \in InSeq(reqQ') \/ o \in InSeq(indQ') \/ o \in InSeq(writeQ')
           \/ o \in InSeq(flush')
<1>1. \A q : InSeq(q)' = InSeq(q')
  BY DEF InSeq
<1>2. Entries' = (UNION {InSeq(chanQ'[c]) \cup {pendReq'[c], pendInd'[c]} : c \in Chan})
                 \cup (InSeq(reqQ') \cup InSeq(indQ') \cup InSeq(writeQ')) \cup InSeq(flush')
  BY DEF Entries, AllOps, SharedOps, InSeq
<1> QED BY <1>2

LEMMA HeardEntries ==
  ASSUME \A c \in Chan : HeardQ(chanQ'[c]) /\ Heard(pendReq'[c]) /\ Heard(pendInd'[c]),
         HeardQ(reqQ'), HeardQ(indQ'), HeardQ(writeQ'), HeardQ(flush')
  PROVE  CallbacksKept
<1> QED BY NewEntries DEF HeardQ, CallbacksKept

LEMMA MutedFacts ==
  ASSUME NEW o \in AnyOps
  PROVE  /\ [o EXCEPT !.live = FALSE].live = FALSE
         /\ InstOf([o EXCEPT !.live = FALSE]) = InstOf(o)
<1>1. CASE o \in UserOps
  BY <1>1 DEF UserOps, Ops, InstOf
<1>2. CASE o \in {NoOp, RspOp("RSP"), RspOp("CONF")}
  BY <1>2 DEF NoOp, RspOp, InstOf
<1> QED BY <1>1, <1>2 DEF AnyOps

LEMMA QueueHeard ==
  ASSUME NEW S, NEW q \in Seq(S), HeardQ(q)
  PROVE  /\ q # <<>> => HeardQ(Tail(q)) /\ Head(q) \in InSeq(q)
         /\ \A e : Heard(e) => HeardQ(Append(q, e)) /\ HeardQ(<<e>> \o q)
         /\ \A i \in DOMAIN q : HeardQ(DropAt(q, i))
         /\ S \subseteq AnyOps => \A i \in DOMAIN q :
              (InstOf(q[i]) \in Inst => InstOf(q[i]) \in silenced') => HeardQ(MuteAt(q, i))
<1>1. \A i \in DOMAIN q : Heard(q[i])
  BY DEF HeardQ, InSeq
<1>2. q # <<>> => HeardQ(Tail(q)) /\ Head(q) \in InSeq(q)
  <2>1. SUFFICES ASSUME q # <<>> PROVE HeardQ(Tail(q)) /\ Head(q) \in InSeq(q)
    OBVIOUS
  <2>2. InSeq(q) = InSeq(Tail(q)) \cup {Head(q)}
    BY <2>1, TailKeeps
  <2> QED BY <2>2 DEF HeardQ
<1>3. ASSUME NEW e, Heard(e)
      PROVE  HeardQ(Append(q, e)) /\ HeardQ(<<e>> \o q)
  <2>1. q \in Seq(S \cup {e}) /\ e \in S \cup {e}
    BY SeqMono
  <2>2. InSeq(Append(q, e)) = InSeq(q) \cup {e}
    BY <2>1, AppendKeeps
  <2>3. HeardQ(Append(q, e))
    BY <1>3, <2>2 DEF HeardQ
  <2>4. /\ DOMAIN (<<e>> \o q) = 1 .. Len(q) + 1 /\ Len(q) \in Nat /\ DOMAIN q = 1 .. Len(q)
        /\ (<<e>> \o q)[1] = e /\ \A i \in 2 .. Len(q) + 1 : (<<e>> \o q)[i] = q[i - 1]
    BY <2>1, PushFacts
  <2>5. \A i \in DOMAIN (<<e>> \o q) : Heard((<<e>> \o q)[i])
    <3>1. ASSUME NEW i \in 1 .. Len(q) + 1
          PROVE  Heard((<<e>> \o q)[i])
      <4>1. CASE i = 1
        BY <1>3, <2>4, <4>1
      <4>2. CASE i # 1
        <5>1. i \in 2 .. Len(q) + 1 /\ i - 1 \in DOMAIN q
          BY <2>4, <4>2
        <5> QED BY <1>1, <2>4, <5>1
      <4> QED BY <4>1, <4>2
    <3> QED BY <2>4, <3>1
  <2> QED BY <2>3, <2>5 DEF HeardQ, InSeq
<1>4. ASSUME NEW k \in DOMAIN q
      PROVE  HeardQ(DropAt(q, k))
  <2>1. /\ Len(q) \in Nat /\ DOMAIN q = 1 .. Len(q)
        /\ DOMAIN DropAt(q, k) = 1 .. Len(q) - 1
    BY DEF DropAt
  <2>2. ASSUME NEW i \in 1 .. Len(q) - 1
        PROVE  Heard(DropAt(q, k)[i])
    <3>1. DropAt(q, k)[i] = q[i] \/ DropAt(q, k)[i] = q[i + 1]
      BY <2>1 DEF DropAt
    <3>2. i \in DOMAIN q /\ i + 1 \in DOMAIN q
      BY <2>1
    <3> QED BY <1>1, <3>1, <3>2
  <2> QED BY <2>1, <2>2 DEF HeardQ, InSeq
<1>5. ASSUME S \subseteq AnyOps, NEW k \in DOMAIN q,
             InstOf(q[k]) \in Inst => InstOf(q[k]) \in silenced'
      PROVE  HeardQ(MuteAt(q, k))
  <2>1. q[k] \in AnyOps
    BY <1>5
  <2>2. /\ DOMAIN MuteAt(q, k) = DOMAIN q
        /\ \A i \in DOMAIN q : MuteAt(q, k)[i] = IF i = k THEN [q[k] EXCEPT !.live = FALSE]
                                                         ELSE q[i]
    BY DEF MuteAt
  <2>3. Heard([q[k] EXCEPT !.live = FALSE])
    BY <1>5, <2>1, MutedFacts DEF Heard
  <2> QED BY <1>1, <2>2, <2>3 DEF HeardQ, InSeq
<1> QED BY <1>2, <1>3, <1>4, <1>5

\* What is destroyed.
LEMMA FreedFacts ==
  ASSUME TypeOK, NEW ops, Free(ops)
  PROVE  /\ freed \subseteq freed'
         /\ \A o \in Entries \cap ops : InstOf(o) \in Inst => InstOf(o) \in freed'
         /\ \A o \in Entries \cap ops : o.live => InstOf(o) \in freed'
<1>1. freed \subseteq freed' /\ Instances(ops) \subseteq freed'
  BY DEF Free
<1>2. \A o \in ops : o.id # 0 => InstOf(o) \in Instances(ops)
  BY DEF Instances
<1>3. \A o \in Entries : o \in AnyOps /\ (o.live => InstOf(o) \in Inst)
  BY EntriesType
<1>4. \A o \in Entries : InstOf(o) \in Inst => o.id # 0
  BY <1>3, InstanceFacts
<1> QED BY <1>1, <1>2, <1>3, <1>4

-----------------------------------------------------------------------------
(* The ways in which steps are orderly.                                     *)

LEMMA OrderlyQuiet ==
  ASSUME CallbacksKept, NoneDropped, UNCHANGED <<calls, silenced, legs>>,
         freed \subseteq freed',
         \A x \in Inst : InCall(x) => InCall(x)' \/ x \in freed',
         \A x \in Inst : InCall(x)' => InCall(x)
  PROVE  Orderly
  BY DEF Orderly, Silences, Tells, Begins, Enters

LEMMA OrderlyCall ==
  ASSUME CallbacksKept, NoneDropped, Enters, NEW op \in Entries, Call(op),
         ctl.pc \notin {"rsp", "conf"},
         op.live => InstOf(op) \in freed' \/ InCall(InstOf(op))',
         UNCHANGED <<silenced, legs>>, freed \subseteq freed'
  PROVE  Orderly
<1>1. Silences /\ Begins
  BY DEF Silences, Begins
<1>2. \A x \in Inst : ~InCall(x)
  BY DEF InCall
<1>3. CASE ~op.live
  <2>1. calls' = calls
    BY <1>3 DEF Call
  <2>2. Tells
    BY <1>2, <2>1 DEF Tells
  <2> QED BY <1>1, <2>2 DEF Orderly
<1>4. CASE op.live
  <2>1. calls' = [calls EXCEPT ![InstOf(op)] = @ + 1]
    BY <1>4 DEF Call
  <2>2. Tells
    BY <1>4, <2>1 DEF Tells
  <2> QED BY <1>1, <2>2 DEF Orderly
<1> QED BY <1>3, <1>4

-----------------------------------------------------------------------------
(* Main loop callbacks.                                                     *)

\* What a step is shown to be, and what it is shown from.
Implements == Orderly /\ \A s \in Slots : SlotStep(s)
RefInv == TypeOK /\ PlaceInv /\ CallInv

LEMMA ImplementsFreed ==
  ASSUME TypeOK, Orderly, SlotsFreed
  PROVE  Implements
  BY SlotsFrame DEF Implements

LEMMA SlotsKept ==
  ASSUME \A c \in Chan : /\ InstOf(pendReq'[c]) = InstOf(pendReq[c])
                         /\ InstOf(pendInd'[c]) = InstOf(pendInd[c])
  PROVE  SlotsFreed
  BY DEF SlotsFreed, Emptied

\* In the main loop no callback runs.
LEMMA NotInCall ==
  ASSUME ctl.pc \notin {"rsp", "conf"}
  PROVE  \A x : ~InCall(x)
  BY DEF InCall

LEMMA NotEntered ==
  ASSUME ctl'.pc \notin {"rsp", "conf"}
  PROVE  (\A x \in Inst : ~InCall(x)') /\ Enters
  BY DEF InCall, Enters

LEMMA NothingDropped ==
  ASSUME freed' = freed
  PROVE  NoneDropped
  BY DEF NoneDropped

\* What is destroyed alone has no callback, or it has been run.
LEMMA OneDestroyed ==
  ASSUME RefInv, NEW op \in Entries, Free({op}),
         ~op.live \/ Call(op) \/ InCall(InstOf(op))
  PROVE  NoneDropped
<1>1. ASSUME NEW x \in freed' \ freed
      PROVE  /\ x = InstOf(op) /\ x \in Inst
             /\ \A o \in Entries : InstOf(o) = x => o = op
  <2>1. x = InstOf(op) /\ op.id # 0
    BY <1>1 DEF Free, Instances
  <2>2. op \in AnyOps
    BY EntriesType DEF RefInv
  <2>3. x \in Inst
    BY <2>1, <2>2, InstanceFacts
  <2> QED BY <2>1, <2>3, EntriesUnique DEF RefInv
<1>2. CASE ~op.live
  BY <1>1, <1>2 DEF NoneDropped
<1>3. CASE InCall(InstOf(op))
  BY <1>1, <1>3 DEF NoneDropped
<1>4. CASE op.live /\ Call(op)
  <2>1. calls' = [calls EXCEPT ![InstOf(op)] = @ + 1] /\ calls \in [Inst -> Nat]
    BY <1>4 DEF Call, RefInv, TypeOK, GhostType
  <2>2. \A x \in Inst : x = InstOf(op) => calls'[x] # calls[x]
    BY <2>1
  <2> QED BY <1>1, <2>2 DEF NoneDropped
<1> QED BY <1>2, <1>3, <1>4

\* Nothing but queues, and what they get is no operation of the user's.
LEMMA RefStill ==
  ASSUME TypeOK, UNCHANGED <<pendReq, pendInd, flush, calls, silenced, legs, freed, ctl>>,
         \A c \in Chan : HeardQ(chanQ'[c]), HeardQ(reqQ'), HeardQ(indQ'), HeardQ(writeQ')
  PROVE  Implements
<1>1. CallbacksKept
  BY OldHeard, HeardEntries
<1>2. \A x : InCall(x)' <=> InCall(x)
  BY DEF InCall
<1>3. Orderly
  BY <1>1, <1>2, OrderlyQuiet, NothingDropped
<1>4. SlotsFreed
  BY SlotsKept
<1> QED BY <1>3, <1>4, ImplementsFreed

LEMMA RefIdle ==
  ASSUME TypeOK, NEW c \in Chan,
         can_write_data_idle(c) \/ watch_callback_error(c) \/ Peer(c)
  PROVE  Implements
<1>1. UNCHANGED <<pendReq, pendInd, flush, calls, silenced, legs, freed, ctl,
                  chanQ, reqQ, indQ, writeQ>>
  BY DEF can_write_data_idle, watch_callback_error, Peer, hang_up, peer_answers, peer_sends,
         peer_strays, queueVars, pendVars, ghostVars
<1> QED BY <1>1, OldHeard, RefStill

LEMMA RefReadOther ==
  ASSUME TypeOK, NEW c \in Chan,
         \/ read_req(c)
         \/ \E kind \in {"IND", "NFY"} : read_unasked(c, kind)
         \/ bt_att_chan_send(c)
  PROVE  Implements
<1>1. UNCHANGED <<pendReq, pendInd, flush, calls, silenced, legs, freed, ctl>>
  BY DEF read_req, read_unasked, bt_att_chan_send, pendVars, ghostVars
<1>2. \/ UNCHANGED <<chanQ, reqQ, indQ, writeQ>>
      \/ writeQ' = Append(writeQ, RspOp("RSP")) /\ UNCHANGED <<chanQ, reqQ, indQ>>
      \/ \E kind \in {"RSP", "CONF"} :
           /\ chanQ' = [chanQ EXCEPT ![c] = Append(@, RspOp(kind))]
           /\ UNCHANGED <<reqQ, indQ, writeQ>>
  BY DEF read_req, read_unasked, bt_att_chan_send, respond_not_supported, queueVars
<1>3. chanQ \in [Chan -> Seq(ChanOps)] /\ writeQ \in Seq(WriteOps)
  BY DEF TypeOK, QueueType
<1>4. HeardQ(Append(writeQ, RspOp("RSP")))
  BY <1>3, OldHeard, QueueHeard
<1>5. \A d \in Chan, kind \in {"RSP", "CONF"} : HeardQ(Append(chanQ[d], RspOp(kind)))
  BY <1>3, OldHeard, QueueHeard
<1>6. \A d \in Chan : HeardQ(chanQ'[d])
  BY <1>2, <1>3, <1>5, OldHeard
<1>7. HeardQ(reqQ') /\ HeardQ(indQ') /\ HeardQ(writeQ')
  BY <1>2, <1>4, OldHeard
<1> QED BY <1>1, <1>6, <1>7, RefStill

LEMMA PickHeard ==
  ASSUME TypeOK, NEW c \in Chan, pick_next_send_op(c), ~PicksNone(c)
  PROVE  /\ Picked(c) \in Entries
         /\ \A d \in Chan : HeardQ(chanQ'[d])
         /\ HeardQ(reqQ') /\ HeardQ(indQ') /\ HeardQ(writeQ')
<1>1. /\ chanQ \in [Chan -> Seq(ChanOps)] /\ reqQ \in Seq(ReqOps) /\ indQ \in Seq(IndOps)
      /\ writeQ \in Seq(WriteOps)
  BY DEF TypeOK, QueueType
<1>2. /\ \A d \in Chan : chanQ[d] # <<>> =>
           HeardQ(Tail(chanQ[d])) /\ Head(chanQ[d]) \in InSeq(chanQ[d])
      /\ reqQ # <<>> => HeardQ(Tail(reqQ)) /\ Head(reqQ) \in InSeq(reqQ)
      /\ indQ # <<>> => HeardQ(Tail(indQ)) /\ Head(indQ) \in InSeq(indQ)
      /\ writeQ # <<>> => HeardQ(Tail(writeQ)) /\ Head(writeQ) \in InSeq(writeQ)
  BY <1>1, OldHeard, QueueHeard
<1>3. /\ PicksChan(c) => chanQ[c] # <<>>
      /\ PicksWrite(c) => writeQ # <<>>
      /\ PicksReq(c) => reqQ # <<>>
      /\ PicksInd(c) => indQ # <<>>
  BY DEF PicksChan, PicksWrite, PicksReq, PicksInd, Fits
<1>4. Picked(c) \in Entries
  BY <1>2, <1>3, PickedType, OldEntries DEF pick_next_send_op
<1>5. \A d \in Chan : HeardQ(chanQ'[d])
  BY <1>1, <1>2, <1>3, OldHeard DEF pick_next_send_op
<1>6. HeardQ(reqQ') /\ HeardQ(indQ') /\ HeardQ(writeQ')
  BY <1>2, <1>3, OldHeard DEF pick_next_send_op
<1> QED BY <1>4, <1>5, <1>6

\* What is picked is in no slot, and its callback has not run.
LEMMA PickedStage ==
  ASSUME RefInv, NEW c \in Chan, pick_next_send_op(c), ~PicksNone(c), ctl = Main,
         NEW x \in Inst, x = InstOf(Picked(c))
  PROVE  /\ Picked(c).kind # "CMD" => StageOf(x) \in {"open", "silent"}
         /\ \A s \in Slots : InSlot(s) # x
<1>1. PICK k \in {"chan", "req", "ind", "write"}, d \in Chan : Holds(k, d, x)
  BY PickPlace DEF RefInv, Holds
<1>2. Alive(x) /\ OnlyIn(k, d, x)
  BY <1>1 DEF RefInv, PlaceInv, Placed, OnlyIn, PlaceKinds
<1>3. ~InCall(x)
  BY NotInCall DEF Main
<1>4. x \notin freed /\ Created(x) /\ calls[x] \in Nat /\ ~(calls[x] > 0)
  BY <1>2, <1>3 DEF Alive, RefInv, CallInv, TypeOK, GhostType
<1>5. Picked(c).kind # "CMD" => StageOf(x) \in {"open", "silent"}
  <2>1. Picked(c) \in Entries
    BY PickHeard DEF RefInv
  <2>2. Picked(c).kind # "CMD" => Lives(x) \/ x \in silenced
    BY <2>1 DEF Lives, RefInv, CallInv
  <2> QED BY <1>4, <2>2 DEF StageOf
<1>6. ASSUME NEW s \in Slots, InSlot(s) = x
      PROVE  FALSE
  <2>1. Holds("preq", s[1], x) \/ Holds("pind", s[1], x)
    BY <1>6, SlotFacts, OnePlace DEF Holds, Content
  <2> QED BY <1>2, <2>1, SlotFacts DEF OnlyIn, PlaceKinds
<1> QED BY <1>5, <1>6

LEMMA RefWrite ==
  ASSUME RefInv, NEW c \in Chan, can_write_data(c)
  PROVE  Implements
<1> DEFINE op == Picked(c)
<1>1. /\ pick_next_send_op(c) /\ ~PicksNone(c) /\ ctl = Main
      /\ UNCHANGED <<legs, ctl, flush, calls, silenced>>
      /\ \/ IsReq(op) /\ pendReq' = [pendReq EXCEPT ![c] = op] /\ UNCHANGED <<pendInd, freed>>
         \/ op.kind = "IND" /\ pendInd' = [pendInd EXCEPT ![c] = op]
            /\ UNCHANGED <<pendReq, freed>>
         \/ UNCHANGED <<pendReq, pendInd, freed>>
         \/ op.kind = "CMD" /\ Free({op}) /\ UNCHANGED <<pendReq, pendInd>>
  BY DEF can_write_data, chanVars, pendVars, IsReq
<1>2. /\ pendReq \in [Chan -> Ops({"REQ", "MTU"}) \cup {NoOp}]
      /\ pendInd \in [Chan -> Ops({"IND"}) \cup {NoOp}]
  BY DEF RefInv, TypeOK, PendType
<1>3. /\ IsReq(op) => pendReq[c] = NoOp
      /\ op.kind = "IND" => pendInd[c] = NoOp
      /\ IsReq(op) \/ op.kind = "IND" => InstOf(op) \in Inst
  <2>1. /\ IsReq(op) => op \in Ops({"REQ", "MTU"})
        /\ op.kind = "IND" => op \in Ops({"IND"})
    BY <1>1, SentType DEF IsReq, RefInv
  <2> QED BY <1>1, <2>1, OpsInst, PickFindsSlot DEF RefInv
<1>4. /\ op \in Entries /\ \A d \in Chan : HeardQ(chanQ'[d])
      /\ HeardQ(reqQ') /\ HeardQ(indQ') /\ HeardQ(writeQ')
  BY <1>1, PickHeard DEF RefInv
<1>5. InstOf(op) \in Inst => /\ op.kind # "CMD" => StageOf(InstOf(op)) \in {"open", "silent"}
                             /\ \A s \in Slots : InSlot(s) # InstOf(op)
  BY <1>1, PickedStage
<1>6. op.kind = "CMD" => ~op.live
  BY <1>1, PickedType DEF RefInv, PicksNone, ChanOps, WriteOps, Commands, ReqOps, IndOps, Ops, RspOp
<1>7. freed \subseteq freed'
  BY <1>1 DEF Free
<1> HIDE DEF op
<1>8. \A d \in Chan : Heard(pendReq'[d]) /\ Heard(pendInd'[d])
  BY <1>1, <1>2, <1>4, OldHeard
<1>9. CallbacksKept
  BY <1>1, <1>4, <1>8, OldHeard, HeardEntries
<1>10. NoneDropped
  BY <1>1, <1>4, <1>6, NothingDropped, OneDestroyed
<1>11. Orderly
  BY <1>1, <1>7, <1>9, <1>10, OrderlyQuiet, NotInCall, NotEntered DEF Main
<1>12. ASSUME NEW s \in Slots, InSlot(s) = InstOf(NoOp), InSlot(s)' = InstOf(op),
              InstOf(op) \in Inst, op.kind # "CMD"
       PROVE  SlotStep(s)
  <2>1. /\ [t \in Slots |-> InSlot(t)]'[s] = InstOf(op)
        /\ \A t \in Slots : [u \in Slots |-> InSlot(u)][t] = InSlot(t)
        /\ [y \in Inst |-> StageOf(y)][InstOf(op)] = StageOf(InstOf(op))
    BY <1>12
  <2>2. Transaction!Send(s)
    BY <1>5, <1>12, <2>1 DEF Transaction!Send
  <2> QED BY <2>2 DEF SlotStep
<1>13. ASSUME NEW s \in Slots
       PROVE  InSlot(s)' = InSlot(s) \/ SlotStep(s)
  <2>1. CASE IsReq(op) /\ pendReq' = [pendReq EXCEPT ![c] = op] /\ UNCHANGED pendInd
    <3>1. CASE s[1] = c /\ s[2] = "REQ"
      <4>1. InSlot(s) = InstOf(NoOp) /\ InSlot(s)' = InstOf(op)
        BY <1>2, <1>3, <2>1, <3>1, SlotFacts
      <4> QED BY <1>3, <1>12, <2>1, <4>1 DEF IsReq
    <3>2. CASE ~(s[1] = c /\ s[2] = "REQ")
      BY <1>2, <2>1, <3>2, SlotFacts
    <3> QED BY <3>1, <3>2
  <2>2. CASE op.kind = "IND" /\ pendInd' = [pendInd EXCEPT ![c] = op] /\ UNCHANGED pendReq
    <3>1. CASE s[1] = c /\ s[2] = "IND"
      <4>1. InSlot(s) = InstOf(NoOp) /\ InSlot(s)' = InstOf(op)
        BY <1>2, <1>3, <2>2, <3>1, SlotFacts
      <4> QED BY <1>3, <1>12, <2>2, <4>1
    <3>2. CASE ~(s[1] = c /\ s[2] = "IND")
      BY <1>2, <2>2, <3>2, SlotFacts
    <3> QED BY <3>1, <3>2
  <2>3. CASE UNCHANGED <<pendReq, pendInd>>
    BY <2>3, SlotFacts
  <2> QED BY <1>1, <2>1, <2>2, <2>3
<1> QED BY <1>11, <1>13 DEF Implements, SlotStep

LEMMA RefWriteFails ==
  ASSUME RefInv, NEW c \in Chan, can_write_data_fails(c)
  PROVE  Implements
<1> DEFINE op == Picked(c)
<1>1. /\ pick_next_send_op(c) /\ ~PicksNone(c) /\ ctl = Main
      /\ Call(op) /\ Free({op})
      /\ UNCHANGED <<legs, ctl, flush, silenced, pendReq, pendInd>>
  BY DEF can_write_data_fails, pendVars
<1>2. /\ op \in Entries /\ \A d \in Chan : HeardQ(chanQ'[d])
      /\ HeardQ(reqQ') /\ HeardQ(indQ') /\ HeardQ(writeQ')
  BY <1>1, PickHeard DEF RefInv
<1> HIDE DEF op
<1>3. CallbacksKept
  BY <1>1, <1>2, OldHeard, HeardEntries
<1>4. freed \subseteq freed' /\ (op.live => InstOf(op) \in freed')
  BY <1>1, <1>2, FreedFacts DEF RefInv
<1>5. ctl.pc \notin {"rsp", "conf"}
  BY <1>1 DEF Main
<1>6. Orderly
  BY <1>1, <1>2, <1>3, <1>4, <1>5, OrderlyCall, OneDestroyed, NotEntered
<1>7. SlotsFreed
  BY <1>1, SlotsKept
<1> QED BY <1>6, <1>7, ImplementsFreed DEF RefInv

\* What a channel's slot held is destroyed, after its callback or without one.
LEMMA RefSlotFreed ==
  ASSUME RefInv, NEW c \in Chan, {ctl.pc, ctl'.pc} \cap {"rsp", "conf"} = {},
         UNCHANGED <<chanQ, reqQ, indQ, writeQ, flush, silenced, legs>>,
         \/ /\ pendReq' = [pendReq EXCEPT ![c] = NoOp] /\ pendInd' = pendInd
            /\ Free({pendReq[c]})
            /\ Call(pendReq[c]) \/ (~pendReq[c].live /\ calls' = calls)
         \/ /\ pendInd' = [pendInd EXCEPT ![c] = NoOp] /\ pendReq' = pendReq
            /\ Free({pendInd[c]})
            /\ Call(pendInd[c]) \/ (~pendInd[c].live /\ calls' = calls)
  PROVE  Implements
<1>1. /\ pendReq \in [Chan -> Ops({"REQ", "MTU"}) \cup {NoOp}]
      /\ pendInd \in [Chan -> Ops({"IND"}) \cup {NoOp}]
  BY DEF RefInv, TypeOK, PendType
<1>2. \A d \in Chan : Heard(pendReq'[d]) /\ Heard(pendInd'[d])
  BY <1>1, OldHeard
<1>3. CallbacksKept
  BY <1>2, OldHeard, HeardEntries
<1>4. PICK op \in Entries : /\ op \in {pendReq[c], pendInd[c]} /\ Free({op})
                            /\ Call(op) \/ (~op.live /\ calls' = calls)
                            /\ \/ op = pendReq[c] /\ pendReq' = [pendReq EXCEPT ![c] = NoOp]
                                  /\ pendInd' = pendInd
                               \/ op = pendInd[c] /\ pendInd' = [pendInd EXCEPT ![c] = NoOp]
                                  /\ pendReq' = pendReq
  BY OldEntries
<1>5. /\ freed \subseteq freed' /\ (op.live => InstOf(op) \in freed')
      /\ InstOf(op) \in Inst => InstOf(op) \in freed'
  BY <1>4, FreedFacts DEF RefInv
<1>6. NoneDropped
  BY <1>4, OneDestroyed
<1>7. Orderly
  BY <1>3, <1>4, <1>5, <1>6, OrderlyCall, OrderlyQuiet, NotInCall, NotEntered
<1>8. op = NoOp \/ InstOf(op) \in Inst
  <2>1. op = NoOp \/ op \in Ops({"REQ", "MTU"}) \/ op \in Ops({"IND"})
    BY <1>1, <1>4
  <2> QED BY <2>1, OpsInst
<1>9. SlotsFreed
  BY <1>1, <1>4, <1>5, <1>8 DEF SlotsFreed, Emptied
<1> QED BY <1>7, <1>9, ImplementsFreed DEF RefInv

LEMMA RefErrorRsp ==
  ASSUME RefInv, PlaceInv', NEW c \in Chan, NEW ecode, handle_error_rsp(c, ecode), ctl = Main
  PROVE  Implements
<1> DEFINE old == pendReq[c]
           op == [old EXCEPT !.retry = TRUE]
<1>1. /\ UNCHANGED <<reqQ, indQ, writeQ, flush, pendInd, legs, freed, ctl, calls, silenced>>
      /\ chanQ' = [chanQ EXCEPT ![c] = <<op>> \o @] /\ pendReq' = [pendReq EXCEPT ![c] = NoOp]
      /\ old # NoOp
  BY DEF handle_error_rsp, ghostVars
<1>2. /\ pendReq \in [Chan -> Ops({"REQ", "MTU"}) \cup {NoOp}] /\ old \in Ops({"REQ", "MTU"})
      /\ chanQ \in [Chan -> Seq(ChanOps)] /\ chanQ[c] \in Seq(ChanOps)
  BY <1>1, PlaceFacts DEF RefInv, TypeOK, PendType, QueueType
<1>3. /\ InstOf(op) = InstOf(old) /\ op.live = old.live /\ op.kind = old.kind
      /\ InstOf(old) \in Inst /\ old \in Entries
  BY <1>2, OldEntries DEF Ops, InstOf, Inst
<1>4. Heard(op)
  BY <1>3 DEF Heard
<1> HIDE DEF op
<1>5. HeardQ(<<op>> \o chanQ[c])
  BY <1>2, <1>4, OldHeard, QueueHeard
<1>6. \A d \in Chan : HeardQ(chanQ'[d]) /\ Heard(pendReq'[d]) /\ Heard(pendInd'[d])
  BY <1>1, <1>2, <1>5, OldHeard
<1>7. CallbacksKept
  BY <1>1, <1>6, OldHeard, HeardEntries
<1>8. Orderly
  BY <1>1, <1>7, OrderlyQuiet, NotInCall, NotEntered, NothingDropped DEF Main
<1>9. op \in Entries'
  <2>1. DOMAIN (<<op>> \o chanQ[c]) = 1 .. Len(chanQ[c]) + 1 /\ Len(chanQ[c]) \in Nat
        /\ (<<op>> \o chanQ[c])[1] = op
    BY <1>2, PushFacts
  <2>2. chanQ'[c] = <<op>> \o chanQ[c]
    BY <1>1, <1>2
  <2> DEFINE new == <<op>> \o chanQ[c]
  <2>3. 1 \in DOMAIN new
    BY <2>1
  <2>4. op \in InSeq(new)
    BY <2>1, <2>3, Zenon DEF InSeq
  <2> HIDE DEF new
  <2>5. op \in InSeq(chanQ'[c])
    BY <2>2, <2>4 DEF new
  <2> QED BY <2>5, NewEntries
<1>10. ASSUME NEW s \in Slots, s[1] = c, s[2] = "REQ"
      PROVE  SlotStep(s)
  <2> PICK x \in Inst : x = InstOf(old)
    BY <1>3
  <2>1. InSlot(s) = x /\ InSlot(s)' = InstOf(NoOp)
    BY <1>1, <1>2, <1>10, SlotFacts
  <2>7. Lives(x)' <=> Lives(x)
    <3>1. Lives(x) <=> old.live
      BY <1>3, EntriesUnique DEF Lives, RefInv
    <3>2. Lives(x)' <=> op.live
      BY <1>3, <1>9, PlaceEntriesNext DEF Lives, UniqueEntries
    <3> QED BY <1>3, <3>1, <3>2
  <2>2. StageOf(x)' = StageOf(x)
    BY <1>1, <2>7 DEF StageOf, Created
  <2>3. StageOf(x) # "told"
    <3>1. x \in freed \/ ~(calls[x] > 0)
      BY NotInCall DEF RefInv, CallInv, Main
    <3>2. calls[x] \in Nat
      BY DEF RefInv, TypeOK, GhostType
    <3> QED BY <3>1, <3>2 DEF StageOf
  <2>4. /\ [t \in Slots |-> InSlot(t)][s] = x
        /\ [t \in Slots |-> InSlot(t)]'[s] = InstOf(NoOp)
        /\ [y \in Inst |-> StageOf(y)][x] = StageOf(x)
        /\ [y \in Inst |-> StageOf(y)]'[x] = StageOf(x)'
    BY <2>1
  <2>5. Transaction!Stay(x)
    BY <1>1, <2>2, <2>4 DEF Transaction!Stay
  <2>6. Transaction!Release(s)
    BY <2>3, <2>4, <2>5 DEF Transaction!Release
  <2> QED BY <2>6 DEF SlotStep
<1>11. ASSUME NEW s \in Slots, ~(s[1] = c /\ s[2] = "REQ")
       PROVE  SlotStep(s)
  BY <1>1, <1>2, <1>11, SlotFacts DEF SlotStep
<1> QED BY <1>8, <1>10, <1>11 DEF Implements

\* A callback starts: the slot is emptied when it has returned.
LEMMA RefCallback ==
  ASSUME RefInv, NEW c \in Chan, ctl = Main,
         UNCHANGED <<queueVars, pendVars, flush, legs, freed, silenced>>,
         \/ pendReq[c].live /\ Call(pendReq[c]) /\ ctl' = In("rsp", c, TRUE)
         \/ pendInd[c].live /\ Call(pendInd[c]) /\ ctl' = In("conf", c, TRUE)
  PROVE  Implements
<1>1. CallbacksKept
  BY OldHeard, HeardEntries DEF queueVars, pendVars
<1>2. PICK op \in Entries : /\ op.live /\ Call(op) /\ InCall(InstOf(op))'
                            /\ \A x \in Inst : InCall(x)' => x = InstOf(op)
  BY OldEntries DEF InCall, In, pendVars
<1>3. \A x \in Inst : x = InstOf(op) => calls'[x] # calls[x]
  BY <1>2 DEF Call, RefInv, TypeOK, GhostType
<1>4. Enters
  BY <1>2, <1>3 DEF Enters
<1>5. Orderly
  BY <1>1, <1>2, <1>4, OrderlyCall, NothingDropped DEF Main
<1>6. SlotsFreed
  BY SlotsKept DEF pendVars
<1> QED BY <1>5, <1>6, ImplementsFreed DEF RefInv

LEMMA RefShut ==
  ASSUME RefInv, UNCHANGED <<queueVars, pendVars, ctl, flush, ghostVars>>
  PROVE  Implements
<1>1. UNCHANGED <<pendReq, pendInd, flush, calls, silenced, legs, freed, ctl,
                  chanQ, reqQ, indQ, writeQ>>
  BY DEF queueVars, pendVars, ghostVars
<1> QED BY <1>1, OldHeard, RefStill DEF RefInv

LEMMA RefRead ==
  ASSUME RefInv, PlaceInv', NEW c \in Chan, read_rsp(c) \/ read_conf(c) \/ read_stray(c)
  PROVE  Implements
<1>1. ctl = Main /\ ctl.pc \notin {"rsp", "conf"}
  BY DEF read_rsp, read_conf, read_stray, Readable, Main
<1>2. \/ \E ans : handle_rsp(c, ans)
      \/ handle_conf(c)
      \/ UNCHANGED <<queueVars, pendVars, ctl, flush, ghostVars>>
  BY DEF read_rsp, read_conf, read_stray
<1>3. CASE UNCHANGED <<queueVars, pendVars, ctl, flush, ghostVars>>
  BY <1>3, RefShut
<1>4. CASE /\ UNCHANGED <<queueVars, ctl, flush, legs, calls, silenced>>
           /\ \/ /\ pendReq' = [pendReq EXCEPT ![c] = NoOp] /\ pendInd' = pendInd
                 /\ Free({pendReq[c]}) /\ ~pendReq[c].live
              \/ /\ pendInd' = [pendInd EXCEPT ![c] = NoOp] /\ pendReq' = pendReq
                 /\ Free({pendInd[c]}) /\ ~pendInd[c].live
  BY <1>1, <1>4, RefSlotFreed DEF queueVars
<1>5. ASSUME NEW ans, handle_rsp(c, ans)
      PROVE  Implements
  BY <1>1, <1>3, <1>4, <1>5, RefErrorRsp, RefCallback DEF handle_rsp, pendVars
<1>6. CASE handle_conf(c)
  BY <1>1, <1>3, <1>4, <1>6, RefCallback DEF handle_conf, pendVars
<1> QED BY <1>2, <1>3, <1>5, <1>6

LEMMA RefTimeout ==
  ASSUME RefInv, NEW c \in Chan, timeout_cb(c) \/ disconnect_cb(c)
  PROVE  Implements
<1>1. {ctl.pc, ctl'.pc} \cap {"rsp", "conf"} = {}
  BY DEF timeout_cb, disconnect_cb, Main, In
<1>2. /\ UNCHANGED <<chanQ, reqQ, indQ, writeQ, flush, silenced, legs>>
      /\ \/ /\ pendReq' = [pendReq EXCEPT ![c] = NoOp] /\ pendInd' = pendInd
            /\ Free({pendReq[c]}) /\ Call(pendReq[c])
         \/ /\ pendInd' = [pendInd EXCEPT ![c] = NoOp] /\ pendReq' = pendReq
            /\ Free({pendInd[c]}) /\ Call(pendInd[c])
  BY DEF timeout_cb, disconnect_cb, queueVars
<1> QED BY <1>1, <1>2, RefSlotFreed

-----------------------------------------------------------------------------
(* The return of callbacks and the clean-up.                                *)

LEMMA EmptyHeard == HeardQ(<<>>) /\ InSeq(<<>>) = {}
<1>1. DOMAIN <<>> = {}
  OBVIOUS
<1>2. InSeq(<<>>) = {}
  BY <1>1 DEF InSeq
<1> QED BY <1>2 DEF HeardQ

\* What a running callback belongs to is still held.
LEMMA InCallAlive ==
  ASSUME RefInv, NEW x \in Inst, InCall(x)
  PROVE  Alive(x)
<1>1. ctl.chan \in Chan
  BY DEF RefInv, TypeOK, FlagType
<1>2. PICK o \in Entries : InstOf(o) = x
  BY <1>1, OldEntries DEF InCall
<1> QED BY <1>2, PlaceEntries DEF RefInv, UniqueEntries

LEMMA RefBearerFree ==
  ASSUME RefInv, PlaceInv', bt_att_free, flush = <<>>, flush' = flush, ~ref',
         ctl' = Main
  PROVE  Implements
<1>1. /\ \A c \in Chan : chanQ'[c] = <<>> /\ pendReq'[c] = NoOp /\ pendInd'[c] = NoOp
      /\ reqQ' = <<>> /\ indQ' = <<>> /\ writeQ' = <<>> /\ flush' = <<>>
      /\ UNCHANGED <<calls, silenced, legs>>
  BY DEF bt_att_free
<1>2. CallbacksKept
  BY <1>1, OldHeard, EmptyHeard, HeardEntries
<1>3. ASSUME NEW x \in Inst, Alive(x)
      PROVE  x \in freed'
  <2>1. \A o \in Entries' : o = NoOp
    BY <1>1, EmptyHeard, NewEntries
  <2>2. InstOf(NoOp) # x
    BY BearerAssumption DEF Inst, Ids, InstOf, NoOp
  <2>3. ~Alive(x)'
    BY <2>1, <2>2, PlaceEntriesNext DEF AliveEntries
  <2> QED BY <1>1, <1>3, <2>3 DEF Alive, Created
<1>4. freed \subseteq freed'
  BY DEF bt_att_free, Free
<1>5. \A x \in Inst : InCall(x) => x \in freed'
  BY <1>3, InCallAlive
<1>6. NoneDropped
  BY DEF NoneDropped
<1>7. Orderly
  BY <1>1, <1>2, <1>4, <1>5, <1>6, OrderlyQuiet, NotEntered DEF Main
<1>8. ASSUME NEW o \in Entries, o = NoOp \/ InstOf(o) \in Inst
      PROVE  Emptied(o, NoOp)
  <2>1. InstOf(o) \in Inst => Alive(InstOf(o))
    BY PlaceEntries DEF RefInv, UniqueEntries
  <2> QED BY <1>3, <1>8, <2>1 DEF Emptied
<1>9. \A c \in Chan : /\ pendReq[c] = NoOp \/ InstOf(pendReq[c]) \in Inst
                      /\ pendInd[c] = NoOp \/ InstOf(pendInd[c]) \in Inst
  <2> QED BY OpsInst, PlaceFacts DEF RefInv
<1>10. SlotsFreed
  BY <1>1, <1>8, <1>9, OldEntries DEF SlotsFreed
<1> QED BY <1>7, <1>10, ImplementsFreed DEF RefInv

LEMMA RefEndCallback ==
  ASSUME RefInv, PlaceInv', end_callback
  PROVE  Implements
<1> DEFINE c == ctl.chan
<1>1. c \in Chan /\ ctl.pc \in {"rsp", "conf"} /\ UNCHANGED <<ref, flush>> /\ ctl' = Main
  BY DEF end_callback, RefInv, TypeOK, FlagType
<1>2. CASE ~ref /\ bt_att_free
  <2>1. flush = <<>>
    BY <1>1 DEF RefInv, PlaceInv, TidyInv, Flushing
  <2> QED BY <1>1, <1>2, <2>1, RefBearerFree
<1>3. CASE /\ UNCHANGED <<queueVars, legs, calls, silenced>>
           /\ \/ /\ ctl.pc = "rsp" /\ Free({pendReq[c]})
                 /\ pendReq' = [pendReq EXCEPT ![c] = NoOp] /\ pendInd' = pendInd
              \/ /\ ctl.pc = "conf" /\ Free({pendInd[c]})
                 /\ pendInd' = [pendInd EXCEPT ![c] = NoOp] /\ pendReq' = pendReq
  <2>1. /\ pendReq \in [Chan -> Ops({"REQ", "MTU"}) \cup {NoOp}]
        /\ pendInd \in [Chan -> Ops({"IND"}) \cup {NoOp}]
    BY DEF RefInv, TypeOK, PendType
  <2>2. \A d \in Chan : Heard(pendReq'[d]) /\ Heard(pendInd'[d])
    BY <1>3, <2>1, OldHeard
  <2>3. CallbacksKept
    BY <1>1, <1>3, <2>2, OldHeard, HeardEntries DEF queueVars
  <2>4. PICK op \in Entries :
           /\ \A x : InCall(x) <=> x = InstOf(op)
           /\ Free({op})
           /\ \/ op = pendReq[c] /\ pendReq' = [pendReq EXCEPT ![c] = NoOp]
                 /\ pendInd' = pendInd
              \/ op = pendInd[c] /\ pendInd' = [pendInd EXCEPT ![c] = NoOp]
                 /\ pendReq' = pendReq
    BY <1>1, <1>3, OldEntries DEF InCall
  <2>5. freed \subseteq freed' /\ (InstOf(op) \in Inst => InstOf(op) \in freed')
    BY <2>4, FreedFacts DEF RefInv
  <2>9. NoneDropped
    BY <2>4, OneDestroyed
  <2>6. Orderly
    BY <1>1, <1>3, <2>3, <2>4, <2>5, <2>9, OrderlyQuiet, NotEntered DEF Main
  <2>7. op = NoOp \/ InstOf(op) \in Inst
    <3>1. op = NoOp \/ op \in Ops({"REQ", "MTU"}) \/ op \in Ops({"IND"})
      BY <1>1, <2>1, <2>4
    <3> QED BY <3>1, OpsInst
  <2> HIDE DEF c
  <2>8. SlotsFreed
    BY <1>1, <2>1, <2>4, <2>5, <2>7 DEF SlotsFreed, Emptied
  <2> QED BY <2>6, <2>8, ImplementsFreed DEF RefInv
<1> QED BY <1>2, <1>3 DEF end_callback

\* disconnect_cb: the callback of the pending indication and the channel's own queue.
LEMMA RefDetach ==
  ASSUME RefInv, detach_chan
  PROVE  Implements
<1> DEFINE c == ctl.chan
           op == pendInd[c]
<1>1. /\ c \in Chan /\ ctl.pc \notin {"rsp", "conf"} /\ Call(op)
      /\ Free({op} \cup InSeq(chanQ[c]))
      /\ pendInd' = [pendInd EXCEPT ![c] = NoOp] /\ chanQ' = [chanQ EXCEPT ![c] = <<>>]
      /\ UNCHANGED <<pendReq, indQ, writeQ, legs, silenced>>
      /\ \/ UNCHANGED <<flush, reqQ>>
         \/ flush' = reqQ /\ reqQ' = <<>>
      /\ ctl.pc = "detach" /\ ctl'.pc \notin {"rsp", "conf"}
  BY DEF detach_chan, RefInv, TypeOK, FlagType, Main, In
<1>2. /\ chanQ \in [Chan -> Seq(ChanOps)]
      /\ pendInd \in [Chan -> Ops({"IND"}) \cup {NoOp}]
  BY DEF RefInv, TypeOK, PendType, QueueType
<1>3. op \in Entries /\ (op = NoOp \/ InstOf(op) \in Inst)
  <2>1. op \in Ops({"IND"}) \cup {NoOp}
    BY <1>1, <1>2
  <2> QED BY <1>1, <2>1, OpsInst, OldEntries
<1>4. /\ freed \subseteq freed' /\ (op.live => InstOf(op) \in freed')
      /\ InstOf(op) \in Inst => InstOf(op) \in freed'
  BY <1>1, <1>3, FreedFacts DEF RefInv
<1>5. NoneDropped
  <2>1. ASSUME NEW x \in freed' \ freed, x \notin Stranded
        PROVE  /\ x = InstOf(op) /\ x \in Inst
               /\ \A o \in Entries : InstOf(o) = x => o = op
    <3>1. x \in Instances({op} \cup InSeq(chanQ[c]))
      BY <1>1, <2>1 DEF Free
    <3>2. x \notin Instances(InSeq(chanQ[c]))
      BY <1>1, <2>1 DEF Stranded
    <3>3. x = InstOf(op) /\ op.id # 0
      BY <3>1, <3>2 DEF Instances
    <3>4. op \in AnyOps
      BY <1>3, EntriesType DEF RefInv
    <3>5. x \in Inst
      BY <3>3, <3>4, InstanceFacts
    <3> QED BY <1>3, <3>3, <3>5, EntriesUnique DEF RefInv
  <2>2. op.live => \A x \in Inst : x = InstOf(op) => calls'[x] # calls[x]
    BY <1>1 DEF Call, RefInv, TypeOK, GhostType
  <2> QED BY <2>1, <2>2 DEF NoneDropped
<1> HIDE DEF c
<1>6. \A d \in Chan : HeardQ(chanQ'[d]) /\ Heard(pendReq'[d]) /\ Heard(pendInd'[d])
  BY <1>1, <1>2, OldHeard, EmptyHeard
<1>7. CallbacksKept
  BY <1>1, <1>6, OldHeard, EmptyHeard, HeardEntries
<1>8. SlotsFreed
  BY <1>1, <1>2, <1>3, <1>4 DEF SlotsFreed, Emptied
<1> HIDE DEF op
<1>9. Orderly
  BY <1>1, <1>3, <1>4, <1>7, <1>5, OrderlyCall, NotEntered
<1> QED BY <1>8, <1>9, ImplementsFreed DEF RefInv

LEMMA RefFlush ==
  ASSUME RefInv, disc_att_send_op \/ flush_next
  PROVE  Implements
<1>1. /\ ctl.pc \notin {"rsp", "conf"} /\ UNCHANGED <<chanQ, reqQ, pendReq, pendInd, legs, silenced>>
      /\ ctl'.pc \notin {"rsp", "conf"}
  <2>1. ctl.pc \in {"flush_req", "flush_ind", "flush_write"}
    BY DEF disc_att_send_op, flush_next, Flushing
  <2>2. UNCHANGED <<chanQ, reqQ, pendReq, pendInd, legs, silenced>>
    BY DEF disc_att_send_op, flush_next, queueVars, pendVars, ghostVars
  <2>3. ctl \in [pc : {"main", "rsp", "conf", "detach", "flush_req",
                      "flush_ind", "flush_write"},
                chan : Chan, user : BOOLEAN, again : BOOLEAN]
    BY DEF RefInv, TypeOK, FlagType
  <2>4. CASE disc_att_send_op
    <3>1. ctl' = [ctl EXCEPT !.user = Head(flush).live]
      BY <2>4 DEF disc_att_send_op
    <3> QED BY <2>1, <2>2, <2>3, <3>1
  <2>5. CASE flush_next
    <3>1. \/ ctl' = [ctl EXCEPT !.pc = "flush_ind", !.user = FALSE]
          \/ ctl' = [ctl EXCEPT !.pc = "flush_write", !.user = FALSE]
          \/ ctl'.pc = "main"
      BY <2>5 DEF flush_next, Main
    <3> QED BY <2>1, <2>2, <2>3, <3>1
  <2> QED BY <2>4, <2>5
<1>2. flush \in Seq(FlushOps)
  BY DEF RefInv, TypeOK, FlagType
<1>3. SlotsFreed
  BY <1>1, SlotsKept
<1>4. CASE disc_att_send_op
  <2> DEFINE op == Head(flush)
  <2>1. flush # <<>> /\ flush' = Tail(flush) /\ Call(op) /\ Free({op}) /\ UNCHANGED <<indQ, writeQ>>
    BY <1>4 DEF disc_att_send_op, queueVars
  <2>2. HeardQ(flush') /\ op \in Entries
    BY <1>2, <2>1, OldHeard, OldEntries, QueueHeard
  <2> HIDE DEF op
  <2>3. freed \subseteq freed' /\ (op.live => InstOf(op) \in freed')
    BY <2>1, <2>2, FreedFacts DEF RefInv
  <2>4. CallbacksKept
    BY <1>1, <2>1, <2>2, OldHeard, HeardEntries
  <2>5. Orderly
    BY <1>1, <2>1, <2>2, <2>3, <2>4, OrderlyCall, OneDestroyed, NotEntered
  <2> QED BY <1>3, <2>5, ImplementsFreed DEF RefInv
<1>5. CASE flush_next
  <2>1. /\ UNCHANGED <<calls, freed>>
        /\ \/ flush' = indQ /\ indQ' = <<>> /\ UNCHANGED writeQ
           \/ flush' = writeQ /\ writeQ' = <<>> /\ UNCHANGED indQ
           \/ UNCHANGED <<flush, indQ, writeQ>>
    BY <1>5 DEF flush_next, ghostVars
  <2>2. CallbacksKept
    BY <1>1, <2>1, OldHeard, EmptyHeard, HeardEntries
  <2>3. Orderly
    BY <1>1, <2>1, <2>2, OrderlyQuiet, NotInCall, NotEntered, NothingDropped
  <2> QED BY <1>3, <2>3, ImplementsFreed DEF RefInv
<1> QED BY <1>4, <1>5

-----------------------------------------------------------------------------
(* The API the user calls.                                                  *)

LEMMA InCallStays ==
  ASSUME RefInv, ctl'.pc = ctl.pc, ctl'.chan = ctl.chan,
         \A c \in Chan : /\ InstOf(pendReq'[c]) = InstOf(pendReq[c])
                         /\ InstOf(pendInd'[c]) = InstOf(pendInd[c])
  PROVE  \A x \in Inst : InCall(x)' <=> InCall(x)
<1>1. ctl.chan \in Chan
  BY DEF RefInv, TypeOK, FlagType
<1> QED BY <1>1 DEF InCall

\* An operation begins: it goes to the end of a queue, or to the head.
LEMMA RefBegin ==
  ASSUME RefInv, UNCHANGED <<pendReq, pendInd, flush, calls, silenced, freed>>,
         ctl'.pc = ctl.pc, ctl'.chan = ctl.chan,
         \A x \in Inst : Created(x) => Created(x)',
         \A c \in Chan : HeardQ(chanQ'[c]), HeardQ(reqQ'), HeardQ(indQ'), HeardQ(writeQ')
  PROVE  Implements
<1>1. CallbacksKept
  BY OldHeard, HeardEntries
<1>2. \A x \in Inst : InCall(x)' <=> InCall(x)
  BY InCallStays
<1>3. Orderly
  BY <1>1, <1>2, NothingDropped DEF Orderly, Silences, Tells, Begins, Enters
<1>4. SlotsFreed
  BY SlotsKept
<1> QED BY <1>3, <1>4, ImplementsFreed DEF RefInv

LEMMA NewLeg ==
  ASSUME RefInv, NEW id \in Ids, NEW n \in Nat,
         legs' = [legs EXCEPT ![id] = n], legs[id] <= n
  PROVE  \A x \in Inst : Created(x) => Created(x)'
<1>1. legs \in [Ids -> 0 .. MaxLegs]
  BY DEF RefInv, TypeOK, GhostType
<1>2. \A i \in Ids : legs[i] \in Nat /\ legs[i] <= legs'[i] /\ legs'[i] \in Nat
  BY <1>1, BearerAssumption
<1>3. \A x \in Inst : x[1] \in Ids /\ x[2] \in Nat
  BY BearerAssumption DEF Inst
<1> QED BY <1>2, <1>3 DEF Created

LEMMA RefSend ==
  ASSUME RefInv, NEW kind \in ClientKinds, NEW len \in Lens, NEW retry \in BOOLEAN,
         bt_att_send(kind, len, retry)
  PROVE  Implements
<1> DEFINE op == [id |-> nextId, leg |-> 1, kind |-> kind, len |-> len,
                  retry |-> retry, live |-> kind # "CMD"]
<1>1. /\ UNCHANGED <<pendReq, pendInd, flush, calls, silenced, freed, ctl>>
      /\ legs' = [legs EXCEPT ![nextId] = 1] /\ nextId <= MaxId /\ Attached # {}
      /\ \/ chanQ' = [chanQ EXCEPT ![Oldest] = Append(@, op)] /\ UNCHANGED <<reqQ, indQ, writeQ>>
         \/ reqQ' = Append(reqQ, op) /\ UNCHANGED <<chanQ, indQ, writeQ>>
         \/ indQ' = Append(indQ, op) /\ UNCHANGED <<chanQ, reqQ, writeQ>>
         \/ writeQ' = Append(writeQ, op) /\ UNCHANGED <<chanQ, reqQ, indQ>>
  BY DEF bt_att_send, pendVars
<1>2. nextId \in Ids /\ legs[nextId] = 0
  <2>1. nextId \in Ids
    BY <1>1, BearerAssumption DEF RefInv, TypeOK, FlagType, Ids
  <2>2. nextId >= nextId
    BY <2>1 DEF Ids
  <2> QED BY <2>1, <2>2 DEF RefInv, PlaceInv, TidyInv
<1>3. Heard(op)
  <2>1. op.live \/ op.kind = "CMD"
    OBVIOUS
  <2> QED BY <1>2, <2>1 DEF Heard, Created, InstOf
<1> HIDE DEF op
<1>4. /\ chanQ \in [Chan -> Seq(ChanOps)] /\ reqQ \in Seq(ReqOps) /\ indQ \in Seq(IndOps)
      /\ writeQ \in Seq(WriteOps)
  BY DEF RefInv, TypeOK, QueueType
<1>5. /\ \A d \in Chan : HeardQ(Append(chanQ[d], op))
      /\ HeardQ(Append(reqQ, op)) /\ HeardQ(Append(indQ, op)) /\ HeardQ(Append(writeQ, op))
  BY <1>3, <1>4, OldHeard, QueueHeard
<1>6. \A d \in Chan : HeardQ(chanQ'[d])
  BY <1>1, <1>4, <1>5, OldHeard
<1>7. HeardQ(reqQ') /\ HeardQ(indQ') /\ HeardQ(writeQ')
  BY <1>1, <1>5, OldHeard
<1>8. \A x \in Inst : Created(x) => Created(x)'
  <2>1. PICK id \in Ids : id = nextId
    BY <1>2
  <2>2. legs' = [legs EXCEPT ![id] = 1] /\ legs[id] <= 1 /\ 1 \in Nat
    BY <1>1, <1>2, <2>1
  <2> QED BY <2>2, NewLeg
<1> QED BY <1>1, <1>6, <1>7, <1>8, RefBegin

LEMMA RefResend ==
  ASSUME RefInv, NEW len \in Lens, NEW front \in BOOLEAN, bt_att_resend(len, front)
  PROVE  Implements
<1> DEFINE old == pendReq[ctl.chan]
           op == [id |-> old.id, leg |-> legs[old.id] + 1, kind |-> "REQ",
                  len |-> len, retry |-> FALSE, live |-> TRUE]
<1>1. /\ UNCHANGED <<pendReq, pendInd, flush, calls, silenced, freed, chanQ, indQ, writeQ>>
      /\ ctl' = [ctl EXCEPT !.again = TRUE]
      /\ legs' = [legs EXCEPT ![old.id] = @ + 1] /\ old.kind = "REQ"
      /\ reqQ' = <<op>> \o reqQ \/ reqQ' = Append(reqQ, op)
  BY DEF bt_att_resend, pendVars
<1>2. /\ reqQ \in Seq(ReqOps) /\ legs \in [Ids -> 0 .. MaxLegs]
      /\ ctl.chan \in Chan /\ ctl'.pc = ctl.pc /\ ctl'.chan = ctl.chan
  BY <1>1 DEF RefInv, TypeOK, QueueType, GhostType, FlagType
<1>3. old.id \in Ids
  <2>1. old \in Ops({"REQ", "MTU"}) \cup {NoOp}
    BY <1>2, PlaceFacts DEF RefInv
  <2> QED BY <1>1, <2>1 DEF Ops, NoOp
<1> HIDE DEF old
<1>4. legs[old.id] \in Nat /\ legs' = [legs EXCEPT ![old.id] = legs[old.id] + 1]
  BY <1>1, <1>2, <1>3, BearerAssumption
<1>5. Heard(op)
  BY <1>4 DEF Heard, Created, InstOf
<1> HIDE DEF op
<1>6. HeardQ(<<op>> \o reqQ) /\ HeardQ(Append(reqQ, op))
  BY <1>2, <1>5, OldHeard, QueueHeard
<1>7. HeardQ(reqQ') /\ HeardQ(indQ') /\ HeardQ(writeQ') /\ \A d \in Chan : HeardQ(chanQ'[d])
  BY <1>1, <1>6, OldHeard
<1>8. \A x \in Inst : Created(x) => Created(x)'
  <2>1. PICK id \in Ids, n \in Nat : id = old.id /\ n = legs[old.id] + 1
    BY <1>3, <1>4
  <2>2. legs' = [legs EXCEPT ![id] = n] /\ legs[id] <= n
    BY <1>4, <2>1
  <2> QED BY <2>2, NewLeg
<1> QED BY <1>1, <1>2, <1>7, <1>8, RefBegin

\* bt_att_cancel and bt_att_cancel_all: what loses its callback is destroyed or
\* keeps its place, muted.
LEMMA OrderlySilence ==
  ASSUME RefInv, PlaceInv', CallbacksKept, UNCHANGED <<calls, legs>>,
         freed \subseteq freed', silenced \subseteq silenced',
         \A x \in Inst : InCall(x)' <=> InCall(x),
         \A x \in silenced' \ silenced :
            \E o \in Entries : /\ InstOf(o) = x /\ x \in Inst
                               /\ \/ x \in freed'
                                  \/ \E p \in Entries' : InstOf(p) = x /\ ~p.live,
         \A x \in freed' \ freed : x \in silenced'
  PROVE  Orderly
<1>1. ASSUME NEW x \in silenced' \ silenced, NEW o \in Entries', InstOf(o) = x, o.live
      PROVE  FALSE
  <2>1. /\ x \in Inst
        /\ x \in freed' \/ \E p \in Entries' : InstOf(p) = x /\ ~p.live
    OBVIOUS
  <2>2. /\ Alive(x)'
        /\ \A p \in Entries' : InstOf(p) = x => p = o
    BY <1>1, <2>1, PlaceEntriesNext DEF UniqueEntries
  <2>3. x \notin freed'
    BY <2>2 DEF Alive
  <2> QED BY <1>1, <2>1, <2>2, <2>3
<1>2. Silences
  BY <1>1 DEF Silences
<1>3. Tells /\ Begins /\ Enters /\ NoneDropped
  BY DEF Tells, Begins, Enters, NoneDropped
<1> QED BY <1>2, <1>3 DEF Orderly

\* One entry is destroyed, or is muted and keeps its place.
Silenced(o, q) ==
    \/ CancelEffect({o}, {}, TRUE)
    \/ /\ CancelEffect({}, {o}, TRUE)
       /\ \E p \in q : InstOf(p) = InstOf(o) /\ ~p.live

LEMMA RefCancelEffect ==
  ASSUME RefInv, PlaceInv', CallbacksKept, UNCHANGED <<calls, legs>>,
         \A x \in Inst : InCall(x)' <=> InCall(x),
         NEW o \in Entries, Silenced(o, Entries')
  PROVE  Orderly
<1>1. /\ silenced' = silenced \cup Instances({o})
      /\ \/ Free({o})
         \/ Free({}) /\ \E p \in Entries' : InstOf(p) = InstOf(o) /\ ~p.live
  <2>1. {o} \cup {} = {o} /\ {} \cup {o} = {o}
    OBVIOUS
  <2> QED BY <2>1 DEF Silenced, CancelEffect
<1>2. /\ freed \subseteq freed'
      /\ Free({o}) => (InstOf(o) \in Inst => InstOf(o) \in freed')
  BY <1>1, FreedFacts DEF RefInv
<1>3. o \in AnyOps
  BY EntriesType DEF RefInv
<1>4. \A x \in silenced' \ silenced : x = InstOf(o) /\ x \in Inst
  BY <1>1, <1>3, InstanceFacts
<1>5. \A x \in freed' \ freed : x \in silenced'
  BY <1>1 DEF Free, Instances
<1> QED BY <1>1, <1>2, <1>4, <1>5, OrderlySilence

LEMMA RefCancelPending ==
  ASSUME RefInv, PlaceInv', NEW c \in Chan, NEW id \in Ids, cancel_pending(c, id),
         UNCHANGED <<ctl, flush, legs, calls>>
  PROVE  Implements
<1>1. /\ pendReq \in [Chan -> Ops({"REQ", "MTU"}) \cup {NoOp}]
      /\ pendInd \in [Chan -> Ops({"IND"}) \cup {NoOp}]
  BY DEF RefInv, TypeOK, PendType
<1>2. PICK op \in {pendReq[c], pendInd[c]} :
         /\ CancelEffect({}, {op}, TRUE)
         /\ \/ op = pendReq[c] /\ pendReq' = [pendReq EXCEPT ![c].live = FALSE]
               /\ pendInd' = pendInd
            \/ op = pendInd[c] /\ pendInd' = [pendInd EXCEPT ![c].live = FALSE]
               /\ pendReq' = pendReq
  BY DEF cancel_pending
<1>3. UNCHANGED <<chanQ, reqQ, indQ, writeQ>>
  BY DEF cancel_pending, queueVars
<1>4. /\ op \in Entries /\ op \in AnyOps
      /\ pendReq[c] \in AnyOps /\ pendInd[c] \in AnyOps
  BY OldEntries, PlaceFacts DEF RefInv
<1>5. /\ [op EXCEPT !.live = FALSE].live = FALSE
      /\ InstOf([op EXCEPT !.live = FALSE]) = InstOf(op)
  BY <1>4, MutedFacts
<1>6. Heard([op EXCEPT !.live = FALSE])
  <2>1. InstOf(op) \in Inst => InstOf(op) \in silenced'
    <3>1. InstOf(op) \in Inst => op.id # 0
      BY <1>4, InstanceFacts
    <3> QED BY <1>2, <3>1 DEF CancelEffect, Instances
  <2> QED BY <1>5, <2>1 DEF Heard
<1>7. /\ \A d \in Chan : \/ pendReq'[d] = pendReq[d]
                         \/ d = c /\ pendReq[d] = op /\ pendReq'[d] = [op EXCEPT !.live = FALSE]
      /\ \A d \in Chan : \/ pendInd'[d] = pendInd[d]
                         \/ d = c /\ pendInd[d] = op /\ pendInd'[d] = [op EXCEPT !.live = FALSE]
      /\ [op EXCEPT !.live = FALSE] \in {pendReq'[c], pendInd'[c]}
  BY <1>1, <1>2
<1>8. \A d \in Chan : Heard(pendReq'[d]) /\ Heard(pendInd'[d])
  BY <1>6, <1>7, OldHeard
<1>9. CallbacksKept
  BY <1>3, <1>8, OldHeard, HeardEntries
<1>10. \A d \in Chan : /\ InstOf(pendReq'[d]) = InstOf(pendReq[d])
                       /\ InstOf(pendInd'[d]) = InstOf(pendInd[d])
  BY <1>5, <1>7
<1>11. \A x \in Inst : InCall(x)' <=> InCall(x)
  BY <1>10, InCallStays
<1>12. [op EXCEPT !.live = FALSE] \in Entries'
  BY <1>7, NewEntries
<1>13. Silenced(op, Entries')
  BY <1>2, <1>5, <1>12 DEF Silenced
<1>14. Orderly
  BY <1>4, <1>9, <1>11, <1>13, RefCancelEffect
<1>15. SlotsFreed
  BY <1>10, SlotsKept
<1> QED BY <1>14, <1>15, ImplementsFreed DEF RefInv

LEMMA RefCancelChanQueue ==
  ASSUME RefInv, PlaceInv', NEW c \in Chan, NEW id \in Ids, cancel_chan_queue(c, id),
         UNCHANGED <<ctl, flush, legs, calls>>
  PROVE  Implements
<1>1. PICK i \in DOMAIN chanQ[c] : /\ CancelEffect({chanQ[c][i]}, {}, TRUE)
                                   /\ chanQ' = [chanQ EXCEPT ![c] = DropAt(@, i)]
  BY DEF cancel_chan_queue, At
<1>2. UNCHANGED <<reqQ, indQ, writeQ, pendReq, pendInd>>
  BY DEF cancel_chan_queue, pendVars
<1>3. chanQ \in [Chan -> Seq(ChanOps)]
  BY DEF RefInv, TypeOK, QueueType
<1>4. HeardQ(DropAt(chanQ[c], i))
  BY <1>3, OldHeard, QueueHeard
<1>5. \A d \in Chan : HeardQ(chanQ'[d])
  BY <1>1, <1>3, <1>4, OldHeard
<1>6. CallbacksKept
  BY <1>2, <1>5, OldHeard, HeardEntries
<1>7. chanQ[c][i] \in Entries
  BY OldEntries DEF InSeq
<1>8. \A x \in Inst : InCall(x)' <=> InCall(x)
  BY <1>2, InCallStays
<1>9. PICK o \in Entries : Silenced(o, Entries')
  BY <1>1, <1>7 DEF Silenced
<1>10. Orderly
  BY <1>6, <1>8, <1>9, RefCancelEffect
<1>11. SlotsFreed
  BY <1>2, SlotsKept
<1> QED BY <1>10, <1>11, ImplementsFreed DEF RefInv

\* One of the shared queues loses an entry, or mutes it while disconnect_cb cleans up.
LEMMA SharedTaken ==
  ASSUME RefInv, NEW S \in SUBSET AnyOps, NEW STATE q, q \in Seq(S), NEW ACTION r, HeardQ(q),
         NEW i \in DOMAIN q, InSeq(q) \subseteq Entries,
         IF Flushing THEN CancelEffect({}, {q[i]}, TRUE) ELSE CancelEffect({q[i]}, {}, TRUE),
         r = IF Flushing THEN MuteAt(q, i) ELSE DropAt(q, i)
  PROVE  HeardQ(r) /\ \E o \in Entries : Silenced(o, InSeq(r))
<1>1. q[i] \in Entries /\ q[i] \in AnyOps
  BY DEF InSeq
<1>2. InstOf(q[i]) \in Inst => InstOf(q[i]) \in silenced'
  <2>1. InstOf(q[i]) \in Inst => q[i].id # 0
    BY <1>1, InstanceFacts
  <2>2. q[i] \in {q[i]} \cup {} /\ q[i] \in {} \cup {q[i]}
    OBVIOUS
  <2> QED BY <2>1, <2>2 DEF CancelEffect, Instances
<1>3. HeardQ(r)
  BY <1>2, QueueHeard
<1>4. CASE Flushing
  <2>1. i \in DOMAIN r /\ r[i] = [q[i] EXCEPT !.live = FALSE]
    BY <1>4 DEF MuteAt
  <2>2. r[i] \in InSeq(r) /\ InstOf(r[i]) = InstOf(q[i]) /\ ~r[i].live
    BY <1>1, <2>1, MutedFacts DEF InSeq
  <2> QED BY <1>3, <1>1, <1>4, <2>2 DEF Silenced
<1>5. CASE ~Flushing
  BY <1>3, <1>1, <1>5 DEF Silenced
<1> QED BY <1>4, <1>5

LEMMA RefCancelShared ==
  ASSUME RefInv, PlaceInv', NEW id \in Ids, cancel_shared(id),
         UNCHANGED <<ctl, flush, legs, calls>>
  PROVE  Implements
<1>1. UNCHANGED <<chanQ, pendReq, pendInd>>
  BY DEF cancel_shared, pendVars
<1>2. /\ reqQ \in Seq(ReqOps) /\ indQ \in Seq(IndOps) /\ writeQ \in Seq(WriteOps)
      /\ ReqOps \in SUBSET AnyOps /\ IndOps \in SUBSET AnyOps /\ WriteOps \in SUBSET AnyOps
  BY OpSets DEF RefInv, TypeOK, QueueType
<1>3. SlotsFreed
  BY <1>1, SlotsKept
<1>4. \A x \in Inst : InCall(x)' <=> InCall(x)
  BY <1>1, InCallStays
<1>5. ASSUME HeardQ(reqQ'), HeardQ(indQ'), HeardQ(writeQ'),
             \E o \in Entries : Silenced(o, Entries')
      PROVE  Implements
  <2>1. CallbacksKept
    BY <1>1, <1>5, OldHeard, HeardEntries
  <2>2. Orderly
    BY <1>4, <1>5, <2>1, RefCancelEffect
  <2> QED BY <1>3, <2>2, ImplementsFreed DEF RefInv
<1>6. ASSUME NEW i \in DOMAIN reqQ, UNCHANGED <<indQ, writeQ>>,
             IF Flushing THEN CancelEffect({}, {reqQ[i]}, TRUE) ELSE CancelEffect({reqQ[i]}, {}, TRUE),
             reqQ' = IF Flushing THEN MuteAt(reqQ, i) ELSE DropAt(reqQ, i)
      PROVE  Implements
  <2>1. HeardQ(reqQ') /\ \E o \in Entries : Silenced(o, InSeq(reqQ'))
    BY <1>2, <1>6, SharedTaken, OldHeard, OldEntries
  <2>2. \A o : Silenced(o, InSeq(reqQ')) => Silenced(o, Entries')
    <3>1. InSeq(reqQ') \subseteq Entries'
      BY NewEntries
    <3> QED BY <3>1 DEF Silenced
  <2>3. HeardQ(indQ') /\ HeardQ(writeQ')
    BY <1>6, OldHeard
  <2> QED BY <1>5, <2>1, <2>2, <2>3
<1>7. ASSUME NEW i \in DOMAIN indQ, UNCHANGED <<reqQ, writeQ>>,
             IF Flushing THEN CancelEffect({}, {indQ[i]}, TRUE) ELSE CancelEffect({indQ[i]}, {}, TRUE),
             indQ' = IF Flushing THEN MuteAt(indQ, i) ELSE DropAt(indQ, i)
      PROVE  Implements
  <2>1. HeardQ(indQ') /\ \E o \in Entries : Silenced(o, InSeq(indQ'))
    BY <1>2, <1>7, SharedTaken, OldHeard, OldEntries
  <2>2. \A o : Silenced(o, InSeq(indQ')) => Silenced(o, Entries')
    <3>1. InSeq(indQ') \subseteq Entries'
      BY NewEntries
    <3> QED BY <3>1 DEF Silenced
  <2>3. HeardQ(reqQ') /\ HeardQ(writeQ')
    BY <1>7, OldHeard
  <2> QED BY <1>5, <2>1, <2>2, <2>3
<1>8. ASSUME NEW i \in DOMAIN writeQ, UNCHANGED <<reqQ, indQ>>,
             IF Flushing THEN CancelEffect({}, {writeQ[i]}, TRUE) ELSE CancelEffect({writeQ[i]}, {}, TRUE),
             writeQ' = IF Flushing THEN MuteAt(writeQ, i) ELSE DropAt(writeQ, i)
      PROVE  Implements
  <2>1. HeardQ(writeQ') /\ \E o \in Entries : Silenced(o, InSeq(writeQ'))
    BY <1>2, <1>8, SharedTaken, OldHeard, OldEntries
  <2>2. \A o : Silenced(o, InSeq(writeQ')) => Silenced(o, Entries')
    <3>1. InSeq(writeQ') \subseteq Entries'
      BY NewEntries
    <3> QED BY <3>1 DEF Silenced
  <2>3. HeardQ(reqQ') /\ HeardQ(indQ')
    BY <1>8, OldHeard
  <2> QED BY <1>5, <2>1, <2>2, <2>3
<1>9. \/ \E i \in DOMAIN reqQ :
           /\ IF Flushing THEN CancelEffect({}, {reqQ[i]}, TRUE) ELSE CancelEffect({reqQ[i]}, {}, TRUE)
           /\ reqQ' = IF Flushing THEN MuteAt(reqQ, i) ELSE DropAt(reqQ, i)
           /\ UNCHANGED <<indQ, writeQ>>
      \/ \E i \in DOMAIN indQ :
           /\ IF Flushing THEN CancelEffect({}, {indQ[i]}, TRUE) ELSE CancelEffect({indQ[i]}, {}, TRUE)
           /\ indQ' = IF Flushing THEN MuteAt(indQ, i) ELSE DropAt(indQ, i)
           /\ UNCHANGED <<reqQ, writeQ>>
      \/ \E i \in DOMAIN writeQ :
           /\ IF Flushing THEN CancelEffect({}, {writeQ[i]}, TRUE) ELSE CancelEffect({writeQ[i]}, {}, TRUE)
           /\ writeQ' = IF Flushing THEN MuteAt(writeQ, i) ELSE DropAt(writeQ, i)
           /\ UNCHANGED <<reqQ, indQ>>
  BY DEF cancel_shared, At
<1> QED BY <1>6, <1>7, <1>8, <1>9

LEMMA RefCancel ==
  ASSUME RefInv, PlaceInv', NEW id \in Ids, bt_att_cancel(id)
  PROVE  Implements
<1>1. UNCHANGED <<ctl, flush, legs, calls>>
  BY DEF bt_att_cancel
<1>2. CASE cancel_missing(id)
  <2>1. freed' = freed /\ silenced' = silenced
    BY <1>2, NothingFreed DEF cancel_missing, CancelEffect, Free
  <2>2. UNCHANGED <<chanQ, reqQ, indQ, writeQ, pendReq, pendInd>>
    BY <1>2 DEF cancel_missing, queueVars, pendVars
  <2> QED BY <1>1, <2>1, <2>2, OldHeard, RefStill DEF RefInv
<1>3. ASSUME NEW c \in Attached, cancel_pending(c, id) \/ cancel_chan_queue(c, id)
      PROVE  Implements
  <2>1. c \in Chan
    BY DEF Attached
  <2> QED BY <1>1, <1>3, <2>1, RefCancelPending, RefCancelChanQueue
<1> QED BY <1>1, <1>2, <1>3, RefCancelShared DEF bt_att_cancel

LEMMA RefCancelAll ==
  ASSUME RefInv, PlaceInv', bt_att_cancel_all
  PROVE  Implements
<1> DEFINE pend == {pendReq[c] : c \in Attached} \cup {pendInd[c] : c \in Attached}
<1>1. /\ UNCHANGED <<chanQ, ctl, flush, legs, calls>> /\ Free(SharedOps)
      /\ reqQ' = <<>> /\ indQ' = <<>> /\ writeQ' = <<>>
      /\ \A c \in Chan : pendReq'[c] = IF c \in Attached /\ pendReq[c] # NoOp
                                       THEN [pendReq[c] EXCEPT !.live = FALSE] ELSE pendReq[c]
      /\ \A c \in Chan : pendInd'[c] = IF c \in Attached /\ pendInd[c] # NoOp
                                       THEN [pendInd[c] EXCEPT !.live = FALSE] ELSE pendInd[c]
  BY DEF bt_att_cancel_all
<1>2. silenced' = silenced \cup Instances(SharedOps \cup pend)
  <2>1. SharedOps \cup {pendReq[c] : c \in Attached} \cup {pendInd[c] : c \in Attached}
          = SharedOps \cup pend
    OBVIOUS
  <2> QED BY <2>1 DEF bt_att_cancel_all
<1> HIDE DEF pend
<1>3. \A c \in Chan : /\ pendReq[c] \in Entries /\ pendReq[c] \in AnyOps
                      /\ pendInd[c] \in Entries /\ pendInd[c] \in AnyOps
  BY OldEntries, PlaceFacts DEF RefInv
<1>4. \A o \in AnyOps : /\ [o EXCEPT !.live = FALSE].live = FALSE
                        /\ InstOf([o EXCEPT !.live = FALSE]) = InstOf(o)
  BY MutedFacts
<1>5. \A o \in SharedOps \cup pend : o \in AnyOps =>
          (InstOf(o) \in Inst => InstOf(o) \in silenced')
  BY <1>2, InstanceFacts DEF Instances
<1>6. \A c \in Attached : pendReq[c] \in pend /\ pendInd[c] \in pend
  BY DEF pend
<1>7. \A c \in Chan : Heard(pendReq'[c]) /\ Heard(pendInd'[c])
  <2>1. \A o \in pend : o \in AnyOps => Heard([o EXCEPT !.live = FALSE])
    BY <1>4, <1>5 DEF Heard
  <2> QED BY <1>1, <1>3, <1>6, <2>1, OldHeard
<1>8. CallbacksKept
  BY <1>1, <1>7, OldHeard, EmptyHeard, HeardEntries
<1>9. \A c \in Chan : /\ InstOf(pendReq'[c]) = InstOf(pendReq[c])
                      /\ InstOf(pendInd'[c]) = InstOf(pendInd[c])
  BY <1>1, <1>3, <1>4
<1>10. \A x \in Inst : InCall(x)' <=> InCall(x)
  BY <1>1, <1>9, InCallStays
<1>11. freed \subseteq freed' /\ \A o \in SharedOps : InstOf(o) \in Inst => InstOf(o) \in freed'
  <2>1. SharedOps \subseteq Entries
    BY DEF Entries
  <2> QED BY <1>1, <2>1, FreedFacts DEF RefInv
<1>12. \A o \in pend : \E p \in Entries' : InstOf(p) = InstOf(o) /\ (~p.live \/ o.id = 0)
  <2>1. NoOp.id = 0
    BY DEF NoOp
  <2>2. ASSUME NEW c \in Attached
        PROVE  /\ c \in Chan
               /\ InstOf(pendReq'[c]) = InstOf(pendReq[c])
               /\ ~pendReq'[c].live \/ pendReq[c].id = 0
               /\ InstOf(pendInd'[c]) = InstOf(pendInd[c])
               /\ ~pendInd'[c].live \/ pendInd[c].id = 0
    <3>1. c \in Chan
      BY DEF Attached
    <3> QED BY <1>1, <1>3, <1>4, <1>9, <2>1, <3>1
  <2>3. \A c \in Chan : pendReq'[c] \in Entries' /\ pendInd'[c] \in Entries'
    BY NewEntries
  <2> QED BY <2>2, <2>3 DEF pend
<1>13. ASSUME NEW x \in silenced' \ silenced
       PROVE  \E o \in Entries : /\ InstOf(o) = x /\ x \in Inst
                                 /\ \/ x \in freed'
                                    \/ \E p \in Entries' : InstOf(p) = x /\ ~p.live
  <2>1. PICK o \in SharedOps \cup pend : InstOf(o) = x /\ o.id # 0
    BY <1>2 DEF Instances
  <2>2. o \in Entries
    BY <1>3 DEF Entries, pend, Attached
  <2>3. x \in Inst
    BY <2>1, <2>2, EntriesType, InstanceFacts DEF RefInv
  <2> QED BY <1>11, <1>12, <2>1, <2>2, <2>3
<1>14. \A x \in freed' \ freed : x \in silenced'
  BY <1>1, <1>2 DEF Free, Instances
<1>15. Orderly
  BY <1>1, <1>2, <1>8, <1>10, <1>11, <1>13, <1>14, OrderlySilence
<1>16. SlotsFreed
  BY <1>9, SlotsKept
<1> QED BY <1>15, <1>16, ImplementsFreed DEF RefInv

LEMMA RefUser ==
  ASSUME RefInv, PlaceInv',
         \/ \E m \in Lens : bt_att_set_mtu(m)
         \/ \E c \in Chan, m \in Lens : bt_att_attach_chan(c, m)
         \/ bt_att_unref
  PROVE  Implements
<1>1. CASE UNCHANGED <<queueVars, pendVars, ctl, flush, ghostVars>>
  BY <1>1, RefShut
<1>2. CASE ctl = Main /\ bt_att_free /\ UNCHANGED <<ctl, flush>> /\ ~ref'
  <2>1. flush = <<>>
    BY <1>2 DEF RefInv, PlaceInv, TidyInv, Flushing, Main
  <2> QED BY <1>2, <2>1, RefBearerFree
<1> QED BY <1>1, <1>2 DEF bt_att_set_mtu, bt_att_attach_chan, bt_att_unref

-----------------------------------------------------------------------------
(* The refinement.                                                          *)

LEMMA InitCall == Init => CallInv
<1> SUFFICES ASSUME Init
             PROVE  CallInv
  OBVIOUS
<1>1. silenced = {} /\ \A x \in Inst : calls[x] = 0
  BY DEF Init
<1>2. \A o \in Entries : o = NoOp
  BY EntriesAre, EmptyHeard DEF Init
<1>3. InstOf(NoOp) \notin Inst
  BY BearerAssumption DEF InstOf, NoOp, Inst, Ids
<1>4. \A x \in Inst : ~InCall(x)
  <2>1. ctl.pc = "main"
    BY DEF Init, Main
  <2> QED BY <2>1, NotInCall
<1>5. \A o \in Entries : ~o.live /\ InstOf(o) \notin Inst
  <2>1. ~NoOp.live
    BY DEF NoOp
  <2> QED BY <1>2, <1>3, <2>1
<1> QED BY <1>1, <1>4, <1>5 DEF CallInv

LEMMA NextImplements ==
  RefInv /\ PlaceInv' /\ [Next]_vars => Implements
<1> SUFFICES ASSUME RefInv, PlaceInv', [Next]_vars
             PROVE  Implements
  OBVIOUS
<1>1. TypeOK
  BY DEF RefInv
<1>2. ASSUME NEW c \in Chan, MainLoop(c) \/ Peer(c)
      PROVE  Implements
  BY <1>1, <1>2, RefWrite, RefIdle, RefWriteFails, RefRead, RefReadOther, RefTimeout DEF MainLoop
<1>3. CASE Continue
  BY <1>3, RefEndCallback, RefDetach, RefFlush DEF Continue
<1>4. CASE User
  BY <1>1, <1>4, RefSend, RefResend, RefReadOther, RefCancel, RefCancelAll, RefUser DEF User
<1>5. CASE UNCHANGED vars
  BY <1>5, RefShut DEF vars
<1> QED BY <1>2, <1>3, <1>4, <1>5 DEF Next

LEMMA InitMaps == Init => Transaction!Init
<1> SUFFICES ASSUME Init
             PROVE  Transaction!Init
  OBVIOUS
<1>1. ASSUME NEW x \in Inst
      PROVE  StageOf(x) = "none"
  <2>1. ~Created(x)
    BY BearerAssumption DEF Init, Created, Inst
  <2> QED BY <2>1 DEF Init, StageOf
<1>2. \A s \in Slots : InSlot(s) = InstOf(NoOp)
  BY SlotFacts DEF Init
<1>3. Stranded = {}
  BY DEF Init, Stranded, Main
<1> QED BY <1>1, <1>2, <1>3 DEF Init, Transaction!Init

\* Nobody takes a reference back.
LEMMA HeldOnce == [Next]_vars => (ref' => ref)
<1> SUFFICES ASSUME [Next]_vars
             PROVE  ref' => ref
  OBVIOUS
<1>1. ASSUME NEW c \in Chan, MainLoop(c) \/ Peer(c)
      PROVE  ref' = ref
  BY <1>1 DEF MainLoop, Peer, can_write_data, can_write_data_idle, can_write_data_fails,
     watch_callback_error, read_rsp, handle_rsp, handle_error_rsp, read_conf, handle_conf,
     read_stray, read_req, read_unasked, timeout_cb, disconnect_cb, hang_up, peer_answers,
     peer_sends, peer_strays, chanVars
<1>2. CASE Continue
  BY <1>2 DEF Continue, end_callback, detach_chan, disc_att_send_op, flush_next, chanVars
<1>3. CASE User
  BY <1>3 DEF User, bt_att_send, bt_att_resend, bt_att_chan_send, bt_att_cancel,
     bt_att_cancel_all, bt_att_set_mtu, bt_att_attach_chan, bt_att_unref, chanVars
<1>4. CASE UNCHANGED vars
  BY <1>4 DEF vars, chanVars
<1> QED BY <1>1, <1>2, <1>3, <1>4 DEF Next

LEMMA StepMaps ==
  RefInv /\ RefInv' /\ Implements /\ (ref' => ref) => Transaction!Next
<1> SUFFICES ASSUME RefInv, RefInv', Implements, ref' => ref
             PROVE  Transaction!Next
  OBVIOUS
<1>1. \A x \in Inst : OpStep(x)
  BY OpFrame DEF RefInv, Implements
<1>2. \A s \in Slots : SlotStep(s)
  BY DEF Implements
<1>3. \A s \in Slots : /\ [t \in Slots |-> InSlot(t)][s] = InSlot(s)
                       /\ [t \in Slots |-> InSlot(t)]'[s] = InSlot(s)'
  OBVIOUS
<1>4. silenced \subseteq silenced'
  BY DEF Implements, Orderly, Silences
<1> QED BY <1>1, <1>2, <1>3, <1>4 DEF OpStep, SlotStep, Transaction!Next

LEMMA NextCall ==
  RefInv /\ TypeOK' /\ PlaceInv' /\ Implements => CallInv'
  BY CallFrame DEF RefInv, Implements

\* The bearer is an implementation of AttTransaction as far as safety goes: where
\* the user exchanges MTU alone, each of its steps moves every operation and every
\* slot as the promise allows or leaves them as they are.
THEOREM SafeHolds == ASSUME MtuAlone PROVE Spec => Safely
<1>1. Init => TypeOK /\ WakeInv /\ PlaceInv /\ CallInv
  BY InitType, InitWake, InitPlace, InitCall
<1>2. /\ TypeOK /\ [Next]_vars => TypeOK'
      /\ TypeOK /\ WakeInv /\ [Next]_vars => WakeInv'
      /\ TypeOK /\ WakeInv /\ PlaceInv /\ [Next]_vars => PlaceInv'
  BY NextType, NextWake, NextPlace
<1>3. TypeOK /\ WakeInv /\ PlaceInv /\ CallInv /\ [Next]_vars => CallInv'
  BY <1>2, NextImplements, NextCall DEF RefInv
<1>4. /\ TypeOK /\ PlaceInv /\ CallInv /\ TypeOK' /\ PlaceInv' /\ CallInv' /\ [Next]_vars
      => [Transaction!Next]_(Transaction!vars)
  BY NextImplements, HeldOnce, StepMaps DEF RefInv
<1> QED BY <1>1, <1>2, <1>3, <1>4, InitMaps, PTL DEF Spec, Safely, Transaction!Safe

=============================================================================
