---------------------------- MODULE MeshRplProofs ----------------------------
(***************************************************************************)
(* Proofs about the replay protection list of MeshRpl.tla, for any number  *)
(* of sources, entries, sequence numbers, IV Indices and restarts: types,  *)
(* what the list covers, and that no message is taken twice.               *)
(***************************************************************************)
EXTENDS MeshRpl, TLAPS, WellFoundedInduction

-----------------------------------------------------------------------------
(* What is read back from the disk.                                         *)

LEMMA HasMax ==
  ASSUME NEW N \in Nat, NEW K \in SUBSET (0 .. N), K # {}
  PROVE  \E k \in K : \A n \in K : n <= k
<1> DEFINE T == {N - k : k \in K}
<1>1. T \subseteq Nat /\ T # {}
  <2>1. \A k \in K : N - k \in Nat
    OBVIOUS
  <2> QED
    BY <2>1
<1>2. PICK x \in T : \A y \in T : ~ (<<y, x>> \in OpToRel(<, Nat))
  BY <1>1, NatLessThanWellFounded, WFMin
<1>3. \A y \in T : x <= y
  <2> HIDE DEF T
  <2> SUFFICES ASSUME NEW y \in T, y < x PROVE FALSE
    BY <1>1, x \in Nat
  <2>1. <<y, x>> \in Nat \X Nat /\ <<y, x>>[1] = y /\ <<y, x>>[2] = x
    BY <1>1
  <2>2. <<y, x>> \in OpToRel(<, Nat)
    BY <2>1, Zenon DEF OpToRel
  <2> QED
    BY <1>2, <2>2
<1>4. PICK k \in K : x = N - k
  OBVIOUS
<1>5. \A n \in K : N - k <= N - n
  BY <1>3, <1>4
<1> QED
  BY <1>5

Files == [Index -> [Src -> Content]]

\* Of a source rpl_get_list takes the number under the highest index at which
\* there is one.
LEMMA LoadedFacts ==
  ASSUME MeshRplAssumption, NEW f \in Files, NEW s \in Src
  PROVE  \/ Readable(f, s) = {} /\ Loaded(f)[s] = NoEntry
         \/ \E k \in Readable(f, s) :
              /\ \A n \in Readable(f, s) : n <= k
              /\ Loaded(f)[s] = [iv |-> k, seq |-> f[k][s]]
<1>1. CASE Readable(f, s) = {}
  BY <1>1 DEF Loaded
<1>2. CASE Readable(f, s) # {}
  <2> DEFINE top == CHOOSE k \in Readable(f, s) : \A n \in Readable(f, s) : n <= k
  <2>1. \E k \in Readable(f, s) : \A n \in Readable(f, s) : n <= k
    BY <1>2, HasMax DEF Readable, Index, MeshRplAssumption
  <2>2. top \in Readable(f, s) /\ \A n \in Readable(f, s) : n <= top
    BY <2>1
  <2>3. Loaded(f)[s] = [iv |-> top, seq |-> f[top][s]]
    BY <1>2 DEF Loaded
  <2> QED
    BY <2>2, <2>3
<1> QED
  BY <1>1, <1>2

LEMMA LoadedType ==
  ASSUME MeshRplAssumption, NEW f \in Files
  PROVE  Loaded(f) \in [Src -> Entry \cup {NoEntry}]
<1>1. ASSUME NEW s \in Src PROVE Loaded(f)[s] \in Entry \cup {NoEntry}
  <2>1. \A k \in Readable(f, s) : k \in Index /\ f[k][s] \in Number
    BY DEF Readable
  <2>2. \A k \in Readable(f, s) : [iv |-> k, seq |-> f[k][s]] \in Entry
    BY <2>1 DEF Entry
  <2> QED
    BY <2>2, LoadedFacts
<1>2. DOMAIN Loaded(f) = Src /\ Loaded(f) = [s \in Src |-> Loaded(f)[s]]
  BY DEF Loaded
<1> QED
  BY <1>1, <1>2

\* What the files f know of message m, without the choice of a highest index.
DiskCovers(f, m) ==
  \E k \in Index : /\ f[k][m.src] \in Number
                   /\ k > m.iv \/ (k = m.iv /\ f[k][m.src] >= m.seq)

LEMMA LoadedCovers ==
  ASSUME MeshRplAssumption, NEW f \in Files, NEW m \in Message
  PROVE  Covers(Loaded(f)[m.src], m) <=> DiskCovers(f, m)
<1> USE DEF MeshRplAssumption, Index, Number, Message
<1>1. CASE Readable(f, m.src) = {} /\ Loaded(f)[m.src] = NoEntry
  BY <1>1 DEF Readable, Covers, NoEntry, DiskCovers
<1>2. ASSUME NEW k \in Readable(f, m.src),
             \A n \in Readable(f, m.src) : n <= k,
             Loaded(f)[m.src] = [iv |-> k, seq |-> f[k][m.src]]
      PROVE  Covers(Loaded(f)[m.src], m) <=> DiskCovers(f, m)
  <2>1. k \in Index /\ f[k][m.src] \in Number
    BY DEF Readable
  <2>2. Covers(Loaded(f)[m.src], m) => DiskCovers(f, m)
    BY <1>2, <2>1 DEF Covers, DiskCovers
  <2>3. ASSUME DiskCovers(f, m) PROVE Covers(Loaded(f)[m.src], m)
    <3>1. PICK n \in Index : /\ f[n][m.src] \in Number
                             /\ n > m.iv \/ (n = m.iv /\ f[n][m.src] >= m.seq)
      BY <2>3 DEF DiskCovers
    <3>2. n <= k
      BY <3>1, <1>2 DEF Readable
    <3> QED
      BY <3>1, <3>2, <2>1, <1>2 DEF Covers
  <2> QED
    BY <2>2, <2>3
<1> QED
  BY <1>1, <1>2, LoadedFacts

-----------------------------------------------------------------------------
(* The invariant.                                                           *)

FilesBelow == \A k \in Index, s \in Src : file[k][s] \in Number => k <= iv

\* What the list in memory knows.  A torn source counts until the restart.
Memory(m) == m.iv >= iv - 1 => Covers(cache[m.src], m)

RplInv ==
    /\ TypeOK
    /\ FilesBelow
    /\ \A m \in handled : m.iv >= iv - 1 /\ m.src \notin torn => DiskCovers(file, m)
    /\ \A m \in handled : m.src \notin torn \/ crashes = 0 => Memory(m)
    /\ NoReplay

LEMMA InitInv == MeshRplAssumption /\ Init => RplInv
<1> SUFFICES ASSUME MeshRplAssumption, Init PROVE RplInv
  OBVIOUS
<1>1. 0 \in Index /\ NoFile \in Content /\ NoFile \notin Number /\ 0 \in 0 .. MaxCrash
  BY DEF MeshRplAssumption, Index, Content, NoFile, Number
<1>2. TypeOK
  BY <1>1 DEF Init, TypeOK
<1> QED
  BY <1>1, <1>2 DEF Init, RplInv, FilesBelow, NoReplay

\* The invariant is what it should be.
LEMMA InvCovers == MeshRplAssumption /\ RplInv => ListCovers
<1> SUFFICES ASSUME MeshRplAssumption, RplInv, NEW m \in handled,
                    m.iv >= iv - 1, m.src \notin torn
             PROVE  Covers(cache[m.src], m) /\ Covers(Loaded(file)[m.src], m)
  BY DEF ListCovers
<1>1. m \in Message /\ file \in Files
  BY DEF RplInv, TypeOK, Files
<1>2. Covers(Loaded(file)[m.src], m)
  BY <1>1, LoadedCovers DEF RplInv
<1> QED
  BY <1>2 DEF RplInv, Memory
-----------------------------------------------------------------------------
(* A message is taken.                                                      *)

\* An entry for n covers what the list covered before n passed the check.
LEMMA TakenCovers ==
  ASSUME MeshRplAssumption, TypeOK, NEW n \in Message, Decodes(n), Passes(n),
         NEW m \in Message, m.iv >= iv - 1, Covers(cache[m.src], m)
  PROVE  /\ m.src = n.src => Covers([iv |-> n.iv, seq |-> n.seq], m)
         /\ m.src # n.src => Checked(n)[m.src] = cache[m.src]
<1> USE DEF MeshRplAssumption, Index, Number, Message, Entry, NoEntry, TypeOK
<1>1. cache[m.src] # NoEntry /\ m.src \in Listed /\ cache[m.src] \in Entry
  BY DEF Covers, Listed
<1>2. m.src \notin Outdated(n.iv)
  BY <1>1 DEF Outdated, Covers, Decodes
<1>3. Checked(n)[m.src] = cache[m.src]
  BY <1>2 DEF Checked
<1>4. m.src = n.src => Higher(n, cache[n.src])
  BY <1>1 DEF Passes
<1>5. m.src = n.src => Covers([iv |-> n.iv, seq |-> n.seq], m)
  BY <1>1, <1>4 DEF Higher, Covers
<1> QED
  BY <1>3, <1>5

LEMMA CheckedType ==
  ASSUME TypeOK, NEW n \in Message
  PROVE  Checked(n) \in [Src -> Entry \cup {NoEntry}]
  BY DEF TypeOK, Checked

\* A message that passes was not taken before, its source being intact.
LEMMA PassesOnce ==
  ASSUME MeshRplAssumption, RplInv, NEW n \in Message, Decodes(n), Passes(n),
         n \in handled
  PROVE  n.src \in torn /\ crashes > 0
<1> USE DEF MeshRplAssumption, Index, Number, Message, Entry, NoEntry
<1>0. TypeOK
  BY DEF RplInv
<1>1. ~ Covers(cache[n.src], n)
  <2> SUFFICES ASSUME Covers(cache[n.src], n) PROVE FALSE
    OBVIOUS
  <2>1. n.src \in Listed /\ cache[n.src] \in Entry
    BY <1>0 DEF Covers, Listed, TypeOK
  <2>2. Higher(n, cache[n.src])
    BY <2>1 DEF Passes
  <2> QED
    BY <2>1, <2>2 DEF Higher, Covers
<1>2. n.iv >= iv - 1
  BY <1>0 DEF Decodes, TypeOK
<1>3. n.src \in torn /\ crashes # 0
  BY <1>1, <1>2 DEF RplInv, Memory
<1> QED
  BY <1>0, <1>3 DEF TypeOK

LEMMA PutFacts ==
  ASSUME MeshRplAssumption, TypeOK, NEW n \in Message, Decodes(n),
         NEW f \in {Put(n), PutBoth(n), PutEmpty(n)}
  PROVE  /\ f \in Files
         /\ \A k \in Index, s \in Src : s # n.src => f[k][s] = file[k][s]
         /\ f # PutEmpty(n) => f[n.iv][n.src] = n.seq
         /\ FilesBelow => \A k \in Index, s \in Src : f[k][s] \in Number => k <= iv
<1> USE DEF MeshRplAssumption, Index, Number, Message, Content, NoFile, Empty, TypeOK,
            Decodes, FilesBelow, Files
<1>1. CASE f = Put(n)
  BY <1>1 DEF Put
<1>2. CASE f = PutBoth(n)
  BY <1>2 DEF PutBoth
<1>3. CASE f = PutEmpty(n)
  BY <1>3 DEF PutEmpty
<1> QED
  BY <1>1, <1>2, <1>3

\* Written for n, the files know all that they knew and n, in memory or torn
\* sources apart.
LEMMA PutCovers ==
  ASSUME MeshRplAssumption, TypeOK, NEW n \in Message, Decodes(n), Passes(n),
         NEW f \in {Put(n), PutBoth(n)}
  PROVE  /\ DiskCovers(f, n)
         /\ \A m \in Message :
              /\ DiskCovers(file, m) /\ m.src # n.src => DiskCovers(f, m)
              /\ m.src = n.src /\ Covers([iv |-> n.iv, seq |-> n.seq], m)
                   => DiskCovers(f, m)
<1> USE DEF MeshRplAssumption, Index, Number, Message
<1>1. /\ \A k \in Index, s \in Src : s # n.src => f[k][s] = file[k][s]
      /\ f[n.iv][n.src] = n.seq
  <2>1. CASE f = Put(n)
    BY <2>1, PutFacts DEF Put, TypeOK
  <2>2. CASE f = PutBoth(n)
    BY <2>2, PutFacts DEF PutBoth, TypeOK
  <2> QED
    BY <2>1, <2>2
<1>2. DiskCovers(f, n)
  BY <1>1 DEF DiskCovers
<1>3. ASSUME NEW m \in Message, DiskCovers(file, m), m.src # n.src
      PROVE  DiskCovers(f, m)
  BY <1>1, <1>3 DEF DiskCovers
<1>4. ASSUME NEW m \in Message, m.src = n.src, Covers([iv |-> n.iv, seq |-> n.seq], m)
      PROVE  DiskCovers(f, m)
  BY <1>1, <1>4 DEF DiskCovers, Covers
<1> QED
  BY <1>2, <1>3, <1>4

LEMMA TakeStep == MeshRplAssumption /\ RplInv /\ (\E n \in Message : msg_rxed(n)) => RplInv'
<1> SUFFICES ASSUME MeshRplAssumption, RplInv, NEW n \in Message, msg_rxed(n)
             PROVE  RplInv'
  OBVIOUS
<1> USE DEF MeshRplAssumption, Index, Number, Message
<1>0. TypeOK /\ Decodes(n) /\ Passes(n) /\ UNCHANGED <<iv, crashes>>
  BY DEF RplInv, msg_rxed
<1> DEFINE e == [iv |-> n.iv, seq |-> n.seq]
<1>1. e \in Entry /\ Covers(e, n)
  BY DEF Entry, Covers
<1>2. \/ file' = Put(n) /\ torn' = torn
      \/ file' = PutEmpty(n) /\ torn' = torn \cup {n.src}
  BY DEF msg_rxed
<1>3. cache' = [Checked(n) EXCEPT ![n.src] = e] /\ handled' = handled \cup {n}
  BY DEF msg_rxed, Handle
<1>4. twice' \subseteq twice \cup {n} /\ (n \in twice' => n \in twice \/ n \in handled)
  BY DEF msg_rxed, Handle
<1>5. cache'[n.src] = e /\ \A s \in Src : s # n.src => cache'[s] = Checked(n)[s]
  BY <1>0, <1>3, CheckedType
<1>6. TypeOK'
  <2>1. cache' \in [Src -> Entry \cup {NoEntry}]
    BY <1>0, <1>1, <1>3, CheckedType
  <2>2. file' \in Files
    BY <1>0, <1>2, PutFacts
  <2>3. torn' \subseteq Src /\ handled' \subseteq Message /\ twice' \subseteq handled'
    BY <1>0, <1>2, <1>3, <1>4 DEF TypeOK
  <2> QED
    BY <1>0, <2>1, <2>2, <2>3 DEF TypeOK, Files
<1>7. FilesBelow'
  BY <1>0, <1>2, PutFacts DEF RplInv, FilesBelow
<1>8. ASSUME NEW m \in handled', m.src \notin torn' \/ crashes' = 0 PROVE Memory(m)'
  <2>1. CASE m = n
    BY <2>1, <1>1, <1>5 DEF Memory
  <2>2. CASE m # n
    <3>1. m \in handled /\ m \in Message /\ (m.src \notin torn \/ crashes = 0)
      BY <2>2, <1>0, <1>2, <1>3, <1>8 DEF TypeOK
    <3>2. m.iv >= iv - 1 => Covers(cache[m.src], m)
      BY <3>1 DEF RplInv, Memory
    <3> QED
      BY <3>1, <3>2, <1>0, <1>5, TakenCovers DEF Memory
  <2> QED
    BY <2>1, <2>2
<1>9. ASSUME NEW m \in handled', m.iv >= iv' - 1, m.src \notin torn'
      PROVE  DiskCovers(file', m)
  <2>1. CASE m.src = n.src
    <3>1. file' = Put(n) /\ torn' = torn
      BY <2>1, <1>2, <1>9
    <3>2. CASE m = n
      BY <3>1, <3>2, <1>0, PutCovers
    <3>3. CASE m # n
      <4>1. m \in handled /\ m \in Message /\ m.src \notin torn
        BY <3>1, <3>3, <1>0, <1>3, <1>9 DEF TypeOK
      <4>2. Covers(cache[m.src], m)
        BY <4>1, <1>0, <1>9 DEF RplInv, Memory
      <4>3. Covers(e, m)
        BY <4>1, <4>2, <2>1, <1>0, <1>9, TakenCovers
      <4> QED
        BY <4>1, <4>3, <3>1, <2>1, <1>0, PutCovers
    <3> QED
      BY <3>2, <3>3
  <2>2. CASE m.src # n.src
    <3>1. m \in handled /\ m \in Message /\ m.src \notin torn
      BY <2>2, <1>0, <1>2, <1>3, <1>9 DEF TypeOK
    <3>2. DiskCovers(file, m)
      BY <3>1, <1>0, <1>9 DEF RplInv
    <3>3. \A k \in Index : file'[k][m.src] = file[k][m.src]
      BY <3>1, <2>2, <1>0, <1>2, PutFacts
    <3> QED
      BY <3>2, <3>3 DEF DiskCovers
  <2> QED
    BY <2>1, <2>2
<1>10. NoReplay'
  <2> SUFFICES ASSUME NEW m \in twice' PROVE m.src \in torn' /\ crashes' > 0
    BY DEF NoReplay
  <2>1. CASE m \in twice
    BY <2>1, <1>0, <1>2 DEF RplInv, NoReplay
  <2>2. CASE m \notin twice
    BY <2>2, <1>0, <1>2, <1>4, PassesOnce
  <2> QED
    BY <2>1, <2>2
<1> QED
  BY <1>6, <1>7, <1>8, <1>9, <1>10 DEF RplInv

LEMMA UnhandledStep ==
  MeshRplAssumption /\ RplInv /\ (\E n \in Message : msg_rxed_unhandled(n)) => RplInv'
<1> SUFFICES ASSUME MeshRplAssumption, RplInv, NEW n \in Message, msg_rxed_unhandled(n)
             PROVE  RplInv'
  OBVIOUS
<1>0. /\ TypeOK /\ Decodes(n) /\ Passes(n) /\ Full(n) /\ cache' = Checked(n)
      /\ UNCHANGED <<iv, file, handled, twice, torn, crashes>>
  BY DEF RplInv, msg_rxed_unhandled
<1>1. TypeOK'
  BY <1>0, CheckedType DEF TypeOK
<1>2. ASSUME NEW m \in handled', m.src \notin torn' \/ crashes' = 0 PROVE Memory(m)'
  <2>1. m \in Message /\ Memory(m)
    BY <1>0, <1>2 DEF RplInv, TypeOK
  <2>2. ASSUME m.iv >= iv - 1 PROVE Covers(cache'[m.src], m)
    <3>1. Covers(cache[m.src], m)
      BY <2>1, <2>2 DEF Memory
    <3>2. m.src # n.src
      <4>1. cache[m.src] # NoEntry
        BY <2>1, <3>1 DEF Covers, NoEntry, Message, Index
      <4> QED
        BY <1>0, <2>1, <4>1 DEF Full, Listed, Message
    <3> QED
      BY <1>0, <2>1, <2>2, <3>1, <3>2, TakenCovers
  <2> QED
    BY <1>0, <2>2 DEF Memory
<1> QED
  BY <1>0, <1>1, <1>2 DEF RplInv, FilesBelow, NoReplay, DiskCovers

-----------------------------------------------------------------------------
(* The IV Index moves on.                                                   *)

\* The directories that are removed hold nothing the node could still decode.
LEMMA RemovedFacts ==
  ASSUME MeshRplAssumption, TypeOK, FilesBelow, NEW i \in Index, i > iv,
         NEW K \in SUBSET Stale(i)
  PROVE  /\ Removed(K) \in Files
         /\ \A k \in Index, s \in Src : Removed(K)[k][s] \in Number => k <= i
         /\ \A m \in Message :
              m.iv >= i - 1 /\ DiskCovers(file, m) => DiskCovers(Removed(K), m)
<1> USE DEF MeshRplAssumption, Index, Number, Message, Content, NoFile, Empty, TypeOK,
            FilesBelow, Files
<1>1. Removed(K) \in Files
  BY DEF Removed
<1>2. \A k \in Index, s \in Src : Removed(K)[k][s] \in Number => file[k][s] \in Number
  BY DEF Removed
<1>3. ASSUME NEW m \in Message, m.iv >= i - 1, DiskCovers(file, m)
      PROVE  DiskCovers(Removed(K), m)
  <2>1. PICK k \in Index : /\ file[k][m.src] \in Number
                           /\ k > m.iv \/ (k = m.iv /\ file[k][m.src] >= m.seq)
    BY <1>3 DEF DiskCovers
  <2>2. k \notin K
    BY <2>1, <1>3 DEF Stale
  <2>3. Removed(K)[k] = file[k]
    BY <2>2 DEF Removed
  <2> QED
    BY <2>1, <2>3 DEF DiskCovers
<1> QED
  BY <1>1, <1>2, <1>3

LEMMA UpdateStep ==
  MeshRplAssumption /\ RplInv /\ (\E i \in Index : update_iv_ivu_state(i)) => RplInv'
<1> SUFFICES ASSUME MeshRplAssumption, RplInv, NEW i \in Index, update_iv_ivu_state(i)
             PROVE  RplInv'
  OBVIOUS
<1>0. /\ TypeOK /\ FilesBelow /\ i > iv /\ iv' = i /\ file' = Removed(Stale(i))
      /\ UNCHANGED <<cache, handled, twice, torn, crashes>>
  BY DEF RplInv, update_iv_ivu_state
<1>1. TypeOK' /\ FilesBelow'
  BY <1>0, RemovedFacts DEF TypeOK, Files, FilesBelow
<1>2. iv \in Int /\ i \in Int /\ \A m \in Message : m.iv \in Int
  BY <1>0 DEF TypeOK, Index, Message, MeshRplAssumption
<1>3. ASSUME NEW m \in handled', m.iv >= iv' - 1, m.src \notin torn'
      PROVE  DiskCovers(file', m)
  <2>1. m \in Message /\ m \in handled /\ m.iv >= iv - 1 /\ m.src \notin torn
    BY <1>0, <1>2, <1>3 DEF TypeOK
  <2> QED
    BY <1>0, <1>3, <2>1, RemovedFacts DEF RplInv
<1>4. ASSUME NEW m \in handled', m.src \notin torn' \/ crashes' = 0 PROVE Memory(m)'
  BY <1>0, <1>2, <1>4 DEF RplInv, Memory, TypeOK
<1> QED
  BY <1>0, <1>1, <1>3, <1>4 DEF RplInv, NoReplay

LEMMA OwnUpdateStep ==
  MeshRplAssumption /\ RplInv /\ mesh_net_iv_index_update => RplInv'
<1> SUFFICES ASSUME MeshRplAssumption, RplInv, mesh_net_iv_index_update PROVE RplInv'
  OBVIOUS
<1>0. /\ TypeOK /\ FilesBelow /\ iv < MaxIv /\ iv' = iv + 1
      /\ UNCHANGED <<cache, file, handled, twice, torn, crashes>>
  BY DEF RplInv, mesh_net_iv_index_update
<1>1. iv \in Int /\ iv' \in Index /\ \A m \in Message : m.iv \in Int
  BY <1>0 DEF TypeOK, Index, Message, MeshRplAssumption
<1>2. TypeOK' /\ FilesBelow'
  BY <1>0, <1>1 DEF TypeOK, FilesBelow, Index, MeshRplAssumption
<1>3. ASSUME NEW m \in handled PROVE m.iv \in Int /\ (m.iv >= iv' - 1 => m.iv >= iv - 1)
  BY <1>0, <1>1 DEF TypeOK
<1>4. \A m \in handled' : m.iv >= iv' - 1 /\ m.src \notin torn' => DiskCovers(file', m)
  BY <1>0, <1>3 DEF RplInv
<1>5. \A m \in handled' : m.src \notin torn' \/ crashes' = 0 => Memory(m)'
  BY <1>0, <1>3 DEF RplInv, Memory
<1> QED
  BY <1>0, <1>2, <1>4, <1>5 DEF RplInv, NoReplay

-----------------------------------------------------------------------------
(* Crashes.                                                                 *)

\* A process that starts from files that cover what they must has a list in
\* memory that does.
LEMMA StartFacts ==
  ASSUME MeshRplAssumption, RplInv, NEW i \in Index, NEW f \in Files, StartFrom(i, f),
         handled' \subseteq Message, twice' \subseteq handled', torn' \subseteq Src,
         \A k \in Index, s \in Src : f[k][s] \in Number => k <= i,
         \A m \in handled' : m.iv >= i - 1 /\ m.src \notin torn' => DiskCovers(f, m),
         \A m \in twice' : m.src \in torn'
  PROVE  RplInv'
<1>0. TypeOK /\ crashes' = crashes + 1 /\ iv' = i /\ file' = f /\ cache' = Loaded(f)
  BY DEF RplInv, StartFrom
<1>1. crashes' \in 0 .. MaxCrash /\ crashes' > 0
  BY <1>0 DEF TypeOK, StartFrom, MeshRplAssumption
<1>2. TypeOK'
  BY <1>0, <1>1, LoadedType DEF TypeOK, Files
<1>3. FilesBelow'
  BY <1>0 DEF FilesBelow
<1>4. ASSUME NEW m \in handled', m.src \notin torn' \/ crashes' = 0 PROVE Memory(m)'
  BY <1>0, <1>1, <1>4, LoadedCovers DEF Memory
<1> QED
  BY <1>0, <1>1, <1>2, <1>3, <1>4 DEF RplInv, NoReplay

LEMMA CrashStep == MeshRplAssumption /\ RplInv /\ Crash => RplInv'
<1> SUFFICES ASSUME MeshRplAssumption, RplInv, Crash PROVE RplInv'
  OBVIOUS
<1>1. StartFrom(iv, file) /\ UNCHANGED <<handled, twice, torn>> /\ TypeOK
  BY DEF Crash, RplInv
<1>2. iv \in Index /\ file \in Files
  BY <1>1 DEF TypeOK, Files
<1> QED
  BY <1>1, <1>2, StartFacts DEF RplInv, TypeOK, FilesBelow, NoReplay

LEMMA CrashInUpdateStep ==
  MeshRplAssumption /\ RplInv /\ (\E i \in Index : CrashInUpdate(i)) => RplInv'
<1> SUFFICES ASSUME MeshRplAssumption, RplInv, NEW i \in Index, CrashInUpdate(i)
             PROVE  RplInv'
  OBVIOUS
<1>0. TypeOK /\ FilesBelow /\ i > iv /\ UNCHANGED <<handled, twice, torn>>
  BY DEF RplInv, CrashInUpdate
<1>1. PICK K \in SUBSET Stale(i) : StartFrom(i, Removed(K))
  BY DEF CrashInUpdate
<1>2. iv \in Int /\ i \in Int /\ \A m \in Message : m.iv \in Int
  BY <1>0 DEF TypeOK, Index, Message, MeshRplAssumption
<1>3. ASSUME NEW m \in handled', m.iv >= i - 1, m.src \notin torn'
      PROVE  DiskCovers(Removed(K), m)
  <2>1. m \in Message /\ m \in handled /\ m.iv >= iv - 1 /\ m.src \notin torn
    BY <1>0, <1>2, <1>3 DEF TypeOK
  <2> QED
    BY <1>0, <1>3, <2>1, RemovedFacts DEF RplInv
<1>4. /\ Removed(K) \in Files
      /\ \A k \in Index, s \in Src : Removed(K)[k][s] \in Number => k <= i
  BY <1>0, RemovedFacts
<1>5. /\ handled' \subseteq Message /\ twice' \subseteq handled' /\ torn' \subseteq Src
      /\ \A m \in twice' : m.src \in torn'
  BY <1>0 DEF RplInv, TypeOK, NoReplay
<1> QED
  BY <1>1, <1>3, <1>4, <1>5, StartFacts

LEMMA CrashInTakeStep ==
  MeshRplAssumption /\ RplInv /\ (\E n \in Message : CrashInMsgRxed(n)) => RplInv'
<1> SUFFICES ASSUME MeshRplAssumption, RplInv, NEW n \in Message, CrashInMsgRxed(n)
             PROVE  RplInv'
  OBVIOUS
<1>0. TypeOK /\ Decodes(n) /\ Passes(n) /\ iv \in Index
  BY DEF RplInv, CrashInMsgRxed, TypeOK
<1>1. PICK f \in {file, PutEmpty(n), PutBoth(n)} :
        StartFrom(iv, f) /\ (torn' = torn \cup {n.src} \/ (f = PutBoth(n) /\ torn' = torn))
  BY DEF CrashInMsgRxed
<1>2. handled' = handled \cup {n} /\ twice' \subseteq twice \cup {n}
      /\ (n \in twice' => n \in twice \/ n \in handled)
  BY DEF CrashInMsgRxed, Handle
<1>3. /\ f \in Files
      /\ \A k \in Index, s \in Src : s # n.src => f[k][s] = file[k][s]
      /\ \A k \in Index, s \in Src : f[k][s] \in Number => k <= iv
  <2>1. CASE f = file
    BY <2>1, <1>0 DEF RplInv, FilesBelow, TypeOK, Files
  <2>2. CASE f # file
    BY <2>2, <1>0, <1>1, PutFacts DEF RplInv
  <2> QED
    BY <2>1, <2>2
<1>4. /\ handled' \subseteq Message /\ twice' \subseteq handled' /\ torn' \subseteq Src
      /\ \A m \in twice' : m.src \in torn'
  <2>1. /\ handled' \subseteq Message /\ twice' \subseteq handled' /\ torn \subseteq torn'
        /\ torn' \subseteq Src
    BY <1>0, <1>1, <1>2 DEF TypeOK, Message
  <2>2. n \in twice' => n.src \in torn
    BY <1>0, <1>2, PassesOnce DEF RplInv, NoReplay
  <2> QED
    BY <1>2, <2>1, <2>2 DEF RplInv, NoReplay
<1>5. ASSUME NEW m \in handled', m.iv >= iv - 1, m.src \notin torn' PROVE DiskCovers(f, m)
  <2>1. CASE m.src = n.src
    <3>1. f = PutBoth(n) /\ torn' = torn
      BY <2>1, <1>1, <1>5
    <3>2. CASE m = n
      BY <3>1, <3>2, <1>0, PutCovers
    <3>3. CASE m # n
      <4>1. m \in handled /\ m \in Message /\ Covers(cache[m.src], m)
        BY <3>1, <3>3, <1>0, <1>2, <1>5 DEF TypeOK, RplInv, Memory
      <4>2. Covers([iv |-> n.iv, seq |-> n.seq], m)
        BY <4>1, <2>1, <1>0, <1>5, TakenCovers
      <4> QED
        BY <4>1, <4>2, <3>1, <2>1, <1>0, PutCovers
    <3> QED
      BY <3>2, <3>3
  <2>2. CASE m.src # n.src
    <3>1. m \in handled /\ m \in Message /\ m.src \notin torn
      BY <2>2, <1>0, <1>1, <1>2, <1>5 DEF TypeOK
    <3>2. DiskCovers(file, m)
      BY <3>1, <1>5 DEF RplInv
    <3>3. \A k \in Index : f[k][m.src] = file[k][m.src]
      BY <3>1, <2>2, <1>3 DEF Message
    <3> QED
      BY <3>2, <3>3 DEF DiskCovers
  <2> QED
    BY <2>1, <2>2
<1> QED
  BY <1>0, <1>1, <1>3, <1>4, <1>5, StartFacts

-----------------------------------------------------------------------------
LEMMA NextInv == MeshRplAssumption /\ RplInv /\ [Next]_vars => RplInv'
<1> SUFFICES ASSUME MeshRplAssumption, RplInv, [Next]_vars PROVE RplInv'
  OBVIOUS
<1>1. CASE UNCHANGED vars
  BY <1>1 DEF vars, RplInv, TypeOK, FilesBelow, Memory, NoReplay, DiskCovers, Covers
<1>2. CASE Next
  BY <1>2, TakeStep, UnhandledStep, UpdateStep, OwnUpdateStep, CrashStep,
     CrashInTakeStep, CrashInUpdateStep DEF Next
<1> QED
  BY <1>1, <1>2

LEMMA AlwaysInv == Spec => []RplInv
<1>1. Init => RplInv
  BY InitInv, MeshRplAssumption
<1>2. RplInv /\ [Next]_vars => RplInv'
  BY NextInv, MeshRplAssumption
<1> QED
  BY <1>1, <1>2, PTL DEF Spec

\* The replay list and the files hold what they are meant to hold, at every step
\* of msg_rxed, of the updates of the IV Index and of crashes in between.
THEOREM RplTypes == Spec => []TypeOK
<1>1. RplInv => TypeOK
  BY DEF RplInv
<1> QED
  BY <1>1, AlwaysInv, PTL

\* Of each message that can still be decrypted, its source not torn, the list in
\* memory knows, and so does the list the next process would load.
THEOREM RplCovers == Spec => []ListCovers
<1>1. RplInv => ListCovers
  BY InvCovers, MeshRplAssumption
<1> QED
  BY <1>1, AlwaysInv, PTL

\* msg_check_replay_cache lets no message pass a second time, except after a
\* restart one whose entry rpl_put_entry had not finished.
THEOREM RplNoReplay == Spec => []NoReplay
<1>1. RplInv => NoReplay
  BY DEF RplInv
<1> QED
  BY <1>1, AlwaysInv, PTL
=============================================================================
