------------------------------ MODULE MeshRpl ------------------------------
(***************************************************************************)
(* The receiving side of a mesh node: the replay protection list, in       *)
(* memory (net->replay_cache, net.c) and on disk (rpl.c).                  *)
(*                                                                         *)
(* A message is identified by its source, IV Index and sequence number.    *)
(* Radio packets are repeated, relayed and recorded by others, so that any *)
(* message may arrive again at any time, also after a restart; net.c also  *)
(* drops packets it has just seen (fast_cache, msg_cache), but these caches *)
(* are short and everything they let through is covered here.  The list on *)
(* disk is a directory per IV Index with a file per source, and neither    *)
(* the writing of a file nor the tidying after a change of the IV Index is *)
(* atomic: the process may be killed in between.                           *)
(***************************************************************************)
EXTENDS Integers, FiniteSets

CONSTANTS
    Src,        \* unicast sources
    Crpl,       \* node_get_crpl: entries the list has room for
    MaxSeq,     \* bound: sequence numbers
    MaxIv,      \* bound: IV Index
    MaxCrash    \* bound: restarts

ASSUME MeshRplAssumption ==
    /\ {Crpl, MaxSeq, MaxIv, MaxCrash} \subseteq Nat

Index == 0..MaxIv
Number == 0..MaxSeq
Message == [src: Src, iv: Index, seq: Number]

Entry == [iv: Index, seq: Number]
NoEntry == [iv |-> -1, seq |-> -1]

\* Content of the file <iv>/<src>: a number, nothing readable, or no file.
NoFile == -1
Empty == -2
Content == Number \cup {NoFile, Empty}

VARIABLES
    iv,         \* net->iv_index
    cache,      \* net->replay_cache, by source
    file,       \* the files under rpl/, by IV Index and source
    handled,    \* messages mesh_model_rx took
    twice,      \* those it took a second time
    torn,       \* sources one of whose entries never got into its file
    crashes

vars == <<iv, cache, file, handled, twice, torn, crashes>>

TypeOK ==
    /\ iv \in Index
    /\ cache \in [Src -> Entry \cup {NoEntry}]
    /\ file \in [Index -> [Src -> Content]]
    /\ handled \subseteq Message
    /\ twice \subseteq handled
    /\ torn \subseteq Src
    /\ crashes \in 0..MaxCrash

Init ==
    /\ iv = 0
    /\ cache = [s \in Src |-> NoEntry]
    /\ file = [i \in Index |-> [s \in Src |-> NoFile]]
    /\ handled = {}
    /\ twice = {}
    /\ torn = {}
    /\ crashes = 0
-----------------------------------------------------------------------------
(***************************************************************************)
(* The list in memory.                                                     *)
(***************************************************************************)

\* net_rx reads the index of a packet from one bit: it is ours or the one
\* before, other packets do not decrypt.
Decodes(m) == m.iv \in {iv, iv - 1}

Listed == {s \in Src : cache[s] # NoEntry}

\* clean_old_iv_index, called with the index i of a message.
Outdated_previous_too(i) == {s \in Listed : i >= 1 /\ cache[s].iv < i}
Outdated(i) == {s \in Listed : i >= 2 /\ cache[s].iv < i - 1}

\* msg_check_replay_cache lets message m pass.
Higher(m, e) == m.iv > e.iv \/ (m.iv = e.iv /\ m.seq > e.seq)
Full(m) == m.src \notin Listed /\ Cardinality(Listed) >= Crpl
Passes(m) ==
    IF m.src \in Listed
    THEN Higher(m, cache[m.src])
    ELSE Full(m) => Outdated(m.iv) # {}

\* The list after the check, which makes room when it is full.
Checked(m) ==
    IF Full(m)
    THEN [s \in Src |-> IF s \in Outdated(m.iv) THEN NoEntry ELSE cache[s]]
    ELSE cache
-----------------------------------------------------------------------------
(***************************************************************************)
(* The list on disk.                                                       *)
(***************************************************************************)

\* rpl_put_entry: the file is emptied and written, then the entry under the
\* previous index is removed.
Put(m) ==
    [i \in Index |->
        IF i = m.iv THEN [file[i] EXCEPT ![m.src] = m.seq]
        ELSE IF i = m.iv - 1 THEN [file[i] EXCEPT ![m.src] = NoFile]
        ELSE file[i]]

\* Where it gets when the write fails, or the process dies, half-way: the file
\* empty, or written with the old entry still there.
PutEmpty(m) == [file EXCEPT ![m.iv][m.src] = Empty]
PutBoth(m) == [file EXCEPT ![m.iv][m.src] = m.seq]

\* rpl_update: the directories of other indices than i and i - 1 go.
Stale(i) == {k \in Index : k \notin {i, i - 1}}
Removed(K) == [k \in Index |-> IF k \in K THEN [s \in Src |-> NoFile] ELSE file[k]]

\* rpl_get_list: per source the readable file with the highest index.
Readable(f, s) == {k \in Index : f[k][s] \in Number}
Loaded(f) ==
    [s \in Src |->
        IF Readable(f, s) = {} THEN NoEntry
        ELSE LET k == CHOOSE k \in Readable(f, s) :
                        \A n \in Readable(f, s) : n <= k
             IN  [iv |-> k, seq |-> f[k][s]]]
-----------------------------------------------------------------------------
(***************************************************************************)
(* Steps.                                                                  *)
(***************************************************************************)

\* mesh_model_rx takes the message.
Handle(m) ==
    /\ handled' = handled \cup {m}
    /\ twice' = IF m \in handled THEN twice \cup {m} ELSE twice

\* msg_rxed for a message that a model of the node takes.
msg_rxed(m) ==
    /\ Decodes(m)
    /\ Passes(m)
    /\ Handle(m)
    /\ cache' = [Checked(m) EXCEPT ![m.src] = [iv |-> m.iv, seq |-> m.seq]]
    /\ \/ /\ file' = Put(m)
          /\ UNCHANGED torn
       \/ /\ file' = PutEmpty(m)
          /\ torn' = torn \cup {m.src}
    /\ UNCHANGED <<iv, crashes>>

\* msg_rxed for a message that passes the check and that no model takes.
msg_rxed_unhandled(m) ==
    /\ Decodes(m)
    /\ Passes(m)
    /\ Full(m)
    /\ cache' = Checked(m)
    /\ UNCHANGED <<iv, file, handled, twice, torn, crashes>>

\* update_iv_ivu_state: a beacon moves the node to index i.
update_iv_ivu_state(i) ==
    /\ i > iv
    /\ iv' = i
    /\ file' = Removed(Stale(i))
    /\ UNCHANGED <<cache, handled, twice, torn, crashes>>

\* mesh_net_iv_index_update: the node begins an update itself, and leaves the
\* directories alone.
mesh_net_iv_index_update ==
    /\ iv < MaxIv
    /\ iv' = iv + 1
    /\ UNCHANGED <<cache, file, handled, twice, torn, crashes>>

\* A new process, from index i of the configuration and the files f.
StartFrom(i, f) ==
    /\ crashes < MaxCrash
    /\ crashes' = crashes + 1
    /\ iv' = i
    /\ file' = f
    /\ cache' = Loaded(f)

Crash ==
    /\ StartFrom(iv, file)
    /\ UNCHANGED <<handled, twice, torn>>

\* The process dies while it handles m: before the file is touched, while it
\* is empty, or before the old entry is removed.
CrashInMsgRxed(m) ==
    /\ Decodes(m)
    /\ Passes(m)
    /\ Handle(m)
    /\ \/ StartFrom(iv, file) /\ torn' = torn \cup {m.src}
       \/ StartFrom(iv, PutEmpty(m)) /\ torn' = torn \cup {m.src}
       \/ StartFrom(iv, PutBoth(m)) /\ UNCHANGED torn

\* The process dies in update_iv_ivu_state, the index saved and only some of
\* the old directories removed.
CrashInUpdate(i) ==
    /\ i > iv
    /\ \E K \in SUBSET Stale(i) : StartFrom(i, Removed(K))
    /\ UNCHANGED <<handled, twice, torn>>

Next ==
    \/ \E m \in Message : msg_rxed(m)
    \/ \E m \in Message : msg_rxed_unhandled(m)
    \/ \E i \in Index : update_iv_ivu_state(i)
    \/ mesh_net_iv_index_update
    \/ Crash
    \/ \E m \in Message : CrashInMsgRxed(m)
    \/ \E i \in Index : CrashInUpdate(i)

Spec == Init /\ [][Next]_vars
-----------------------------------------------------------------------------
(***************************************************************************)
(* Properties.                                                             *)
(***************************************************************************)

\* No message is handled twice, whenever it is repeated and whatever restarts
\* lie between; the exception is named: a source whose entry a crash or a
\* failed write kept out of its file (rpl_put_entry empties the file first), and
\* only once the process has been restarted.
NoReplay == \A m \in twice : m.src \in torn /\ crashes > 0

\* The invariant behind it: of every message that could still be decoded the
\* list knows as much as it must, in memory and, for the next process, on disk.
Covers(e, m) == e.iv > m.iv \/ (e.iv = m.iv /\ e.seq >= m.seq)
ListCovers ==
    \A m \in handled :
        m.iv >= iv - 1 /\ m.src \notin torn =>
            /\ Covers(cache[m.src], m)
            /\ Covers(Loaded(file)[m.src], m)
=============================================================================
