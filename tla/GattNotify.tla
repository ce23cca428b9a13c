------------------------------ MODULE GattNotify ------------------------------
(***************************************************************************)
(* Notification handlers that share one Client Characteristic              *)
(* Configuration (CCC) descriptor: register_notify and                     *)
(* bt_gatt_client_unregister_notify of src/shared/gatt-client.c.  The      *)
(* first handler has the descriptor written, later ones count on it, the   *)
(* last one to leave has it cleared, and while a write is in flight new    *)
(* handlers wait in reg_notify_queue.                                      *)
(*                                                                         *)
(* A write is known by the id of its GATT request, while bt_att_cancel     *)
(* takes the id of an ATT operation: it is handed the former and cancels   *)
(* the operation that bears that number.  The two counters differ by the   *)
(* operations the client sends without a GATT request (MTU exchange,       *)
(* discovery): `skew'.                                                     *)
(***************************************************************************)
EXTENDS SharedQueue

CONSTANTS
    Regs,     \* the calls of register_notify
    Silent,   \* those of them without a registration callback
    Skews     \* by how much ATT ids may be ahead of GATT request ids

ASSUME NotifyAssumption ==
    /\ IsFiniteSet(Regs) /\ Silent \subseteq Regs
    /\ Skews \subseteq Nat /\ Skews # {}

VARIABLES
    skew,
    notify_list,       \* client->notify_list
    notify_count,      \* chrc->notify_count
    reg_notify_queue,  \* chrc->reg_notify_queue
    ccc_write_id,      \* chrc->ccc_write_id
    att_id,            \* notify_data->att_id
    next_request_id,
    writes,            \* CCC writes whose callback is still to come
    ccc,               \* the descriptor at the server
    aborted,           \* an assert() failed
    told,              \* history: what the registration callback said
    left,              \* history: handlers that were unregistered
    misled,            \* history: handlers told that notifications were on when
                       \* nobody had them switched on
    overlapped,        \* history: a disable was sent with a write in flight
    misfired,          \* history: bt_att_cancel cancelled a CCC write
    leaked,            \* history: handlers that left while being enabled
    refused            \* history: the server refused to clear the descriptor

idVars   == <<skew, next_request_id>>
chrcVars == <<notify_list, notify_count, reg_notify_queue, ccc_write_id, att_id>>
histVars == <<told, left, misled, overlapped, misfired, leaked, refused>>
vars == <<idVars, chrcVars, writes, ccc, aborted, histVars>>

\* struct request of one CCC write; `state' is how far it got.
Writes == [id : Nat \ {0}, by : Regs, enable : BOOLEAN,
           state : {"sent", "done", "error"}]

Init ==
    /\ skew \in Skews /\ next_request_id = 1
    /\ notify_list = {} /\ notify_count = 0 /\ reg_notify_queue = <<>>
    /\ ccc_write_id = 0 /\ att_id = [r \in Regs |-> 0]
    /\ writes = {} /\ ccc = FALSE /\ aborted = FALSE
    /\ told = [r \in Regs |-> "nothing"] /\ left = {} /\ misled = {}
    /\ overlapped = FALSE /\ misfired = FALSE /\ leaked = {} /\ refused = FALSE

-----------------------------------------------------------------------------
\* Sends a write on behalf of handler r.
notify_data_write_ccc(r, enable) ==
    /\ writes' = writes \cup {[id |-> next_request_id, by |-> r,
                               enable |-> enable, state |-> "sent"]}
    /\ att_id' = [att_id EXCEPT ![r] = next_request_id]
    /\ ccc_write_id' = next_request_id
    /\ next_request_id' = next_request_id + 1

\* Someone told that notifications are on whose handler keeps them on.
SwitchedOn == \E q \in notify_list \ (Silent \cup misled) : told[q] = "on"

\* Mutant: a handler does not wait for a write in flight.
MustWait_never == FALSE
MustWait == ccc_write_id # 0

\* Mutant: a handler that has to wait is not counted.
CountIn_unless_waiting == notify_count' = notify_count + IF MustWait THEN 0 ELSE 1
CountIn == notify_count' = notify_count + 1

\* A handler without a callback never has the descriptor written, and one that
\* is not the first counts on those before it.
register_notify(r) ==
    /\ ~aborted
    /\ r \notin notify_list \cup left
    /\ notify_list' = notify_list \cup {r}
    /\ CountIn
    /\ IF MustWait
       THEN /\ reg_notify_queue' = Append(reg_notify_queue, r)
            /\ UNCHANGED <<writes, att_id, ccc_write_id, next_request_id, told,
                           misled>>
       ELSE /\ UNCHANGED reg_notify_queue
            /\ IF notify_count' > 1 \/ r \in Silent
               THEN /\ told' = [told EXCEPT ![r] = "on"]
                    /\ misled' = IF SwitchedOn THEN misled ELSE misled \cup {r}
                    /\ UNCHANGED <<writes, att_id, ccc_write_id, next_request_id>>
               ELSE /\ notify_data_write_ccc(r, TRUE)
                    /\ UNCHANGED <<told, misled>>
    /\ UNCHANGED <<skew, ccc, aborted, left, overlapped, misfired, leaked, refused>>

\* bt_att_cancel: the operation with that ATT id loses its callback; one that
\* was sent still takes effect at the server or not.
bt_att_cancel(id) ==
    LET hit == {w \in writes : w.id + skew = id}
    IN  /\ writes' = writes \ hit
        /\ misfired' = (misfired \/ hit # {})
        /\ ccc' \in {ccc} \cup {w.enable : w \in {v \in hit : v.state = "sent"}}

Unqueue(r) == reg_notify_queue' = Without(reg_notify_queue, {r})

\* Mutant: the count is tested before it is taken down.
LastOut_early == notify_count = 0
LastOut == notify_count = 1

\* complete_unregister_notify: a handler still being enabled keeps its place
\* in notify_count.
bt_gatt_client_unregister_notify(r) ==
    /\ ~aborted /\ r \in notify_list
    /\ notify_list' = notify_list \ {r}
    /\ left' = left \cup {r}
    /\ Unqueue(r)
    /\ IF att_id[r] # 0
       THEN /\ bt_att_cancel(att_id[r])
            /\ att_id' = [att_id EXCEPT ![r] = 0]
            /\ leaked' = leaked \cup {r}
            /\ UNCHANGED <<notify_count, ccc_write_id, next_request_id, overlapped>>
       ELSE /\ notify_count' = notify_count - 1
            /\ IF LastOut
               THEN /\ notify_data_write_ccc(r, FALSE)
                    /\ overlapped' = (overlapped \/ ccc_write_id # 0)
               ELSE UNCHANGED <<writes, att_id, ccc_write_id, next_request_id,
                                overlapped>>
            /\ UNCHANGED <<ccc, misfired, leaked>>
    /\ UNCHANGED <<skew, aborted, told, misled, refused>>

\* The server takes a write or refuses it; on several channels the writes in
\* flight arrive in any order.
Serve(w, err) ==
    /\ ~aborted /\ w \in writes /\ w.state = "sent"
    /\ writes' = (writes \ {w}) \cup
                 {[w EXCEPT !.state = IF err THEN "error" ELSE "done"]}
    /\ ccc' = IF err THEN ccc ELSE w.enable
    /\ refused' = (refused \/ (err /\ ~w.enable))
    /\ UNCHANGED <<idVars, chrcVars, aborted, told, left, misled, overlapped,
                   misfired, leaked>>

\* assert(notify_data->chrc->ccc_write_id)
Abort(w) ==
    /\ ~aborted /\ w \in writes /\ w.state # "sent" /\ ccc_write_id = 0
    /\ aborted' = TRUE
    /\ UNCHANGED <<idVars, chrcVars, writes, ccc, histVars>>

InQueue(r) == r \in InSeq(reg_notify_queue)

\* Tells the handler that had the descriptor written, unless it left, and all
\* those that waited for it.
enable_ccc_callback(w) ==
    /\ ~aborted /\ w \in writes /\ w.enable /\ w.state # "sent"
    /\ ccc_write_id # 0
    /\ ccc_write_id' = 0
    /\ told' = [r \in Regs |->
                  IF (r = w.by /\ r \notin left) \/ InQueue(r)
                  THEN IF w.state = "done" THEN "on" ELSE "refused"
                  ELSE told[r]]
    /\ att_id' = [r \in Regs |-> IF r = w.by \/ InQueue(r) THEN 0 ELSE att_id[r]]
    /\ reg_notify_queue' = <<>>
    /\ writes' = writes \ {w}
    /\ UNCHANGED <<idVars, notify_list, notify_count, ccc, aborted, left, misled,
                   overlapped, misfired, leaked, refused>>

\* Mutant: the handlers that wait are not served.
disable_ccc_callback_alone(w) ==
    /\ ~aborted /\ w \in writes /\ ~w.enable /\ w.state # "sent"
    /\ ccc_write_id # 0
    /\ ccc_write_id' = 0 /\ writes' = writes \ {w}
    /\ UNCHANGED <<idVars, notify_list, notify_count, reg_notify_queue, att_id,
                   ccc, aborted, histVars>>

\* The first handler that waits has the descriptor written again.
disable_ccc_callback(w) ==
    /\ ~aborted /\ w \in writes /\ ~w.enable /\ w.state # "sent"
    /\ ccc_write_id # 0
    /\ IF reg_notify_queue = <<>>
       THEN /\ ccc_write_id' = 0 /\ writes' = writes \ {w}
            /\ UNCHANGED <<reg_notify_queue, att_id, next_request_id>>
       ELSE /\ reg_notify_queue' = Tail(reg_notify_queue)
            /\ att_id' = [att_id EXCEPT ![Head(reg_notify_queue)] = next_request_id]
            /\ ccc_write_id' = next_request_id
            /\ next_request_id' = next_request_id + 1
            /\ writes' = (writes \ {w}) \cup
                         {[id |-> next_request_id, by |-> Head(reg_notify_queue),
                           enable |-> TRUE, state |-> "sent"]}
    /\ UNCHANGED <<skew, notify_list, notify_count, ccc, aborted, histVars>>

\* What becomes of a write: served, then answered through its callback.
Progress(w) == \/ \E err \in BOOLEAN : Serve(w, err)
               \/ Abort(w)
               \/ enable_ccc_callback(w)
               \/ disable_ccc_callback(w)
Next == \/ \E r \in Regs : register_notify(r)
        \/ \E r \in Regs : bt_gatt_client_unregister_notify(r)
        \/ \E w \in writes : Progress(w)

Spec == Init /\ [][Next]_vars
\* The server answers and the main loop delivers the answers.
FairSpec == Spec /\ WF_vars(\E w \in writes : Progress(w))

-----------------------------------------------------------------------------
TypeOK ==
    /\ notify_list \subseteq Regs /\ left \subseteq Regs
    /\ notify_count \in 0 .. Cardinality(Regs)
    /\ Cardinality(notify_list) <= notify_count
    /\ InSeq(reg_notify_queue) \subseteq notify_list
    /\ ccc_write_id \in 0 .. next_request_id - 1
    /\ att_id \in [Regs -> 0 .. next_request_id - 1]
    /\ writes \subseteq Writes
    /\ told \in [Regs -> {"nothing", "on", "refused"}]

\* A handler told that notifications are on has the descriptor set at the
\* server for as long as it stays, whichever handlers come and go beside it,
\* unless nothing was switched on when it was told or two writes overlapped.
ToldMeansOn ==
    \A r \in notify_list \ (Silent \cup misled) :
        told[r] = "on" /\ ~overlapped => ccc

\* With no handler left and no write in flight the descriptor is clear, unless
\* the server refused or a handler left while it was being enabled.
OffWhenUnused ==
    notify_list = {} /\ writes = {} /\ leaked = {} /\ ~refused => ~ccc

\* The assertions in the callbacks of the CCC writes hold unless a disable was
\* sent on top of a write in flight.
AssertHolds == aborted => overlapped

\* A handler that asks to be told is told in the end or has left, unless a
\* CCC write was cancelled in its place or an assertion failed.
EveryRegistrationTold ==
    \A r \in Regs \ Silent : r \in notify_list ~>
        told[r] # "nothing" \/ r \in left \/ misfired \/ aborted
==============================================================================
