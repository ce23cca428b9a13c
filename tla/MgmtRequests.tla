----------------------------- MODULE MgmtRequests -----------------------------
(***************************************************************************)
(* The request side of src/shared/mgmt.c, the client of the kernel's       *)
(* Bluetooth management socket: commands wait in request_queue, replies to *)
(* the kernel's questions in reply_queue, what was written is in           *)
(* pending_list until the kernel answers it, a timer runs out or the user  *)
(* cancels it; one write handler drains the queues.                        *)
(*                                                                         *)
(* A step is one main loop callback, cut where a request's callback runs:  *)
(* `frames' is the stack of the callbacks that are running, and the user's *)
(* calls are enabled in each.  Destructors make no call.                   *)
(***************************************************************************)
EXTENDS SharedQueue

CONSTANTS
    MaxId,          \* bound on next_request_id
    MaxFrames,      \* bound: the user's calls are enabled in callbacks nested less deep
    Opcode, Index,  \* what requests are about
    Kinds,          \* which calls the user makes: "send", "reply", "nowait"
    Timers,         \* whether those have a time-out, a set of Booleans
    WriteFails,     \* io_send may fail
    Forgets,        \* the kernel may never answer a request that has a time-out
    MaxEarly,       \* bound on the commands with a Command Status before their end
    Abandons        \* the user may cancel what the kernel has not answered yet

ASSUME MgmtAssumption ==
    /\ MaxId \in Nat \ {0} /\ MaxFrames \in Nat \ {0}
    /\ Opcode # {} /\ Index # {}
    /\ Kinds \subseteq {"send", "reply", "nowait"}
    /\ Timers \subseteq BOOLEAN /\ Timers # {}
    /\ WriteFails \in BOOLEAN /\ Forgets \in BOOLEAN
    /\ MaxEarly \in Nat /\ Abandons \in BOOLEAN

Id == 1 .. MaxId
Request == [kind : Kinds, opcode : Opcode, index : Index, timeout : BOOLEAN]
NoRequest == [kind |-> "none"]

VARIABLES
    next_request_id,
    request,         \* struct mgmt_request, by id
    request_queue, reply_queue, pending_list,
    writer_active,
    timer,           \* requests whose timeout_id is set
    user_ref,        \* the user still holds its reference
    live,            \* the last reference is not gone yet
    frames,          \* the callbacks running, innermost last
    kernel,          \* the commands the kernel has yet to answer, oldest first
    ended,           \* how a request's callback was run, or none yet
    cancelled,       \* taken back by mgmt_cancel*, before the callback ran
    destroyed,       \* destroy_request
    forgotten,       \* the kernel has dropped a command without an answer
    early            \* how many it has answered before their end

queues == <<request_queue, reply_queue, pending_list>>
ghosts == <<ended, cancelled, destroyed, forgotten, early>>
vars == <<next_request_id, request, queues, writer_active, timer, user_ref,
          live, frames, kernel, ghosts>>

About(ix) == {id \in Id : id < next_request_id /\ request[id].index = ix}
Queued == InSeq(request_queue) \cup InSeq(reply_queue)
Looping == live /\ frames = <<>>
UserRuns == user_ref /\ Len(frames) < MaxFrames
\* request_complete runs under the reference can_read_data takes.
Guarded == frames # <<>> /\ frames[1].fn = "complete"

\* request->callback: `how' says what it is told.
Call(fn, id, how) ==
    /\ frames' = Append(frames, [fn |-> fn, id |-> id])
    /\ ended' = [ended EXCEPT ![id] = IF @ = "no" THEN how ELSE "twice"]

\* To be conjoined after the primed queues.
wakeup_writer ==
    writer_active' = (pending_list' = <<>> \/ reply_queue' # <<>> \/ writer_active)

-----------------------------------------------------------------------------
(* Writing.                                                                 *)

\* send_request, once the request is off its queue (if it was on one).
send_request_ok(id, timeout) ==
    /\ pending_list' = Append(pending_list, id)
    /\ timer' = IF timeout THEN timer \cup {id} ELSE timer
    /\ kernel' = Append(kernel, id)
    /\ UNCHANGED <<frames, ended>>
send_request_fails(id, fn) ==
    /\ WriteFails
    /\ Call(fn, id, "failed")
    /\ UNCHANGED <<pending_list, timer, kernel>>

\* can_write_data with a reply to send: replies jump the queue.
can_write_data_reply ==
    /\ Looping /\ writer_active /\ reply_queue # <<>>
    /\ reply_queue' = Tail(reply_queue)
    /\ \/ /\ send_request_ok(Head(reply_queue), request[Head(reply_queue)].timeout)
          /\ writer_active' = (reply_queue' # <<>>)
       \/ /\ send_request_fails(Head(reply_queue), "write")
          /\ UNCHANGED writer_active
    /\ UNCHANGED <<next_request_id, request, request_queue, user_ref, live,
                   cancelled, destroyed,
                   forgotten, early>>

\* can_write_data with a command to send: one that nothing pending holds back.
can_write_data_command ==
    /\ Looping /\ writer_active /\ reply_queue = <<>>
    /\ pending_list = <<>> /\ request_queue # <<>>
    /\ request_queue' = Tail(request_queue)
    /\ \/ /\ send_request_ok(Head(request_queue), request[Head(request_queue)].timeout)
          /\ writer_active' = FALSE
       \/ /\ send_request_fails(Head(request_queue), "write")
          /\ UNCHANGED writer_active
    /\ UNCHANGED <<next_request_id, request, reply_queue, user_ref, live,
                   cancelled, destroyed,
                   forgotten, early>>

\* can_write_data with nothing to write: the handler is removed.
can_write_data_idle ==
    /\ Looping /\ writer_active /\ reply_queue = <<>>
    /\ pending_list # <<>> \/ request_queue = <<>>
    /\ writer_active' = FALSE
    /\ UNCHANGED <<next_request_id, request, queues, timer, user_ref, live,
                   frames, kernel, ghosts>>

-----------------------------------------------------------------------------
(* Answers and time-outs.                                                   *)

First(ids) == pending_list[CHOOSE i \in DOMAIN pending_list :
                 /\ pending_list[i] \in ids
                 /\ \A j \in 1 .. (i - 1) : pending_list[j] \notin ids]
SameCommand(id) ==
    {r \in InSeq(pending_list) : /\ request[r].opcode = request[id].opcode
                                 /\ request[r].index = request[id].index}
SameIndex(id) == InSeq(pending_list) \cap About(request[id].index)

\* Mutant: the opcode of the answer is not looked at.
CompletedByIndex(id) ==
    IF SameIndex(id) # {} THEN {First(SameIndex(id))} ELSE {}
\* The request request_complete takes the answer to command `id' for.
Completed(id) ==
    CASE SameCommand(id) # {} -> {First(SameCommand(id))}
      [] SameCommand(id) = {} /\ SameIndex(id) # {} -> {First(SameIndex(id))}
      [] OTHER -> {}

\* can_read_data on a Command Complete or Command Status event.  The kernel
\* answers commands with the same opcode and index in the order it got them.
request_complete(id) ==
    /\ Looping /\ id \in InSeq(kernel)
    /\ \E i \in DOMAIN kernel :
         /\ kernel[i] = id
         /\ \A j \in 1 .. (i - 1) :
              \/ request[kernel[j]].opcode # request[id].opcode
              \/ request[kernel[j]].index # request[id].index
    /\ \/ kernel' = Without(kernel, {id}) /\ UNCHANGED early
       \/ early < MaxEarly /\ early' = early + 1 /\ UNCHANGED kernel
    /\ UNCHANGED <<next_request_id, request, request_queue, reply_queue, timer,
                   user_ref, live, cancelled, destroyed,
                   forgotten>>
    /\ \/ \E r \in Completed(id) :
            /\ pending_list' = Without(pending_list, {r})
            /\ Call("complete", r,
                    CASE r = id -> "answer"
                      [] r # id /\ request[r].opcode = request[id].opcode -> "stale"
                      [] OTHER -> "foreign")
            /\ UNCHANGED writer_active
       \/ /\ Completed(id) = {}
          /\ UNCHANGED <<pending_list, frames, ended>>
          /\ wakeup_writer

\* Mutant: the request stays in pending_list.
request_timeout_keeps_pending(id) ==
    /\ Looping /\ id \in timer
    /\ timer' = timer \ {id}
    /\ Call("timeout", id, "timeout")
    /\ UNCHANGED <<next_request_id, request, queues, writer_active, user_ref,
                   live, kernel, cancelled, destroyed,
                   forgotten, early>>

request_timeout(id) ==
    /\ Looping /\ id \in timer
    /\ timer' = timer \ {id}
    /\ pending_list' = Without(pending_list, {id})
    /\ Call("timeout", id, "timeout")
    /\ UNCHANGED <<next_request_id, request, request_queue, reply_queue,
                   writer_active, user_ref, live, kernel, cancelled, destroyed,
                   forgotten, early>>

-----------------------------------------------------------------------------
(* Taking requests back.                                                    *)

\* Mutant: destroy_request leaves the timer of the request running.
destroy_request_keeps_timer(ids) ==
    /\ destroyed' = destroyed \cup ids
    /\ UNCHANGED timer
destroy_request(ids) ==
    /\ destroyed' = destroyed \cup ids
    /\ timer' = timer \ ids

\* queue_remove_if or queue_remove_all with destroy_request.
take_back(ids) ==
    /\ request_queue' = Without(request_queue, ids)
    /\ reply_queue' = Without(reply_queue, ids)
    /\ pending_list' = Without(pending_list, ids)

\* mgmt_cancel_all, as the user's call and when the last reference is dropped.
cancel_all ==
    /\ take_back(Queued \cup InSeq(pending_list))
    /\ cancelled' = cancelled \cup Queued \cup InSeq(pending_list)

MayCancel(ids) == UserRuns /\ (Abandons \/ ids \cap InSeq(kernel) = {})

mgmt_cancel(id) ==
    /\ MayCancel({id}) /\ id \in Queued \cup InSeq(pending_list)
    /\ take_back({id}) /\ destroy_request({id})
    /\ cancelled' = cancelled \cup {id}
    /\ wakeup_writer
    /\ UNCHANGED <<next_request_id, request, user_ref, live, frames, kernel, ended,
                   forgotten, early>>

\* mgmt_cancel_index wakes nobody.
mgmt_cancel_index(ix) ==
    LET ids == About(ix) \cap (Queued \cup InSeq(pending_list))
    IN /\ MayCancel(ids) /\ ids # {}
       /\ take_back(ids) /\ destroy_request(ids)
       /\ cancelled' = cancelled \cup ids
       /\ UNCHANGED <<next_request_id, request, writer_active, user_ref, live,
                      frames, kernel, ended,
                   forgotten, early>>

mgmt_cancel_all ==
    /\ MayCancel(InSeq(pending_list)) /\ Queued \cup InSeq(pending_list) # {}
    /\ cancel_all /\ destroy_request(Queued \cup InSeq(pending_list))
    /\ UNCHANGED <<next_request_id, request, writer_active, user_ref, live,
                   frames, kernel, ended,
                   forgotten, early>>

-----------------------------------------------------------------------------
(* Sending.                                                                 *)

NewRequest(kind, op, ix, t) ==
    /\ UserRuns /\ next_request_id <= MaxId /\ kind \in Kinds
    /\ request' = [request EXCEPT ![next_request_id] =
         [kind |-> kind, opcode |-> op, index |-> ix, timeout |-> t]]
    /\ next_request_id' = next_request_id + 1
    /\ UNCHANGED <<user_ref, live, cancelled, destroyed,
                   forgotten, early>>

\* mgmt_send_timeout; mgmt_send and mgmt_send_tlv have no time-out.
mgmt_send(op, ix, t) ==
    /\ NewRequest("send", op, ix, t)
    /\ request_queue' = Append(request_queue, next_request_id)
    /\ UNCHANGED <<reply_queue, pending_list, timer, frames, kernel, ended>>
    /\ wakeup_writer

\* mgmt_reply_timeout and mgmt_reply
mgmt_reply(op, ix, t) ==
    /\ NewRequest("reply", op, ix, t)
    /\ reply_queue' = Append(reply_queue, next_request_id)
    /\ UNCHANGED <<request_queue, pending_list, timer, frames, kernel, ended>>
    /\ wakeup_writer

\* mgmt_send_nowait writes at once, whatever is pending.
mgmt_send_nowait(op, ix) ==
    /\ NewRequest("nowait", op, ix, FALSE)
    /\ \/ send_request_ok(next_request_id, FALSE)
       \/ send_request_fails(next_request_id, "nowait")
    /\ UNCHANGED <<request_queue, reply_queue, writer_active>>

-----------------------------------------------------------------------------
(* The end of a callback and the end of the client.                         *)

\* mgmt_unref of the last reference: whatever is queued is destroyed unheard.
last_unref(others) ==
    /\ live' = FALSE /\ writer_active' = FALSE
    /\ cancel_all
    /\ destroy_request(Queued \cup InSeq(pending_list) \cup others)

\* Mutant: request_complete does not wake the writer.
end_callback_silent ==
    LET top == frames[Len(frames)]
    IN /\ frames # <<>>
       /\ frames' = SubSeq(frames, 1, Len(frames) - 1)
       /\ destroy_request({top.id})
       /\ UNCHANGED <<next_request_id, request, queues, writer_active, user_ref,
                      live, kernel, ended, cancelled, forgotten, early>>

\* The innermost callback returns and destroy_request follows.
end_callback ==
    LET top == frames[Len(frames)]
    IN /\ frames # <<>>
       /\ frames' = SubSeq(frames, 1, Len(frames) - 1)
       /\ UNCHANGED <<next_request_id, request, user_ref, kernel, ended,
                   forgotten, early>>
       /\ \/ /\ top.fn = "complete" /\ ~user_ref
             /\ last_unref({top.id})
          \/ /\ top.fn = "complete" => user_ref
             /\ destroy_request({top.id})
             /\ UNCHANGED <<queues, live, cancelled>>
             /\ IF top.fn = "complete" THEN wakeup_writer
                                       ELSE UNCHANGED writer_active

\* mgmt_unref by the user.
mgmt_unref ==
    /\ UserRuns /\ user_ref' = FALSE
    /\ UNCHANGED <<next_request_id, request, frames, kernel, ended,
                   forgotten, early>>
    /\ \/ /\ ~Guarded
          /\ last_unref({})
       \/ /\ Guarded
          /\ UNCHANGED <<queues, timer, writer_active, live, cancelled, destroyed>>

\* The kernel, not under src/: it "forgets to send a command complete response".
kernel_forgets(id) ==
    /\ Forgets /\ id \in InSeq(kernel) /\ request[id].timeout
    /\ kernel' = Without(kernel, {id}) /\ forgotten' = TRUE
    /\ UNCHANGED <<next_request_id, request, queues, writer_active, timer,
                   user_ref, live, frames, ended, cancelled, destroyed, early>>

-----------------------------------------------------------------------------
Init ==
    /\ next_request_id = 1 /\ request = [id \in Id |-> NoRequest]
    /\ request_queue = <<>> /\ reply_queue = <<>> /\ pending_list = <<>>
    /\ writer_active = FALSE /\ timer = {}
    /\ user_ref = TRUE /\ live = TRUE /\ frames = <<>> /\ kernel = <<>>
    /\ ended = [id \in Id |-> "no"] /\ cancelled = {} /\ destroyed = {}
    /\ forgotten = FALSE /\ early = 0

Writer == can_write_data_reply \/ can_write_data_command \/ can_write_data_idle
User ==
    \/ \E op \in Opcode, ix \in Index, t \in Timers :
         mgmt_send(op, ix, t) \/ mgmt_reply(op, ix, t)
    \/ \E op \in Opcode, ix \in Index : mgmt_send_nowait(op, ix)
    \/ \E id \in Id : mgmt_cancel(id)
    \/ \E ix \in Index : mgmt_cancel_index(ix)
    \/ mgmt_cancel_all \/ mgmt_unref

Next ==
    \/ Writer \/ end_callback \/ User
    \/ \E id \in Id : request_complete(id) \/ request_timeout(id) \/ kernel_forgets(id)

Spec == Init /\ [][Next]_vars

\* The main loop serves what stays ready, callbacks return, and the kernel
\* answers what it does not forget.
Fairness ==
    /\ WF_vars(Writer) /\ WF_vars(end_callback)
    /\ WF_vars(\E id \in Id : request_complete(id))
    /\ WF_vars(\E id \in Id : request_timeout(id))

FairSpec == Spec /\ Fairness

\* Constraint of the run: opcodes are interchangeable, so the first request is
\* about a given one of them.
FirstOpcode == request[1] # NoRequest => request[1].opcode = CHOOSE op \in Opcode : TRUE

-----------------------------------------------------------------------------
(* Properties.                                                              *)

\* Types; a queue holds a request once.
TypeOK ==
    /\ next_request_id \in 1 .. (MaxId + 1)
    /\ request \in [Id -> Request \cup {NoRequest}]
    /\ \A q \in {request_queue, reply_queue, pending_list, kernel} :
         q \in Seq(Id) /\ NoRepeat(q)
    /\ frames \in Seq([fn : {"write", "nowait", "complete", "timeout"}, id : Id])
    /\ {writer_active, user_ref, live} \subseteq BOOLEAN
    /\ timer \cup cancelled \cup destroyed \subseteq Id
    /\ forgotten \in BOOLEAN /\ early \in 0 .. MaxEarly
    /\ ended \in [Id -> {"no", "answer", "stale", "foreign", "timeout", "failed", "twice"}]

Running == {frames[i].id : i \in DOMAIN frames}
Held == [request |-> InSeq(request_queue), reply |-> InSeq(reply_queue),
         pending |-> InSeq(pending_list), running |-> Running]
Owners(id) == {o \in DOMAIN Held : id \in Held[o]}

\* No request is leaked or freed while in use: it is in exactly one queue or
\* in the hands of the code that runs its callback until destroy_request, and
\* nowhere afterwards; and no timer outlives its request, which request_timeout
\* would dereference (send_request, request_complete, request_timeout,
\* mgmt_cancel*, mgmt_unref).
OneOwner ==
    /\ \A id \in Id :
         Cardinality(Owners(id))
           = IF id < next_request_id /\ id \notin destroyed THEN 1 ELSE 0
    /\ timer \subseteq InSeq(pending_list) \cup Running

\* The callback of a request runs at most once, and not at all once mgmt_cancel
\* has found the request: a time-out, a late answer, a failed write and a cancel
\* from inside another request's callback may come in any order.
ToldAtMostOnce ==
    \A id \in Id : ended[id] # "twice" /\ (id \in cancelled => ended[id] = "no")

\* A callback is given the answer to its own command as long as no command was
\* given up, by a time-out, a cancel or the kernel, and as long as the kernel
\* answers each command once (request_complete).
AnswersMatch ==
    cancelled = {} /\ ~forgotten /\ early = 0 /\ (\A id \in Id : ended[id] # "timeout")
      => \A id \in Id : ended[id] \notin {"stale", "foreign"}

\* "the opcode to identify the command that completed" (doc/mgmt.rst on Command
\* Complete): no callback is given the outcome of a command with another opcode.
\* The code does not keep it once a command was given up (README, section 5).
OpcodeIdentifies == \A id \in Id : ended[id] # "foreign"

\* Every request ends, answered, timed out, failed to be written or taken back,
\* unless the kernel has dropped one without an answer: who waits in
\* request_queue relies on the writer being woken by the end of each request
\* before it (request_timeout does not, README, section 5).
EveryRequestEnds ==
    \A id \in Id : id < next_request_id ~> (id \in destroyed \/ forgotten)

=============================================================================
