------------------------------ MODULE Approval ------------------------------
(***************************************************************************)
(* The approval gate of one soul: soul/approval.rs, the response cell of   *)
(* wire/types.rs, and the piping task that agent_loop starts with every    *)
(* step and aborts at its end (soul/kimisoul.rs).                          *)
(*                                                                         *)
(* Three kinds of task interleave here.                                    *)
(*                                                                         *)
(*   tool tasks    one per element of Requests: a tool that asks for       *)
(*                 approval once, Approval::request;                       *)
(*   piping tasks  1 .. MaxSteps, the n-th belongs to the n-th step: takes *)
(*                 requests from the queue, shows a copy to the client and *)
(*                 carries the answer back;                                *)
(*   the turn      begins and ends steps, or is cancelled.                 *)
(*                                                                         *)
(* The client's side is one action, Answer: which response comes back over *)
(* the wire and when is the environment's choice.                          *)
(***************************************************************************)
EXTENDS Naturals, Sequences

CONSTANTS
  Requests,       \* calls of Approval::request, one per tool task
  Actions,        \* the action names that tools ask approval for
  MaxTurns,       \* bound: turns begun
  MaxSteps,       \* bound: steps begun, so also piping tasks
  Answers,        \* the responses the client may give
  MayCancel,      \* the client may cancel the turn
  MayShare,       \* subagents share the session's approvals
  PatientClient,  \* the client answers only after both waiters are parked
  NoRequest       \* not an element of Requests

Responses == {"approve", "approve_for_session", "reject"}
Unset     == "unset"
Pipers    == 1 .. MaxSteps

ASSUME ApprovalAssumption ==
  /\ MaxTurns \in Nat
  /\ MaxSteps \in Nat
  /\ Answers \subseteq Responses
  /\ {MayCancel, MayShare, PatientClient} \subseteq BOOLEAN
  /\ NoRequest \notin Requests

VARIABLES
  yolo,         \* ApprovalState.yolo
  autoApprove,  \* ApprovalState.auto_approve_actions
  queue,        \* Approval.request_queue
  registered,   \* the keys of Approval.requests
  holder,       \* the piping task inside Queue::get's receiver lock, or 0
  tool,         \* where each tool task stands
  stepOf,       \* the step that spawned the tool, 0 before
  action,       \* the action it asks for
  value,        \* the response cell the tool waits on
  verdict,      \* what Approval::request returned
  piper,        \* where each piping task stands
  piperTurn,    \* the turn whose wire the task carries (CURRENT_WIRE)
  req,          \* the request a piping task forwards, or forwarded last
  reply,        \* the response cell of its copy, wire_request
  shown,        \* whether that copy went to a wire that was still open
  aborted,      \* JoinHandle::abort was called
  turn, phase, steps,
  said,         \* history: the answers the client gave to each request
  excused,      \* history: the request was made under yolo
  shared        \* history: the actions that a subagent's client approved

settings == <<yolo, autoApprove, shared>>
toolVars == <<tool, stepOf, action, value, verdict, excused>>
pipeVars == <<piper, piperTurn, req, reply, shown, aborted, holder>>
turnVars == <<turn, phase, steps>>
vars == <<settings, toolVars, pipeVars, turnVars, queue, registered, said>>

\* A piping task that waits for the client, and a tool that waits for it.
Awaiting == {"wait", "park", "asleep"}
Waiting  == {"put"} \cup Awaiting

Live == phase # "none"

\* The actions that the client approved for the session, here or in a subagent.
SessionGrants ==
  shared \cup {action[r] : r \in {q \in Requests : "approve_for_session" \in said[q]}}

Init ==
  /\ yolo \in BOOLEAN
  /\ autoApprove = {} /\ shared = {}
  /\ queue = <<>> /\ registered = {} /\ holder = 0
  /\ tool = [r \in Requests |-> "idle"]
  /\ stepOf = [r \in Requests |-> 0]
  /\ action \in [Requests -> Actions]
  /\ value = [r \in Requests |-> Unset]
  /\ verdict = [r \in Requests |-> "none"]
  /\ excused = [r \in Requests |-> FALSE]
  /\ said = [r \in Requests |-> {}]
  /\ piper = [p \in Pipers |-> "unborn"]
  /\ piperTurn = [p \in Pipers |-> 0]
  /\ req = [p \in Pipers |-> NoRequest]
  /\ reply = [p \in Pipers |-> Unset]
  /\ shown = [p \in Pipers |-> FALSE]
  /\ aborted = [p \in Pipers |-> FALSE]
  /\ turn = 0 /\ phase = "none" /\ steps = 0

-----------------------------------------------------------------------------
(* The turn.                                                               *)

BeginTurn ==
  /\ phase = "none" /\ turn < MaxTurns
  /\ turn' = turn + 1 /\ phase' = "between"
  /\ UNCHANGED <<settings, toolVars, pipeVars, steps, queue, registered, said>>

\* The /yolo command runs as a turn of its own, before any step of it.
ToggleYolo ==
  /\ phase = "between"
  /\ \A p \in Pipers : piperTurn[p] # turn
  /\ yolo' = ~yolo
  /\ UNCHANGED <<autoApprove, shared, toolVars, pipeVars, turnVars, queue, registered, said>>

BeginStep ==
  /\ phase = "between" /\ steps < MaxSteps
  /\ steps' = steps + 1 /\ phase' = "running"
  /\ piper' = [piper EXCEPT ![steps + 1] = "fetch"]
  /\ piperTurn' = [piperTurn EXCEPT ![steps + 1] = turn]
  /\ UNCHANGED <<settings, toolVars, req, reply, shown, aborted, holder, turn,
                 queue, registered, said>>

\* The model calls a tool: Toolset::handle spawns its task.
SpawnTool(r) ==
  /\ phase = "running" /\ tool[r] = "idle"
  /\ tool' = [tool EXCEPT ![r] = "ready"]
  /\ stepOf' = [stepOf EXCEPT ![r] = steps]
  /\ UNCHANGED <<settings, action, value, verdict, excused, pipeVars, turnVars,
                 queue, registered, said>>

StepToolsDone == \A r \in Requests : stepOf[r] = steps => tool[r] = "done"

\* A step that succeeds has all its tool results, and one that fails waits for its
\* tools too: they hold the sender of the channel that forward_task drains before
\* step() returns. stop_approval_task then aborts the piping task.
EndStep ==
  /\ phase = "running" /\ StepToolsDone
  /\ phase' = "stopping"
  /\ aborted' = [aborted EXCEPT ![steps] = TRUE]
  /\ UNCHANGED <<settings, toolVars, piper, piperTurn, req, reply, shown, holder,
                 turn, steps, queue, registered, said>>

\* stop_approval_task awaits the aborted task before the loop goes on.
StepStopped ==
  /\ phase = "stopping" /\ piper[steps] = "dead"
  /\ phase' = "between"
  /\ UNCHANGED <<settings, toolVars, pipeVars, turn, steps, queue, registered, said>>

EndTurn ==
  /\ phase = "between"
  /\ phase' = "none"
  /\ UNCHANGED <<settings, toolVars, pipeVars, turn, steps, queue, registered, said>>

\* run_soul stops polling the soul and shuts its wire down. The piping task's
\* JoinHandle is dropped with the soul's future, which detaches the task.
Cancel ==
  /\ MayCancel /\ Live
  /\ phase' = "none"
  /\ UNCHANGED <<settings, toolVars, pipeVars, turn, steps, queue, registered, said>>

-----------------------------------------------------------------------------
(* A tool task: Approval::request.                                         *)

Skip(r) ==
  /\ tool[r] = "ready"
  /\ yolo \/ action[r] \in autoApprove
  /\ tool' = [tool EXCEPT ![r] = "done"]
  /\ verdict' = [verdict EXCEPT ![r] = "approved"]
  /\ excused' = [excused EXCEPT ![r] = yolo]
  /\ UNCHANGED <<settings, stepOf, action, value, pipeVars, turnVars, queue, registered, said>>

Put(r) ==
  /\ tool[r] = "ready" /\ ~yolo /\ action[r] \notin autoApprove
  /\ tool' = [tool EXCEPT ![r] = "put"]
  /\ queue' = Append(queue, r)
  /\ UNCHANGED <<settings, stepOf, action, value, verdict, excused, pipeVars,
                 turnVars, registered, said>>

\* The map learns of the request only after the queue has it.
Register(r) ==
  /\ tool[r] = "put"
  /\ tool' = [tool EXCEPT ![r] = "wait"]
  /\ registered' = registered \cup {r}
  /\ UNCHANGED <<settings, stepOf, action, value, verdict, excused, pipeVars,
                 turnVars, queue, said>>

\* PendingResponse::wait: look at the cell, unlock it, and only then become a
\* waiter of the Notify, whose notify_waiters keeps nothing for latecomers.
FindUnset(r) ==
  /\ tool[r] = "wait" /\ value[r] = Unset
  /\ tool' = [tool EXCEPT ![r] = "park"]
  /\ UNCHANGED <<settings, stepOf, action, value, verdict, excused, pipeVars,
                 turnVars, queue, registered, said>>

FallAsleep(r) ==
  /\ tool[r] = "park"
  /\ tool' = [tool EXCEPT ![r] = "asleep"]
  /\ UNCHANGED <<settings, stepOf, action, value, verdict, excused, pipeVars,
                 turnVars, queue, registered, said>>

Conclude(r) ==
  /\ tool[r] = "wait" /\ value[r] # Unset
  /\ tool' = [tool EXCEPT ![r] = "done"]
  /\ verdict' = [verdict EXCEPT ![r] = IF value[r] = "reject" THEN "rejected" ELSE "approved"]
  /\ autoApprove' = IF value[r] = "approve_for_session"
                    THEN autoApprove \cup {action[r]} ELSE autoApprove
  /\ UNCHANGED <<yolo, shared, stepOf, action, value, excused, pipeVars, turnVars,
                 queue, registered, said>>

-----------------------------------------------------------------------------
(* A piping task: spawn_approval_task and Approval::fetch_request.         *)

Lock(p) ==
  /\ piper[p] = "fetch" /\ holder = 0
  /\ piper' = [piper EXCEPT ![p] = "recv"]
  /\ holder' = p
  /\ UNCHANGED <<settings, toolVars, piperTurn, req, reply, shown, aborted,
                 turnVars, queue, registered, said>>

\* Approval::resolve_request: a request that is not in the map stays as it is.
Resolve(r, response) ==
  /\ registered' = registered \ {r}
  /\ value' = IF r \in registered THEN [value EXCEPT ![r] = response] ELSE value
  /\ tool' = IF r \in registered /\ tool[r] = "asleep"
             THEN [tool EXCEPT ![r] = "wait"] ELSE tool

\* Faulty variant: the action is not looked up.
AutoApprove_Any(p) ==
  /\ piper[p] = "recv" /\ queue # <<>>
  /\ Resolve(Head(queue), "approve")
  /\ queue' = Tail(queue)
  /\ piper' = [piper EXCEPT ![p] = "fetch"]
  /\ holder' = 0
  /\ UNCHANGED <<settings, stepOf, action, verdict, excused, piperTurn, req, reply,
                 shown, aborted, turnVars, said>>

AutoApprove(p) ==
  /\ piper[p] = "recv" /\ queue # <<>> /\ action[Head(queue)] \in autoApprove
  /\ Resolve(Head(queue), "approve")
  /\ queue' = Tail(queue)
  /\ piper' = [piper EXCEPT ![p] = "fetch"]
  /\ holder' = 0
  /\ UNCHANGED <<settings, stepOf, action, verdict, excused, piperTurn, req, reply,
                 shown, aborted, turnVars, said>>

\* Faulty variant: the request is read but not taken.
Forward_Peek(p) ==
  /\ piper[p] = "recv" /\ queue # <<>> /\ action[Head(queue)] \notin autoApprove
  /\ req' = [req EXCEPT ![p] = Head(queue)]
  /\ reply' = [reply EXCEPT ![p] = Unset]
  /\ shown' = [shown EXCEPT ![p] = Live /\ piperTurn[p] = turn]
  /\ piper' = [piper EXCEPT ![p] = "wait"]
  /\ holder' = 0
  /\ UNCHANGED <<settings, toolVars, piperTurn, aborted, turnVars, queue, registered, said>>

\* wire_send drops what it is given once the task's wire has been shut down.
Forward(p) ==
  /\ piper[p] = "recv" /\ queue # <<>> /\ action[Head(queue)] \notin autoApprove
  /\ req' = [req EXCEPT ![p] = Head(queue)]
  /\ reply' = [reply EXCEPT ![p] = Unset]
  /\ shown' = [shown EXCEPT ![p] = Live /\ piperTurn[p] = turn]
  /\ queue' = Tail(queue)
  /\ piper' = [piper EXCEPT ![p] = "wait"]
  /\ holder' = 0
  /\ UNCHANGED <<settings, toolVars, piperTurn, aborted, turnVars, registered, said>>

FindNoReply(p) ==
  /\ piper[p] = "wait" /\ reply[p] = Unset
  /\ piper' = [piper EXCEPT ![p] = "park"]
  /\ UNCHANGED <<settings, toolVars, piperTurn, req, reply, shown, aborted, holder,
                 turnVars, queue, registered, said>>

AwaitReply(p) ==
  /\ piper[p] = "park"
  /\ piper' = [piper EXCEPT ![p] = "asleep"]
  /\ UNCHANGED <<settings, toolVars, piperTurn, req, reply, shown, aborted, holder,
                 turnVars, queue, registered, said>>

\* The answer goes to the request itself, and from there to the session.
Relay(p) ==
  /\ piper[p] = "wait" /\ reply[p] # Unset
  /\ Resolve(req[p], reply[p])
  /\ autoApprove' = IF req[p] \in registered /\ reply[p] = "approve_for_session"
                    THEN autoApprove \cup {action[req[p]]} ELSE autoApprove
  /\ piper' = [piper EXCEPT ![p] = "fetch"]
  /\ UNCHANGED <<yolo, shared, stepOf, action, verdict, excused, piperTurn, req, reply,
                 shown, aborted, holder, turnVars, queue, said>>

\* Faulty variant: an aborted receive has already taken an element.
Die_Taking(p) ==
  /\ aborted[p] /\ piper[p] \in {"fetch", "recv", "wait", "asleep"}
  /\ piper' = [piper EXCEPT ![p] = "dead"]
  /\ holder' = IF holder = p THEN 0 ELSE holder
  /\ queue' = IF piper[p] = "recv" /\ queue # <<>> THEN Tail(queue) ELSE queue
  /\ UNCHANGED <<settings, toolVars, piperTurn, req, reply, shown, aborted,
                 turnVars, registered, said>>

\* An abort takes effect where the task is suspended, not between the check of
\* the cell and the await.
Die(p) ==
  /\ aborted[p] /\ piper[p] \in {"fetch", "recv", "wait", "asleep"}
  /\ piper' = [piper EXCEPT ![p] = "dead"]
  /\ holder' = IF holder = p THEN 0 ELSE holder
  /\ UNCHANGED <<settings, toolVars, piperTurn, req, reply, shown, aborted,
                 turnVars, queue, registered, said>>

-----------------------------------------------------------------------------
(* The client and the subagents.                                           *)

\* The answer may come after the turn has ended: the wire server keeps the
\* request it showed until it is answered.
Answer(p, response) ==
  /\ piper[p] \in Awaiting /\ shown[p] /\ reply[p] = Unset
  /\ PatientClient => piper[p] = "asleep" /\ tool[req[p]] = "asleep"
  /\ reply' = [reply EXCEPT ![p] = response]
  /\ piper' = [piper EXCEPT ![p] = IF @ = "asleep" THEN "wait" ELSE @]
  /\ said' = [said EXCEPT ![req[p]] = @ \cup {response}]
  /\ UNCHANGED <<settings, toolVars, piperTurn, req, shown, aborted, holder,
                 turnVars, queue, registered>>

\* Approval::share: a subagent has its own queue and map but this set.
SubagentApproves(a) ==
  /\ MayShare
  /\ autoApprove' = autoApprove \cup {a}
  /\ shared' = shared \cup {a}
  /\ UNCHANGED <<yolo, toolVars, pipeVars, turnVars, queue, registered, said>>

-----------------------------------------------------------------------------
Turn == BeginTurn \/ ToggleYolo \/ BeginStep \/ EndStep
        \/ StepStopped \/ EndTurn \/ Cancel

Ask(r) == Skip(r) \/ Put(r) \/ Register(r) \/ FindUnset(r) \/ FallAsleep(r) \/ Conclude(r)

Pipe(p) == Lock(p) \/ AutoApprove(p) \/ Forward(p) \/ FindNoReply(p) \/ AwaitReply(p)
           \/ Relay(p) \/ Die(p)

Next ==
  \/ Turn
  \/ \E r \in Requests : SpawnTool(r) \/ Ask(r)
  \/ \E p \in Pipers : Pipe(p)
  \/ \E p \in Pipers, response \in Answers : Answer(p, response)
  \/ \E a \in Actions : SubagentApproves(a)

Spec == Init /\ [][Next]_vars

\* The runtime polls every task that is ready, and a user who is asked answers.
\* Beginning a turn, calling tools and cancelling are never required.
Fairness ==
  /\ \A r \in Requests : WF_vars(Ask(r))
  /\ \A p \in Pipers : WF_vars(Pipe(p))
  /\ \A p \in Pipers : WF_vars(\E response \in Answers : Answer(p, response))
  /\ WF_vars(StepStopped)

FairSpec == Spec /\ Fairness

-----------------------------------------------------------------------------
TypeOK ==
  /\ yolo \in BOOLEAN
  /\ autoApprove \subseteq Actions /\ shared \subseteq Actions
  /\ queue \in Seq(Requests)
  /\ registered \subseteq Requests
  /\ holder \in 0 .. MaxSteps
  /\ tool \in [Requests -> {"idle", "ready", "done"} \cup Waiting]
  /\ stepOf \in [Requests -> 0 .. MaxSteps]
  /\ action \in [Requests -> Actions]
  /\ value \in [Requests -> Responses \cup {Unset}]
  /\ verdict \in [Requests -> {"none", "approved", "rejected"}]
  /\ excused \in [Requests -> BOOLEAN]
  /\ said \in [Requests -> SUBSET Responses]
  /\ piper \in [Pipers -> {"unborn", "fetch", "recv", "dead"} \cup Awaiting]
  /\ piperTurn \in [Pipers -> 0 .. MaxTurns]
  /\ req \in [Pipers -> Requests \cup {NoRequest}]
  /\ reply \in [Pipers -> Responses \cup {Unset}]
  /\ shown \in [Pipers -> BOOLEAN]
  /\ aborted \in [Pipers -> BOOLEAN]
  /\ turn \in 0 .. MaxTurns
  /\ phase \in {"none", "between", "running", "stopping"}
  /\ steps \in 0 .. MaxSteps

\* No tool runs on an approval nobody gave, and none is refused unless the
\* client refused that very call: whatever interleaving of several tools,
\* piping tasks of dead turns and session approvals produced the verdict.
\* (Approval::request and resolve_request, soul/approval.rs:71-185)
VerdictIsTheClients ==
  \A r \in Requests :
    /\ verdict[r] = "approved" =>
         \/ excused[r]
         \/ said[r] \cap {"approve", "approve_for_session"} # {}
         \/ action[r] \in SessionGrants
    /\ verdict[r] = "rejected" => "reject" \in said[r]

\* The client is never asked twice about one tool call: a request is in the
\* queue once, or with one piping task, and never in both places, although
\* several tasks may serve one queue. (Queue::get, utils/aioqueue.rs:55-64)
AskedOnce ==
  /\ \A i, j \in 1 .. Len(queue) : queue[i] = queue[j] => i = j
  /\ \A p, q \in Pipers :
       piper[p] \in Awaiting /\ piper[q] \in Awaiting /\ req[p] = req[q] => p = q
  /\ \A i \in 1 .. Len(queue), p \in Pipers :
       piper[p] \in Awaiting => queue[i] # req[p]

\* A tool still waiting for its first answer is in the queue, with a piping
\* task, or lost in one of three ways: its piping task was aborted holding it,
\* or the client's answer, or an automatic approval, came before the map knew
\* of the request. No other way loses a request, and while a step runs its
\* piping task serves the queue.
\* (soul/approval.rs:107-114, 144-153, soul/kimisoul.rs:1137-1173)
Accounted ==
  /\ \A r \in Requests : tool[r] \in Waiting /\ value[r] = Unset =>
       \/ \E i \in 1 .. Len(queue) : queue[i] = r
       \/ \E p \in Pipers : req[p] = r /\ piper[p] \in Awaiting \cup {"dead"}
       \/ said[r] # {}
       \/ action[r] \in autoApprove
  /\ phase = "running" => piper[steps] \in {"fetch", "recv"} \cup Awaiting

\* While the task that began a turn's step is running, the requests of that
\* step's tools are shown to the client of that turn, never sent to the wire of
\* a turn that is over. (spawn_approval_task, soul/kimisoul.rs:1149-1173)
IssuedOverWire ==
  \A p \in Pipers :
    piper[p] \in Awaiting /\ phase = "running" /\ stepOf[req[p]] = steps => shown[p]

\* Every approval that a tool asks for is settled in the end, and the client is
\* not left waiting for a tool: in turns that nobody cancels, when answers
\* name one call at a time and take longer than a task needs
\* to park itself.
EveryRequestSettles == \A r \in Requests : tool[r] = "ready" ~> tool[r] = "done"

=============================================================================
