----------------------------- MODULE SoulContext -----------------------------
(***************************************************************************)
(* The conversation of one soul: the agent loop of soul/kimisoul.rs over   *)
(* the Context of soul/context.rs, which keeps the history in memory and   *)
(* as events in SQLite (storage/events.rs), and the D-Mails of             *)
(* soul/denwarenji.rs.                                                     *)
(*                                                                         *)
(* The soul is one future, so its state is a label pc that names the       *)
(* storage operation, model call or tools it awaits. Every storage         *)
(* operation is one transaction on a blocking thread. An action stands for *)
(* the completion of what pc names and the code up to the next await.      *)
(* Around the soul: the client cancels the turn between any two of these   *)
(* steps (a transaction already issued still commits, now or later, and    *)
(* tools go on running), storage and the model fail, and the process       *)
(* crashes and restores the session.                                       *)
(***************************************************************************)
EXTENDS Naturals, Sequences, FiniteSets

CONSTANTS
  MaxTurns,   \* bound: prompts and slash commands
  MaxSteps,   \* max_steps_per_turn
  WithMark,   \* checkpoint_with_user_message: the agent has the SendDMail tool
  Calls,      \* how many tools an answer may call
  Usages,     \* the usage of a model call: None, or <<input, total>> tokens
  Outcomes,   \* how the tools of a step can end
  FailAt,     \* the labels where the awaited operation may fail
  CancelAt,   \* the labels where the client may cancel the turn
  MaySlow,    \* an issued transaction may commit after the next turn has begun
  MayCrash,   \* the process may crash
  None

\* What a token count says: whether token_count + reserved >= max_context_size.
Fits == 0
Long == 1

\* A mark is the message "CHECKPOINT n"; a call message counts its tool calls.
Message == [role : {"user", "mark", "said", "call", "tool", "summary", "dmail"}, n : Nat]
Event   == [kind : {"checkpoint", "usage"}, body : Nat] \cup [kind : {"message"}, body : Message]

Writes == {"checkpoint", "mark", "user", "init", "usageIn", "answer", "usageTotal",
           "results", "clear", "summary", "truncate", "dmail"}
Labels == Writes \cup {"down", "idle", "loop", "compact", "model", "tools", "settle",
                       "find", "restore"}

ASSUME SoulContextAssumption ==
  /\ MaxTurns \in Nat /\ MaxSteps \in Nat
  /\ Calls \subseteq Nat
  /\ Usages \subseteq {None} \cup ({Fits, Long} \X {Fits, Long})
  /\ Outcomes \subseteq {"ok", "rejected", "unsupported"}
  /\ FailAt \cup CancelAt \subseteq Labels \ {"idle", "down"}
  /\ {WithMark, MaySlow, MayCrash} \subseteq BOOLEAN
  /\ None \notin Nat

VARIABLES
  stored,      \* the context events of the session, in the order of seq
  history,     \* Context.history
  tokens,      \* Context.token_count
  nextId,      \* Context.next_checkpoint_id
  pc,          \* what the soul awaits
  ret,         \* where checkpoint() or clear() returns to
  turn, step,  \* prompts so far, and step_no, 0 outside the loop
  answer,      \* the model's answer: the tools it calls, and its usage
  outcome,     \* how its tools ended
  compacted,   \* what compaction made of the history
  target,      \* the checkpoint of the D-Mail being delivered
  cut,         \* how many events the revert keeps
  pending,     \* DenwaRenji.pending
  nCheckpoints,\* DenwaRenji.n_checkpoints
  late,        \* transactions issued by cancelled turns, not yet committed
  stray,       \* a tool of a cancelled turn is still running
  torn,        \* history: a cancel left a transaction whose effect memory lacks
  sentIn,      \* history: the turn and step of the last accepted D-Mail
  seen         \* history: what the model saw before the D-Mail's checkpoint, None
               \* when it saw several under that number

memory  == <<history, tokens, nextId>>
scratch == <<answer, outcome, compacted, target, cut>>
denwa   == <<pending, nCheckpoints, sentIn, seen>>
around  == <<late, stray, torn>>
vars == <<stored, memory, pc, ret, turn, step, scratch, denwa, around>>

-----------------------------------------------------------------------------
(* Events and what Context::restore makes of them.                         *)

Row(kind, body) == [kind |-> kind, body |-> body]
Rows(messages)  == [i \in 1 .. Len(messages) |-> Row("message", messages[i])]
Text(role, n)   == [role |-> role, n |-> n]

Where(kind, s) == {i \in 1 .. Len(s) : s[i].kind = kind}

\* The last event of a kind decides, and the messages keep their order.
Greatest(I)     == CHOOSE i \in I : \A j \in I : j <= i
LastOf(kind, s) == s[Greatest(Where(kind, s))].body
Nth(I, k)       == CHOOSE i \in I : Cardinality({j \in I : j <= i}) = k

Messages(s) ==
  [k \in 1 .. Cardinality(Where("message", s)) |-> s[Nth(Where("message", s), k)].body]
TokenCount(s) == IF Where("usage", s) = {} THEN Fits ELSE LastOf("usage", s)

\* Faulty variant: the next id is the number of checkpoints.
Checkpoints_Count(s) == Cardinality(Where("checkpoint", s))
Checkpoints(s) == IF Where("checkpoint", s) = {} THEN 0 ELSE LastOf("checkpoint", s) + 1

\* The messages that the storage operation named by pc appends.
Spoken ==
  CASE pc = "mark"    -> <<Text("mark", nextId - 1)>>
    [] pc \in {"user", "init"} -> <<Text("user", 0)>>
    [] pc = "answer"  -> <<Text(IF answer.calls > 0 THEN "call" ELSE "said", answer.calls)>>
    [] pc = "results" -> [i \in 1 .. answer.calls |-> Text("tool", 0)]
    [] pc = "summary" -> compacted
    [] pc = "dmail"   -> <<Text("dmail", 0)>>
    [] OTHER          -> <<>>

\* Its transaction: how many events it keeps, None for all, and what it adds.
Issued ==
  [keep |-> CASE pc = "clear" -> 0 [] pc = "truncate" -> cut [] OTHER -> None,
   put  |-> CASE pc = "checkpoint" -> <<Row("checkpoint", nextId - 1)>>
              [] pc = "usageIn"    -> <<Row("usage", answer.usage[1])>>
              [] pc = "usageTotal" -> <<Row("usage", answer.usage[2])>>
              [] OTHER             -> Rows(Spoken)]

Committed(op, s) ==
  IF op.keep = None THEN s \o op.put
  ELSE SubSeq(s, 1, IF op.keep < Len(s) THEN op.keep ELSE Len(s))

Commit == stored' = Committed(Issued, stored)

\* Tools run from the end of the model's answer.
ToolsRun == pc \in {"usageIn", "tools"} /\ answer.calls > 0

Idle == [calls |-> 0, usage |-> None]

Init ==
  /\ stored = <<>> /\ history = <<>> /\ tokens = Fits /\ nextId = 0
  /\ pc = "idle" /\ ret = "idle" /\ turn = 0 /\ step = 0
  /\ answer = Idle /\ outcome = "ok" /\ compacted = <<>>
  /\ target = 0 /\ cut = 0
  /\ pending = None /\ nCheckpoints = 0
  /\ late = {} /\ stray = FALSE /\ torn = FALSE
  /\ sentIn = <<0, 0>> /\ seen = <<>>

-----------------------------------------------------------------------------
(* Context::checkpoint, which takes its id before it stores anything.      *)

EnterCheckpoint(count, then) ==
  /\ nextId' = count + 1
  /\ pc' = "checkpoint" /\ ret' = then

\* The agent loop tells DenwaRenji how many checkpoints there are.
LeaveCheckpoint ==
  /\ pc' = ret
  /\ nCheckpoints' = IF ret = "model" THEN nextId ELSE nCheckpoints

WriteCheckpoint ==
  /\ pc = "checkpoint"
  /\ Commit
  /\ IF WithMark THEN pc' = "mark" /\ UNCHANGED nCheckpoints ELSE LeaveCheckpoint
  /\ UNCHANGED <<memory, ret, turn, step, scratch, pending, sentIn, seen, around>>

WriteMark ==
  /\ pc = "mark"
  /\ Commit
  /\ history' = history \o Spoken
  /\ LeaveCheckpoint
  /\ UNCHANGED <<tokens, nextId, ret, turn, step, scratch, pending, sentIn, seen, around>>

-----------------------------------------------------------------------------
(* What the client asks for, when no turn is running.                      *)

Begin ==
  /\ pc = "idle" /\ turn < MaxTurns /\ (MaySlow \/ late = {})
  /\ turn' = turn + 1 /\ step' = 0
  /\ UNCHANGED <<stored, history, tokens, scratch, denwa, around>>

\* KimiSoul::turn: checkpoint, then the user's message.
Prompt == Begin /\ EnterCheckpoint(nextId, "user")

\* /clear, /compact and what /init leaves in the session's own context.
SlashClear   == Begin /\ pc' = "clear" /\ ret' = "idle" /\ UNCHANGED nextId
SlashCompact == Begin /\ nextId # 0 /\ pc' = "compact" /\ UNCHANGED <<ret, nextId>>
SlashInit    == Begin /\ pc' = "init" /\ UNCHANGED <<ret, nextId>>

-----------------------------------------------------------------------------
(* The agent loop.                                                         *)

\* Messages go to storage first and then to the history.
WriteMessages(next) ==
  /\ Commit
  /\ history' = history \o Spoken
  /\ pc' = next
  /\ UNCHANGED <<tokens, nextId, ret, turn, step, scratch, denwa, around>>

WriteUser  == pc = "user" /\ WriteMessages("loop")
WriteInit  == pc = "init" /\ WriteMessages("idle")
WriteDmail == pc = "dmail" /\ WriteMessages("loop")

MaxStepsReached ==
  /\ pc = "loop" /\ step = MaxSteps
  /\ pc' = "idle" /\ step' = step + 1
  /\ UNCHANGED <<stored, memory, ret, turn, scratch, denwa, around>>

\* Faulty variant: a step that compacts is not counted.
StartStep_FreeCompaction ==
  /\ pc = "loop" /\ step < MaxSteps
  /\ step' = IF tokens = Long THEN step ELSE step + 1
  /\ IF tokens = Long THEN pc' = "compact" /\ UNCHANGED <<nextId, ret>>
                      ELSE EnterCheckpoint(nextId, "model")
  /\ UNCHANGED <<stored, history, tokens, turn, scratch, denwa, around>>

StartStep ==
  /\ pc = "loop" /\ step < MaxSteps
  /\ step' = step + 1
  /\ IF tokens = Long THEN pc' = "compact" /\ UNCHANGED <<nextId, ret>>
                      ELSE EnterCheckpoint(nextId, "model")
  /\ UNCHANGED <<stored, history, tokens, turn, scratch, denwa, around>>

\* step(): the model answers; retries only repeat the call.
Generate(calls, usage) ==
  /\ pc = "model"
  /\ answer' = [calls |-> calls, usage |-> usage]
  /\ pc' = IF usage = None THEN "tools" ELSE "usageIn"
  /\ UNCHANGED <<stored, memory, ret, turn, step, outcome, compacted, target, cut, denwa, around>>

\* Context::update_token_count, first with the input and later with the total.
WriteUsage ==
  /\ pc \in {"usageIn", "usageTotal"}
  /\ Commit
  /\ tokens' = answer.usage[IF pc = "usageIn" THEN 1 ELSE 2]
  /\ pc' = IF pc = "usageIn" THEN "tools" ELSE IF answer.calls > 0 THEN "results" ELSE "settle"
  /\ UNCHANGED <<history, nextId, ret, turn, step, scratch, denwa, around>>

\* tool_results(); grow_context refuses results the model cannot read.
FinishTools(how) ==
  /\ pc = "tools"
  /\ answer.calls > 0 \/ how = "ok"
  /\ outcome' = how
  /\ pc' = IF how = "unsupported" THEN "idle" ELSE "answer"
  /\ UNCHANGED <<stored, memory, ret, turn, step, answer, compacted, target, cut, denwa, around>>

WriteAnswer ==
  /\ pc = "answer"
  /\ WriteMessages(IF answer.usage # None THEN "usageTotal"
                   ELSE IF answer.calls > 0 THEN "results" ELSE "settle")

WriteResults == pc = "results" /\ WriteMessages("settle")

\* Faulty variant: a rejected step leaves its D-Mail pending.
Settle_KeepsRejected ==
  /\ pc = "settle"
  /\ pending' = IF outcome = "ok" THEN None ELSE pending
  /\ IF outcome = "ok" /\ pending # None
     THEN target' = pending /\ pc' = "find"
     ELSE UNCHANGED target /\ pc' = IF outcome = "ok" /\ answer.calls > 0 THEN "loop" ELSE "idle"
  /\ UNCHANGED <<stored, memory, ret, turn, step, answer, outcome, compacted, cut,
                 nCheckpoints, sentIn, seen, around>>

\* The end of handle_step_result, and what agent_loop makes of it.
Settle ==
  /\ pc = "settle"
  /\ pending' = None
  /\ IF outcome = "ok" /\ pending # None
     THEN target' = pending /\ pc' = "find"
     ELSE UNCHANGED target /\ pc' = IF outcome = "ok" /\ answer.calls > 0 THEN "loop" ELSE "idle"
  /\ UNCHANGED <<stored, memory, ret, turn, step, answer, outcome, compacted, cut,
                 nCheckpoints, sentIn, seen, around>>

-----------------------------------------------------------------------------
(* Compaction: SimpleCompaction keeps the last two messages that are not   *)
(* tool results, with the results that follow, and summarises the others.  *)

\* Faulty variant: tool results count like other messages.
Speaking_All(s) == 1 .. Len(s)
Speaking(s) == {i \in 1 .. Len(s) : s[i].role # "tool"}

Compaction(s) ==
  LET others == Speaking(s) \ {Greatest(Speaking(s))}
  IN  IF Speaking(s) = {} \/ others = {} \/ Greatest(others) = 1 THEN s
      ELSE <<Text("summary", 0)>> \o SubSeq(s, Greatest(others), Len(s))

Compact ==
  /\ pc = "compact"
  /\ compacted' = Compaction(history)
  /\ pc' = "clear" /\ ret' = "summary"
  /\ UNCHANGED <<stored, memory, turn, step, answer, outcome, target, cut, denwa, around>>

\* Faulty variant: the token count outlives the history.
Clear_KeepTokens ==
  /\ pc = "clear"
  /\ Commit
  /\ history' = <<>> /\ tokens' = tokens
  /\ IF ret = "summary" THEN EnterCheckpoint(0, "summary")
                        ELSE nextId' = 0 /\ pc' = "idle" /\ UNCHANGED ret
  /\ UNCHANGED <<turn, step, scratch, denwa, around>>

\* Context::clear; compaction takes a checkpoint next.
Clear ==
  /\ pc = "clear"
  /\ Commit
  /\ history' = <<>> /\ tokens' = Fits
  /\ IF ret = "summary" THEN EnterCheckpoint(0, "summary")
                        ELSE nextId' = 0 /\ pc' = "idle" /\ UNCHANGED ret
  /\ UNCHANGED <<turn, step, scratch, denwa, around>>

\* Then the loop goes on with the step, unless this was /compact.
WriteSummary ==
  /\ pc = "summary"
  /\ Commit
  /\ history' = history \o Spoken
  /\ IF step = 0 THEN pc' = "idle" /\ UNCHANGED <<nextId, ret>>
                 ELSE EnterCheckpoint(nextId, "model")
  /\ UNCHANGED <<tokens, turn, step, scratch, denwa, around>>

-----------------------------------------------------------------------------
(* D-Mail.                                                                 *)

\* DenwaRenji::send_dmail, by a tool of this step or a stray one; refused while
\* one is pending and when no such checkpoint has been taken.
SendDmail(id) ==
  /\ stray \/ ToolsRun
  /\ pending = None /\ id < nCheckpoints
  /\ pending' = id
  /\ sentIn' = <<turn, step>>
  /\ seen' = LET marks == {i \in 1 .. Len(history) : history[i] = Text("mark", id)}
             IN  IF Cardinality(marks) = 1
                 THEN SubSeq(history, 1, (CHOOSE i \in marks : TRUE) - 1) ELSE None
  /\ UNCHANGED <<stored, memory, pc, ret, turn, step, scratch, nCheckpoints, around>>

\* Faulty variant: the checkpoint itself is kept.
Find_KeepsCheckpoint ==
  /\ pc = "find"
  /\ LET found == {i \in Where("checkpoint", stored) : stored[i].body = target}
     IN  IF found = {} THEN pc' = "idle" /\ UNCHANGED cut
         ELSE /\ cut' = CHOOSE i \in found : \A j \in found : i <= j
              /\ pc' = "truncate"
  /\ UNCHANGED <<stored, memory, ret, turn, step, answer, outcome, compacted, target, denwa, around>>

\* Context::revert_to: the first checkpoint event with that id ...
Find ==
  /\ pc = "find"
  /\ LET found == {i \in Where("checkpoint", stored) : stored[i].body = target}
     IN  IF found = {} THEN pc' = "idle" /\ UNCHANGED cut
         ELSE /\ cut' = (CHOOSE i \in found : \A j \in found : i <= j) - 1
              /\ pc' = "truncate"
  /\ UNCHANGED <<stored, memory, ret, turn, step, answer, outcome, compacted, target, denwa, around>>

\* ... goes with all that follows, and the rest is loaded again.
Truncate ==
  /\ pc = "truncate"
  /\ Commit
  /\ history' = <<>> /\ tokens' = Fits /\ nextId' = 0
  /\ pc' = "restore"
  /\ UNCHANGED <<ret, turn, step, scratch, denwa, around>>

Restore ==
  /\ pc = "restore"
  /\ history' = Messages(stored) /\ tokens' = TokenCount(stored)
  /\ EnterCheckpoint(Checkpoints(stored), "dmail")
  /\ torn' = (late # {})
  /\ UNCHANGED <<stored, turn, step, scratch, denwa, late, stray>>

-----------------------------------------------------------------------------
(* What goes wrong.                                                        *)

\* The error ends the turn; nothing that was done is undone.
Fail ==
  /\ pc \in FailAt
  /\ pc' = "idle"
  /\ UNCHANGED <<stored, memory, ret, turn, step, scratch, denwa, around>>

\* run_soul drops the soul's future where it stands.
Cancel ==
  /\ pc \in CancelAt
  /\ pc' = "idle"
  /\ late' = IF pc \in Writes THEN late \cup {Issued} ELSE late
  /\ stray' = (stray \/ ToolsRun)
  /\ torn' = (torn \/ pc \in Writes)
  /\ UNCHANGED <<stored, memory, ret, turn, step, scratch, denwa>>

LateCommit(op) ==
  /\ stored' \in {stored, Committed(op, stored)}
  /\ late' = late \ {op}
  /\ UNCHANGED <<memory, pc, ret, turn, step, scratch, denwa, stray, torn>>

StrayEnds ==
  /\ stray /\ stray' = FALSE
  /\ UNCHANGED <<stored, memory, pc, ret, turn, step, scratch, denwa, late, torn>>

Crash ==
  /\ MayCrash /\ pc # "down"
  /\ stored' \in {stored} \cup (IF pc \in Writes THEN {Committed(Issued, stored)} ELSE {})
  /\ pc' = "down" /\ ret' = "idle" /\ step' = 0
  /\ history' = <<>> /\ tokens' = Fits /\ nextId' = 0
  /\ answer' = Idle /\ outcome' = "ok" /\ compacted' = <<>> /\ target' = 0 /\ cut' = 0
  /\ pending' = None /\ nCheckpoints' = 0 /\ sentIn' = <<0, 0>> /\ seen' = <<>>
  /\ late' = {} /\ stray' = FALSE /\ torn' = FALSE
  /\ UNCHANGED turn

\* The session is continued by another process.
Restart ==
  /\ pc = "down"
  /\ history' = Messages(stored) /\ tokens' = TokenCount(stored)
  /\ nextId' = Checkpoints(stored)
  /\ pc' = "idle"
  /\ UNCHANGED <<stored, ret, turn, step, scratch, denwa, around>>

-----------------------------------------------------------------------------
Soul ==
  \/ WriteCheckpoint \/ WriteMark \/ WriteUser \/ WriteInit \/ WriteDmail
  \/ MaxStepsReached \/ StartStep \/ WriteUsage \/ WriteAnswer \/ WriteResults \/ Settle
  \/ \E calls \in Calls, usage \in Usages : Generate(calls, usage)
  \/ \E how \in Outcomes : FinishTools(how)
  \/ Compact \/ Clear \/ WriteSummary \/ Find \/ Truncate \/ Restore

Client == Prompt \/ SlashClear \/ SlashCompact \/ SlashInit

Faults == Fail \/ Cancel \/ Crash \/ Restart \/ StrayEnds \/ \E op \in late : LateCommit(op)

Next == Client \/ Soul \/ Faults \/ \E id \in 0 .. nCheckpoints : SendDmail(id)

Spec == Init /\ [][Next]_vars

\* The runtime polls the soul, storage and the model answer, and tools end.
FairSpec == Spec /\ WF_vars(Soul)
-----------------------------------------------------------------------------
TypeOK ==
  /\ stored \in Seq(Event)
  /\ history \in Seq(Message) /\ compacted \in Seq(Message) /\ seen \in Seq(Message) \cup {None}
  /\ tokens \in {Fits, Long} /\ nextId \in Nat
  /\ pc \in Labels /\ ret \in {"user", "model", "summary", "dmail", "idle"}
  /\ turn \in 0 .. MaxTurns /\ step \in 0 .. MaxSteps + 1
  /\ answer \in [calls : Calls \cup {0}, usage : Usages \cup {None}]
  /\ outcome \in Outcomes \cup {"ok"}
  /\ target \in Nat /\ cut \in Nat /\ nCheckpoints \in Nat
  /\ pending \in Nat \cup {None}
  /\ sentIn \in (0 .. MaxTurns) \X (0 .. MaxSteps + 1)
  /\ late \subseteq [keep : Nat \cup {None}, put : Seq(Event)]
  /\ stray \in BOOLEAN /\ torn \in BOOLEAN

\* Where memory is being rebuilt from storage.
Rebuilding == pc \in {"restore", "down"}

\* A restarted process would show the model what it sees now: whatever failed,
\* was rewound, compacted or cleared, the history and the token count are those
\* that the stored events restore. Only a cancel during a transaction breaks it.
\* (soul/context.rs:31-163, storage-first order of every operation)
Restorable ==
  torn \/ Rebuilding \/
    /\ history = Messages(stored)
    /\ tokens = TokenCount(stored)

\* Checkpoint ids identify checkpoints: in the order of the stored events they
\* grow, and the next id is above all of them, also when a checkpoint failed
\* half-way, after rewinds and compactions, and in a restored session.
\* (soul/context.rs:68-107)
CheckpointIdsIncrease ==
  /\ \A i, j \in Where("checkpoint", stored) : i < j => stored[i].body < stored[j].body
  /\ ~Rebuilding => \A i \in Where("checkpoint", stored) :
       stored[i].body < nextId - (IF pc = "checkpoint" THEN 1 ELSE 0)

\* The checkpoint of an accepted D-Mail exists until the D-Mail arrives there.
\* (send_dmail checks a count, soul/denwarenji.rs:34-46; revert_to looks for
\* the event, soul/context.rs:88-99)
AcceptedExists ==
  /\ pending # None => \E i \in Where("checkpoint", stored) : stored[i].body = pending
  /\ pc = "find" => \E i \in Where("checkpoint", stored) : stored[i].body = target

\* A D-Mail never outlives the step that sent it, so it cannot rewind a later
\* turn and take the user's message with it. (soul/kimisoul.rs:703-726)
DmailWithinStep == pending # None => sentIn = <<turn, step>> /\ pc # "idle"

\* An accepted D-Mail arrives where it was sent: its checkpoint exists until
\* then, and "next time you will see all the messages before the checkpoint,
\* plus the message in the D-Mail" (tools/desc/dmail/dmail.md), if what the
\* model saw under that number was one checkpoint.
DmailLands ==
  /\ AcceptedExists
  /\ pc = "dmail" /\ seen # None => history = seen \o <<Text("mark", target)>>

\* The model is never sent a call without its results, nor results without
\* their call: neither rewinding nor compacting cuts between them.
\* (grow_context, soul/kimisoul.rs:763-774; prepare, soul/compaction.rs:34-98)
CallsAnswered ==
  pc = "model" =>
    \A i \in 1 .. Len(history) :
      /\ history[i].role = "call" =>
           \A j \in 1 .. history[i].n : i + j <= Len(history) /\ history[i + j].role = "tool"
      /\ history[i].role = "tool" =>
           \E j \in 1 .. i - 1 : history[j].role = "call" /\ i <= j + history[j].n

\* Every CHECKPOINT message that the model sees names a checkpoint that exists.
ShownCheckpointsExist ==
  pc = "model" =>
    \A i \in 1 .. Len(history) : history[i].role = "mark" =>
      \E j \in Where("checkpoint", stored) : stored[j].body = history[i].n

\* Every turn ends, D-Mails and compactions included.
\* (the step limit of agent_loop, soul/kimisoul.rs:503-510)
TurnEnds == pc # "idle" ~> pc = "idle"
=============================================================================
