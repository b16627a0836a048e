-------------------------------- MODULE Shell --------------------------------
(***************************************************************************)
(* One call of the Shell tool after its approval: the command that         *)
(* kaos::exec starts, on this machine (local.rs) or over SSH (ssh.rs), and *)
(* the tool that reads its two streams against a deadline, waits for it or *)
(* kills it (tools/shell.rs).                                              *)
(*                                                                         *)
(* The command and the SSH server are external. A script is what the       *)
(* command writes: its n-th write is the letter n, on one stream, and ends *)
(* a line or does not. The command may leave its streams to a child in the *)
(* background, close them early, or die of a signal.                       *)
(***************************************************************************)
EXTENDS Integers, SequencesExt

CONSTANTS
  Backends,   \* the backends to run on
  Scripts,    \* Scripts[b]: what commands write, Seq of [on : Streams, ends : BOOLEAN]
  Deaths,     \* Deaths[b]: the ways in which commands end by themselves
  Capacity,   \* PROCESS_OUTPUT_QUEUE_CAPACITY, in chunks of one letter
  MaxChars,   \* DEFAULT_MAX_CHARS
  MayLose     \* the SSH connection may be lost

Streams == {"out", "err"}

ASSUME ShellAssumption ==
  /\ Backends \subseteq {"local", "ssh"}
  /\ \A b \in Backends : /\ Scripts[b] \subseteq Seq([on : Streams, ends : BOOLEAN])
                         /\ Deaths[b] \subseteq {"exit 0", "exit 1", "signal"}
  /\ {Capacity, MaxChars} \subseteq Nat \ {0}
  /\ MayLose \in BOOLEAN

VARIABLES
  backend, script,     \* chosen once
  said, proc, holder,  \* the command: its writes, its end, who holds the streams open
  pipe,                \* pipe[s]: written to stream s and not taken from there
  link, told, wire,    \* the SSH channel: state, status sent, messages under way
  pump, exit, code,    \* the task that receives them, its exit_code, exit_code_rx
  queue, dropped,      \* queue[s] between it and the reader; letters that found it full
  held, over,          \* the readers: letters of an unfinished line, streams at their end
  out, truncated,      \* ToolResultBuilder: buffer and truncation
  phase, result        \* the tool

command == <<said, proc, holder>>
server  == <<link, told>>
task    == <<pump, exit, code>>
reader  == <<held, over, out, truncated>>
shellVars == <<backend, script, command, pipe, server, wire, task, queue, dropped, reader,
               phase, result>>

NoCode == -1
Marker == 0   \* "[...truncated]"

ShellInit ==
  /\ backend \in Backends /\ script \in Scripts[backend]
  /\ said = 0 /\ proc = "none" /\ holder = "none"
  /\ pipe = [s \in Streams |-> <<>>]
  /\ link = "up" /\ told = FALSE /\ wire = <<>>
  /\ pump = "off" /\ exit = NoCode /\ code = NoCode
  /\ queue = [s \in Streams |-> <<>>] /\ dropped = {}
  /\ held = [s \in Streams |-> <<>>] /\ over = [s \in Streams |-> FALSE]
  /\ out = <<>> /\ truncated = FALSE
  /\ phase = "start" /\ result = "none"

-----------------------------------------------------------------------------
(* The command (external).                                                 *)

Says ==
  /\ holder # "none" /\ said < Len(script)
  /\ said' = said + 1
  /\ pipe' = [pipe EXCEPT ![script[said + 1].on] = Append(@, said + 1)]
  /\ UNCHANGED <<backend, script, proc, holder, server, wire, task, queue, dropped, reader,
                 phase, result>>

\* It leaves its streams to a child in the background, or closes them and goes on.
LetsGo ==
  /\ proc = "running" /\ holder = "command"
  /\ \/ holder' = "child"
     \/ said = Len(script) /\ holder' = "none"
  /\ UNCHANGED <<backend, script, said, proc, pipe, server, wire, task, queue, dropped, reader,
                 phase, result>>

Left == IF holder = "command" THEN "none" ELSE holder

Ends(way) ==
  /\ proc = "running"
  /\ way # "signal" /\ holder = "command" => said = Len(script)
  /\ proc' = way /\ holder' = Left
  /\ UNCHANGED <<backend, script, said, pipe, server, wire, task, queue, dropped, reader,
                 phase, result>>

ChildEnds ==
  /\ holder = "child" /\ said = Len(script)
  /\ holder' = "none"
  /\ UNCHANGED <<backend, script, said, proc, pipe, server, wire, task, queue, dropped, reader,
                 phase, result>>

-----------------------------------------------------------------------------
(* The SSH server (external). The exit status may overtake the output; the *)
(* channel closes when both are through.                                   *)

Sends(message) == wire' = Append(wire, message)

SendData(s) ==
  /\ backend = "ssh" /\ link = "up" /\ pipe[s] # <<>>
  /\ Sends([type |-> "data", on |-> s, letter |-> Head(pipe[s])])
  /\ pipe' = [pipe EXCEPT ![s] = Tail(@)]
  /\ UNCHANGED <<backend, script, command, server, task, queue, dropped, reader, phase, result>>

SendStatus ==
  /\ backend = "ssh" /\ link = "up" /\ proc \notin {"none", "running"} /\ ~told
  /\ told' = TRUE
  /\ Sends([type |-> proc])
  /\ UNCHANGED <<backend, script, command, pipe, link, task, queue, dropped, reader, phase,
                 result>>

SendClose ==
  /\ backend = "ssh" /\ link = "up" /\ told /\ holder = "none"
  /\ \A s \in Streams : pipe[s] = <<>>
  /\ link' = "closed"
  /\ Sends([type |-> "close"])
  /\ UNCHANGED <<backend, script, command, pipe, told, task, queue, dropped, reader, phase,
                 result>>

LoseConnection ==
  /\ MayLose /\ backend = "ssh" /\ link = "up" /\ phase # "start"
  /\ link' = "lost"
  /\ UNCHANGED <<backend, script, command, pipe, told, wire, task, queue, dropped, reader,
                 phase, result>>

-----------------------------------------------------------------------------
(* exec, and the task of ssh.rs that receives from the channel.            *)

Exec ==
  /\ phase = "start"
  /\ phase' = "reading" /\ proc' = "running" /\ holder' = "command"
  /\ pump' = IF backend = "ssh" THEN "on" ELSE "off"
  /\ UNCHANGED <<backend, script, said, pipe, server, wire, exit, code, queue, dropped, reader,
                 result>>

\* Not found, or the server refuses the request, says something else or is gone.
ExecFails ==
  /\ phase = "start"
  /\ phase' = "done" /\ result' = "error"
  /\ UNCHANGED <<backend, script, command, pipe, server, wire, task, queue, dropped, reader>>

\* Without a status - a signal, a lost connection - the exit code is 1.
ExitCode == IF exit = NoCode THEN 1 ELSE exit

PumpEnds ==
  /\ pump' = "ended" /\ code' = ExitCode
  /\ UNCHANGED <<exit, queue, dropped>>

\* Faulty variant: a chunk that finds the queue full is gone without a word.
X_Forward(s, letter) ==
  /\ IF Len(queue[s]) < Capacity
     THEN queue' = [queue EXCEPT ![s] = Append(@, letter)]
     ELSE UNCHANGED queue
  /\ UNCHANGED <<task, dropped>>

\* The task never waits for the reader: a chunk that finds the queue full is
\* dropped and counted.
Forward(s, letter) ==
  /\ IF Len(queue[s]) < Capacity
     THEN queue' = [queue EXCEPT ![s] = Append(@, letter)] /\ UNCHANGED dropped
     ELSE dropped' = dropped \cup {letter} /\ UNCHANGED queue
  /\ UNCHANGED task

\* The reader drops its end of the queues when it is done or its time is up.
Receive ==
  /\ pump = "on" /\ wire # <<>>
  /\ LET message == Head(wire)
     IN \/ message.type = "data" /\ phase = "reading" /\ Forward(message.on, message.letter)
        \/ message.type = "data" /\ phase # "reading" /\ PumpEnds
        \/ message.type = "close" /\ PumpEnds
        \/ /\ message.type \in {"exit 0", "exit 1"}
           /\ exit' = IF message.type = "exit 0" THEN 0 ELSE 1
           /\ UNCHANGED <<pump, code, queue, dropped>>
        \/ message.type = "signal" /\ UNCHANGED <<task, queue, dropped>>
  /\ wire' = Tail(wire)
  /\ UNCHANGED <<backend, script, command, pipe, server, reader, phase, result>>

ReceiveNone ==
  /\ pump = "on" /\ wire = <<>> /\ link = "lost"
  /\ PumpEnds
  /\ UNCHANGED <<backend, script, command, pipe, server, wire, reader, phase, result>>

-----------------------------------------------------------------------------
(* The tool reads.                                                         *)

\* What a read of stream s finds, and whether there is no more to come.
Ready(s) == IF backend = "local" THEN pipe[s] ELSE queue[s]

AtEnd(s) == Ready(s) = <<>> /\ IF backend = "local" THEN holder = "none" ELSE pump = "ended"

Leave(s, rest) ==
  IF backend = "local" THEN pipe' = [pipe EXCEPT ![s] = rest] /\ UNCHANGED queue
                       ELSE queue' = [queue EXCEPT ![s] = rest] /\ UNCHANGED pipe

\* ToolResultBuilder::write and truncate_line. A builder that is exactly full takes
\* no more lines and does not call that a truncation.
Write(line) ==
  LET room == MaxChars - Len(out)
  IN  IF room <= 0 THEN UNCHANGED <<out, truncated>>
      ELSE IF Len(line) <= room THEN out' = out \o line /\ UNCHANGED truncated
      ELSE out' = out \o SubSeq(line, 1, room - 1) \o <<Marker>> /\ truncated' = TRUE

\* A branch of the select! is through and the other is dropped. A local reader
\* collects the line in its future, so what it had is lost; a QueueReader keeps it.
HeldAfter(s, mine) ==
  [t \in Streams |-> IF t = s THEN mine ELSE IF backend = "local" THEN <<>> ELSE held[t]]

ReadsLine(s) ==
  /\ \E n \in DOMAIN Ready(s) :
       /\ script[Ready(s)[n]].ends
       /\ \A m \in 1 .. n - 1 : ~script[Ready(s)[m]].ends
       /\ Write(held[s] \o SubSeq(Ready(s), 1, n))
       /\ Leave(s, SubSeq(Ready(s), n + 1, Len(Ready(s))))
  /\ held' = HeldAfter(s, <<>>)
  /\ UNCHANGED over

ReadsPiece(s) ==
  /\ Ready(s) # <<>> /\ \A n \in DOMAIN Ready(s) : ~script[Ready(s)[n]].ends
  /\ held' = [held EXCEPT ![s] = @ \o Ready(s)]
  /\ Leave(s, <<>>)
  /\ UNCHANGED <<over, out, truncated>>

\* At the end, a line without an end is a line; and then nothing is the end.
ReadsEnd(s) ==
  /\ AtEnd(s)
  /\ Write(held[s])
  /\ over' = [over EXCEPT ![s] = held[s] = <<>>]
  /\ held' = HeldAfter(s, <<>>)
  /\ UNCHANGED <<pipe, queue>>

Reads(s) ==
  /\ phase = "reading" /\ ~over[s]
  /\ ReadsLine(s) \/ ReadsPiece(s) \/ ReadsEnd(s)
  /\ UNCHANGED <<backend, script, command, server, wire, task, dropped, phase, result>>

ReadsAll ==
  /\ phase = "reading" /\ \A s \in Streams : over[s]
  /\ phase' = "waiting"
  /\ UNCHANGED <<backend, script, command, pipe, server, wire, task, queue, dropped, reader,
                 result>>

\* wait(): on this machine a command that died of a signal has the code 0.
WaitsFor ==
  IF backend = "ssh" THEN code
  ELSE CASE proc = "exit 1" -> 1 [] proc \in {"exit 0", "signal"} -> 0 [] OTHER -> NoCode

Waits ==
  /\ phase = "waiting" /\ WaitsFor # NoCode
  /\ phase' = "done"
  /\ result' = IF dropped # {} THEN "overflow" ELSE IF WaitsFor = 0 THEN "ok" ELSE "failed"
  /\ UNCHANGED <<backend, script, command, pipe, server, wire, task, queue, dropped, reader>>

\* Faulty variant: the deadline is for the command, not for its streams.
X_Expires ==
  /\ phase = "reading" /\ proc = "running"
  /\ phase' = "killing"
  /\ UNCHANGED <<backend, script, command, pipe, server, wire, task, queue, dropped, reader,
                 result>>

\* The deadline is for the reading; the future that reads is dropped.
Expires ==
  /\ phase = "reading"
  /\ phase' = "killing"
  /\ UNCHANGED <<backend, script, command, pipe, server, wire, task, queue, dropped, reader,
                 result>>

\* On this machine the command is killed and waited for; over SSH it is sent TERM,
\* which it may ignore, and the channel is closed.
Kills ==
  /\ phase = "killing"
  /\ phase' = "done" /\ result' = "killed"
  /\ IF backend = "local" /\ proc = "running"
     THEN proc' = "signal" /\ holder' = Left
     ELSE UNCHANGED <<proc, holder>>
  /\ IF backend = "ssh" /\ link = "up"
     THEN link' = "closed" /\ Sends([type |-> "close"])
     ELSE UNCHANGED <<link, wire>>
  /\ UNCHANGED <<backend, script, said, pipe, told, task, queue, dropped, reader>>

Command == Says \/ LetsGo \/ ChildEnds \/ \E way \in Deaths[backend] : Ends(way)
Server  == SendStatus \/ SendClose \/ LoseConnection \/ \E s \in Streams : SendData(s)
Pump    == Receive \/ ReceiveNone
Tool    == Exec \/ ExecFails \/ ReadsAll \/ Waits \/ Kills \/ \E s \in Streams : Reads(s)

ShellNext == Command \/ Server \/ Pump \/ Tool \/ Expires

ShellSpec == ShellInit /\ [][ShellNext]_shellVars

\* Tasks are polled and the timer fires. The command and the server owe nothing.
FairShellSpec == ShellSpec /\ WF_shellVars(Pump) /\ WF_shellVars(Tool) /\ WF_shellVars(Expires)

-----------------------------------------------------------------------------
\* A command that was not killed is reported with all that it wrote, each stream in
\* its order, or the report says that output was dropped or cut. (Left out: output
\* that fills the builder exactly, and a connection that was lost.)
OutputIsWhole ==
  result \in {"ok", "failed"} /\ ~truncated /\ Len(out) < MaxChars /\ link # "lost" =>
    /\ ToSet(out) = 1 .. said
    /\ \A i, j \in DOMAIN out :
         i < j /\ script[out[i]].on = script[out[j]].on => out[i] < out[j]

\* Success is reported of a command that ended with 0 and of no other, failure never
\* of one that ended with 0, unless the connection that carried it was lost.
ExitIsTold ==
  /\ result = "ok" => proc = "exit 0"
  /\ result = "failed" => proc \in {"exit 1", "signal"} \/ link = "lost"

\* The report of a command holds its output and tells how it ended.
\* (Shell::call_typed, tools/shell.rs:152-234)
ReportIsTrue == OutputIsWhole /\ ExitIsTold

\* Once the command has ended the call returns, whoever holds its streams open.
CallReturns == (proc \notin {"none", "running"}) ~> (phase = "done")
=============================================================================
