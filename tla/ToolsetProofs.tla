--------------------------- MODULE ToolsetProofs ---------------------------
(* What holds of two parts that the agent's steps use.                        *)
(*   - The Shell tool: the report of a command is true of it, whatever the    *)
(*     command writes and however its end overtakes its output.               *)
(*   - The toolset, for every set of servers, tools and skills, any choice of *)
(*     what the servers list, and any number of runs: its maps agree about    *)
(*     every name, the agent's and the client's own tools are kept, a server  *)
(*     is connected by one task at a time, a cleaned toolset stays clean, no  *)
(*     tool changes within a step, and no step begins with a server unsettled *)
(*     that an interruption does not account for.                             *)
EXTENDS Toolset, Shell, SequenceTheorems, TLAPS

-----------------------------------------------------------------------------
(* The Shell tool. The inductive invariant.                                   *)

ExitStatuses == {"exit 0", "exit 1", "signal"}

Chunks == [type : {"data"}, on : Streams, letter : Nat]
Notes  == [type : ExitStatuses \cup {"close"}]

ShellForm ==
  /\ backend \in Backends /\ script \in Scripts[backend]
  /\ said \in 0 .. Len(script)
  /\ proc \in {"none", "running"} \cup ExitStatuses /\ holder \in {"none", "command", "child"}
  /\ pipe \in [Streams -> Seq(Nat)] /\ queue \in [Streams -> Seq(Nat)]
  /\ held \in [Streams -> Seq(Nat)] /\ over \in [Streams -> BOOLEAN]
  /\ link \in {"up", "closed", "lost"} /\ told \in BOOLEAN /\ wire \in Seq(Chunks \cup Notes)
  /\ pump \in {"off", "on", "ended"} /\ exit \in {NoCode, 0, 1} /\ code \in {NoCode, 0, 1}
  /\ dropped \subseteq Nat /\ out \in Seq(Nat) /\ truncated \in BOOLEAN
  /\ phase \in {"start", "reading", "waiting", "killing", "done"}
  /\ result \in {"none", "error", "killed", "overflow", "ok", "failed"}

\* The tool has not given up on the command.
Patient == phase \in {"reading", "waiting"} \/ result \in {"ok", "failed", "overflow"}

\* The output is worth looking for.
Sound == Patient /\ link # "lost" /\ ~truncated /\ Len(out) < MaxChars

\* What each part of the program may be doing when.
Phases ==
  /\ result # "none" <=> phase = "done"
  /\ phase = "start" =>
       /\ proc = "none" /\ holder = "none" /\ said = 0 /\ pump = "off" /\ ~told
       /\ link = "up" /\ wire = <<>> /\ out = <<>>
       /\ \A s \in Streams : pipe[s] = <<>> /\ queue[s] = <<>> /\ held[s] = <<>> /\ ~over[s]
  /\ phase # "start" /\ result # "error" => (pump = "off" <=> backend = "local")
  /\ result = "error" => pump = "off" /\ proc = "none"
  /\ backend = "local" => wire = <<>> /\ link = "up" /\ ~told /\ pump = "off"
  /\ pump = "ended" <=> code # NoCode
  /\ holder # "none" => proc # "none"
  /\ \A s \in Streams : over[s] /\ backend = "ssh" => pump = "ended"
  /\ phase = "waiting" \/ result \in {"ok", "failed", "overflow"} => \A s \in Streams : over[s]

\* The status that the server has sent is on the wire or has been received.
Status ==
  /\ told => proc \in ExitStatuses
  /\ \A i \in DOMAIN wire : wire[i].type \in ExitStatuses => told /\ wire[i].type = proc
  /\ exit # NoCode => told
  /\ exit = 0 => proc = "exit 0"
  /\ exit = 1 => proc = "exit 1"
  /\ told /\ exit = NoCode /\ proc # "signal" => \E i \in DOMAIN wire : wire[i].type = proc

\* The channel closes when everything was sent and nothing can follow.
ClosesLast ==
  Patient =>
    /\ \A i \in DOMAIN wire : wire[i].type = "close" => i = Len(wire) /\ link = "closed"
    /\ link = "closed" =>
         /\ told /\ holder = "none" /\ \A s \in Streams : pipe[s] = <<>>
         /\ pump = "on" => wire # <<>> /\ wire[Len(wire)].type = "close"
    /\ pump = "ended" => link = "lost" \/ (link = "closed" /\ wire = <<>>)

\* How the call will say that the command ended.
Ended ==
  /\ code = 0 => proc = "exit 0"
  /\ code = 1 /\ Patient => proc \in {"exit 1", "signal"} \/ link = "lost"
  /\ backend = "local" /\ proc = "signal" => result = "killed"
  /\ ExitIsTold

\* A call that missed output says so.
Counted == result \in {"ok", "failed"} => dropped = {}

\* The letters of stream s, from the report back to the command.
Carries(message, s, n) == message.type = "data" /\ message.on = s /\ message.letter = n

Stage(s, k) ==
  CASE k = 1 -> {n \in ToSet(out) : script[n].on = s}
    [] k = 2 -> ToSet(held[s])
    [] k = 3 -> ToSet(queue[s])
    [] k = 4 -> {n \in 1 .. said : \E i \in DOMAIN wire : Carries(wire[i], s, n)}
    [] k = 5 -> ToSet(pipe[s])

Rising(q) == \A i, j \in DOMAIN q : i < j => q[i] < q[j]

\* In each stage the letters of a stream are in their order, ...
Ordered(q) == \A i, j \in DOMAIN q : i < j /\ script[q[i]].on = script[q[j]].on => q[i] < q[j]

WireOrder ==
  \A i, j \in DOMAIN wire :
    i < j /\ wire[i].type = "data" /\ wire[j].type = "data" /\ wire[i].on = wire[j].on
    => wire[i].letter < wire[j].letter

InOrder ==
  /\ \A s \in Streams : Rising(held[s]) /\ Rising(queue[s]) /\ Rising(pipe[s])
  /\ Ordered(out) /\ WireOrder

\* ... and none is in a stage before an earlier one.
Ranked ==
  \A s \in Streams : \A j, k \in 1 .. 5 :
    j < k => \A a \in Stage(s, j), b \in Stage(s, k) : a < b

\* Every stage of a stream holds letters that were written to it, ...
Own ==
  \A s \in Streams : \A k \in 1 .. 5 : \A n \in Stage(s, k) :
    n \in 1 .. said /\ script[n].on = s

\* ... nothing else is in the report or on its way to it, ...
Genuine ==
  /\ ToSet(out) \subseteq 1 .. said
  /\ \A i \in DOMAIN wire : wire[i].type = "data" => wire[i].letter \in 1 .. said

\* ... every letter that was written is in one or was dropped, ...
Whole ==
  \A n \in 1 .. said : n \in dropped \/ \E k \in 1 .. 5 : n \in Stage(script[n].on, k)

\* ... and a stream that the tool has read to its end has none on its way.
Through ==
  \A s \in Streams :
    /\ over[s] => /\ held[s] = <<>> /\ Ready(s) = <<>>
                  /\ IF backend = "local" THEN holder = "none" ELSE pump = "ended"
    /\ backend = "local" => held[s] = <<>> /\ queue[s] = <<>>

OutInv == Sound => InOrder /\ Ranked /\ Own /\ Genuine /\ Whole /\ Through

ShellInv == ShellForm /\ Phases /\ Status /\ ClosesLast /\ Ended /\ Counted /\ OutInv

\* Commands on this machine write whole lines, and nobody else kills them.
Careful ==
  "local" \in Backends =>
    /\ \A s \in Scripts["local"] : \A n \in DOMAIN s : s[n].ends
    /\ "signal" \notin Deaths["local"]

-----------------------------------------------------------------------------
(* Types.                                                                   *)

LEMMA Given ==
  ASSUME ShellForm
  PROVE  /\ backend \in {"local", "ssh"} /\ Deaths[backend] \subseteq ExitStatuses
         /\ script \in Seq([on : Streams, ends : BOOLEAN]) /\ Len(script) \in Nat
         /\ \A n \in 1 .. Len(script) : script[n].on \in Streams
         /\ Capacity \in Nat \ {0} /\ MaxChars \in Nat \ {0}
<1>1. backend \in Backends /\ script \in Scripts[backend]
  BY DEF ShellForm
<1>2. backend \in {"local", "ssh"} /\ Deaths[backend] \subseteq ExitStatuses
      /\ script \in Seq([on : Streams, ends : BOOLEAN])
      /\ Capacity \in Nat \ {0} /\ MaxChars \in Nat \ {0}
  BY <1>1, ShellAssumption DEF ExitStatuses
<1>3. /\ Len(script) \in Nat
      /\ \A n \in 1 .. Len(script) : script[n] \in [on : Streams, ends : BOOLEAN]
  <2>1. \A S : \A q \in Seq(S) : Len(q) \in Nat /\ \A n \in 1 .. Len(q) : q[n] \in S
    OBVIOUS
  <2>2. QED
    BY <1>2, <2>1
<1>4. QED
  BY <1>2, <1>3

\* What the builder makes of a line: if it is neither full nor cut, the line is in.
LEMMA Wrote ==
  ASSUME ShellForm, NEW line \in Seq(Nat), Write(line)
  PROVE  /\ out' \in Seq(Nat) /\ truncated' \in BOOLEAN
         /\ ~truncated' /\ Len(out') < MaxChars =>
              ~truncated /\ Len(out) < MaxChars /\ out' = out \o line
<1> DEFINE room == MaxChars - Len(out)
<1>1. /\ out \in Seq(Nat) /\ Len(out) \in Nat /\ MaxChars \in Nat /\ truncated \in BOOLEAN
      /\ Len(line) \in Nat
  BY Given DEF ShellForm
<1>2. CASE room <= 0
  BY <1>1, <1>2 DEF Write
<1>3. CASE ~(room <= 0) /\ Len(line) <= room
  <2>1. out' = out \o line /\ truncated' = truncated
    BY <1>3 DEF Write
  <2>2. QED
    BY <1>1, <1>3, <2>1
<1>4. CASE ~(room <= 0) /\ ~(Len(line) <= room)
  <2>1. out' = out \o SubSeq(line, 1, room - 1) \o <<Marker>> /\ truncated' = TRUE
    BY <1>4 DEF Write
  <2>2. SubSeq(line, 1, room - 1) \in Seq(Nat)
    <3>1. \A i \in 1 .. room - 1 : line[i] \in Nat
      BY <1>1, <1>4
    <3>2. QED
      BY <1>1, <1>4, <3>1
  <2>3. <<Marker>> \in Seq(Nat)
    BY DEF Marker
  <2>4. out' \in Seq(Nat)
    BY <1>1, <2>1, <2>2, <2>3
  <2>5. QED
    BY <2>1, <2>4
<1>5. QED
  BY <1>2, <1>3, <1>4

\* Two neighbouring parts make the whole.
LEMMA Parts ==
  ASSUME NEW q \in Seq(Nat), NEW n \in DOMAIN q
  PROVE  /\ SubSeq(q, 1, n) \in Seq(Nat) /\ SubSeq(q, n + 1, Len(q)) \in Seq(Nat)
         /\ SubSeq(q, 1, n) \o SubSeq(q, n + 1, Len(q)) = q
<1>1. Len(q) \in Nat /\ n \in 1 .. Len(q) /\ \A i \in 1 .. Len(q) : q[i] \in Nat
  OBVIOUS
<1>2. SubSeq(q, 1, n) \in Seq(Nat)
  <2>1. \A i \in 1 .. n : q[i] \in Nat
    BY <1>1
  <2>2. QED
    BY <1>1, <2>1
<1>3. SubSeq(q, n + 1, Len(q)) \in Seq(Nat)
  <2>1. \A i \in (n + 1) .. Len(q) : q[i] \in Nat
    BY <1>1
  <2>2. QED
    BY <1>1, <2>1
<1>4. SubSeq(q, 1, n) \o SubSeq(q, n + 1, Len(q)) = SubSeq(q, 1, Len(q))
  <2>1. 1 \in 1 .. Len(q) + 1 /\ n \in 1 - 1 .. Len(q) /\ Len(q) \in n .. Len(q)
    BY <1>1
  <2>2. QED
    BY <2>1, ConcatAdjacentSubSeq, Zenon
<1>5. SubSeq(q, 1, Len(q)) = q
  BY SubSeqFull
<1>6. QED
  BY <1>2, <1>3, <1>4, <1>5

LEMMA Codes == NoCode # 0 /\ NoCode # 1 /\ 0 # 1
BY DEF NoCode

LEMMA ReadsForm ==
  ASSUME ShellForm, NEW s \in Streams, Reads(s)
  PROVE  ShellForm'
<1>1. /\ pipe[s] \in Seq(Nat) /\ queue[s] \in Seq(Nat) /\ held \in [Streams -> Seq(Nat)]
      /\ Ready(s) \in Seq(Nat) /\ held[s] \in Seq(Nat) /\ <<>> \in Seq(Nat)
  BY DEF ShellForm, Ready
<1>2. \A rest \in Seq(Nat) : Leave(s, rest) =>
        pipe' \in [Streams -> Seq(Nat)] /\ queue' \in [Streams -> Seq(Nat)]
  BY DEF Leave, ShellForm
<1>3. \A mine \in Seq(Nat) : HeldAfter(s, mine) \in [Streams -> Seq(Nat)]
  BY <1>1 DEF HeldAfter
<1>4. UNCHANGED <<backend, script, command, server, wire, task, dropped, phase, result>>
  BY DEF Reads
<1>5. /\ pipe' \in [Streams -> Seq(Nat)] /\ queue' \in [Streams -> Seq(Nat)]
      /\ held' \in [Streams -> Seq(Nat)] /\ over' \in [Streams -> BOOLEAN]
      /\ out' \in Seq(Nat) /\ truncated' \in BOOLEAN
  <2>1. CASE ReadsLine(s)
    <3>1. PICK n \in DOMAIN Ready(s) :
            /\ Write(held[s] \o SubSeq(Ready(s), 1, n))
            /\ Leave(s, SubSeq(Ready(s), n + 1, Len(Ready(s))))
      BY <2>1 DEF ReadsLine
    <3>2. /\ SubSeq(Ready(s), 1, n) \in Seq(Nat)
          /\ SubSeq(Ready(s), n + 1, Len(Ready(s))) \in Seq(Nat)
      BY <1>1, Parts
    <3>3. held[s] \o SubSeq(Ready(s), 1, n) \in Seq(Nat)
      BY <1>1, <3>2
    <3>4. out' \in Seq(Nat) /\ truncated' \in BOOLEAN
      BY <3>1, <3>3, Wrote
    <3>5. pipe' \in [Streams -> Seq(Nat)] /\ queue' \in [Streams -> Seq(Nat)]
      BY <1>2, <3>1, <3>2
    <3>6. held' = HeldAfter(s, <<>>) /\ over' = over
      BY <2>1 DEF ReadsLine
    <3>7. QED
      BY <1>1, <1>3, <3>4, <3>5, <3>6 DEF ShellForm
  <2>2. CASE ReadsPiece(s)
    <3>1. held[s] \o Ready(s) \in Seq(Nat)
      BY <1>1
    <3>2. held' = [held EXCEPT ![s] = held[s] \o Ready(s)] /\ Leave(s, <<>>)
          /\ UNCHANGED <<over, out, truncated>>
      BY <2>2 DEF ReadsPiece
    <3>3. QED
      BY <1>1, <1>2, <3>1, <3>2 DEF ShellForm
  <2>3. CASE ReadsEnd(s)
    <3>1. Write(held[s]) /\ held' = HeldAfter(s, <<>>) /\ UNCHANGED <<pipe, queue>>
          /\ over' = [over EXCEPT ![s] = held[s] = <<>>]
      BY <2>3 DEF ReadsEnd
    <3>2. out' \in Seq(Nat) /\ truncated' \in BOOLEAN
      BY <1>1, <3>1, Wrote
    <3>3. over' \in [Streams -> BOOLEAN]
      BY <3>1 DEF ShellForm
    <3>4. QED
      BY <1>1, <1>3, <3>1, <3>2, <3>3 DEF ShellForm
  <2>4. QED
    BY <2>1, <2>2, <2>3 DEF Reads
<1>6. QED
  BY <1>4, <1>5 DEF ShellForm, command, server, task

LEMMA SendsForm ==
  ASSUME ShellForm, NEW message \in Chunks \cup Notes, Sends(message)
  PROVE  /\ wire' \in Seq(Chunks \cup Notes) /\ Len(wire') = Len(wire) + 1
         /\ wire'[Len(wire) + 1] = message /\ Len(wire) \in Nat
         /\ \A i \in DOMAIN wire : i \in DOMAIN wire' /\ wire'[i] = wire[i]
         /\ DOMAIN wire' = DOMAIN wire \cup {Len(wire) + 1}
BY DEF ShellForm, Sends

\* The first message is gone and the others move up.
LEMMA Taken ==
  ASSUME ShellForm, wire # <<>>, wire' = Tail(wire)
  PROVE  /\ wire' \in Seq(Chunks \cup Notes) /\ Head(wire) \in Chunks \cup Notes
         /\ Len(wire') = Len(wire) - 1 /\ Len(wire) \in Nat \ {0}
         /\ 1 \in DOMAIN wire /\ wire[1] = Head(wire)
         /\ \A i \in DOMAIN wire' : i \in Nat /\ i + 1 \in DOMAIN wire /\ wire'[i] = wire[i + 1]
         /\ \A i \in DOMAIN wire : i = 1 \/ (i - 1 \in DOMAIN wire' /\ wire'[i - 1] = wire[i])
<1>1. /\ wire \in Seq(Chunks \cup Notes) /\ wire' \in Seq(Chunks \cup Notes)
      /\ Len(wire) \in Nat \ {0} /\ Len(wire') = Len(wire) - 1
      /\ \A i \in 1 .. Len(wire) - 1 : wire'[i] = wire[i + 1]
      /\ wire[1] = Head(wire) /\ Head(wire) \in Chunks \cup Notes
  BY DEF ShellForm
<1>2. DOMAIN wire = 1 .. Len(wire) /\ DOMAIN wire' = 1 .. Len(wire) - 1
  BY <1>1
<1>3. \A i \in 1 .. Len(wire) - 1 : i \in Nat /\ i + 1 \in 1 .. Len(wire)
  BY <1>1
<1>4. ASSUME NEW i \in DOMAIN wire, i # 1 PROVE i - 1 \in DOMAIN wire' /\ wire'[i - 1] = wire[i]
  <2>1. i - 1 \in 1 .. Len(wire) - 1 /\ (i - 1) + 1 = i
    BY <1>1, <1>2, <1>4
  <2>2. QED
    BY <1>1, <1>2, <2>1
<1>5. QED
  BY <1>1, <1>2, <1>3, <1>4

\* A chunk of output is none of the messages that end a channel.
LEMMA MessageIs ==
  /\ \A m \in Chunks : m.type = "data" /\ m.on \in Streams /\ m.letter \in Nat
  /\ \A m \in Notes : m.type \in ExitStatuses \cup {"close"} /\ m.type # "data"
  /\ \A s \in Streams, n \in Nat : [type |-> "data", on |-> s, letter |-> n] \in Chunks
  /\ \A w \in ExitStatuses \cup {"close"} : [type |-> w] \in Notes
<1>1. \A m \in Chunks : m.type = "data" /\ m.on \in Streams /\ m.letter \in Nat
  BY DEF Chunks
<1>2. \A m \in Notes : m.type \in ExitStatuses \cup {"close"} /\ m.type # "data"
  BY DEF Notes, ExitStatuses
<1>3. \A s \in Streams, n \in Nat : [type |-> "data", on |-> s, letter |-> n] \in Chunks
  BY DEF Chunks
<1>4. \A w \in ExitStatuses \cup {"close"} : [type |-> w] \in Notes
  BY DEF Notes
<1>5. QED
  BY <1>1, <1>2, <1>3, <1>4

LEMMA ServerForm ==
  ASSUME ShellForm, Server
  PROVE  ShellForm'
<1>1. CASE LoseConnection
  BY <1>1 DEF LoseConnection, ShellForm, command, task, reader
<1>2. CASE SendStatus
  <2>1. proc \in ExitStatuses /\ [type |-> proc] \in Chunks \cup Notes /\ Sends([type |-> proc])
    BY <1>2, MessageIs DEF SendStatus, ShellForm
  <2>2. wire' \in Seq(Chunks \cup Notes)
    BY <2>1, SendsForm
  <2>3. QED
    BY <1>2, <2>2 DEF SendStatus, ShellForm, command, task, reader
<1>3. CASE SendClose
  <2>1. [type |-> "close"] \in Chunks \cup Notes /\ Sends([type |-> "close"])
    BY <1>3, MessageIs DEF SendClose
  <2>2. wire' \in Seq(Chunks \cup Notes)
    BY <2>1, SendsForm
  <2>3. QED
    BY <1>3, <2>2 DEF SendClose, ShellForm, command, task, reader
<1>4. ASSUME NEW s \in Streams, SendData(s) PROVE ShellForm'
  <2>1. /\ pipe[s] \in Seq(Nat) /\ pipe[s] # <<>>
        /\ Head(pipe[s]) \in Nat /\ Tail(pipe[s]) \in Seq(Nat)
    BY <1>4 DEF SendData, ShellForm
  <2> DEFINE m == [type |-> "data", on |-> s, letter |-> Head(pipe[s])]
  <2>2. m \in Chunks \cup Notes /\ Sends(m)
    <3>1. m \in Chunks
      BY <2>1, MessageIs
    <3>2. QED
      BY <1>4, <3>1 DEF SendData
  <2> HIDE DEF m
  <2>3. wire' \in Seq(Chunks \cup Notes)
    BY <2>2, SendsForm
  <2>4. pipe' \in [Streams -> Seq(Nat)]
    BY <1>4, <2>1 DEF SendData, ShellForm
  <2>5. UNCHANGED <<backend, script, said, proc, holder, link, told, pump, exit, code, queue,
                    dropped, held, over, out, truncated, phase, result>>
    BY <1>4 DEF SendData, command, server, task, reader
  <2>6. QED
    BY <2>3, <2>4, <2>5 DEF ShellForm
<1>5. QED
  BY <1>1, <1>2, <1>3, <1>4 DEF Server

LEMMA CommandForm ==
  ASSUME ShellForm, Command
  PROVE  ShellForm'
<1>1. CASE Says
  <2>1. said + 1 \in 1 .. Len(script) /\ said + 1 \in Nat /\ script[said + 1].on \in Streams
    <3>1. Len(script) \in Nat /\ said \in 0 .. Len(script) /\ said < Len(script)
      BY <1>1, Given DEF Says, ShellForm
    <3>2. said + 1 \in 1 .. Len(script) /\ said + 1 \in Nat
      BY <3>1
    <3>3. QED
      BY <3>2, Given
  <2>2. pipe' \in [Streams -> Seq(Nat)]
    <3>1. PICK s \in Streams : s = script[said + 1].on
      BY <2>1
    <3>2. pipe' = [pipe EXCEPT ![s] = Append(pipe[s], said + 1)]
      BY <1>1, <3>1 DEF Says
    <3>3. Append(pipe[s], said + 1) \in Seq(Nat)
      BY <2>1 DEF ShellForm
    <3>4. QED
      BY <3>2, <3>3 DEF ShellForm
  <2>3. said' \in 0 .. Len(script')
    BY <1>1, <2>1 DEF Says
  <2>4. UNCHANGED <<backend, script, proc, holder, link, told, wire, pump, exit, code, queue,
                    dropped, held, over, out, truncated, phase, result>>
    BY <1>1 DEF Says, server, task, reader
  <2>5. QED
    BY <2>2, <2>3, <2>4 DEF ShellForm
<1>2. CASE LetsGo
  BY <1>2 DEF LetsGo, ShellForm, server, task, reader
<1>3. CASE ChildEnds
  BY <1>3 DEF ChildEnds, ShellForm, server, task, reader
<1>4. ASSUME NEW way \in Deaths[backend], Ends(way) PROVE ShellForm'
  <2>1. way \in ExitStatuses
    BY Given
  <2>2. QED
    BY <1>4, <2>1 DEF Ends, Left, ShellForm, server, task, reader
<1>5. QED
  BY <1>1, <1>2, <1>3, <1>4 DEF Command

LEMMA PumpForm ==
  ASSUME ShellForm, Pump
  PROVE  ShellForm'
<1>1. ExitCode \in {0, 1}
  BY DEF ExitCode, ShellForm, NoCode
<1>2. CASE Receive
  <2>1. wire' \in Seq(Chunks \cup Notes) /\ Head(wire) \in Chunks \cup Notes
    BY <1>2, Taken DEF Receive
  <2>2. /\ pump' \in {"off", "on", "ended"} /\ exit' \in {NoCode, 0, 1} /\ code' \in {NoCode, 0, 1}
        /\ queue' \in [Streams -> Seq(Nat)] /\ dropped' \subseteq Nat
    <3> DEFINE m == Head(wire)
    <3>1. CASE m.type = "data" /\ phase = "reading" /\ Forward(m.on, m.letter)
      <4>1. m \in Chunks /\ m.on \in Streams /\ m.letter \in Nat
        BY <2>1, <3>1, MessageIs
      <4>2. Append(queue[m.on], m.letter) \in Seq(Nat)
        BY <4>1 DEF ShellForm
      <4> HIDE DEF m
      <4>3. QED
        BY <3>1, <4>1, <4>2 DEF Forward, ShellForm, task
    <3>2. CASE PumpEnds
      BY <1>1, <3>2 DEF PumpEnds, ShellForm
    <3>3. CASE exit' \in {0, 1} /\ UNCHANGED <<pump, code, queue, dropped>>
      BY <3>3 DEF ShellForm
    <3>4. CASE UNCHANGED <<task, queue, dropped>>
      BY <3>4 DEF ShellForm, task
    <3>5. QED
      BY <1>2, <3>1, <3>2, <3>3, <3>4 DEF Receive
  <2>3. UNCHANGED <<backend, script, said, proc, holder, pipe, link, told, held, over, out,
                    truncated, phase, result>>
    BY <1>2 DEF Receive, command, server, reader
  <2>4. QED
    BY <2>1, <2>2, <2>3 DEF ShellForm
<1>3. CASE ReceiveNone
  BY <1>1, <1>3 DEF ReceiveNone, PumpEnds, ShellForm, command, server, reader
<1>4. QED
  BY <1>2, <1>3 DEF Pump

LEMMA ToolForm ==
  ASSUME ShellForm, Tool \/ Expires
  PROVE  ShellForm'
<1>1. CASE Exec \/ ExecFails \/ ReadsAll \/ Waits \/ Expires
  <2>1. UNCHANGED <<backend, script, said, pipe, told, link, wire, exit, code, queue, dropped,
                    reader>>
    BY <1>1 DEF Exec, ExecFails, ReadsAll, Waits, Expires, command, server, task
  <2>2. /\ proc' \in {"none", "running"} \cup ExitStatuses /\ holder' \in {"none", "command", "child"}
        /\ pump' \in {"off", "on", "ended"}
    BY <1>1 DEF Exec, ExecFails, ReadsAll, Waits, Expires, command, task, ShellForm
  <2>3. /\ phase' \in {"start", "reading", "waiting", "killing", "done"}
        /\ result' \in {"none", "error", "killed", "overflow", "ok", "failed"}
    BY <1>1 DEF Exec, ExecFails, ReadsAll, Waits, Expires, ShellForm
  <2>4. QED
    BY <2>1, <2>2, <2>3 DEF ShellForm, reader
<1>2. CASE Kills
  <2>1. proc' \in {"none", "running"} \cup ExitStatuses /\ holder' \in {"none", "command", "child"}
    BY <1>2 DEF Kills, Left, ShellForm, ExitStatuses
  <2>2. link' \in {"up", "closed", "lost"} /\ wire' \in Seq(Chunks \cup Notes)
    <3>1. CASE UNCHANGED <<link, wire>>
      BY <3>1 DEF ShellForm
    <3>2. CASE link' = "closed" /\ Sends([type |-> "close"])
      <4>1. [type |-> "close"] \in Chunks \cup Notes
        BY MessageIs
      <4>2. QED
        BY <3>2, <4>1, SendsForm
    <3>3. QED
      BY <1>2, <3>1, <3>2 DEF Kills
  <2>3. QED
    BY <1>2, <2>1, <2>2 DEF Kills, ShellForm, task, reader
<1>3. ASSUME NEW s \in Streams, Reads(s) PROVE ShellForm'
  BY <1>3, ReadsForm
<1>4. QED
  BY <1>1, <1>2, <1>3 DEF Tool

LEMMA FormStep ==
  ASSUME ShellForm, ShellNext
  PROVE  ShellForm'
BY CommandForm, ServerForm, PumpForm, ToolForm DEF ShellNext

-----------------------------------------------------------------------------
(* How the parts of the program go together.                                *)

LEMMA PhasesStep ==
  ASSUME ShellForm, Phases, ShellNext
  PROVE  Phases'
<1>0. /\ ShellForm'
      /\ backend \in {"local", "ssh"}
      /\ \A s \in Streams : over[s] \in BOOLEAN
  BY FormStep, Given DEF ShellForm
<1>1. CASE Says
  <2>1. phase # "start" /\ backend' = backend /\ phase' = phase /\ result' = result
        /\ proc' = proc /\ holder' = holder /\ UNCHANGED <<server, wire, task, reader>>
    BY <1>1 DEF Says, Phases
  <2>2. QED
    BY <2>1 DEF Phases, server, task, reader
<1>2. CASE LetsGo \/ ChildEnds
  <2>1. phase # "start" /\ backend' = backend /\ phase' = phase /\ result' = result
        /\ proc' = proc /\ proc # "none" /\ UNCHANGED <<server, wire, task, reader>>
    BY <1>2 DEF LetsGo, ChildEnds, Phases
  <2>2. QED
    BY <2>1 DEF Phases, server, task, reader
<1>3. ASSUME NEW way \in Deaths[backend], Ends(way) PROVE Phases'
  <2>1. way \in ExitStatuses
    BY Given
  <2>2. phase # "start" /\ backend' = backend /\ phase' = phase /\ result' = result
        /\ result # "error" /\ proc' # "none" /\ UNCHANGED <<server, wire, task, reader>>
    BY <1>3, <2>1 DEF Ends, Phases, ExitStatuses
  <2>3. QED
    BY <2>2 DEF Phases, server, task, reader
<1>4. CASE Server
  <2>1. backend = "ssh" /\ phase # "start"
    BY <1>4 DEF Server, SendData, SendStatus, SendClose, LoseConnection, Phases
  <2>2. UNCHANGED <<backend, command, task, queue, reader, phase, result>>
    BY <1>4 DEF Server, SendData, SendStatus, SendClose, LoseConnection
  <2>3. QED
    BY <2>1, <2>2 DEF Phases, command, task, reader
<1>5. CASE Pump
  <2>1. pump = "on" /\ UNCHANGED <<backend, command, reader, phase, result>>
    BY <1>5 DEF Pump, Receive, ReceiveNone
  <2>2. \/ UNCHANGED <<pump, code>>
        \/ pump' = "ended" /\ code' = ExitCode
    BY <1>5 DEF Pump, Receive, ReceiveNone, PumpEnds, Forward, task
  <2>3. ExitCode # NoCode
    BY DEF ExitCode, ShellForm, NoCode
  <2>4. phase # "start" /\ backend # "local" /\ result # "error"
    BY <2>1, <1>0 DEF Phases
  <2>5. QED
    BY <2>1, <2>2, <2>3, <2>4, <1>0 DEF Phases, command, reader
<1>6. CASE Exec
  <2>1. result = "none" /\ pump = "off" /\ code = NoCode /\ ~told /\ link = "up" /\ wire = <<>>
        /\ \A s \in Streams : ~over[s]
    BY <1>6 DEF Exec, Phases
  <2>2. phase' = "reading" /\ proc' = "running" /\ holder' = "command" /\ backend' = backend
        /\ pump' = (IF backend = "ssh" THEN "on" ELSE "off")
        /\ UNCHANGED <<server, wire, code, reader, result>>
    BY <1>6 DEF Exec
  <2>3. QED
    BY <1>0, <2>1, <2>2 DEF Phases, server, reader
<1>7. CASE ExecFails
  <2>1. phase = "start" /\ phase' = "done" /\ result' = "error"
        /\ UNCHANGED <<backend, command, server, wire, task, reader>>
    BY <1>7 DEF ExecFails
  <2>2. QED
    BY <1>0, <2>1 DEF Phases, command, server, task, reader
<1>8. ASSUME NEW s \in Streams, Reads(s) PROVE Phases'
  <2>1. phase = "reading" /\ UNCHANGED <<backend, command, server, wire, task, phase, result>>
    BY <1>8 DEF Reads
  <2>2. UNCHANGED over \/ (AtEnd(s) /\ over' = [over EXCEPT ![s] = held[s] = <<>>])
    BY <1>8 DEF Reads, ReadsLine, ReadsPiece, ReadsEnd
  <2>3. \A t \in Streams : over'[t] /\ backend = "ssh" => pump = "ended"
    BY <2>2 DEF AtEnd, Phases, ShellForm
  <2>4. QED
    BY <2>1, <2>3 DEF Phases, command, server, task
<1>9. CASE ReadsAll
  <2>1. phase = "reading" /\ phase' = "waiting" /\ (\A s \in Streams : over[s])
        /\ UNCHANGED <<backend, command, server, wire, task, reader, result>>
    BY <1>9 DEF ReadsAll
  <2>2. QED
    BY <2>1 DEF Phases, command, server, task, reader
<1>10. CASE Waits
  <2>1. phase = "waiting" /\ phase' = "done" /\ result' \in {"overflow", "ok", "failed"}
        /\ UNCHANGED <<backend, command, server, wire, task, reader>>
    BY <1>10 DEF Waits
  <2>2. QED
    BY <2>1 DEF Phases, command, server, task, reader
<1>11. CASE Expires
  <2>1. phase = "reading" /\ phase' = "killing"
        /\ UNCHANGED <<backend, command, server, wire, task, reader, result>>
    BY <1>11 DEF Expires
  <2>2. QED
    BY <2>1 DEF Phases, command, server, task, reader
<1>12. CASE Kills
  <2>1. phase = "killing" /\ phase' = "done" /\ result' = "killed"
        /\ UNCHANGED <<backend, told, task, reader>>
    BY <1>12 DEF Kills
  <2>2. /\ holder' # "none" => holder # "none" /\ proc' # "none"
        /\ backend = "local" => UNCHANGED <<link, wire>>
    BY <1>12 DEF Kills, Left, Phases
  <2>3. result # "error"
    BY <2>1 DEF Phases
  <2>4. QED
    BY <2>1, <2>2, <2>3 DEF Phases, task, reader
<1>13. QED
  BY <1>1, <1>2, <1>3, <1>4, <1>5, <1>6, <1>7, <1>8, <1>9, <1>10, <1>11, <1>12
     DEF ShellNext, Command, Tool


\* A message that says nothing of the exit does not change what is known of it.
LEMMA SendsStatus ==
  ASSUME ShellForm, Status, NEW message \in Chunks \cup Notes, Sends(message),
         message.type \notin ExitStatuses, UNCHANGED <<told, proc, exit>>
  PROVE  Status'
<1>1. /\ \A i \in DOMAIN wire : i \in DOMAIN wire' /\ wire'[i] = wire[i]
      /\ \A i \in DOMAIN wire' : i \in DOMAIN wire \/ wire'[i] = message
  <2>1. /\ wire'[Len(wire) + 1] = message
        /\ \A i \in DOMAIN wire : i \in DOMAIN wire' /\ wire'[i] = wire[i]
        /\ DOMAIN wire' = DOMAIN wire \cup {Len(wire) + 1}
    BY SendsForm
  <2>2. QED
    BY <2>1
<1>2. \A i \in DOMAIN wire' : wire'[i].type \in ExitStatuses => told /\ wire'[i].type = proc
  BY <1>1 DEF Status
<1>3. told /\ exit = NoCode /\ proc # "signal" => \E i \in DOMAIN wire' : wire'[i].type = proc
  BY <1>1 DEF Status
<1>4. QED
  BY <1>2, <1>3 DEF Status

LEMMA StatusStep ==
  ASSUME ShellForm, Phases, Status, ShellNext
  PROVE  Status'
<1>1. CASE UNCHANGED <<told, wire, exit, proc>>
  BY <1>1 DEF Status
<1>2. ASSUME NEW way \in Deaths[backend], Ends(way) PROVE Status'
  <2>1. way \in ExitStatuses /\ proc = "running" /\ proc' = way /\ UNCHANGED <<told, wire, exit>>
    BY <1>2, Given DEF Ends, server, task
  <2>2. ~told
    BY <2>1 DEF Status, ExitStatuses
  <2>3. QED
    BY <2>1, <2>2 DEF Status
<1>3. CASE Exec
  <2>1. ~told /\ wire = <<>> /\ UNCHANGED <<told, wire, exit>>
    BY <1>3 DEF Exec, Phases, server
  <2>2. exit = NoCode
    BY <2>1 DEF Status
  <2>3. exit' # 0 /\ exit' # 1
    BY <2>1, <2>2, Codes
  <2>4. QED
    BY <2>1, <2>2, <2>3 DEF Status
<1>4. ASSUME NEW s \in Streams, SendData(s) PROVE Status'
  <2> DEFINE m == [type |-> "data", on |-> s, letter |-> Head(pipe[s])]
  <2>1. m \in Chunks \cup Notes /\ Sends(m) /\ UNCHANGED <<told, proc, exit>>
    <3>1. pipe[s] \in Seq(Nat) /\ pipe[s] # <<>>
      BY <1>4 DEF SendData, ShellForm
    <3>2. m \in Chunks
      BY <3>1, MessageIs
    <3>3. QED
      BY <1>4, <3>2 DEF SendData, command, server, task
  <2>2. m.type \notin ExitStatuses
    BY DEF ExitStatuses
  <2> HIDE DEF m
  <2>3. QED
    BY <2>1, <2>2, SendsStatus
<1>5. CASE Sends([type |-> "close"]) /\ UNCHANGED <<told, exit, proc>>
  <2> DEFINE m == [type |-> "close"]
  <2>1. m \in Chunks \cup Notes
    BY MessageIs
  <2>2. m.type \notin ExitStatuses /\ Sends(m)
    BY <1>5 DEF ExitStatuses
  <2> HIDE DEF m
  <2>3. QED
    BY <1>5, <2>1, <2>2, SendsStatus
<1>6. CASE SendStatus
  <2> DEFINE m == [type |-> proc]
  <2>1. proc \in ExitStatuses /\ ~told /\ told' /\ UNCHANGED <<proc, exit>>
    BY <1>6 DEF SendStatus, ShellForm, command, task
  <2>2. m \in Chunks \cup Notes /\ m.type = proc /\ Sends(m)
    BY <1>6, <2>1, MessageIs DEF SendStatus
  <2> HIDE DEF m
  <2>3. /\ wire'[Len(wire) + 1] = m
        /\ \A i \in DOMAIN wire : wire'[i] = wire[i]
        /\ DOMAIN wire' = DOMAIN wire \cup {Len(wire) + 1}
    BY <2>2, SendsForm
  <2>4. exit = NoCode /\ \A i \in DOMAIN wire : wire[i].type \notin ExitStatuses
    BY <2>1 DEF Status
  <2>5. \A i \in DOMAIN wire' : wire'[i].type \in ExitStatuses => wire'[i].type = proc
    BY <2>2, <2>3, <2>4
  <2>6. \E i \in DOMAIN wire' : wire'[i].type = proc
    BY <2>2, <2>3
  <2>7. QED
    BY <2>1, <2>4, <2>5, <2>6 DEF Status
<1>7. CASE Receive
  <2> DEFINE m == Head(wire)
  <2>1. /\ m \in Chunks \cup Notes /\ 1 \in DOMAIN wire /\ wire[1] = m
        /\ \A i \in DOMAIN wire' : i + 1 \in DOMAIN wire /\ wire'[i] = wire[i + 1]
        /\ \A i \in DOMAIN wire : i = 1 \/ (i - 1 \in DOMAIN wire' /\ wire'[i - 1] = wire[i])
    BY <1>7, Taken DEF Receive
  <2>2. UNCHANGED <<told, proc>>
    BY <1>7 DEF Receive, command, server
  <2>3. \A i \in DOMAIN wire' : wire'[i].type \in ExitStatuses => told /\ wire'[i].type = proc
    <3>1. \A i \in DOMAIN wire : wire[i].type \in ExitStatuses => told /\ wire[i].type = proc
      BY DEF Status
    <3>2. QED
      BY <2>1, <3>1
  <2>4. CASE m.type \in {"exit 0", "exit 1"} /\ exit' = (IF m.type = "exit 0" THEN 0 ELSE 1)
    <3>1. told /\ m.type = proc
      BY <2>1, <2>4 DEF Status, ExitStatuses
    <3>2. CASE m.type = "exit 0"
      <4>1. exit' = 0 /\ proc = "exit 0"
        BY <2>4, <3>1, <3>2
      <4>2. exit' # NoCode /\ exit' # 1
        BY <4>1, Codes
      <4>3. QED
        BY <2>2, <2>3, <3>1, <4>1, <4>2 DEF Status
    <3>3. CASE m.type # "exit 0"
      <4>1. exit' = 1 /\ proc = "exit 1"
        BY <2>4, <3>1, <3>3
      <4>2. exit' # NoCode /\ exit' # 0
        BY <4>1, Codes
      <4>3. QED
        BY <2>2, <2>3, <3>1, <4>1, <4>2 DEF Status
    <3>4. QED
      BY <3>2, <3>3
  <2>5. CASE m.type \in {"data", "close", "signal"} /\ exit' = exit
    <3>1. told /\ exit = NoCode /\ proc # "signal" => \E i \in DOMAIN wire' : wire'[i].type = proc
      <4>1. SUFFICES ASSUME told, exit = NoCode, proc # "signal"
                     PROVE  \E i \in DOMAIN wire' : wire'[i].type = proc
        OBVIOUS
      <4>2. PICK i \in DOMAIN wire : wire[i].type = proc
        BY <4>1 DEF Status
      <4>3. proc \in ExitStatuses
        BY <4>1 DEF Status
      <4>4. i # 1
        BY <2>1, <2>5, <4>1, <4>2, <4>3 DEF ExitStatuses
      <4>5. QED
        BY <2>1, <4>2, <4>4
    <3>2. QED
      BY <2>2, <2>3, <2>5, <3>1 DEF Status
  <2>6. QED
    BY <1>7, <2>4, <2>5 DEF Receive, Forward, PumpEnds, task
<1>8. CASE Kills
  <2>1. UNCHANGED <<told, exit>>
    BY <1>8 DEF Kills, task
  <2>2. CASE proc = "running"
    <3>1. ~told /\ exit # 0 /\ exit # 1
      BY <2>2 DEF Status, ExitStatuses
    <3>2. CASE UNCHANGED wire
      BY <2>1, <3>1, <3>2 DEF Status
    <3>3. CASE Sends([type |-> "close"]) /\ proc' = proc
      BY <1>5, <2>1, <3>3
    <3>4. backend \in {"local", "ssh"}
      BY Given
    <3>5. QED
      BY <1>8, <2>2, <3>2, <3>3, <3>4 DEF Kills
  <2>3. CASE proc # "running"
    <3>1. proc' = proc
      BY <1>8, <2>3 DEF Kills
    <3>2. CASE UNCHANGED wire
      BY <1>1, <2>1, <3>1, <3>2
    <3>3. CASE Sends([type |-> "close"])
      BY <1>5, <2>1, <3>1, <3>3
    <3>4. QED
      BY <1>8, <3>2, <3>3 DEF Kills
  <2>4. QED
    BY <2>2, <2>3
<1>9. Command => UNCHANGED <<told, wire, exit, proc>>
                 \/ \E way \in Deaths[backend] : Ends(way)
  BY DEF Command, Says, LetsGo, ChildEnds, server, task
<1>10. Server => UNCHANGED <<told, wire, exit, proc>> \/ SendStatus
                 \/ (\E s \in Streams : SendData(s))
                 \/ (Sends([type |-> "close"]) /\ UNCHANGED <<told, exit, proc>>)
  BY DEF Server, LoseConnection, SendClose, command, task
<1>11. ReceiveNone => UNCHANGED <<told, wire, exit, proc>>
  BY DEF ReceiveNone, PumpEnds, command, server
<1>12. \A s \in Streams : Reads(s) => UNCHANGED <<told, wire, exit, proc>>
  BY DEF Reads, command, server, task
<1>13. ExecFails \/ ReadsAll \/ Waits \/ Expires => UNCHANGED <<told, wire, exit, proc>>
  BY DEF ExecFails, ReadsAll, Waits, Expires, command, server, task
<1>14. QED
  BY <1>1, <1>2, <1>3, <1>4, <1>5, <1>6, <1>7, <1>8, <1>9, <1>10, <1>11, <1>12, <1>13
     DEF ShellNext, Pump, Tool


\* The tool does not take up again what it gave up.
LEMMA PatientBefore ==
  ASSUME ShellForm, Phases, ShellNext, Patient'
  PROVE  Patient \/ Exec
<1>1. CASE UNCHANGED <<phase, result>>
  BY <1>1 DEF Patient
<1>2. CASE ReadsAll \/ Waits \/ Expires \/ Kills \/ ExecFails
  BY <1>2 DEF ReadsAll, Waits, Expires, Kills, ExecFails, Patient, Phases
<1>3. Command \/ Server \/ Pump => UNCHANGED <<phase, result>>
  BY DEF Command, Says, LetsGo, ChildEnds, Ends, Server, SendData, SendStatus, SendClose,
         LoseConnection, Pump, Receive, ReceiveNone
<1>4. \A s \in Streams : Reads(s) => UNCHANGED <<phase, result>>
  BY DEF Reads
<1>5. QED
  BY <1>1, <1>2, <1>3, <1>4 DEF ShellNext, Tool

\* A patient tool that is done with reading has read everything the task received.
LEMMA StillReading ==
  ASSUME ShellForm, Phases, Patient, pump = "on"
  PROVE  phase = "reading"
<1>1. SUFFICES ASSUME phase # "reading" PROVE FALSE
  OBVIOUS
<1>2. phase # "start" /\ result # "error"
  BY DEF Patient, Phases
<1>3. over["out"] /\ "out" \in Streams
  BY <1>1 DEF Patient, Phases, Streams
<1>4. backend = "ssh"
  BY <1>2, Given DEF Phases
<1>5. QED
  BY <1>3, <1>4 DEF Phases

LEMMA SendsClosing ==
  ASSUME ShellForm, ClosesLast, Patient, NEW message \in Chunks \cup Notes, Sends(message),
         link = "up", message.type # "close", UNCHANGED <<link, pump>>
  PROVE  ClosesLast'
<1>1. /\ wire'[Len(wire) + 1] = message
      /\ \A i \in DOMAIN wire : wire'[i] = wire[i]
      /\ DOMAIN wire' = DOMAIN wire \cup {Len(wire) + 1}
  BY SendsForm
<1>2. \A i \in DOMAIN wire : wire[i].type # "close"
  BY DEF ClosesLast
<1>3. \A i \in DOMAIN wire' : wire'[i].type # "close"
  BY <1>1, <1>2
<1>4. pump # "ended"
  BY DEF ClosesLast
<1>5. QED
  BY <1>3, <1>4 DEF ClosesLast

LEMMA ReceiveClosing ==
  ASSUME ShellForm, Phases, ClosesLast, Receive, Patient
  PROVE  ClosesLast'
<1> DEFINE m == Head(wire)
<1>1. /\ wire' \in Seq(Chunks \cup Notes) /\ m \in Chunks \cup Notes
      /\ Len(wire') = Len(wire) - 1 /\ Len(wire) \in Nat \ {0}
      /\ 1 \in DOMAIN wire /\ wire[1] = m
      /\ \A i \in DOMAIN wire' : i \in Nat /\ i + 1 \in DOMAIN wire /\ wire'[i] = wire[i + 1]
      /\ \A i \in DOMAIN wire : i = 1 \/ (i - 1 \in DOMAIN wire' /\ wire'[i - 1] = wire[i])
  BY Taken DEF Receive
<1>2. pump = "on" /\ phase = "reading"
  BY StillReading DEF Receive
<1>3. UNCHANGED <<link, told, holder, pipe>>
  BY DEF Receive, command, server
<1> HIDE DEF m
<1>4. \A i \in DOMAIN wire' : wire'[i].type = "close" => i = Len(wire') /\ link = "closed"
  <2>1. SUFFICES ASSUME NEW i \in DOMAIN wire', wire'[i].type = "close"
                 PROVE  i = Len(wire') /\ link = "closed"
    OBVIOUS
  <2>2. i + 1 \in DOMAIN wire /\ wire[i + 1].type = "close" /\ i \in Nat
    BY <1>1, <2>1
  <2>3. i + 1 = Len(wire) /\ link = "closed"
    BY <2>2 DEF ClosesLast
  <2>4. QED
    BY <1>1, <2>2, <2>3
<1>5. CASE m.type = "close" /\ pump' = "ended"
  <2>1. 1 = Len(wire) /\ link = "closed"
    BY <1>1, <1>5 DEF ClosesLast
  <2>2. Len(wire') = 0 /\ wire' \in Seq(Chunks \cup Notes)
    <3>1. Len(wire') = Len(wire) - 1 /\ wire' \in Seq(Chunks \cup Notes)
      BY <1>1
    <3>2. QED
      BY <2>1, <3>1
  <2>3. wire' = <<>>
    BY <2>2
  <2>4. QED
    BY <1>2, <1>3, <1>4, <1>5, <2>1, <2>3 DEF ClosesLast
<1>6. CASE m.type # "close" /\ pump' = pump
  <2>1. link = "closed" => wire' # <<>> /\ wire'[Len(wire')].type = "close"
    <3>1. SUFFICES ASSUME link = "closed"
                   PROVE  wire' # <<>> /\ wire'[Len(wire')].type = "close"
      OBVIOUS
    <3>2. wire[Len(wire)].type = "close" /\ Len(wire) \in DOMAIN wire
      BY <1>1, <1>2, <3>1 DEF ClosesLast, ShellForm
    <3>3. Len(wire) # 1
      BY <1>1, <1>6, <3>2
    <3>4. Len(wire) - 1 \in DOMAIN wire' /\ wire'[Len(wire) - 1] = wire[Len(wire)]
      BY <1>1, <3>2, <3>3
    <3>5. wire' # <<>>
      BY <3>4
    <3>6. QED
      BY <1>1, <3>2, <3>4, <3>5
  <2>2. pump' # "ended"
    BY <1>2, <1>6
  <2>3. link = "closed" => told /\ holder = "none" /\ \A s \in Streams : pipe[s] = <<>>
    BY DEF ClosesLast
  <2>4. QED
    BY <1>3, <1>4, <2>1, <2>2, <2>3 DEF ClosesLast
<1>7. QED
  BY <1>2, <1>5, <1>6 DEF Receive, Forward, PumpEnds, task, m

LEMMA ClosingStep ==
  ASSUME ShellForm, Phases, Status, ClosesLast, ShellNext
  PROVE  ClosesLast'
<1>1. SUFFICES ASSUME Patient' PROVE ClosesLast'
  BY DEF ClosesLast
<1>2. CASE Exec
  <2>1. /\ link = "up" /\ wire = <<>> /\ UNCHANGED <<link, wire>>
        /\ pump' # "ended"
    BY <1>2 DEF Exec, Phases, server
  <2>2. QED
    BY <2>1 DEF ClosesLast
<1>3. ASSUME Patient PROVE ClosesLast'
  <2>1. CASE UNCHANGED <<wire, link, told, holder, pipe, pump>>
    BY <1>3, <2>1 DEF ClosesLast
  <2>2. ASSUME NEW way \in Deaths[backend], Ends(way) PROVE ClosesLast'
    <3>1. proc = "running" /\ UNCHANGED <<wire, link, told, pipe, pump>>
      BY <2>2 DEF Ends, server, task
    <3>2. ~told
      BY <3>1 DEF Status, ExitStatuses
    <3>3. QED
      BY <1>3, <3>1, <3>2 DEF ClosesLast
  <2>3. CASE Says \/ LetsGo \/ ChildEnds
    <3>1. holder # "none" /\ UNCHANGED <<wire, link, told, pump>>
      BY <2>3 DEF Says, LetsGo, ChildEnds, server, task
    <3>2. QED
      BY <1>3, <3>1 DEF ClosesLast
  <2>4. ASSUME NEW s \in Streams, SendData(s) PROVE ClosesLast'
    <3> DEFINE m == [type |-> "data", on |-> s, letter |-> Head(pipe[s])]
    <3>1. m \in Chunks \cup Notes /\ Sends(m) /\ m.type # "close"
      <4>1. pipe[s] \in Seq(Nat) /\ pipe[s] # <<>>
        BY <2>4 DEF SendData, ShellForm
      <4>2. m \in Chunks
        BY <4>1, MessageIs
      <4>3. QED
        BY <2>4, <4>2 DEF SendData
    <3>2. link = "up" /\ UNCHANGED <<link, pump>>
      BY <2>4 DEF SendData, server, task
    <3> HIDE DEF m
    <3>3. QED
      BY <1>3, <3>1, <3>2, SendsClosing
  <2>5. CASE SendStatus
    <3> DEFINE m == [type |-> proc]
    <3>1. m \in Chunks \cup Notes /\ m.type # "close" /\ Sends(m)
      <4>1. proc \in ExitStatuses
        BY <2>5 DEF SendStatus, ShellForm
      <4>2. QED
        BY <2>5, <4>1, MessageIs DEF SendStatus, ExitStatuses
    <3>2. link = "up" /\ UNCHANGED <<link, pump>>
      BY <2>5 DEF SendStatus, task
    <3> HIDE DEF m
    <3>3. QED
      BY <1>3, <3>1, <3>2, SendsClosing
  <2>6. CASE SendClose
    <3> DEFINE m == [type |-> "close"]
    <3>1. m \in Chunks \cup Notes /\ Sends(m) /\ m.type = "close"
      BY <2>6, MessageIs DEF SendClose
    <3> HIDE DEF m
    <3>2. /\ wire'[Len(wire) + 1] = m /\ Len(wire') = Len(wire) + 1 /\ Len(wire) \in Nat
          /\ wire' \in Seq(Chunks \cup Notes)
          /\ \A i \in DOMAIN wire : wire'[i] = wire[i]
          /\ DOMAIN wire' = DOMAIN wire \cup {Len(wire) + 1}
      BY <3>1, SendsForm
    <3>3. /\ link = "up" /\ link' = "closed" /\ told' /\ holder' = "none" /\ pump' = pump
          /\ \A s \in Streams : pipe'[s] = <<>>
      BY <2>6 DEF SendClose, command, task
    <3>4. (\A i \in DOMAIN wire : wire[i].type # "close") /\ pump # "ended"
      BY <1>3, <3>3 DEF ClosesLast
    <3>5. \A i \in DOMAIN wire' : wire'[i].type = "close" => i = Len(wire')
      BY <3>2, <3>4
    <3>6. wire' # <<>> /\ wire'[Len(wire')].type = "close"
      BY <3>1, <3>2
    <3>7. QED
      BY <3>3, <3>4, <3>5, <3>6 DEF ClosesLast
  <2>7. CASE LoseConnection
    <3>1. link = "up" /\ link' = "lost" /\ UNCHANGED wire
      BY <2>7 DEF LoseConnection
    <3>2. \A i \in DOMAIN wire : wire[i].type # "close"
      BY <1>3, <3>1 DEF ClosesLast
    <3>3. QED
      BY <3>1, <3>2 DEF ClosesLast
  <2>8. CASE Receive
    BY <1>3, <2>8, ReceiveClosing
  <2>9. CASE ReceiveNone
    <3>1. link = "lost" /\ link' = "lost" /\ wire' = wire
      BY <2>9 DEF ReceiveNone, server
    <3>2. \A i \in DOMAIN wire : wire[i].type # "close"
      BY <1>3, <3>1 DEF ClosesLast
    <3>3. QED
      BY <3>1, <3>2 DEF ClosesLast
  <2>10. CASE \E s \in Streams : Reads(s)
    <3>1. PICK s \in Streams : Reads(s)
      BY <2>10
    <3>2. UNCHANGED <<wire, link, told, holder, pump>>
      BY <3>1 DEF Reads, command, server, task
    <3>3. link = "closed" => backend = "ssh" /\ UNCHANGED pipe
      <4>1. SUFFICES ASSUME link = "closed" PROVE backend = "ssh" /\ UNCHANGED pipe
        OBVIOUS
      <4>2. backend = "ssh"
        BY <4>1, Given DEF Phases
      <4>3. QED
        BY <3>1, <4>2 DEF Reads, ReadsLine, ReadsPiece, ReadsEnd, Leave
    <3>4. QED
      BY <1>3, <3>2, <3>3 DEF ClosesLast
  <2>11. ReadsAll \/ Waits \/ Expires \/ ExecFails =>
           UNCHANGED <<wire, link, told, holder, pipe, pump>>
    BY DEF ReadsAll, Waits, Expires, ExecFails, command, server, task
  <2>12. Kills => ~Patient'
    BY DEF Kills, Patient
  <2>13. ~Exec
    BY <1>3 DEF Exec, Patient, Phases
  <2>14. QED
    BY <1>1, <2>1, <2>2, <2>3, <2>4, <2>5, <2>6, <2>7, <2>8, <2>9, <2>10, <2>11, <2>12, <2>13
       DEF ShellNext, Command, Server, Pump, Tool
<1>4. QED
  BY <1>1, <1>2, <1>3, PatientBefore

LEMMA EndedStep ==
  ASSUME Careful, ShellForm, Phases, Status, ClosesLast, Ended, ShellNext
  PROVE  Ended'
<1>0. ShellForm' /\ Phases' /\ backend \in {"local", "ssh"}
  BY FormStep, PhasesStep, Given
<1>1. CASE UNCHANGED <<code, proc, backend, phase, result>> /\ (link = "lost" => link' = "lost")
  BY <1>1 DEF Ended, ExitIsTold, Patient
<1>2. ASSUME NEW way \in Deaths[backend], Ends(way) PROVE Ended'
  <2>1. /\ proc = "running" /\ proc' = way /\ way \in ExitStatuses
        /\ UNCHANGED <<code, link, backend, phase, result>>
    BY <1>2, Given DEF Ends, server, task
  <2>2. backend = "local" => way # "signal"
    <3>1. backend = "local" => "local" \in Backends
      BY DEF ShellForm
    <3>2. QED
      BY <3>1 DEF Careful
  <2>3. QED
    BY <2>1, <2>2 DEF Ended, ExitIsTold, Patient, ExitStatuses
<1>3. CASE Exec
  <2>1. code = NoCode /\ result = "none" /\ proc' = "running" /\ UNCHANGED <<code, result>>
    BY <1>3 DEF Exec, Phases
  <2>2. QED
    BY <2>1 DEF Ended, ExitIsTold, NoCode
<1>4. CASE ExecFails
  <2>1. /\ proc = "none" /\ code = NoCode /\ result' = "error"
        /\ UNCHANGED <<code, proc, backend>>
    BY <1>4 DEF ExecFails, Phases, command, task
  <2>2. QED
    BY <2>1 DEF Ended, ExitIsTold, NoCode
<1>5. CASE ReadsAll \/ Expires
  <2>1. UNCHANGED <<code, proc, backend, result, link>> /\ phase = "reading"
    BY <1>5 DEF ReadsAll, Expires, command, server, task
  <2>2. QED
    BY <2>1 DEF Ended, ExitIsTold, Patient
<1>6. CASE Kills
  <2>1. /\ result' = "killed" /\ phase' = "done" /\ UNCHANGED code
        /\ proc' = proc \/ (proc = "running" /\ proc' = "signal")
    BY <1>6 DEF Kills, task
  <2>2. QED
    BY <2>1 DEF Ended, ExitIsTold, Patient
<1>7. CASE Waits
  <2>1. /\ phase = "waiting" /\ phase' = "done" /\ UNCHANGED <<code, proc, backend, link>>
        /\ WaitsFor # NoCode /\ result' \in {"overflow", "ok", "failed"}
        /\ result' = "ok" => WaitsFor = 0
        /\ result' = "failed" => WaitsFor # 0
    BY <1>7 DEF Waits, command, server, task
  <2>2. Patient /\ result = "none"
    BY <2>1 DEF Patient, Phases
  <2>3. backend = "local" => proc # "signal"
    BY <2>2 DEF Ended
  <2>4. result' = "ok" => proc = "exit 0"
    <3>1. CASE backend = "ssh"
      BY <2>1, <3>1 DEF WaitsFor, Ended
    <3>2. CASE backend = "local"
      <4>1. proc = "exit 1" => WaitsFor = 1
        BY <3>2 DEF WaitsFor
      <4>2. proc \notin {"exit 0", "exit 1", "signal"} => WaitsFor = NoCode
        BY <3>2 DEF WaitsFor
      <4>3. result' = "ok" => proc # "exit 1"
        BY <2>1, <4>1, Codes
      <4>4. proc \in {"exit 0", "exit 1", "signal"}
        BY <2>1, <4>2
      <4>5. QED
        BY <2>3, <3>2, <4>3, <4>4
    <3>3. QED
      BY <1>0, <3>1, <3>2
  <2>5. result' = "failed" => proc \in {"exit 1", "signal"} \/ link = "lost"
    <3>1. CASE backend = "ssh"
      BY <2>1, <2>2, <3>1 DEF WaitsFor, Ended, ShellForm
    <3>2. CASE backend = "local"
      BY <2>1, <2>3, <3>2 DEF WaitsFor, NoCode
    <3>3. QED
      BY <1>0, <3>1, <3>2
  <2>6. QED
    BY <2>1, <2>2, <2>3, <2>4, <2>5 DEF Ended, ExitIsTold
<1>8. CASE Pump
  <2>1. UNCHANGED <<proc, backend, phase, result, link>> /\ pump = "on"
    BY <1>8 DEF Pump, Receive, ReceiveNone, command, server
  <2>2. CASE UNCHANGED code
    BY <1>1, <2>1, <2>2
  <2>3. CASE PumpEnds
    <3>1. code' = ExitCode /\ pump' = "ended"
      BY <2>3 DEF PumpEnds
    <3>2. ExitCode = 0 => proc = "exit 0"
      <4>1. ExitCode = 0 => exit = 0
        BY DEF ExitCode
      <4>2. QED
        BY <4>1 DEF Status
    <3>3. ExitCode = 1 /\ Patient => proc \in {"exit 1", "signal"} \/ link = "lost"
      <4>1. SUFFICES ASSUME ExitCode = 1, Patient, link # "lost"
                     PROVE  proc \in {"exit 1", "signal"}
        OBVIOUS
      <4>2. CASE exit # NoCode
        <5>1. exit = 1
          BY <4>1, <4>2 DEF ExitCode
        <5>2. QED
          BY <5>1 DEF Status
      <4>3. CASE exit = NoCode
        <5>1. ClosesLast'
          BY ClosingStep, <1>8 DEF ShellNext
        <5>2. wire' = <<>> /\ link = "closed"
          BY <2>1, <3>1, <4>1, <5>1 DEF ClosesLast, Patient
        <5>3. told /\ told' = told
          BY <4>1, <5>2, <1>8 DEF ClosesLast, Pump, Receive, ReceiveNone, server
        <5>4. Status' /\ exit' = exit
          BY StatusStep, <1>8, <2>3 DEF ShellNext, PumpEnds
        <5>5. proc \in ExitStatuses
          BY <2>1, <5>3, <5>4 DEF Status
        <5>6. proc = "signal"
          <6>1. DOMAIN wire' = {}
            BY <5>2
          <6>2. QED
            BY <2>1, <4>3, <5>3, <5>4, <6>1 DEF Status
        <5>7. QED
          BY <5>6
      <4>4. QED
        BY <4>2, <4>3
    <3>4. QED
      BY <2>1, <3>1, <3>2, <3>3 DEF Ended, ExitIsTold, Patient
  <2>4. QED
    BY <1>8, <2>2, <2>3 DEF Pump, Receive, ReceiveNone, Forward, task
<1>9. Says \/ LetsGo \/ ChildEnds \/ Server =>
        UNCHANGED <<code, proc, backend, phase, result>> /\ (link = "lost" => link' = "lost")
  BY DEF Says, LetsGo, ChildEnds, Server, SendData, SendStatus, SendClose, LoseConnection,
         command, server, task
<1>10. \A s \in Streams : Reads(s) => UNCHANGED <<code, proc, backend, phase, result, link>>
  BY DEF Reads, command, server, task
<1>11. QED
  BY <1>1, <1>2, <1>3, <1>4, <1>5, <1>6, <1>7, <1>8, <1>9, <1>10 DEF ShellNext, Command, Tool


LEMMA CountedStep ==
  ASSUME ShellForm, Phases, Counted, ShellNext
  PROVE  Counted'
<1>1. SUFFICES ASSUME result' \in {"ok", "failed"} PROVE dropped' = {}
  BY DEF Counted
<1>2. CASE Waits
  BY <1>1, <1>2 DEF Waits, Counted
<1>3. CASE ~Waits
  <2>1. UNCHANGED <<phase, result>>
    <3>1. ~ExecFails /\ ~Kills
      BY <1>1 DEF ExecFails, Kills
    <3>2. CASE Exec \/ ReadsAll \/ Expires
      <4>1. result = "none" /\ result' = "none"
        BY <3>2 DEF Exec, ReadsAll, Expires, Phases
      <4>2. QED
        BY <1>1, <4>1
    <3>3. Command \/ Server \/ Pump => UNCHANGED <<phase, result>>
      BY DEF Command, Says, LetsGo, ChildEnds, Ends, Server, SendData, SendStatus, SendClose,
             LoseConnection, Pump, Receive, ReceiveNone
    <3>4. \A s \in Streams : Reads(s) => UNCHANGED <<phase, result>>
      BY DEF Reads
    <3>5. QED
      BY <1>3, <3>1, <3>2, <3>3, <3>4 DEF ShellNext, Tool
  <2>2. phase = "done" /\ Patient
    BY <1>1, <2>1 DEF Phases, Patient
  <2>3. pump # "on"
    BY <2>2, StillReading
  <2>4. ~Pump
    BY <2>3 DEF Pump, Receive, ReceiveNone
  <2>5. ~Exec
    BY <2>2 DEF Exec
  <2>6. Command \/ Server => UNCHANGED dropped
    BY DEF Command, Says, LetsGo, ChildEnds, Ends, Server, SendData, SendStatus, SendClose,
           LoseConnection
  <2>7. Tool \/ Expires => UNCHANGED dropped
    BY <2>5 DEF Tool, ExecFails, ReadsAll, Waits, Kills, Expires, Reads
  <2>8. QED
    BY <1>1, <2>1, <2>4, <2>6, <2>7 DEF ShellNext, Counted
<1>4. QED
  BY <1>2, <1>3


-----------------------------------------------------------------------------
(* Sequences of letters.                                                    *)

LEMMA Concat ==
  ASSUME NEW p \in Seq(Nat), NEW r \in Seq(Nat)
  PROVE  /\ p \o r \in Seq(Nat)
         /\ \A i \in DOMAIN p : i \in DOMAIN (p \o r) /\ (p \o r)[i] = p[i]
         /\ \A i \in DOMAIN r : i + Len(p) \in DOMAIN (p \o r) /\ (p \o r)[i + Len(p)] = r[i]
         /\ \A i \in DOMAIN (p \o r) : i \in DOMAIN p \/ (i - Len(p) \in DOMAIN r
                                                          /\ (p \o r)[i] = r[i - Len(p)])
         /\ DOMAIN p \subseteq Nat /\ DOMAIN r \subseteq Nat /\ DOMAIN (p \o r) \subseteq Nat
         /\ Len(p) \in Nat /\ \A i \in DOMAIN p : i <= Len(p)
         /\ \A i \in DOMAIN r : i > 0
OBVIOUS

LEMMA Shifted ==
  ASSUME NEW p \in Seq(Nat), NEW r \in Seq(Nat), NEW i \in DOMAIN r
  PROVE  i + Len(p) \in DOMAIN (p \o r) /\ (p \o r)[i + Len(p)] = r[i]
OBVIOUS

LEMMA ConcatSet ==
  ASSUME NEW p \in Seq(Nat), NEW r \in Seq(Nat)
  PROVE  ToSet(p \o r) = ToSet(p) \cup ToSet(r)
<1>1. ASSUME NEW a \in ToSet(p) PROVE a \in ToSet(p \o r)
  <2>1. PICK i \in DOMAIN p : p[i] = a
    BY DEF ToSet
  <2>2. QED
    BY <2>1, Concat DEF ToSet
<1>2. ASSUME NEW a \in ToSet(r) PROVE a \in ToSet(p \o r)
  <2>1. PICK i \in DOMAIN r : r[i] = a
    BY DEF ToSet
  <2>2. i + Len(p) \in DOMAIN (p \o r) /\ (p \o r)[i + Len(p)] = a
    BY <2>1, Concat
  <2>3. QED
    BY <2>2 DEF ToSet
<1>3. ASSUME NEW a \in ToSet(p \o r) PROVE a \in ToSet(p) \cup ToSet(r)
  <2>1. PICK i \in DOMAIN (p \o r) : (p \o r)[i] = a
    BY DEF ToSet
  <2>2. CASE i \in DOMAIN p
    <3>1. p[i] = a
      BY <2>1, <2>2, Concat
    <3>2. QED
      BY <2>2, <3>1 DEF ToSet
  <2>3. CASE i - Len(p) \in DOMAIN r /\ (p \o r)[i] = r[i - Len(p)]
    BY <2>1, <2>3 DEF ToSet
  <2>4. QED
    BY <2>2, <2>3, Concat
<1>4. QED
  BY <1>1, <1>2, <1>3

\* A rising sequence is two rising ones, and the first is below the second.
LEMMA RisingParts ==
  ASSUME NEW p \in Seq(Nat), NEW r \in Seq(Nat), Rising(p \o r)
  PROVE  /\ Rising(p) /\ Rising(r)
         /\ \A a \in ToSet(p), b \in ToSet(r) : a < b
<1>1. Rising(p)
  BY Concat DEF Rising
<1>2. Rising(r)
  <2>1. SUFFICES ASSUME NEW i \in DOMAIN r, NEW j \in DOMAIN r, i < j PROVE r[i] < r[j]
    BY DEF Rising
  <2>2. /\ i + Len(p) \in DOMAIN (p \o r) /\ (p \o r)[i + Len(p)] = r[i]
        /\ j + Len(p) \in DOMAIN (p \o r) /\ (p \o r)[j + Len(p)] = r[j]
    BY Shifted
  <2>3. i + Len(p) < j + Len(p)
    <3>1. i \in Nat /\ j \in Nat /\ Len(p) \in Nat
      BY Concat
    <3>2. QED
      BY <2>1, <3>1
  <2>4. (p \o r)[i + Len(p)] < (p \o r)[j + Len(p)]
    BY <2>2, <2>3 DEF Rising
  <2>5. QED
    BY <2>2, <2>4
<1>3. ASSUME NEW a \in ToSet(p), NEW b \in ToSet(r) PROVE a < b
  <2>1. PICK i \in DOMAIN p : p[i] = a
    BY DEF ToSet
  <2>2. PICK j \in DOMAIN r : r[j] = b
    BY DEF ToSet
  <2>3. /\ i \in DOMAIN (p \o r) /\ (p \o r)[i] = a
        /\ j + Len(p) \in DOMAIN (p \o r) /\ (p \o r)[j + Len(p)] = b
        /\ i \in Nat /\ i <= Len(p) /\ Len(p) \in Nat /\ j \in Nat /\ j > 0
    <3>1. i \in DOMAIN (p \o r) /\ (p \o r)[i] = a
      BY <2>1, Concat
    <3>2. j + Len(p) \in DOMAIN (p \o r) /\ (p \o r)[j + Len(p)] = b
      BY <2>2, Shifted
    <3>3. i \in Nat /\ i <= Len(p) /\ Len(p) \in Nat /\ j \in Nat /\ j > 0
      BY Concat
    <3>4. QED
      BY <3>1, <3>2, <3>3
  <2>4. i < j + Len(p)
    BY <2>3
  <2>5. QED
    BY <2>3, <2>4 DEF Rising
<1>4. QED
  BY <1>1, <1>2, <1>3

\* A report that goes on with later letters of one stream stays in order; so does a
\* rising sequence that goes on with later letters.
LEMMA OrderedConcat ==
  ASSUME NEW p \in Seq(Nat), NEW r \in Seq(Nat), NEW s, Ordered(p), Rising(r),
         \A b \in ToSet(r) : script[b].on = s,
         \A a \in ToSet(p), b \in ToSet(r) : script[a].on = s => a < b
  PROVE  Ordered(p \o r)
<1>1. SUFFICES ASSUME NEW i \in DOMAIN (p \o r), NEW j \in DOMAIN (p \o r), i < j,
                      script[(p \o r)[i]].on = script[(p \o r)[j]].on
               PROVE  (p \o r)[i] < (p \o r)[j]
  BY DEF Ordered
<1>0. i \in Nat /\ j \in Nat /\ Len(p) \in Nat
  BY Concat
<1>2. /\ \A k \in DOMAIN p : p[k] = (p \o r)[k] /\ k <= Len(p) /\ p[k] \in ToSet(p)
      /\ \A k \in DOMAIN r : k > 0 /\ k \in Nat /\ r[k] \in ToSet(r)
  BY Concat DEF ToSet
<1>6. DOMAIN p = 1 .. Len(p) /\ DOMAIN (p \o r) = 1 .. Len(p \o r)
  BY Concat
<1>3. CASE j \in DOMAIN p
  <2>1. i \in DOMAIN p
    BY <1>0, <1>1, <1>2, <1>3, <1>6
  <2>2. QED
    BY <1>1, <1>2, <1>3, <2>1 DEF Ordered
<1>4. CASE j - Len(p) \in DOMAIN r /\ (p \o r)[j] = r[j - Len(p)]
  <2>1. CASE i \in DOMAIN p
    BY <1>1, <1>2, <1>4, <2>1
  <2>2. CASE i - Len(p) \in DOMAIN r /\ (p \o r)[i] = r[i - Len(p)]
    <3>1. i - Len(p) < j - Len(p)
      BY <1>0, <1>1
    <3>2. QED
      BY <1>4, <2>2, <3>1 DEF Rising
  <2>3. i \in DOMAIN p \/ (i - Len(p) \in DOMAIN r /\ (p \o r)[i] = r[i - Len(p)])
    BY Concat
  <2>4. QED
    BY <2>1, <2>2, <2>3
<1>5. j \in DOMAIN p \/ (j - Len(p) \in DOMAIN r /\ (p \o r)[j] = r[j - Len(p)])
  BY Concat
<1>7. QED
  BY <1>3, <1>4, <1>5

LEMMA RisingConcat ==
  ASSUME NEW p \in Seq(Nat), NEW r \in Seq(Nat), Rising(p), Rising(r),
         \A a \in ToSet(p), b \in ToSet(r) : a < b
  PROVE  Rising(p \o r)
<1>1. SUFFICES ASSUME NEW i \in DOMAIN (p \o r), NEW j \in DOMAIN (p \o r), i < j
               PROVE  (p \o r)[i] < (p \o r)[j]
  BY DEF Rising
<1>0. i \in Nat /\ j \in Nat /\ Len(p) \in Nat
  BY Concat
<1>2. /\ \A k \in DOMAIN p : p[k] = (p \o r)[k] /\ k <= Len(p) /\ p[k] \in ToSet(p)
      /\ \A k \in DOMAIN r : k > 0 /\ k \in Nat /\ r[k] \in ToSet(r)
  BY Concat DEF ToSet
<1>6. DOMAIN p = 1 .. Len(p) /\ DOMAIN (p \o r) = 1 .. Len(p \o r)
  BY Concat
<1>3. CASE j \in DOMAIN p
  <2>1. i \in DOMAIN p
    BY <1>0, <1>1, <1>2, <1>3, <1>6
  <2>2. QED
    BY <1>1, <1>2, <1>3, <2>1 DEF Rising
<1>4. CASE j - Len(p) \in DOMAIN r /\ (p \o r)[j] = r[j - Len(p)]
  <2>1. CASE i \in DOMAIN p
    BY <1>2, <1>4, <2>1
  <2>2. CASE i - Len(p) \in DOMAIN r /\ (p \o r)[i] = r[i - Len(p)]
    <3>1. i - Len(p) < j - Len(p)
      BY <1>0, <1>1
    <3>2. QED
      BY <1>4, <2>2, <3>1 DEF Rising
  <2>3. i \in DOMAIN p \/ (i - Len(p) \in DOMAIN r /\ (p \o r)[i] = r[i - Len(p)])
    BY Concat
  <2>4. QED
    BY <2>1, <2>2, <2>3
<1>5. j \in DOMAIN p \/ (j - Len(p) \in DOMAIN r /\ (p \o r)[j] = r[j - Len(p)])
  BY Concat
<1>7. QED
  BY <1>3, <1>4, <1>5

LEMMA OneMore ==
  ASSUME NEW p \in Seq(Nat), NEW n \in Nat
  PROVE  /\ Append(p, n) = p \o <<n>> /\ <<n>> \in Seq(Nat) /\ ToSet(<<n>>) = {n}
         /\ Rising(<<n>>)
<1>1. Append(p, n) = p \o <<n>> /\ <<n>> \in Seq(Nat)
  OBVIOUS
<1>2. ToSet(<<n>>) = {n} /\ Rising(<<n>>)
  BY DEF ToSet, Rising
<1>3. QED
  BY <1>1, <1>2

LEMMA FirstOne ==
  ASSUME NEW p \in Seq(Nat), p # <<>>
  PROVE  /\ Head(p) \in Nat /\ Tail(p) \in Seq(Nat) /\ p = <<Head(p)>> \o Tail(p)
OBVIOUS


-----------------------------------------------------------------------------
(* The letters on their way.                                                *)

LEMMA Stages ==
  ASSUME NEW s
  PROVE  /\ Stage(s, 1) = {n \in ToSet(out) : script[n].on = s}
         /\ Stage(s, 2) = ToSet(held[s]) /\ Stage(s, 3) = ToSet(queue[s])
         /\ Stage(s, 4) = {n \in 1 .. said : \E i \in DOMAIN wire : Carries(wire[i], s, n)}
         /\ Stage(s, 5) = ToSet(pipe[s])
         /\ Stage(s, 1)' = {n \in ToSet(out') : script'[n].on = s}
         /\ Stage(s, 2)' = ToSet(held'[s]) /\ Stage(s, 3)' = ToSet(queue'[s])
         /\ Stage(s, 4)' = {n \in 1 .. said' : \E i \in DOMAIN wire' : Carries(wire'[i], s, n)}
         /\ Stage(s, 5)' = ToSet(pipe'[s])
<1>1. /\ Stage(s, 1) = {n \in ToSet(out) : script[n].on = s}
      /\ Stage(s, 1)' = {n \in ToSet(out') : script'[n].on = s}
  BY DEF Stage, ToSet
<1>2. Stage(s, 2) = ToSet(held[s]) /\ Stage(s, 2)' = ToSet(held'[s])
  BY DEF Stage, ToSet
<1>3. Stage(s, 3) = ToSet(queue[s]) /\ Stage(s, 3)' = ToSet(queue'[s])
  BY DEF Stage, ToSet
<1>4. /\ Stage(s, 4) = {n \in 1 .. said : \E i \in DOMAIN wire : Carries(wire[i], s, n)}
      /\ Stage(s, 4)' = {n \in 1 .. said' : \E i \in DOMAIN wire' : Carries(wire'[i], s, n)}
  BY DEF Stage, Carries
<1>5. Stage(s, 5) = ToSet(pipe[s]) /\ Stage(s, 5)' = ToSet(pipe'[s])
  BY DEF Stage, ToSet
<1>6. QED
  BY <1>1, <1>2, <1>3, <1>4, <1>5

\* The letters of a step: each comes from its own stage or a later one, and none is
\* lost that was not dropped.
Moved ==
  /\ \A s \in Streams : \A k \in 1 .. 5 :
       /\ \A n \in Stage(s, k)' : \E j \in 1 .. 5 : n \in Stage(s, j)
       /\ \A n \in Stage(s, k) : n \in dropped' \/ \E j \in 1 .. 5 : n \in Stage(s, j)'
  /\ \A n \in dropped : n \in dropped'

LEMMA MovedKeeps ==
  ASSUME ShellForm, Own, Whole, Moved, UNCHANGED <<said, script>>
  PROVE  Own' /\ Whole'
<1>1. Own'
  BY DEF Own, Moved
<1>2. Whole'
  <2>1. \A n \in 1 .. said : script[n].on \in Streams
    BY Given DEF ShellForm
  <2>2. QED
    BY <2>1 DEF Whole, Moved
<1>3. QED
  BY <1>1, <1>2

\* What is in no step's way stays where it is.
LEMMA SameStages ==
  ASSUME UNCHANGED <<said, script, out, held, queue, wire, pipe>>
  PROVE  \A s : \A k \in 1 .. 5 : Stage(s, k)' = Stage(s, k)
<1>1. SUFFICES ASSUME NEW s, NEW k \in 1 .. 5 PROVE Stage(s, k)' = Stage(s, k)
  OBVIOUS
<1>2. CASE k = 1
  <2>1. \A n : n \in Stage(s, 1)' <=> n \in Stage(s, 1)
    BY Stages
  <2>2. QED
    BY <1>2, <2>1
<1>3. CASE k = 2
  BY <1>3, Stages
<1>4. CASE k = 3
  BY <1>4, Stages
<1>5. CASE k = 4
  <2>1. \A n : n \in Stage(s, 4)' <=> n \in Stage(s, 4)
    BY Stages
  <2>2. QED
    BY <1>5, <2>1
<1>6. CASE k = 5
  BY <1>6, Stages
<1>7. QED
  BY <1>2, <1>3, <1>4, <1>5, <1>6

LEMMA NotSaid ==
  ASSUME ShellForm, OutInv, UNCHANGED <<backend, script, said, out, held, queue, wire, pipe, over,
                                        truncated>>,
         dropped \subseteq dropped', Sound' => Sound,
         Through /\ Sound => \A s \in Streams : over[s] =>
                    IF backend = "local" THEN holder' = "none" ELSE pump' = "ended"
  PROVE  OutInv'
<1>1. SUFFICES ASSUME Sound' PROVE (InOrder /\ Ranked /\ Own /\ Genuine /\ Whole /\ Through)'
  BY DEF OutInv
<1>2. InOrder /\ Ranked /\ Own /\ Genuine /\ Whole /\ Through
  BY <1>1 DEF OutInv
<1>3. \A s : \A k \in 1 .. 5 : Stage(s, k)' = Stage(s, k)
  BY SameStages
<1>4. InOrder'
  BY <1>2 DEF InOrder, Ordered, Rising, WireOrder
<1>5. Ranked' /\ Own'
  BY <1>2, <1>3 DEF Ranked, Own
<1>6. Whole'
  BY <1>2, <1>3 DEF Whole
<1>7. Genuine'
  BY <1>2 DEF Genuine
<1>8. Through'
  BY <1>1, <1>2 DEF Through, Ready
<1>9. QED
  BY <1>4, <1>5, <1>6, <1>7, <1>8


LEMMA SentStage ==
  ASSUME ShellForm, NEW message \in Chunks \cup Notes, Sends(message), UNCHANGED said
  PROVE  \A t : \A n : n \in Stage(t, 4)' <=>
           n \in Stage(t, 4) \/ (n \in 1 .. said /\ Carries(message, t, n))
<1>1. /\ Len(wire) + 1 \in DOMAIN wire' /\ wire'[Len(wire) + 1] = message
      /\ \A i \in DOMAIN wire : i \in DOMAIN wire' /\ wire'[i] = wire[i]
      /\ \A i \in DOMAIN wire' : i = Len(wire) + 1 \/ i \in DOMAIN wire
  <2>1. /\ wire'[Len(wire) + 1] = message
        /\ \A i \in DOMAIN wire : i \in DOMAIN wire' /\ wire'[i] = wire[i]
        /\ DOMAIN wire' = DOMAIN wire \cup {Len(wire) + 1}
    BY SendsForm
  <2>2. QED
    BY <2>1
<1>2. SUFFICES ASSUME NEW t, NEW n
               PROVE  n \in Stage(t, 4)' <=>
                        n \in Stage(t, 4) \/ (n \in 1 .. said /\ Carries(message, t, n))
  OBVIOUS
<1>3. /\ n \in Stage(t, 4) <=> n \in 1 .. said /\ \E i \in DOMAIN wire : Carries(wire[i], t, n)
      /\ n \in Stage(t, 4)' <=> n \in 1 .. said /\ \E i \in DOMAIN wire' : Carries(wire'[i], t, n)
  BY Stages
<1>4. (\E i \in DOMAIN wire' : Carries(wire'[i], t, n)) <=>
        ((\E i \in DOMAIN wire : Carries(wire[i], t, n)) \/ Carries(message, t, n))
  BY <1>1
<1>5. QED
  BY <1>3, <1>4

LEMMA TakenStage ==
  ASSUME ShellForm, wire # <<>>, wire' = Tail(wire), UNCHANGED said
  PROVE  \A t : /\ \A n \in Stage(t, 4)' : n \in Stage(t, 4)
                /\ \A n \in Stage(t, 4) : n \in Stage(t, 4)' \/ Carries(Head(wire), t, n)
<1>1. /\ 1 \in DOMAIN wire /\ wire[1] = Head(wire)
      /\ \A i \in DOMAIN wire' : i + 1 \in DOMAIN wire /\ wire'[i] = wire[i + 1]
      /\ \A i \in DOMAIN wire : i = 1 \/ (i - 1 \in DOMAIN wire' /\ wire'[i - 1] = wire[i])
  BY Taken
<1>2. SUFFICES ASSUME NEW t
               PROVE  /\ \A n \in Stage(t, 4)' : n \in Stage(t, 4)
                      /\ \A n \in Stage(t, 4) : n \in Stage(t, 4)' \/ Carries(Head(wire), t, n)
  OBVIOUS
<1>3. ASSUME NEW n
      PROVE  /\ n \in Stage(t, 4) <=>
                  n \in 1 .. said /\ \E i \in DOMAIN wire : Carries(wire[i], t, n)
             /\ n \in Stage(t, 4)' <=>
                  n \in 1 .. said /\ \E i \in DOMAIN wire' : Carries(wire'[i], t, n)
  BY Stages
<1>4. ASSUME NEW n \in Stage(t, 4)' PROVE n \in Stage(t, 4)
  <2>1. n \in 1 .. said /\ \E i \in DOMAIN wire' : Carries(wire'[i], t, n)
    BY <1>3, <1>4
  <2>2. \E i \in DOMAIN wire : Carries(wire[i], t, n)
    BY <1>1, <2>1
  <2>3. QED
    BY <1>3, <2>1, <2>2
<1>5. ASSUME NEW n \in Stage(t, 4), ~Carries(Head(wire), t, n) PROVE n \in Stage(t, 4)'
  <2>1. n \in 1 .. said
    BY <1>3, <1>5
  <2>2. PICK i \in DOMAIN wire : Carries(wire[i], t, n)
    BY <1>3, <1>5
  <2>3. i # 1
    BY <1>1, <1>5, <2>2
  <2>4. \E j \in DOMAIN wire' : Carries(wire'[j], t, n)
    BY <1>1, <2>2, <2>3
  <2>5. QED
    BY <1>3, <2>1, <2>4
<1>6. QED
  BY <1>4, <1>5

LEMMA SaysOut ==
  ASSUME ShellForm, OutInv, Says
  PROVE  OutInv'
<1>1. SUFFICES ASSUME Sound' PROVE (InOrder /\ Ranked /\ Own /\ Genuine /\ Whole /\ Through)'
  BY DEF OutInv
<1>2. /\ UNCHANGED <<backend, script, out, held, queue, wire, over, dropped, pump>>
      /\ holder # "none" /\ holder' = holder
  BY DEF Says, task, reader
<1>3. Sound
  BY <1>1 DEF Says, Sound, Patient, server, reader
<1>4. InOrder /\ Ranked /\ Own /\ Genuine /\ Whole /\ Through
  BY <1>3 DEF OutInv
<1>5. PICK n \in Nat : n = said + 1
  BY DEF ShellForm
<1>6. said \in Nat /\ said' = n /\ n \in 1 .. Len(script) /\ Len(script) \in Nat
  BY <1>5, Given DEF Says, ShellForm
<1>7. PICK s \in Streams : s = script[n].on
  BY <1>6, Given
<1>8. pipe' = [pipe EXCEPT ![s] = Append(pipe[s], n)]
  BY <1>5, <1>7 DEF Says
<1>9. /\ pipe[s] \in Seq(Nat) /\ pipe'[s] = Append(pipe[s], n)
      /\ \A t \in Streams : t # s => pipe'[t] = pipe[t]
  BY <1>8 DEF ShellForm
<1>10. ToSet(pipe'[s]) = ToSet(pipe[s]) \cup {n}
  <2>1. pipe'[s] = pipe[s] \o <<n>> /\ <<n>> \in Seq(Nat) /\ ToSet(<<n>>) = {n}
    BY <1>9, OneMore
  <2>2. ToSet(pipe[s] \o <<n>>) = ToSet(pipe[s]) \cup ToSet(<<n>>)
    BY <1>9, <2>1, ConcatSet
  <2>3. QED
    BY <2>1, <2>2
<1>11. ASSUME NEW t \in Streams, NEW k \in 1 .. 5, ~(t = s /\ k = 5)
       PROVE  \A a : a \in Stage(t, k)' <=> a \in Stage(t, k)
  <2>1. CASE k = 1
    BY <1>2, <2>1, Stages
  <2>2. CASE k = 2
    BY <1>2, <2>2, Stages
  <2>3. CASE k = 3
    BY <1>2, <2>3, Stages
  <2>4. CASE k = 4
    <3>2. \A a : \A i \in DOMAIN wire : Carries(wire[i], t, a) => a \in 1 .. said
      BY <1>4 DEF Genuine, Carries
    <3>3. \A a \in 1 .. said : a \in 1 .. n
      BY <1>5, <1>6
    <3>4. ASSUME NEW a
          PROVE  /\ a \in Stage(t, 4) <=>
                      a \in 1 .. said /\ \E i \in DOMAIN wire : Carries(wire[i], t, a)
                 /\ a \in Stage(t, 4)' <=>
                      a \in 1 .. n /\ \E i \in DOMAIN wire : Carries(wire[i], t, a)
      BY <1>2, <1>6, Stages
    <3>5. QED
      BY <2>4, <3>2, <3>3, <3>4
  <2>5. CASE k = 5
    BY <1>9, <1>11, <2>5, Stages
  <2>6. QED
    BY <2>1, <2>2, <2>3, <2>4, <2>5
<1>12. \A a : a \in Stage(s, 5)' <=> a \in Stage(s, 5) \/ a = n
  BY <1>10, Stages
<1>13. \A t \in Streams : \A k \in 1 .. 5 : \A a \in Stage(t, k) : a \in Nat /\ a < n
  BY <1>4, <1>5, <1>6 DEF Own
<1>14. InOrder'
  <2>1. Rising(pipe'[s])
    <3>1. \A a \in ToSet(pipe[s]) : a < n
      BY <1>13, Stages
    <3>2. Rising(pipe[s])
      BY <1>4 DEF InOrder
    <3>3. /\ pipe'[s] = pipe[s] \o <<n>> /\ <<n>> \in Seq(Nat) /\ ToSet(<<n>>) = {n}
          /\ Rising(<<n>>)
      BY <1>9, OneMore
    <3>4. Rising(pipe[s] \o <<n>>)
      BY <1>9, <3>1, <3>2, <3>3, RisingConcat
    <3>5. QED
      BY <3>3, <3>4
  <2>2. \A t \in Streams : Rising(held'[t]) /\ Rising(queue'[t]) /\ Rising(pipe'[t])
    BY <1>2, <1>4, <1>9, <2>1 DEF InOrder
  <2>3. QED
    BY <1>2, <1>4, <2>2 DEF InOrder, Ordered, Rising, WireOrder
<1>15. Ranked'
  <2>1. SUFFICES ASSUME NEW t \in Streams, NEW j \in 1 .. 5, NEW k \in 1 .. 5, j < k,
                        NEW a \in Stage(t, j)', NEW b \in Stage(t, k)'
                 PROVE  a < b
    BY DEF Ranked
  <2>2. a \in Stage(t, j)
    BY <1>11, <2>1
  <2>3. b \in Stage(t, k) \/ b = n
    BY <1>11, <1>12, <2>1
  <2>4. QED
    BY <1>4, <1>13, <2>1, <2>2, <2>3 DEF Ranked
<1>16. Own'
  <2>1. \A t \in Streams : \A k \in 1 .. 5 : \A a \in Stage(t, k)' :
          a \in Stage(t, k) \/ (a = n /\ t = s)
    BY <1>11, <1>12
  <2>2. QED
    BY <1>2, <1>4, <1>5, <1>6, <1>7, <2>1 DEF Own
<1>17. Genuine'
  BY <1>2, <1>4, <1>5, <1>6 DEF Genuine
<1>18. Whole'
  <2>1. \A a \in 1 .. said' : a \in 1 .. said \/ a = n
    BY <1>5, <1>6
  <2>2. \A a \in 1 .. said : script[a].on \in Streams
    <3>1. \A a \in 1 .. said : a \in 1 .. Len(script)
      BY <1>5, <1>6
    <3>2. QED
      BY <3>1, Given
  <2>3. \A t \in Streams : \A k \in 1 .. 5 : \A a \in Stage(t, k) : a \in Stage(t, k)'
    BY <1>11, <1>12
  <2>4. n \in Stage(script[n].on, 5)'
    BY <1>2, <1>7, <1>12
  <2>5. QED
    BY <1>2, <1>4, <2>1, <2>2, <2>3, <2>4 DEF Whole
<1>19. Through'
  BY <1>2, <1>4, <1>9 DEF Through, Ready
<1>20. QED
  BY <1>14, <1>15, <1>16, <1>17, <1>18, <1>19


\* A step of the server or of the receiving task moves letters between the last
\* three stages and leaves the others alone.
LEMMA Upstream ==
  ASSUME ShellForm, InOrder, Ranked, Own, Genuine, Whole, Through, Moved,
         UNCHANGED <<backend, script, said, out, held, over>>,
         \A t \in Streams : Rising(queue'[t]) /\ Rising(pipe'[t]),
         \A t \in Streams : \A j, k \in 3 .. 5 : j < k =>
           \A a \in Stage(t, j)', b \in Stage(t, k)' : a < b,
         \A t \in Streams : \A k \in 3 .. 5 : \A b \in Stage(t, k)' :
           \E j \in 3 .. 5 : b \in Stage(t, j),
         WireOrder', Genuine', Through'
  PROVE  (InOrder /\ Ranked /\ Own /\ Genuine /\ Whole /\ Through)'
<1>1. InOrder'
  BY DEF InOrder, Ordered
<1>2. Own' /\ Whole'
  BY MovedKeeps
<1>3. ASSUME NEW t \in Streams
      PROVE  \A k \in 1 .. 2 : \A a : a \in Stage(t, k)' <=> a \in Stage(t, k)
  <2>1. \A a : a \in Stage(t, 1)' <=> a \in Stage(t, 1)
    BY Stages
  <2>2. \A a : a \in Stage(t, 2)' <=> a \in Stage(t, 2)
    BY Stages
  <2>3. \A k \in 1 .. 2 : k = 1 \/ k = 2
    OBVIOUS
  <2>4. QED
    BY <2>1, <2>2, <2>3
<1>4. Ranked'
  <2>1. SUFFICES ASSUME NEW t \in Streams, NEW j \in 1 .. 5, NEW k \in 1 .. 5, j < k,
                        NEW a \in Stage(t, j)', NEW b \in Stage(t, k)'
                 PROVE  a < b
    BY DEF Ranked
  <2>2. CASE j \in 3 .. 5
    BY <2>1, <2>2
  <2>3. CASE j \in 1 .. 2 /\ k \in 1 .. 2
    BY <1>3, <2>1, <2>3 DEF Ranked
  <2>4. CASE j \in 1 .. 2 /\ k \in 3 .. 5
    <3>1. a \in Stage(t, j)
      BY <1>3, <2>1, <2>4
    <3>2. PICK i \in 3 .. 5 : b \in Stage(t, i)
      BY <2>1, <2>4
    <3>3. j < i /\ i \in 1 .. 5
      BY <2>4
    <3>4. QED
      BY <3>1, <3>2, <3>3 DEF Ranked
  <2>5. QED
    BY <2>1, <2>2, <2>3, <2>4
<1>5. QED
  BY <1>1, <1>2, <1>4

LEMMA SendDataOut ==
  ASSUME ShellForm, Phases, OutInv, NEW s \in Streams, SendData(s), Sound
  PROVE  (InOrder /\ Ranked /\ Own /\ Genuine /\ Whole /\ Through)'
<1>1. InOrder /\ Ranked /\ Own /\ Genuine /\ Whole /\ Through
  BY DEF OutInv
<1>2. /\ backend = "ssh" /\ pipe[s] # <<>>
      /\ pipe' = [pipe EXCEPT ![s] = Tail(@)]
      /\ UNCHANGED <<backend, script, said, out, held, queue, over, dropped, pump>>
  BY DEF SendData, command, task, reader
<1>3. /\ pipe[s] \in Seq(Nat) /\ pipe'[s] = Tail(pipe[s])
      /\ \A t \in Streams : t # s => pipe'[t] = pipe[t]
  BY <1>2 DEF ShellForm
<1>4. PICK n \in Nat : n = Head(pipe[s])
  BY <1>2, <1>3, FirstOne
<1>5. /\ pipe[s] = <<n>> \o pipe'[s] /\ pipe'[s] \in Seq(Nat) /\ <<n>> \in Seq(Nat)
      /\ ToSet(<<n>>) = {n}
  BY <1>2, <1>3, <1>4, FirstOne, OneMore
<1>6. ToSet(pipe[s]) = {n} \cup ToSet(pipe'[s])
  <2>1. ToSet(<<n>> \o pipe'[s]) = ToSet(<<n>>) \cup ToSet(pipe'[s])
    BY <1>5, ConcatSet
  <2>2. QED
    BY <1>5, <2>1
<1>7. Rising(pipe'[s]) /\ \A b \in ToSet(pipe'[s]) : n < b
  <2>1. Rising(<<n>> \o pipe'[s])
    BY <1>1, <1>5 DEF InOrder
  <2>2. Rising(pipe'[s]) /\ \A a \in ToSet(<<n>>), b \in ToSet(pipe'[s]) : a < b
    BY <1>5, <2>1, RisingParts
  <2>3. QED
    BY <1>5, <2>2
<1>8. /\ \A a : a \in Stage(s, 5) <=> a = n \/ a \in Stage(s, 5)'
      /\ \A b \in Stage(s, 5)' : n < b
  BY <1>6, <1>7, Stages
<1>9. n \in 1 .. said /\ script[n].on = s
  BY <1>1, <1>8 DEF Own
<1>10. PICK m \in Chunks \cup Notes :
         Sends(m) /\ m.type = "data" /\ m.on = s /\ m.letter = n
  <2> DEFINE m == [type |-> "data", on |-> s, letter |-> Head(pipe[s])]
  <2>1. m \in Chunks \cup Notes /\ Sends(m)
    BY <1>4, MessageIs DEF SendData
  <2>2. m.type = "data" /\ m.on = s /\ m.letter = n
    BY <1>4
  <2> HIDE DEF m
  <2>3. QED
    BY <2>1, <2>2
<1>11. \A t, a : Carries(m, t, a) <=> t = s /\ a = n
  BY <1>10 DEF Carries
<1>12. \A t \in Streams : \A a : a \in Stage(t, 4)' <=> a \in Stage(t, 4) \/ (t = s /\ a = n)
  BY <1>2, <1>9, <1>10, <1>11, SentStage
<1>13. ASSUME NEW t \in Streams
       PROVE  /\ \A a : a \in Stage(t, 3)' <=> a \in Stage(t, 3)
              /\ t # s => \A a : a \in Stage(t, 5)' <=> a \in Stage(t, 5)
  BY <1>2, <1>3, Stages
<1>14. ASSUME NEW t \in Streams
      PROVE  \A k \in 1 .. 2 : \A a : a \in Stage(t, k)' <=> a \in Stage(t, k)
  <2>1. \A a : a \in Stage(t, 1)' <=> a \in Stage(t, 1)
    BY <1>2, Stages
  <2>2. \A a : a \in Stage(t, 2)' <=> a \in Stage(t, 2)
    BY <1>2, Stages
  <2>3. \A k \in 1 .. 2 : k = 1 \/ k = 2
    OBVIOUS
  <2>4. QED
    BY <2>1, <2>2, <2>3
<1>15. \A k \in 1 .. 5 : k \in 1 .. 2 \/ k = 3 \/ k = 4 \/ k = 5
  OBVIOUS
<1>16. Moved
  <2>1. SUFFICES ASSUME NEW t \in Streams, NEW k \in 1 .. 5
                 PROVE  /\ \A a \in Stage(t, k)' : \E j \in 1 .. 5 : a \in Stage(t, j)
                        /\ \A a \in Stage(t, k) : \E j \in 1 .. 5 : a \in Stage(t, j)'
    BY <1>2 DEF Moved
  <2>2. 4 \in 1 .. 5 /\ 5 \in 1 .. 5
    OBVIOUS
  <2>3. QED
    BY <1>8, <1>12, <1>13, <1>14, <1>15, <2>1, <2>2
<1>17. \A t \in Streams : Rising(queue'[t]) /\ Rising(pipe'[t])
  BY <1>1, <1>2, <1>3, <1>7 DEF InOrder
<1>18. \A t \in Streams : \A k \in 3 .. 5 : \A b \in Stage(t, k)' :
         \E j \in 3 .. 5 : b \in Stage(t, j)
  <2>1. 3 \in 3 .. 5 /\ 4 \in 3 .. 5 /\ 5 \in 3 .. 5
    OBVIOUS
  <2>2. \A k \in 3 .. 5 : k = 3 \/ k = 4 \/ k = 5
    OBVIOUS
  <2>3. QED
    BY <1>8, <1>12, <1>13, <2>1, <2>2
<1>19. \A t \in Streams : \A j, k \in 3 .. 5 : j < k =>
         \A a \in Stage(t, j)', b \in Stage(t, k)' : a < b
  <2>1. SUFFICES ASSUME NEW t \in Streams, NEW a, NEW b
                 PROVE  /\ a \in Stage(t, 3)' /\ b \in Stage(t, 4)' => a < b
                        /\ a \in Stage(t, 3)' /\ b \in Stage(t, 5)' => a < b
                        /\ a \in Stage(t, 4)' /\ b \in Stage(t, 5)' => a < b
    <3>1. \A j, k \in 3 .. 5 : j < k => (j = 3 /\ k = 4) \/ (j = 3 /\ k = 5) \/ (j = 4 /\ k = 5)
      OBVIOUS
    <3>2. QED
      BY <3>1
  <2>2. /\ a \in Stage(t, 3) /\ b \in Stage(t, 4) => a < b
        /\ a \in Stage(t, 3) /\ b \in Stage(t, 5) => a < b
        /\ a \in Stage(t, 4) /\ b \in Stage(t, 5) => a < b
    BY <1>1 DEF Ranked
  <2>3. b \in Stage(t, 5)' => b \in Stage(t, 5)
    BY <1>8, <1>13
  <2>4. QED
    BY <1>8, <1>12, <1>13, <2>2, <2>3
<1>20. /\ wire'[Len(wire) + 1] = m /\ Len(wire) \in Nat
       /\ \A i \in DOMAIN wire : i \in DOMAIN wire' /\ wire'[i] = wire[i]
       /\ DOMAIN wire' = DOMAIN wire \cup {Len(wire) + 1}
  BY <1>10, SendsForm
<1>21. \A i \in DOMAIN wire : i \in Nat /\ i <= Len(wire)
  BY DEF ShellForm
<1>22. Genuine'
  BY <1>1, <1>2, <1>9, <1>10, <1>20 DEF Genuine
<1>23. WireOrder'
  <2>1. \A i \in DOMAIN wire : wire[i].type = "data" /\ wire[i].on = s => wire[i].letter < n
    <3>1. SUFFICES ASSUME NEW i \in DOMAIN wire, wire[i].type = "data", wire[i].on = s
                   PROVE  wire[i].letter < n
      OBVIOUS
    <3>2. wire[i].letter \in 1 .. said /\ Carries(wire[i], s, wire[i].letter)
      BY <1>1, <3>1 DEF Genuine, Carries
    <3>3. wire[i].letter \in Stage(s, 4)
      BY <3>2, Stages
    <3>4. n \in Stage(s, 5)
      BY <1>8
    <3>5. QED
      BY <1>1, <3>3, <3>4 DEF Ranked
  <2>2. SUFFICES ASSUME NEW i \in DOMAIN wire', NEW j \in DOMAIN wire', i < j,
                        wire'[i].type = "data", wire'[j].type = "data", wire'[i].on = wire'[j].on
                 PROVE  wire'[i].letter < wire'[j].letter
    BY DEF WireOrder
  <2>3. i \in DOMAIN wire
    BY <1>20, <1>21, <2>2
  <2>4. CASE j \in DOMAIN wire
    BY <1>1, <1>20, <2>2, <2>3, <2>4 DEF InOrder, WireOrder
  <2>5. CASE j = Len(wire) + 1
    BY <1>10, <1>20, <2>1, <2>2, <2>3, <2>5
  <2>6. QED
    BY <1>20, <2>4, <2>5
<1>24. Through'
  BY <1>1, <1>2 DEF Through, Ready
<1>25. QED
  BY <1>1, <1>2, <1>16, <1>17, <1>18, <1>19, <1>22, <1>23, <1>24, Upstream


LEMMA SendsNoteOut ==
  ASSUME ShellForm, OutInv, Sound, NEW message \in Chunks \cup Notes, Sends(message),
         message.type # "data",
         UNCHANGED <<backend, script, said, holder, pump, out, held, queue, pipe, over, dropped>>
  PROVE  (InOrder /\ Ranked /\ Own /\ Genuine /\ Whole /\ Through)'
<1>1. InOrder /\ Ranked /\ Own /\ Genuine /\ Whole /\ Through
  BY DEF OutInv
<1>2. /\ wire'[Len(wire) + 1] = message /\ Len(wire) \in Nat
      /\ \A i \in DOMAIN wire : i \in DOMAIN wire' /\ wire'[i] = wire[i]
      /\ DOMAIN wire' = DOMAIN wire \cup {Len(wire) + 1}
  BY SendsForm
<1>3. \A t, a : ~Carries(message, t, a)
  BY DEF Carries
<1>4. \A t \in Streams : \A k \in 1 .. 5 : \A a : a \in Stage(t, k)' <=> a \in Stage(t, k)
  <2>1. SUFFICES ASSUME NEW t \in Streams, NEW k \in 1 .. 5
                 PROVE  \A a : a \in Stage(t, k)' <=> a \in Stage(t, k)
    OBVIOUS
  <2>2. CASE k = 4
    BY <1>3, <2>2, SentStage
  <2>3. CASE k = 1
    BY <2>3, Stages
  <2>4. CASE k = 2
    BY <2>4, Stages
  <2>5. CASE k = 3
    BY <2>5, Stages
  <2>6. CASE k = 5
    BY <2>6, Stages
  <2>7. QED
    BY <2>2, <2>3, <2>4, <2>5, <2>6
<1>5. InOrder'
  BY <1>1, <1>2 DEF InOrder, Ordered, Rising, WireOrder
<1>6. Ranked'
  BY <1>1, <1>4 DEF Ranked
<1>7. Own' /\ Whole'
  <2>1. Moved
    BY <1>4 DEF Moved
  <2>2. QED
    BY <1>1, <2>1, MovedKeeps
<1>8. Genuine'
  BY <1>1, <1>2 DEF Genuine
<1>9. Through'
  BY <1>1 DEF Through, Ready
<1>10. QED
  BY <1>5, <1>6, <1>7, <1>8, <1>9

LEMMA TakenOrder ==
  ASSUME ShellForm, wire # <<>>, wire' = Tail(wire), WireOrder, Genuine,
         UNCHANGED said
  PROVE  /\ WireOrder'
         /\ \A i \in DOMAIN wire' : wire'[i].type = "data" => wire'[i].letter \in 1 .. said
         /\ \A t : Head(wire).type = "data" /\ Head(wire).on = t =>
              \A b \in Stage(t, 4)' : Head(wire).letter < b
<1>1. /\ 1 \in DOMAIN wire /\ wire[1] = Head(wire)
      /\ \A i \in DOMAIN wire' : i \in Nat /\ i + 1 \in DOMAIN wire /\ wire'[i] = wire[i + 1]
  BY Taken
<1>2. \A i \in DOMAIN wire' : i >= 1
  BY <1>1, Taken
<1>3. WireOrder'
  <2>1. SUFFICES ASSUME NEW i \in DOMAIN wire', NEW j \in DOMAIN wire', i < j,
                        wire'[i].type = "data", wire'[j].type = "data", wire'[i].on = wire'[j].on
                 PROVE  wire'[i].letter < wire'[j].letter
    BY DEF WireOrder
  <2>2. i + 1 < j + 1
    BY <1>1, <2>1
  <2>3. QED
    BY <1>1, <2>1, <2>2 DEF WireOrder
<1>4. \A i \in DOMAIN wire' : wire'[i].type = "data" => wire'[i].letter \in 1 .. said
  BY <1>1 DEF Genuine
<1>5. ASSUME NEW t, Head(wire).type = "data", Head(wire).on = t, NEW b \in Stage(t, 4)'
      PROVE  Head(wire).letter < b
  <2>1. PICK i \in DOMAIN wire' : Carries(wire'[i], t, b)
    BY <1>5, Stages
  <2>2. 1 < i + 1
    BY <1>1, <1>2
  <2>3. QED
    BY <1>1, <1>5, <2>1, <2>2 DEF WireOrder, Carries
<1>6. QED
  BY <1>3, <1>4, <1>5


LEMMA ReceiveOut ==
  ASSUME ShellForm, Phases, OutInv, Sound, Receive
  PROVE  (InOrder /\ Ranked /\ Own /\ Genuine /\ Whole /\ Through)'
<1>1. InOrder /\ Ranked /\ Own /\ Genuine /\ Whole /\ Through
  BY DEF OutInv
<1>2. /\ wire # <<>> /\ wire' = Tail(wire) /\ pump = "on" /\ phase = "reading"
      /\ UNCHANGED <<backend, script, said, holder, pipe, out, held, over>>
  BY StillReading DEF Receive, Sound, command, reader
<1>3. backend = "ssh" /\ \A t \in Streams : ~over[t]
  <2>1. backend = "ssh"
    BY <1>2, Given DEF Phases
  <2>2. QED
    BY <1>1, <1>2, <2>1 DEF Through
<1>4. /\ WireOrder'
      /\ \A i \in DOMAIN wire' : wire'[i].type = "data" => wire'[i].letter \in 1 .. said
      /\ \A t : Head(wire).type = "data" /\ Head(wire).on = t =>
           \A b \in Stage(t, 4)' : Head(wire).letter < b
  BY <1>1, <1>2, TakenOrder DEF InOrder
<1>5. Genuine'
  BY <1>1, <1>2, <1>4 DEF Genuine
<1>6. Through'
  BY <1>2, <1>3 DEF Through
<1>7. PICK m \in Chunks \cup Notes : m = Head(wire)
  BY <1>2, Taken
<1>8. \A t : /\ \A n \in Stage(t, 4)' : n \in Stage(t, 4)
             /\ \A n \in Stage(t, 4) : n \in Stage(t, 4)' \/ Carries(m, t, n)
  BY <1>2, <1>7, TakenStage
<1>9. ASSUME NEW t \in Streams
      PROVE  /\ \A a : a \in Stage(t, 5)' <=> a \in Stage(t, 5)
             /\ \A a : a \in Stage(t, 1)' <=> a \in Stage(t, 1)
             /\ \A a : a \in Stage(t, 2)' <=> a \in Stage(t, 2)
  BY <1>2, Stages
<1>10. \A t : \A a, b : /\ a \in Stage(t, 3) /\ b \in Stage(t, 4) /\ t \in Streams => a < b
                        /\ a \in Stage(t, 3) /\ b \in Stage(t, 5) /\ t \in Streams => a < b
                        /\ a \in Stage(t, 4) /\ b \in Stage(t, 5) /\ t \in Streams => a < b
  BY <1>1 DEF Ranked
<1>11. ASSUME NEW given, given \subseteq Nat, m.type # "data" => given = {},
              \A t : \A a : Carries(m, t, a) => a \in given \/ a \in dropped',
              \A a \in given : Carries(m, m.on, a) /\ m.on \in Streams,
              \A t \in Streams : \A a :
                a \in Stage(t, 3)' <=> a \in Stage(t, 3) \/ (a \in given /\ t = m.on),
              \A t \in Streams : Rising(queue'[t]),
              \A n \in dropped : n \in dropped'
       PROVE  (InOrder /\ Ranked /\ Own /\ Genuine /\ Whole /\ Through)'
  <2>1. \A a \in given : a \in Stage(m.on, 4) /\ \A b \in Stage(m.on, 4)' : a < b
    <3>1. SUFFICES ASSUME NEW a \in given
                   PROVE  a \in Stage(m.on, 4) /\ \A b \in Stage(m.on, 4)' : a < b
      OBVIOUS
    <3>2. m.type = "data" /\ m.letter = a /\ m.on \in Streams
      BY <1>11, <3>1 DEF Carries
    <3>3. a \in 1 .. said /\ Carries(wire[1], m.on, a) /\ 1 \in DOMAIN wire
      BY <1>1, <1>2, <1>7, <1>11, <3>1, <3>2, Taken DEF Genuine
    <3>4. a \in Stage(m.on, 4)
      BY <3>3, Stages
    <3>5. QED
      BY <1>4, <1>7, <3>2, <3>4
  <2>2. \A t \in Streams : Rising(queue'[t]) /\ Rising(pipe'[t])
    BY <1>1, <1>2, <1>11 DEF InOrder
  <2>3. \A k \in 3 .. 5 : k = 3 \/ k = 4 \/ k = 5
    OBVIOUS
  <2>4. 3 \in 3 .. 5 /\ 4 \in 3 .. 5 /\ 5 \in 3 .. 5
    OBVIOUS
  <2>5. \A t \in Streams : \A k \in 3 .. 5 : \A b \in Stage(t, k)' :
          \E j \in 3 .. 5 : b \in Stage(t, j)
    BY <1>8, <1>9, <1>11, <2>1, <2>3, <2>4
  <2>6. \A t \in Streams : \A j, k \in 3 .. 5 : j < k =>
          \A a \in Stage(t, j)', b \in Stage(t, k)' : a < b
    <3>1. SUFFICES ASSUME NEW t \in Streams, NEW a, NEW b
                   PROVE  /\ a \in Stage(t, 3)' /\ b \in Stage(t, 4)' => a < b
                          /\ a \in Stage(t, 3)' /\ b \in Stage(t, 5)' => a < b
                          /\ a \in Stage(t, 4)' /\ b \in Stage(t, 5)' => a < b
      <4>1. \A j, k \in 3 .. 5 : j < k => (j = 3 /\ k = 4) \/ (j = 3 /\ k = 5) \/ (j = 4 /\ k = 5)
        OBVIOUS
      <4>2. QED
        BY <4>1
    <3>2. QED
      BY <1>8, <1>9, <1>10, <1>11, <2>1
  <2>7. Moved
    <3>1. SUFFICES ASSUME NEW t \in Streams, NEW k \in 1 .. 5
                   PROVE  /\ \A a \in Stage(t, k)' : \E j \in 1 .. 5 : a \in Stage(t, j)
                          /\ \A a \in Stage(t, k) :
                               a \in dropped' \/ \E j \in 1 .. 5 : a \in Stage(t, j)'
      BY <1>11 DEF Moved
    <3>2. k = 1 \/ k = 2 \/ k = 3 \/ k = 4 \/ k = 5
      OBVIOUS
    <3>3. 3 \in 1 .. 5 /\ 4 \in 1 .. 5
      OBVIOUS
    <3>4. \A a : Carries(m, t, a) => t = m.on
      BY DEF Carries
    <3>5. QED
      BY <1>8, <1>9, <1>11, <2>1, <3>1, <3>2, <3>3, <3>4
  <2>8. QED
    BY <1>1, <1>2, <1>4, <1>5, <1>6, <2>2, <2>5, <2>6, <2>7, Upstream
<1>12. CASE m.type = "data" /\ Forward(m.on, m.letter)
  <2>1. PICK s \in Streams, n \in Nat : s = m.on /\ n = m.letter
    <3>1. m \in Chunks
      BY <1>7, <1>12, MessageIs
    <3>2. QED
      BY <3>1, MessageIs
  <2>2. \A t, a : Carries(m, t, a) <=> t = s /\ a = n
    BY <1>12, <2>1 DEF Carries
  <2>3. queue[s] \in Seq(Nat) /\ queue \in [Streams -> Seq(Nat)]
    BY DEF ShellForm
  <2>4. CASE queue' = [queue EXCEPT ![s] = Append(@, n)] /\ UNCHANGED dropped
    <3>1. /\ queue'[s] = queue[s] \o <<n>> /\ <<n>> \in Seq(Nat) /\ ToSet(<<n>>) = {n}
          /\ Rising(<<n>>) /\ \A t \in Streams : t # s => queue'[t] = queue[t]
      BY <2>3, <2>4, OneMore
    <3>2. ToSet(queue'[s]) = ToSet(queue[s]) \cup {n}
      <4>1. ToSet(queue[s] \o <<n>>) = ToSet(queue[s]) \cup ToSet(<<n>>)
        BY <2>3, <3>1, ConcatSet
      <4>2. QED
        BY <3>1, <4>1
    <3>3. \A t \in Streams : \A a :
            a \in Stage(t, 3)' <=> a \in Stage(t, 3) \/ (a \in {n} /\ t = m.on)
      <4>1. \A a : a \in Stage(s, 3)' <=> a \in Stage(s, 3) \/ a = n
        BY <3>2, Stages
      <4>2. ASSUME NEW t \in Streams, t # s PROVE \A a : a \in Stage(t, 3)' <=> a \in Stage(t, 3)
        BY <3>1, <4>2, Stages
      <4>3. QED
        BY <2>1, <4>1, <4>2
    <3>4. n \in Stage(s, 4)
      <4>1. n \in 1 .. said /\ Carries(wire[1], s, n) /\ 1 \in DOMAIN wire
        BY <1>1, <1>2, <1>7, <1>12, <2>1, <2>2, Taken DEF Genuine
      <4>2. QED
        BY <4>1, Stages
    <3>5. Rising(queue'[s])
      <4>1. \A a \in ToSet(queue[s]) : a < n
        BY <1>10, <3>4, Stages
      <4>2. Rising(queue[s])
        BY <1>1 DEF InOrder
      <4>3. Rising(queue[s] \o <<n>>)
        BY <2>3, <3>1, <4>1, <4>2, RisingConcat
      <4>4. QED
        BY <3>1, <4>3
    <3>6. \A t \in Streams : Rising(queue'[t])
      BY <1>1, <3>1, <3>5 DEF InOrder
    <3>7. QED
      BY <1>11, <1>12, <2>1, <2>2, <2>4, <3>3, <3>6
  <2>5. CASE dropped' = dropped \cup {n} /\ UNCHANGED queue
    <3>1. \A t \in Streams : \A a : a \in Stage(t, 3)' <=> a \in Stage(t, 3)
      BY <2>5, Stages
    <3>2. \A t \in Streams : Rising(queue'[t])
      BY <1>1, <2>5 DEF InOrder
    <3>3. \A t, a : Carries(m, t, a) => a \in dropped'
      BY <2>2, <2>5
    <3>4. \A a \in dropped : a \in dropped'
      BY <2>5
    <3>5. PICK none : none = {}
      OBVIOUS
    <3>6. /\ none \subseteq Nat /\ \A a : a \notin none
          /\ m.type # "data" => none = {}
      BY <3>5
    <3>7. QED
      BY <1>11, <3>1, <3>2, <3>3, <3>4, <3>6
  <2>6. QED
    BY <1>12, <2>1, <2>4, <2>5 DEF Forward
<1>13. CASE m.type # "data" /\ UNCHANGED <<queue, dropped>>
  <2>1. \A t \in Streams : \A a : a \in Stage(t, 3)' <=> a \in Stage(t, 3)
    BY <1>13, Stages
  <2>2. \A t \in Streams : Rising(queue'[t])
    BY <1>1, <1>13 DEF InOrder
  <2>3. \A t, a : ~Carries(m, t, a)
    BY <1>13 DEF Carries
  <2>4. PICK none : none = {}
    OBVIOUS
  <2>5. none \subseteq Nat /\ (\A a : a \notin none) /\ (m.type # "data" => none = {})
    BY <2>4
  <2>6. \A a \in dropped : a \in dropped'
    BY <1>13
  <2>7. QED
    BY <1>11, <2>1, <2>2, <2>3, <2>5, <2>6
<1>14. QED
  BY <1>2, <1>7, <1>12, <1>13 DEF Receive, PumpEnds, task


-----------------------------------------------------------------------------
(* The readers.                                                             *)

\* What a read of stream s finds is stage 5 on this machine and stage 3 over SSH.
LEMMA Sources ==
  ASSUME ShellForm, NEW s \in Streams, NEW rest \in Seq(Nat), Leave(s, rest)
  PROVE  \E c \in 1 .. 5 :
           /\ c = (IF backend = "local" THEN 5 ELSE 3)
           /\ \A a : a \in Stage(s, c) <=> a \in ToSet(Ready(s))
           /\ \A a : a \in Stage(s, c)' <=> a \in ToSet(rest)
           /\ \A t \in Streams : \A k \in {3, 5} : (t = s /\ k = c) \/
                \A a : a \in Stage(t, k)' <=> a \in Stage(t, k)
<1>0. pipe \in [Streams -> Seq(Nat)] /\ queue \in [Streams -> Seq(Nat)]
  BY DEF ShellForm
<1>1. CASE backend = "local"
  <2>1. /\ pipe'[s] = rest /\ UNCHANGED queue
        /\ \A t \in Streams : t # s => pipe'[t] = pipe[t]
    BY <1>0, <1>1 DEF Leave
  <2>2. \A a : a \in Stage(s, 5) <=> a \in ToSet(Ready(s))
    BY <1>1, Stages DEF Ready
  <2>3. \A a : a \in Stage(s, 5)' <=> a \in ToSet(rest)
    BY <2>1, Stages
  <2>4. \A t \in Streams : \A a : a \in Stage(t, 3)' <=> a \in Stage(t, 3)
    BY <2>1, Stages
  <2>5. ASSUME NEW t \in Streams, t # s PROVE \A a : a \in Stage(t, 5)' <=> a \in Stage(t, 5)
    BY <2>1, <2>5, Stages
  <2>6. 5 \in 1 .. 5 /\ 5 = (IF backend = "local" THEN 5 ELSE 3)
    BY <1>1
  <2>7. QED
    BY <2>2, <2>3, <2>4, <2>5, <2>6
<1>2. CASE backend # "local"
  <2>1. /\ queue'[s] = rest /\ UNCHANGED pipe
        /\ \A t \in Streams : t # s => queue'[t] = queue[t]
    BY <1>0, <1>2 DEF Leave
  <2>2. \A a : a \in Stage(s, 3) <=> a \in ToSet(Ready(s))
    BY <1>2, Stages DEF Ready
  <2>3. \A a : a \in Stage(s, 3)' <=> a \in ToSet(rest)
    BY <2>1, Stages
  <2>4. \A t \in Streams : \A a : a \in Stage(t, 5)' <=> a \in Stage(t, 5)
    BY <2>1, Stages
  <2>5. ASSUME NEW t \in Streams, t # s PROVE \A a : a \in Stage(t, 3)' <=> a \in Stage(t, 3)
    BY <2>1, <2>5, Stages
  <2>6. 3 \in 1 .. 5 /\ 3 = (IF backend = "local" THEN 5 ELSE 3)
    BY <1>2
  <2>7. QED
    BY <2>2, <2>3, <2>4, <2>5, <2>6
<1>3. QED
  BY <1>1, <1>2

\* Of what a read found, a first part goes to the report, after what was held.
LEMMA WritesOut ==
  ASSUME ShellForm, Phases, InOrder, Ranked, Own, Genuine, Whole, Through, NEW s \in Streams,
         NEW pre \in Seq(Nat), NEW rest \in Seq(Nat), Ready(s) = pre \o rest,
         out' = out \o (held[s] \o pre), Leave(s, rest), held' = HeldAfter(s, <<>>),
         UNCHANGED <<backend, script, said, wire, dropped>>
  PROVE  (InOrder /\ Ranked /\ Own /\ Genuine /\ Whole)'
<1>1. PICK c \in 1 .. 5 :
           /\ c = (IF backend = "local" THEN 5 ELSE 3)
           /\ \A a : a \in Stage(s, c) <=> a \in ToSet(Ready(s))
           /\ \A a : a \in Stage(s, c)' <=> a \in ToSet(rest)
           /\ \A t \in Streams : \A k \in {3, 5} : (t = s /\ k = c) \/
                \A a : a \in Stage(t, k)' <=> a \in Stage(t, k)
  BY Sources
<1>2. c = 3 \/ (c = 5 /\ backend = "local")
  BY <1>1
<1>3. \A t \in Streams : \A k \in 1 .. 5 : \A a \in Stage(t, k) :
        a \in 1 .. said /\ script[a].on = t
  BY DEF Own
<1>4. Rising(pre) /\ Rising(rest) /\ \A a \in ToSet(pre), b \in ToSet(rest) : a < b
  <2>1. Rising(Ready(s))
    BY DEF InOrder, Ready
  <2>2. Rising(pre \o rest)
    BY <2>1
  <2>3. QED
    BY <2>2, RisingParts
<1>5. \A a : a \in Stage(s, c) <=> a \in ToSet(pre) \/ a \in ToSet(rest)
  <2>1. ToSet(pre \o rest) = ToSet(pre) \cup ToSet(rest)
    BY ConcatSet
  <2>2. QED
    BY <1>1, <2>1
<1>6. held[s] \in Seq(Nat) /\ out \in Seq(Nat)
  BY DEF ShellForm
<1>7. PICK line \in Seq(Nat) : line = held[s] \o pre
  BY <1>6, Concat
<1>8. \A a : a \in ToSet(line) <=> a \in Stage(s, 2) \/ a \in ToSet(pre)
  <2>1. ToSet(held[s] \o pre) = ToSet(held[s]) \cup ToSet(pre)
    BY <1>6, ConcatSet
  <2>2. QED
    BY <1>7, <2>1, Stages
<1>9. Rising(line)
  <2>1. Rising(held[s])
    BY DEF InOrder
  <2>2. ASSUME NEW a \in ToSet(held[s]), NEW b \in ToSet(pre) PROVE a < b
    <3>1. a \in Stage(s, 2) /\ b \in Stage(s, c) /\ 2 < c
      BY <1>2, <1>5, <2>2, Stages
    <3>2. QED
      BY <3>1 DEF Ranked
  <2>3. Rising(held[s] \o pre)
    BY <1>4, <1>6, <2>1, <2>2, RisingConcat
  <2>4. QED
    BY <1>7, <2>3
<1>10. \A a \in ToSet(line) : a \in 1 .. said /\ script[a].on = s
  BY <1>3, <1>5, <1>8
<1>11. \A a : a \in ToSet(out') <=> a \in ToSet(out) \/ a \in ToSet(line)
  <2>1. ToSet(out \o line) = ToSet(out) \cup ToSet(line)
    BY <1>6, ConcatSet
  <2>2. QED
    BY <1>7, <2>1
<1>12. ASSUME NEW t \in Streams
       PROVE  \A a : a \in Stage(t, 1)' <=> a \in Stage(t, 1) \/ (t = s /\ a \in ToSet(line))
  <2>1. \A a : /\ a \in Stage(t, 1)' <=> a \in ToSet(out') /\ script[a].on = t
               /\ a \in Stage(t, 1) <=> a \in ToSet(out) /\ script[a].on = t
    BY Stages
  <2>2. QED
    BY <1>10, <1>11, <2>1
<1>13. /\ \A a : a \notin Stage(s, 2)'
       /\ \A t \in Streams : t # s => \A a : a \in Stage(t, 2)' <=> a \in Stage(t, 2)
  <2>1. held'[s] = <<>> /\ \A a : a \notin ToSet(<<>>)
    BY DEF HeldAfter, ToSet
  <2>2. \A t \in Streams : t # s => held'[t] = held[t]
    BY DEF HeldAfter, Through
  <2>3. \A a : a \notin Stage(s, 2)'
    BY <2>1, Stages
  <2>4. ASSUME NEW t \in Streams, t # s PROVE \A a : a \in Stage(t, 2)' <=> a \in Stage(t, 2)
    BY <2>2, <2>4, Stages
  <2>5. QED
    BY <2>3, <2>4
<1>14. \A t \in Streams : \A a : a \in Stage(t, 4)' <=> a \in Stage(t, 4)
  BY Stages
<1>15. \A t \in Streams : t # s => \A k \in 1 .. 5 : \A a : a \in Stage(t, k)' <=> a \in Stage(t, k)
  <2>1. \A k \in 1 .. 5 : k = 1 \/ k = 2 \/ k = 4 \/ k \in {3, 5}
    OBVIOUS
  <2>2. QED
    BY <1>1, <1>12, <1>13, <1>14, <2>1
<1>16. \A k \in 3 .. 5 : \A a \in Stage(s, k)' : a \in Stage(s, k) /\ (k = c => a \in ToSet(rest))
  <2>1. \A k \in 3 .. 5 : k = 4 \/ k \in {3, 5}
    OBVIOUS
  <2>2. QED
    BY <1>1, <1>2, <1>5, <1>14, <2>1
<1>17. c = 5 => \A k \in 3 .. 4 : \A a : a \notin Stage(s, k)
  <2>1. SUFFICES ASSUME c = 5 PROVE \A a : a \notin Stage(s, 3) /\ a \notin Stage(s, 4)
    <3>1. \A k \in 3 .. 4 : k = 3 \/ k = 4
      OBVIOUS
    <3>2. QED
      BY <3>1
  <2>2. backend = "local"
    BY <1>2, <2>1
  <2>3. queue[s] = <<>> /\ wire = <<>>
    BY <2>2 DEF Through, Phases
  <2>4. \A a : a \notin ToSet(queue[s])
    BY <2>3 DEF ToSet
  <2>5. \A i : i \notin DOMAIN wire
    BY <2>3
  <2>6. QED
    BY <2>4, <2>5, Stages
<1>18. Ranked'
  <2>1. SUFFICES ASSUME NEW t \in Streams, NEW j \in 1 .. 5, NEW k \in 1 .. 5, j < k,
                        NEW a \in Stage(t, j)', NEW b \in Stage(t, k)'
                 PROVE  a < b
    BY DEF Ranked
  <2>2. CASE t # s
    BY <1>15, <2>1, <2>2 DEF Ranked
  <2>3. CASE t = s
    <3>1. j # 2 /\ k # 2
      BY <1>13, <2>1, <2>3
    <3>2. k \in 3 .. 5 /\ b \in Stage(s, k) /\ (k = c => b \in ToSet(rest))
      <4>1. k \in 3 .. 5
        BY <2>1, <3>1
      <4>2. QED
        BY <1>16, <2>1, <2>3, <4>1
    <3>3. CASE j = 1
      <4>1. a \in Stage(s, 1) \/ a \in Stage(s, 2) \/ a \in ToSet(pre)
        BY <1>8, <1>12, <2>1, <2>3, <3>3
      <4>2. CASE a \in Stage(s, 1) \/ a \in Stage(s, 2)
        <5>1. 1 < k /\ 2 < k /\ 1 \in 1 .. 5 /\ 2 \in 1 .. 5
          BY <3>2
        <5>2. QED
          BY <3>2, <4>2, <5>1 DEF Ranked
      <4>3. CASE a \in ToSet(pre)
        <5>1. CASE k = c
          BY <1>4, <3>2, <4>3, <5>1
        <5>2. CASE k # c
          <6>1. c = 3
            BY <1>2, <1>17, <3>2, <5>2
          <6>2. c < k /\ a \in Stage(s, c)
            BY <1>5, <3>2, <4>3, <5>2, <6>1
          <6>3. QED
            BY <3>2, <6>2 DEF Ranked
        <5>3. QED
          BY <5>1, <5>2
      <4>4. QED
        BY <4>1, <4>2, <4>3
    <3>4. CASE j # 1
      <4>1. j \in 3 .. 5
        BY <3>1, <3>4
      <4>2. a \in Stage(s, j)
        BY <1>16, <2>1, <2>3, <4>1
      <4>3. QED
        BY <2>1, <3>2, <4>2 DEF Ranked
    <3>5. QED
      BY <3>3, <3>4
  <2>4. QED
    BY <2>2, <2>3
<1>19. Moved
  <2>1. SUFFICES ASSUME NEW t \in Streams, NEW k \in 1 .. 5
                 PROVE  /\ \A a \in Stage(t, k)' : \E j \in 1 .. 5 : a \in Stage(t, j)
                        /\ \A a \in Stage(t, k) : \E j \in 1 .. 5 : a \in Stage(t, j)'
    BY DEF Moved
  <2>2. CASE t # s
    BY <1>15, <2>2
  <2>3. CASE t = s
    <3>1. 1 \in 1 .. 5 /\ 2 \in 1 .. 5
      OBVIOUS
    <3>2. \A a \in Stage(s, k)' : \E j \in 1 .. 5 : a \in Stage(s, j)
      <4>1. k = 1 \/ k = 2 \/ k \in 3 .. 5
        OBVIOUS
      <4>2. QED
        BY <1>5, <1>8, <1>12, <1>13, <1>16, <3>1, <4>1
    <3>3. \A a \in Stage(s, k) : \E j \in 1 .. 5 : a \in Stage(s, j)'
      <4>1. k = 1 \/ k = 2 \/ k = 4 \/ k \in {3, 5}
        OBVIOUS
      <4>2. CASE k = c
        BY <1>1, <1>5, <1>8, <1>12, <3>1, <4>2
      <4>3. CASE k # c
        BY <1>1, <1>8, <1>12, <1>14, <3>1, <4>1, <4>3
      <4>4. QED
        BY <4>2, <4>3
    <3>4. QED
      BY <2>3, <3>2, <3>3
  <2>4. QED
    BY <2>2, <2>3
<1>20. Own' /\ Whole'
  BY <1>19, MovedKeeps
<1>21. Genuine'
  BY <1>10, <1>11 DEF Genuine
<1>22. InOrder'
  <2>1. Ordered(out \o line)
    <3>1. ASSUME NEW a \in ToSet(out), NEW b \in ToSet(line), script[a].on = s PROVE a < b
      <4>1. a \in Stage(s, 1)
        BY <3>1, Stages
      <4>2. b \in Stage(s, 2) \/ (b \in Stage(s, c) /\ 1 < c)
        BY <1>2, <1>5, <1>8, <3>1
      <4>3. 1 \in 1 .. 5 /\ 2 \in 1 .. 5 /\ 1 < 2
        OBVIOUS
      <4>4. QED
        BY <4>1, <4>2, <4>3 DEF Ranked
    <3>2. Ordered(out)
      BY DEF InOrder
    <3>3. /\ \A b \in ToSet(line) : script[b].on = s
          /\ \A a \in ToSet(out), b \in ToSet(line) : script[a].on = s => a < b
      BY <1>10, <3>1
    <3>4. QED
      BY <1>6, <1>9, <3>2, <3>3, OrderedConcat, Zenon
  <2>2. Ordered(out)'
    BY <1>7, <2>1 DEF Ordered
  <2>3. \A t \in Streams : Rising(held'[t])
    BY DEF InOrder, HeldAfter, Rising
  <2>4. \A t \in Streams : Rising(queue'[t]) /\ Rising(pipe'[t])
    BY <1>4 DEF InOrder, Leave, ShellForm
  <2>5. QED
    BY <2>2, <2>3, <2>4 DEF InOrder, WireOrder
<1>23. QED
  BY <1>18, <1>20, <1>21, <1>22


\* Over SSH, a line that has not ended yet is held.
LEMMA HoldsOut ==
  ASSUME ShellForm, Phases, InOrder, Ranked, Own, Genuine, Whole, Through, NEW s \in Streams,
         backend # "local", Leave(s, <<>>), held' = [held EXCEPT ![s] = @ \o Ready(s)],
         UNCHANGED <<backend, script, said, wire, out, dropped>>
  PROVE  (InOrder /\ Ranked /\ Own /\ Genuine /\ Whole)'
<1>1. /\ queue' = [queue EXCEPT ![s] = <<>>] /\ UNCHANGED pipe /\ Ready(s) = queue[s]
      /\ held \in [Streams -> Seq(Nat)] /\ queue \in [Streams -> Seq(Nat)]
  BY DEF Leave, Ready, ShellForm
<1>2. /\ held'[s] = held[s] \o queue[s] /\ held[s] \in Seq(Nat) /\ queue[s] \in Seq(Nat)
      /\ queue'[s] = <<>>
      /\ \A t \in Streams : t # s => held'[t] = held[t] /\ queue'[t] = queue[t]
  BY <1>1
<1>3. \A a : a \in Stage(s, 2)' <=> a \in Stage(s, 2) \/ a \in Stage(s, 3)
  <2>1. ToSet(held[s] \o queue[s]) = ToSet(held[s]) \cup ToSet(queue[s])
    BY <1>2, ConcatSet
  <2>2. /\ Stage(s, 2)' = ToSet(held'[s])
        /\ Stage(s, 2) = ToSet(held[s]) /\ Stage(s, 3) = ToSet(queue[s])
    BY Stages
  <2>3. QED
    BY <1>2, <2>1, <2>2
<1>4. \A a : a \notin Stage(s, 3)'
  <2>1. \A a : a \notin ToSet(<<>>)
    BY DEF ToSet
  <2>2. QED
    BY <1>2, <2>1, Stages
<1>5. ASSUME NEW t \in Streams
      PROVE  /\ \A a : a \in Stage(t, 1)' <=> a \in Stage(t, 1)
             /\ \A a : a \in Stage(t, 4)' <=> a \in Stage(t, 4)
             /\ \A a : a \in Stage(t, 5)' <=> a \in Stage(t, 5)
  <2>1. \A a : a \in Stage(t, 1)' <=> a \in Stage(t, 1)
    BY Stages
  <2>2. \A a : a \in Stage(t, 4)' <=> a \in Stage(t, 4)
    BY Stages
  <2>3. \A a : a \in Stage(t, 5)' <=> a \in Stage(t, 5)
    BY <1>1, Stages
  <2>4. QED
    BY <2>1, <2>2, <2>3
<1>6. ASSUME NEW t \in Streams, t # s
      PROVE  \A k \in 1 .. 5 : \A a : a \in Stage(t, k)' <=> a \in Stage(t, k)
  <2>1. \A a : a \in Stage(t, 2)' <=> a \in Stage(t, 2)
    <3>1. held'[t] = held[t]
      BY <1>2, <1>6
    <3>2. Stage(t, 2) = ToSet(held[t]) /\ Stage(t, 2)' = ToSet(held'[t])
      BY Stages
    <3>3. QED
      BY <3>1, <3>2
  <2>2. \A a : a \in Stage(t, 3)' <=> a \in Stage(t, 3)
    BY <1>2, <1>6, Stages
  <2>3. \A k \in 1 .. 5 : k = 1 \/ k = 2 \/ k = 3 \/ k = 4 \/ k = 5
    OBVIOUS
  <2>4. QED
    BY <1>5, <2>1, <2>2, <2>3
<1>7. \A k \in 1 .. 5 : k = 2 \/ k = 3 \/ k \in {1, 4, 5}
  OBVIOUS
<1>8. \A k \in {1, 4, 5} : \A a : a \in Stage(s, k)' <=> a \in Stage(s, k)
  BY <1>5
<1>9. Ranked'
  <2>1. SUFFICES ASSUME NEW t \in Streams, NEW j \in 1 .. 5, NEW k \in 1 .. 5, j < k,
                        NEW a \in Stage(t, j)', NEW b \in Stage(t, k)'
                 PROVE  a < b
    BY DEF Ranked
  <2>2. CASE t # s
    BY <1>6, <2>1, <2>2 DEF Ranked
  <2>3. CASE t = s
    <3>1. j # 3 /\ k # 3
      BY <1>4, <2>1, <2>3
    <3>2. \E i \in 1 .. 5 : i >= j /\ (i = j \/ (j = 2 /\ i = 3)) /\ a \in Stage(s, i)
      BY <1>3, <1>7, <1>8, <2>1, <2>3, <3>1
    <3>3. \E i \in 1 .. 5 : i >= k /\ (i = k \/ (k = 2 /\ i = 3)) /\ b \in Stage(s, i)
      BY <1>3, <1>7, <1>8, <2>1, <2>3, <3>1
    <3>4. PICK i \in 1 .. 5 : i >= j /\ (i = j \/ (j = 2 /\ i = 3)) /\ a \in Stage(s, i)
      BY <3>2
    <3>5. PICK i2 \in 1 .. 5 : i2 >= k /\ (i2 = k \/ (k = 2 /\ i2 = 3)) /\ b \in Stage(s, i2)
      BY <3>3
    <3>6. i < i2
      BY <2>1, <3>1, <3>4, <3>5
    <3>7. QED
      BY <3>4, <3>5, <3>6 DEF Ranked
  <2>4. QED
    BY <2>2, <2>3
<1>10. Own' /\ Whole'
  <2>1. Moved
    <3>1. SUFFICES ASSUME NEW t \in Streams, NEW k \in 1 .. 5
                   PROVE  /\ \A a \in Stage(t, k)' : \E j \in 1 .. 5 : a \in Stage(t, j)
                          /\ \A a \in Stage(t, k) : \E j \in 1 .. 5 : a \in Stage(t, j)'
      BY DEF Moved
    <3>2. 2 \in 1 .. 5 /\ 3 \in 1 .. 5
      OBVIOUS
    <3>3. CASE t # s
      BY <1>6, <3>3
    <3>4. CASE t = s
      BY <1>3, <1>4, <1>7, <1>8, <3>2, <3>4
    <3>5. QED
      BY <3>3, <3>4
  <2>2. QED
    BY <2>1, MovedKeeps
<1>11. Genuine'
  BY DEF Genuine
<1>12. InOrder'
  <2>1. Rising(held[s] \o queue[s])
    <3>1. \A a \in ToSet(held[s]), b \in ToSet(queue[s]) : a < b
      <4>1. \A a \in Stage(s, 2), b \in Stage(s, 3) : a < b
        BY DEF Ranked
      <4>2. QED
        BY <4>1, Stages
    <3>2. Rising(held[s]) /\ Rising(queue[s])
      BY DEF InOrder
    <3>3. QED
      BY <1>2, <3>1, <3>2, RisingConcat
  <2>2. Rising(<<>>)
    BY DEF Rising
  <2>3. \A t \in Streams : Rising(held'[t]) /\ Rising(queue'[t]) /\ Rising(pipe'[t])
    BY <1>1, <1>2, <2>1, <2>2 DEF InOrder
  <2>4. QED
    BY <2>3 DEF InOrder, Ordered, WireOrder
<1>13. QED
  BY <1>9, <1>10, <1>11, <1>12

LEMMA ReadsOut ==
  ASSUME Careful, ShellForm, Phases, OutInv, NEW s \in Streams, Reads(s), Sound'
  PROVE  Sound /\ (InOrder /\ Ranked /\ Own /\ Genuine /\ Whole /\ Through)'
<1>1. /\ phase = "reading" /\ ~over[s]
      /\ UNCHANGED <<backend, script, said, holder, link, wire, pump, dropped, phase, result>>
  BY DEF Reads, command, server, task
<1>2. Patient /\ link # "lost" /\ ~truncated' /\ Len(out') < MaxChars
  BY <1>1 DEF Sound, Patient
<1>3. /\ pipe \in [Streams -> Seq(Nat)] /\ queue \in [Streams -> Seq(Nat)]
      /\ held \in [Streams -> Seq(Nat)] /\ over \in [Streams -> BOOLEAN]
      /\ Ready(s) \in Seq(Nat) /\ held[s] \in Seq(Nat) /\ <<>> \in Seq(Nat)
  BY DEF ShellForm, Ready
<1>4. ASSUME NEW line \in Seq(Nat), Write(line)
      PROVE  Sound /\ out' = out \o line
  BY <1>2, <1>4, Wrote DEF Sound
<1>5. Sound => InOrder /\ Ranked /\ Own /\ Genuine /\ Whole /\ Through
  BY DEF OutInv
<1>6. CASE ReadsLine(s)
  <2>1. PICK n \in DOMAIN Ready(s) :
          /\ Write(held[s] \o SubSeq(Ready(s), 1, n))
          /\ Leave(s, SubSeq(Ready(s), n + 1, Len(Ready(s))))
    BY <1>6 DEF ReadsLine
  <2>2. PICK pre \in Seq(Nat), rest \in Seq(Nat) :
          /\ pre = SubSeq(Ready(s), 1, n) /\ rest = SubSeq(Ready(s), n + 1, Len(Ready(s)))
          /\ Ready(s) = pre \o rest
    <3>1. /\ SubSeq(Ready(s), 1, n) \in Seq(Nat)
          /\ SubSeq(Ready(s), n + 1, Len(Ready(s))) \in Seq(Nat)
          /\ SubSeq(Ready(s), 1, n) \o SubSeq(Ready(s), n + 1, Len(Ready(s))) = Ready(s)
      BY <1>3, Parts
    <3>2. QED
      BY <3>1
  <2>3. held[s] \o pre \in Seq(Nat) /\ Write(held[s] \o pre) /\ Leave(s, rest)
    BY <1>3, <2>1, <2>2
  <2>4. Sound /\ out' = out \o (held[s] \o pre)
    BY <1>4, <2>3
  <2>5. held' = HeldAfter(s, <<>>) /\ over' = over
    BY <1>6 DEF ReadsLine
  <2>6. InOrder /\ Ranked /\ Own /\ Genuine /\ Whole /\ Through
    BY <1>5, <2>4
  <2>7. (InOrder /\ Ranked /\ Own /\ Genuine /\ Whole)'
    BY <1>1, <2>2, <2>3, <2>4, <2>5, <2>6, WritesOut
  <2>8. Through'
    BY <1>1, <1>3, <2>3, <2>5, <2>6 DEF Through, Ready, Leave, HeldAfter
  <2>9. QED
    BY <2>4, <2>7, <2>8
<1>7. CASE ReadsPiece(s)
  <2>1. /\ Ready(s) # <<>> /\ \A n \in DOMAIN Ready(s) : ~script[Ready(s)[n]].ends
        /\ held' = [held EXCEPT ![s] = held[s] \o Ready(s)] /\ Leave(s, <<>>)
        /\ UNCHANGED <<over, out, truncated>>
    BY <1>7 DEF ReadsPiece
  <2>2. Sound
    BY <1>2, <2>1 DEF Sound
  <2>3. InOrder /\ Ranked /\ Own /\ Genuine /\ Whole /\ Through
    BY <1>5, <2>2
  <2>4. backend # "local"
    <3>1. SUFFICES ASSUME backend = "local" PROVE FALSE
      OBVIOUS
    <3>2. 1 \in DOMAIN Ready(s)
      BY <1>3, <2>1
    <3>3. Ready(s) = pipe[s] /\ Ready(s)[1] \in ToSet(pipe[s])
      BY <3>1, <3>2 DEF Ready, ToSet
    <3>4. Ready(s)[1] \in Stage(s, 5)
      BY <3>3, Stages
    <3>5. Ready(s)[1] \in 1 .. said
      BY <2>3, <3>4 DEF Own
    <3>6. Ready(s)[1] \in DOMAIN script
      BY <3>5, Given DEF ShellForm
    <3>7. script[Ready(s)[1]].ends
      BY <3>1, <3>6 DEF Careful, ShellForm
    <3>8. QED
      BY <2>1, <3>2, <3>7
  <2>5. (InOrder /\ Ranked /\ Own /\ Genuine /\ Whole)'
    BY <1>1, <2>1, <2>3, <2>4, HoldsOut
  <2>6. Through'
    BY <1>1, <1>3, <2>1, <2>3, <2>4 DEF Through, Ready, Leave
  <2>7. QED
    BY <2>2, <2>5, <2>6
<1>8. CASE ReadsEnd(s)
  <2>1. /\ AtEnd(s) /\ Write(held[s]) /\ over' = [over EXCEPT ![s] = held[s] = <<>>]
        /\ held' = HeldAfter(s, <<>>) /\ UNCHANGED <<pipe, queue>>
    BY <1>8 DEF ReadsEnd
  <2>2. Ready(s) = <<>> /\ <<>> \o <<>> = <<>> /\ held[s] \o <<>> = held[s]
    BY <1>3, <2>1 DEF AtEnd
  <2>3. Leave(s, <<>>)
    BY <1>3, <2>1, <2>2 DEF Leave, Ready
  <2>4. Sound /\ out' = out \o (held[s] \o <<>>)
    BY <1>3, <1>4, <2>1, <2>2
  <2>5. InOrder /\ Ranked /\ Own /\ Genuine /\ Whole /\ Through
    BY <1>5, <2>4
  <2>6. (InOrder /\ Ranked /\ Own /\ Genuine /\ Whole)'
    <3>1. PICK none \in Seq(Nat) : none = <<>>
      BY <1>3
    <3>2. /\ Ready(s) = none \o none /\ out' = out \o (held[s] \o none) /\ Leave(s, none)
          /\ held' = HeldAfter(s, <<>>)
      BY <2>1, <2>2, <2>3, <2>4, <3>1
    <3>3. QED
      BY <1>1, <2>5, <3>2, WritesOut
  <2>7. Through'
    <3>1. ASSUME NEW t \in Streams, over'[t]
          PROVE  /\ held'[t] = <<>> /\ Ready(t)' = <<>>
                 /\ IF backend = "local" THEN holder = "none" ELSE pump = "ended"
      <4>1. CASE t = s
        BY <1>1, <2>1, <2>2, <4>1 DEF AtEnd, HeldAfter, Ready
      <4>2. CASE t # s
        <5>1. over[t]
          BY <1>3, <2>1, <3>1, <4>2
        <5>2. QED
          BY <1>1, <2>1, <2>5, <5>1 DEF Through, HeldAfter, Ready
      <4>3. QED
        BY <4>1, <4>2
    <3>2. \A t \in Streams : backend = "local" => held'[t] = <<>> /\ queue'[t] = <<>>
      BY <2>1, <2>5 DEF Through, HeldAfter
    <3>3. QED
      BY <1>1, <3>1, <3>2 DEF Through
  <2>8. QED
    BY <2>4, <2>6, <2>7
<1>9. QED
  BY <1>6, <1>7, <1>8 DEF Reads


-----------------------------------------------------------------------------
(* Every step.                                                              *)

LEMMA OutStep ==
  ASSUME Careful, ShellForm, Phases, Status, ClosesLast, OutInv, ShellNext
  PROVE  OutInv'
<1>1. SUFFICES ASSUME Sound' PROVE (InOrder /\ Ranked /\ Own /\ Genuine /\ Whole /\ Through)'
  BY DEF OutInv
<1>2. CASE Says
  BY <1>1, <1>2, SaysOut DEF OutInv
<1>3. CASE Exec
  <2>1. /\ said = 0 /\ out = <<>> /\ wire = <<>> /\ backend' = backend
        /\ \A s \in Streams : pipe[s] = <<>> /\ queue[s] = <<>> /\ held[s] = <<>> /\ ~over[s]
        /\ UNCHANGED <<script, said, out, wire, pipe, queue, held, over>>
    BY <1>3 DEF Exec, Phases, reader
  <2>2. \A a : a \notin ToSet(<<>>) /\ a \notin DOMAIN <<>> /\ a \notin 1 .. 0
    BY DEF ToSet
  <2>3. \A s \in Streams : \A k \in 1 .. 5 : \A a : a \notin Stage(s, k)'
    <3>1. SUFFICES ASSUME NEW s \in Streams, NEW k \in 1 .. 5 PROVE \A a : a \notin Stage(s, k)'
      OBVIOUS
    <3>2. \A a : a \notin Stage(s, 1)' /\ a \notin Stage(s, 4)'
      BY <2>1, <2>2, Stages
    <3>3. /\ Stage(s, 2)' = ToSet(held'[s]) /\ Stage(s, 3)' = ToSet(queue'[s])
          /\ Stage(s, 5)' = ToSet(pipe'[s])
      BY Stages
    <3>4. \A a : a \notin Stage(s, 2)' /\ a \notin Stage(s, 3)' /\ a \notin Stage(s, 5)'
      BY <2>1, <2>2, <3>3
    <3>5. k = 1 \/ k = 2 \/ k = 3 \/ k = 4 \/ k = 5
      OBVIOUS
    <3>6. QED
      BY <3>2, <3>4, <3>5
  <2>4. InOrder'
    <3>1. Rising(<<>>)
      BY DEF Rising
    <3>2. \A s \in Streams : Rising(held'[s]) /\ Rising(queue'[s]) /\ Rising(pipe'[s])
      BY <2>1, <3>1
    <3>3. \A i : i \notin DOMAIN out' /\ i \notin DOMAIN wire'
      BY <2>1, <2>2
    <3>4. QED
      BY <3>2, <3>3 DEF InOrder, Ordered, WireOrder
  <2>5. Ranked' /\ Own'
    BY <2>3 DEF Ranked, Own
  <2>6. Genuine'
    <3>1. \A a : a \notin ToSet(out') /\ a \notin DOMAIN wire'
      BY <2>1, <2>2
    <3>2. QED
      BY <3>1 DEF Genuine
  <2>7. Whole'
    BY <2>1, <2>2 DEF Whole
  <2>8. Through'
    BY <2>1 DEF Through
  <2>9. QED
    BY <2>4, <2>5, <2>6, <2>7, <2>8
<1>4. CASE LetsGo \/ ChildEnds \/ \E way \in Deaths[backend] : Ends(way)
  <2>1. /\ UNCHANGED <<backend, script, said, out, held, queue, wire, pipe, over, truncated,
                       dropped, pump, phase, result, link>>
        /\ holder = "none" => holder' = "none"
    BY <1>4 DEF LetsGo, ChildEnds, Ends, Left, server, task, reader
  <2>2. (Sound' => Sound) /\ dropped \subseteq dropped'
    BY <2>1 DEF Sound, Patient
  <2>3. Through /\ Sound => \A s \in Streams : over[s] =>
          IF backend = "local" THEN holder' = "none" ELSE pump' = "ended"
    BY <2>1 DEF Through
  <2>4. OutInv'
    BY <2>1, <2>2, <2>3, NotSaid
  <2>5. QED
    BY <1>1, <2>4 DEF OutInv
<1>5. ASSUME NEW s \in Streams, SendData(s)
      PROVE  (InOrder /\ Ranked /\ Own /\ Genuine /\ Whole /\ Through)'
  <2>1. Sound
    BY <1>1, <1>5 DEF SendData, Sound, Patient, server, reader
  <2>2. QED
    BY <1>5, <2>1, SendDataOut
<1>6. CASE SendStatus \/ SendClose
  <2>1. /\ link = "up"
        /\ UNCHANGED <<backend, script, said, holder, pump, out, held, queue, pipe, over, dropped,
                       truncated, phase, result>>
    BY <1>6 DEF SendStatus, SendClose, command, task, reader
  <2>2. Sound
    BY <1>1, <2>1 DEF Sound, Patient
  <2>3. PICK m \in Chunks \cup Notes : Sends(m) /\ m.type # "data"
    <3>1. proc \in {"none", "running"} \cup ExitStatuses
      BY DEF ShellForm
    <3>2. PICK w \in ExitStatuses \cup {"close"} : Sends([type |-> w])
      BY <1>6, <3>1 DEF SendStatus, SendClose
    <3>3. PICK m : m = [type |-> w]
      OBVIOUS
    <3>4. m \in Notes /\ Sends(m)
      BY <3>2, <3>3, MessageIs
    <3>5. QED
      BY <3>4, MessageIs
  <2>4. QED
    BY <2>1, <2>2, <2>3, SendsNoteOut
<1>7. CASE Receive
  <2>1. Sound
    BY <1>1, <1>7 DEF Receive, Sound, Patient, server, reader
  <2>2. QED
    BY <1>7, <2>1, ReceiveOut
<1>8. ASSUME NEW s \in Streams, Reads(s)
      PROVE  (InOrder /\ Ranked /\ Own /\ Genuine /\ Whole /\ Through)'
  BY <1>1, <1>8, ReadsOut
<1>9. CASE ReadsAll \/ Waits
  <2>1. /\ UNCHANGED <<backend, script, said, out, held, queue, wire, pipe, over, truncated,
                       dropped, pump, holder, link>>
        /\ phase \in {"reading", "waiting"}
    BY <1>9 DEF ReadsAll, Waits, command, server, task, reader
  <2>2. (Sound' => Sound) /\ dropped \subseteq dropped'
    BY <2>1 DEF Sound, Patient
  <2>3. Through /\ Sound => \A s \in Streams : over[s] =>
          IF backend = "local" THEN holder' = "none" ELSE pump' = "ended"
    BY <2>1 DEF Through
  <2>4. OutInv'
    BY <2>1, <2>2, <2>3, NotSaid
  <2>5. QED
    BY <1>1, <2>4 DEF OutInv
<1>10. ~LoseConnection /\ ~ReceiveNone
  BY <1>1 DEF LoseConnection, ReceiveNone, Sound, server
<1>11. ~ExecFails /\ ~Expires /\ ~Kills
  BY <1>1 DEF ExecFails, Expires, Kills, Sound, Patient, Phases
<1>12. QED
  BY <1>2, <1>3, <1>4, <1>5, <1>6, <1>7, <1>8, <1>9, <1>10, <1>11
     DEF ShellNext, Command, Server, Pump, Tool

LEMMA ShellStarts ==
  ASSUME ShellInit
  PROVE  ShellInv
<1>1. script \in Seq([on : Streams, ends : BOOLEAN])
  BY ShellAssumption DEF ShellInit
<1>2. Len(script) \in Nat
  BY <1>1
<1>3. ShellForm
  <2>1. <<>> \in Seq(Nat) /\ <<>> \in Seq(Chunks \cup Notes)
    OBVIOUS
  <2>2. pipe \in [Streams -> Seq(Nat)] /\ queue \in [Streams -> Seq(Nat)]
        /\ held \in [Streams -> Seq(Nat)] /\ over \in [Streams -> BOOLEAN]
    BY <2>1 DEF ShellInit
  <2>3. said \in 0 .. Len(script)
    BY <1>2 DEF ShellInit
  <2>4. wire \in Seq(Chunks \cup Notes) /\ out \in Seq(Nat)
    BY <2>1 DEF ShellInit
  <2>5. QED
    BY <2>2, <2>3, <2>4 DEF ShellInit, ShellForm
<1>4. Phases
  BY DEF ShellInit, Phases
<1>5. Status
  <2>1. wire = <<>> /\ ~told /\ exit = NoCode
    BY DEF ShellInit
  <2>2. exit # 0 /\ exit # 1
    BY <2>1, Codes
  <2>3. \A i : i \notin DOMAIN wire
    BY <2>1
  <2>4. QED
    BY <2>1, <2>2, <2>3 DEF Status
<1>6. ClosesLast /\ OutInv
  <2>1. ~Patient
    BY DEF ShellInit, Patient
  <2>2. QED
    BY <2>1 DEF ClosesLast, OutInv, Sound
<1>7. Ended
  <2>1. code = NoCode /\ proc = "none" /\ result = "none"
    BY DEF ShellInit
  <2>2. code # 0 /\ code # 1
    BY <2>1, Codes
  <2>3. QED
    BY <2>1, <2>2 DEF Ended, ExitIsTold
<1>8. Counted
  BY DEF ShellInit, Counted
<1>9. QED
  BY <1>3, <1>4, <1>5, <1>6, <1>7, <1>8 DEF ShellInv

LEMMA ShellStutters ==
  ASSUME ShellInv, UNCHANGED shellVars
  PROVE  ShellInv'
<1>1. UNCHANGED <<backend, script, said, proc, holder, pipe, link, told, wire, pump, exit, code,
                  queue, dropped, held, over, out, truncated, phase, result>>
  BY DEF shellVars, command, server, task, reader
<1>2. ShellForm' /\ Phases' /\ ClosesLast' /\ Counted'
  BY <1>1 DEF ShellInv, ShellForm, Phases, ClosesLast, Counted, Patient
<1>3. Status' /\ Ended'
  BY <1>1 DEF ShellInv, Status, Ended, ExitIsTold, Patient
<1>4. OutInv'
  <2>1. ShellForm /\ OutInv
    BY DEF ShellInv
  <2>2. (Sound' => Sound) /\ dropped \subseteq dropped'
    BY <1>1 DEF Sound, Patient
  <2>3. Through /\ Sound => \A s \in Streams : over[s] =>
          IF backend = "local" THEN holder' = "none" ELSE pump' = "ended"
    BY <1>1 DEF Through
  <2>4. QED
    BY <1>1, <2>1, <2>2, <2>3, NotSaid
<1>5. QED
  BY <1>2, <1>3, <1>4 DEF ShellInv

LEMMA ShellInductive ==
  ASSUME Careful
  PROVE  ShellSpec => []ShellInv
<1>1. ShellInit => ShellInv
  BY ShellStarts
<1>2. ShellInv /\ [ShellNext]_shellVars => ShellInv'
  <2>1. ASSUME ShellInv, ShellNext PROVE ShellInv'
    <3>1. /\ ShellForm /\ Phases /\ Status /\ ClosesLast /\ Ended /\ Counted /\ OutInv
      BY <2>1 DEF ShellInv
    <3>2. ShellForm' /\ Phases'
      BY <2>1, <3>1, FormStep, PhasesStep
    <3>3. Status' /\ ClosesLast'
      BY <2>1, <3>1, StatusStep, ClosingStep
    <3>4. Ended' /\ Counted'
      BY <2>1, <3>1, EndedStep, CountedStep
    <3>5. OutInv'
      BY <2>1, <3>1, OutStep
    <3>6. QED
      BY <3>2, <3>3, <3>4, <3>5 DEF ShellInv
  <2>2. ASSUME ShellInv, UNCHANGED shellVars PROVE ShellInv'
    BY <2>2, ShellStutters
  <2>3. QED
    BY <2>1, <2>2
<1>3. QED
  BY <1>1, <1>2, PTL DEF ShellSpec

LEMMA ReportFollows ==
  ASSUME ShellInv
  PROVE  ReportIsTrue
<1>1. ExitIsTold
  BY DEF ShellInv, Ended
<1>2. OutputIsWhole
  <2>1. SUFFICES ASSUME result \in {"ok", "failed"}, ~truncated, Len(out) < MaxChars,
                        link # "lost"
                 PROVE  /\ ToSet(out) = 1 .. said
                        /\ \A i, j \in DOMAIN out :
                             i < j /\ script[out[i]].on = script[out[j]].on => out[i] < out[j]
    BY DEF OutputIsWhole
  <2>2. Sound /\ ShellForm /\ Phases /\ ClosesLast /\ dropped = {}
    BY <2>1 DEF ShellInv, Sound, Patient, Counted
  <2>3. InOrder /\ Own /\ Genuine /\ Whole /\ Through
    BY <2>2 DEF ShellInv, OutInv
  <2>4. \A s \in Streams : over[s]
    BY <2>1, <2>2 DEF Phases
  <2>5. wire = <<>> /\ \A s \in Streams : held[s] = <<>> /\ queue[s] = <<>> /\ pipe[s] = <<>>
    <3>1. CASE backend = "local"
      BY <2>2, <2>3, <2>4, <3>1 DEF Phases, Through, Ready
    <3>2. CASE backend # "local"
      <4>1. pump = "ended" /\ \A s \in Streams : held[s] = <<>> /\ queue[s] = <<>>
        <5>1. \A s \in Streams : held[s] = <<>> /\ queue[s] = <<>> /\ pump = "ended"
          BY <2>3, <2>4, <3>2 DEF Through, Ready
        <5>2. "out" \in Streams
          BY DEF Streams
        <5>3. QED
          BY <5>1, <5>2
      <4>2. Patient
        BY <2>2 DEF Sound
      <4>3. QED
        BY <2>1, <2>2, <4>1, <4>2 DEF ClosesLast
    <3>3. QED
      BY <3>1, <3>2
  <2>6. ASSUME NEW n \in 1 .. said PROVE n \in ToSet(out)
    <3>1. PICK s \in Streams : s = script[n].on
      <4>1. Len(script) \in Nat /\ said \in 0 .. Len(script)
        BY <2>2, Given DEF ShellForm
      <4>2. n \in 1 .. Len(script)
        BY <2>6, <4>1
      <4>3. QED
        BY <2>2, <4>2, Given
    <3>2. PICK k \in 1 .. 5 : n \in Stage(s, k)
      BY <2>2, <2>3, <3>1 DEF Whole
    <3>3. \A a : a \notin ToSet(<<>>) /\ a \notin DOMAIN <<>>
      BY DEF ToSet
    <3>4. k # 2 /\ k # 3 /\ k # 4 /\ k # 5
      <4>1. /\ Stage(s, 2) = ToSet(held[s]) /\ Stage(s, 3) = ToSet(queue[s])
            /\ Stage(s, 5) = ToSet(pipe[s])
        BY Stages
      <4>2. \A a : a \notin Stage(s, 4)
        BY <2>5, <3>3, Stages
      <4>3. QED
        BY <2>5, <3>2, <3>3, <4>1, <4>2
    <3>5. k = 1
      BY <3>4
    <3>6. QED
      BY <3>2, <3>5, Stages
  <2>7. ToSet(out) = 1 .. said
    BY <2>3, <2>6 DEF Genuine
  <2>8. QED
    BY <2>3, <2>7 DEF InOrder, Ordered
<1>3. QED
  BY <1>1, <1>2 DEF ReportIsTrue

\* Whatever a command writes, on whichever streams, and however its end overtakes its
\* output: the report of a command that was not killed holds all of it, each stream in
\* its order, and says how it ended, or says what is missing. On this machine the
\* command writes whole lines and is killed by nobody else (ShellOutput and
\* ShellSignals show why). (Shell::call_typed, tools/shell.rs:152-234)
THEOREM ReportStaysTrue ==
  ASSUME Careful
  PROVE  ShellSpec => []ReportIsTrue
<1>1. ShellSpec => []ShellInv
  BY ShellInductive
<1>2. ShellInv => ReportIsTrue
  BY ReportFollows
<1>3. QED
  BY <1>1, <1>2, PTL

-----------------------------------------------------------------------------
(* The toolset. Types.                                                        *)

USE ToolsetAssumption DEF ToolsetAssumption

LEMMA TypeInit == Init => TypeOK
BY DEF Init, TypeOK, Statuses, Tasks

LEMMA TypeStep ==
  ASSUME TypeOK, [Next]_vars
  PROVE  TypeOK'
<1> USE DEF TypeOK, Statuses, Tasks
<1>1. CASE UNCHANGED vars
  BY <1>1 DEF vars, ownerVars, toolVars, taskVars
<1>2. ASSUME NEW s \in Servers, LoadServer(s) PROVE TypeOK'
  BY <1>2 DEF LoadServer, ownerVars, toolVars, taskVars
<1>3. ASSUME NEW overlay \in Overlays, Started(overlay) PROVE TypeOK'
  BY <1>3 DEF Started, Spawn, Spawned
<1>4. ASSUME NEW overlay \in Overlays, OverlayFails(overlay) PROVE TypeOK'
  BY <1>4 DEF OverlayFails, Spawn, Spawned
<1>5. CASE SkillLoaded
  BY <1>5 DEF SkillLoaded, Spawn, Spawned
<1>6. ASSUME NEW s \in Servers, StartFails(s) \/ LoadFails(s) \/ CancelLoad(s) PROVE TypeOK'
  BY <1>6 DEF StartFails, LoadFails, CancelLoad, Interrupted, toolVars, taskVars
<1>7. ASSUME NEW skill \in Skills, RunSkill(skill) PROVE TypeOK'
  BY <1>7 DEF RunSkill, toolVars, taskVars
<1>8. CASE RunPrompt \/ SkillChecked \/ TakeTasks \/ ToolsReady
  BY <1>8 DEF RunPrompt, SkillChecked, TakeTasks, ToolsReady, toolVars, taskVars
<1>9. CASE BeginStep \/ StepEnds \/ RunEnds \/ Cancel
  BY <1>9 DEF BeginStep, StepEnds, RunEnds, Cancel, toolVars, taskVars
<1>10. ASSUME NEW n \in Names, RegisterExternal(n) PROVE TypeOK'
  BY <1>10 DEF RegisterExternal, FreeForClient, ownerVars, taskVars
<1>11. ASSUME NEW t \in Tasks, Working(t) PROVE TypeOK'
  <2>1. ASSUME NEW s \in Servers, NextServer(t, s) PROVE TypeOK'
    <3>1. todo' \in [Tasks -> SUBSET Servers] /\ UNCHANGED <<ownerVars, toolVars>>
      BY <2>1 DEF NextServer
    <3>2. CASE UNCHANGED <<status, at, now>>
      BY <3>1, <3>2 DEF ownerVars, toolVars
    <3>3. CASE ~UNCHANGED <<status, at, now>>
      <4>1. /\ status' = [status EXCEPT ![s] = "Connecting"]
            /\ at' = [at EXCEPT ![t] = "connect"]
            /\ now' = [now EXCEPT ![t] = s]
        BY <2>1, <3>3 DEF NextServer
      <4>2. QED
        BY <3>1, <4>1 DEF ownerVars, toolVars
    <3>4. QED
      BY <3>2, <3>3
  <2>2. CASE TaskEnds(t) \/ Connects(t)
    BY <2>2 DEF TaskEnds, Connects, ownerVars, toolVars
  <2>3. CASE Unauthorized(t) \/ Fails(t)
    <3>1. PICK outcome \in {"Unauthorized", "Failed"} : Mark(t, outcome)
      BY <2>3 DEF Unauthorized, Fails
    <3>2. status' \in [Servers -> Statuses]
      BY <3>1 DEF Mark
    <3>3. /\ at' \in [Tasks -> {"unborn", "next", "connect", "list", "done"}]
          /\ now' \in [Tasks -> Servers \cup {"none"}]
      BY <3>1 DEF Mark, Back
    <3>4. UNCHANGED <<ownerVars, toolVars, todo>>
      BY <3>1 DEF Mark
    <3>5. QED
      BY <3>2, <3>3, <3>4 DEF ownerVars, toolVars
  <2>4. CASE Registers(t)
    <3>1. /\ UNCHANGED <<ownerVars, todo, external>>
          /\ at' \in [Tasks -> {"unborn", "next", "connect", "list", "done"}]
          /\ now' \in [Tasks -> Servers \cup {"none"}]
      BY <2>4 DEF Registers, Back, Enter, toolVars
    <3>2. CASE UNCHANGED <<status, toolVars>>
      BY <3>1, <3>2 DEF ownerVars, toolVars
    <3>3. CASE status[now[t]] # "none" /\ Enter(now[t]) /\ now[t] \in Servers
      BY <3>1, <3>3 DEF Enter, Registrable, ownerVars
    <3>4. CASE now[t] = "none"
      BY <3>1, <3>4, <2>4 DEF Registers, Enter, Registrable, ownerVars, toolVars
    <3>5. QED
      BY <2>4, <3>2, <3>3, <3>4 DEF Registers
  <2>5. QED
    BY <1>11, <2>1, <2>2, <2>3, <2>4 DEF Working
<1>12. CASE Shutdown
  BY <1>12 DEF Shutdown, toolVars, taskVars
<1>13. ASSUME NEW t \in Tasks, Abort(t) PROVE TypeOK'
  BY <1>13 DEF Abort, ownerVars, toolVars
<1>14. CASE CleanedUp
  BY <1>14 DEF CleanedUp, taskVars
<1>15. QED
  BY <1>1, <1>2, <1>3, <1>4, <1>5, <1>6, <1>7, <1>8, <1>9, <1>10, <1>11, <1>12, <1>13, <1>14
     DEF Next, Load, Closing

\* Every variable of the toolset has its type, whatever the constants are.
THEOREM TypeCorrect == Spec => []TypeOK
BY TypeInit, TypeStep, PTL DEF Spec

-----------------------------------------------------------------------------
(* The inductive invariants.                                                  *)

\* The names, the entries of the servers and the tasks at them.
EntryInv ==
  /\ ToolsHaveOneSource
  /\ OneConnection
  /\ \A t \in Tasks : now[t] # "none" <=> at[t] \in {"connect", "list"}
  /\ pc = "starting" =>
       /\ external = {}
       /\ \A n \in Names : tools[n] = IF n \in Builtins THEN "builtin" ELSE "none"
  /\ pc = "closed" => \A s \in Servers : status[s] = "none"

\* The batches, and who holds the handle of each task.
WaitInv ==
  /\ pc \notin {"starting", "loading"} => left = {} /\ batch = {}
  /\ pc \notin {"readying", "waiting", "aborting"} => awaited = {}
  /\ pc \in {"readying", "waiting", "turn", "step", "aborting", "closed"} => pool = {}
  /\ \A t \in Tasks : Live(t) => t \in pool \cup awaited \cup detached
  /\ \A t \in Tasks : t > runs => at[t] = "unborn"
  /\ pc \in {"starting", "loading"} => at[runs] = "unborn"

\* Somebody is at each server that is not settled, or an interrupted load left it.
ServedInv ==
  pc \notin {"aborting", "closed"} =>
    \A s \in Servers :
      /\ status[s] = "Pending" =>
           s \in batch \cup cut \/ \E t \in Tasks : Live(t) /\ s \in todo[t]
      /\ status[s] = "Connecting" => \E t \in Tasks : now[t] = s

LEMMA ServerNames ==
  /\ "none" \notin Servers /\ "builtin" \notin Servers /\ "external" \notin Servers
OBVIOUS

LEMMA WaitInit == Init => WaitInv
BY DEF Init, WaitInv, Live, Tasks

LEMMA WaitStep ==
  ASSUME TypeOK, WaitInv, [Next]_vars
  PROVE  WaitInv'
<1> USE DEF WaitInv, Live
<1>1. CASE UNCHANGED vars
  BY <1>1 DEF vars, ownerVars, taskVars
<1>2. ASSUME NEW s \in Servers, LoadServer(s) PROVE WaitInv'
  BY <1>2 DEF LoadServer, taskVars
\* A spawned task is the run's own and goes to the pool or is awaited.
<1>3. ASSUME pc \in {"starting", "loading"}, Spawn,
             pool' \cup awaited' = pool \cup awaited \cup Spawned,
             UNCHANGED detached,
             \/ pc' \in {"idle", "failed"} /\ UNCHANGED awaited
             \/ pc' = "readying" /\ pool' = {}
      PROVE  WaitInv'
  <2>1. runs' = runs /\ left' = {} /\ batch' = {}
    BY <1>3 DEF Spawn
  <2>2. \A t \in Tasks : at'[t] = IF t \in Spawned THEN "next" ELSE at[t]
    BY <1>3 DEF Spawn
  <2>3. \A t \in Spawned : t = runs
    BY DEF Spawned
  <2>4. runs \in Nat
    BY DEF TypeOK
  <2>5. \A t \in Tasks : t > runs => at'[t] = "unborn"
    BY <2>2, <2>3, <2>4 DEF Tasks
  <2>6. \A t \in Tasks : at'[t] \notin {"unborn", "done"} => t \in pool' \cup awaited' \cup detached'
    BY <1>3, <2>2
  <2>7. QED
    BY <1>3, <2>1, <2>5, <2>6
<1>4. ASSUME NEW overlay \in Overlays, Started(overlay) \/ OverlayFails(overlay) PROVE WaitInv'
  BY <1>3, <1>4 DEF Started, OverlayFails
<1>5. CASE SkillLoaded
  BY <1>3, <1>5 DEF SkillLoaded
<1>6. ASSUME NEW s \in Servers, StartFails(s) \/ LoadFails(s) \/ CancelLoad(s) PROVE WaitInv'
  BY <1>6 DEF StartFails, LoadFails, CancelLoad, Interrupted, taskVars
<1>7. ASSUME NEW skill \in Skills, RunSkill(skill) PROVE WaitInv'
  <2>1. runs \in Nat /\ runs' \in Tasks /\ runs' > runs
    BY <1>7 DEF RunSkill, TypeOK, Tasks
  <2>2. at'[runs'] = "unborn" /\ \A t \in Tasks : t > runs' => at'[t] = "unborn"
    BY <1>7, <2>1 DEF RunSkill, taskVars, Tasks
  <2>3. QED
    BY <1>7, <2>2 DEF RunSkill, taskVars
<1>8. CASE RunPrompt \/ BeginStep \/ StepEnds \/ RunEnds
  BY <1>8 DEF RunPrompt, BeginStep, StepEnds, RunEnds, taskVars
<1>9. CASE SkillChecked \/ ToolsReady
  BY <1>9 DEF SkillChecked, ToolsReady, taskVars
<1>10. CASE TakeTasks \/ Shutdown
  BY <1>10 DEF TakeTasks, Shutdown, taskVars
<1>11. CASE Cancel
  BY <1>11 DEF Cancel, taskVars
<1>12. ASSUME NEW n \in Names, RegisterExternal(n) PROVE WaitInv'
  BY <1>12 DEF RegisterExternal, FreeForClient, ownerVars, taskVars
\* A task moves between places where it is live, or to its end.
<1>13. ASSUME UNCHANGED ownerVars, NEW t \in Tasks, Live(t),
              NEW place \in {"next", "connect", "list", "done"},
              at' = [at EXCEPT ![t] = place]
       PROVE  WaitInv'
  <2>1. \A u \in Tasks : at'[u] = IF u = t THEN place ELSE at[u]
    BY <1>13 DEF TypeOK
  <2>2. runs \in Tasks
    BY DEF TypeOK, Tasks
  <2>3. QED
    BY <1>13, <2>1, <2>2 DEF ownerVars
<1>14. ASSUME NEW t \in Tasks, Working(t) PROVE WaitInv'
  <2>1. Live(t)
    BY <1>14 DEF Working, NextServer, TaskEnds, Connects, Unauthorized, Fails, Registers
  <2>2. UNCHANGED ownerVars
    BY <1>14 DEF Working, NextServer, TaskEnds, Connects, Unauthorized, Fails, Mark, Registers
  <2>3. UNCHANGED at \/ \E place \in {"next", "connect", "list", "done"} :
                          at' = [at EXCEPT ![t] = place]
    BY <1>14 DEF Working, NextServer, TaskEnds, Connects, Unauthorized, Fails, Mark, Back, Registers
  <2>4. CASE UNCHANGED at
    BY <2>2, <2>4 DEF ownerVars
  <2>5. QED
    BY <1>13, <2>1, <2>2, <2>3, <2>4
<1>15. ASSUME NEW t \in Tasks, Abort(t) PROVE WaitInv'
  BY <1>13, <1>15 DEF Abort
<1>16. CASE CleanedUp
  BY <1>16 DEF CleanedUp, taskVars
<1>17. QED
  BY <1>1, <1>2, <1>4, <1>5, <1>6, <1>7, <1>8, <1>9, <1>10, <1>11, <1>12, <1>14, <1>15, <1>16
     DEF Next, Load, Closing

-----------------------------------------------------------------------------
(* The names and the connections.                                             *)

LEMMA EntryInit == Init => EntryInv
<1>1. SUFFICES ASSUME Init PROVE EntryInv
  OBVIOUS
<1>2. ToolsHaveOneSource
  BY <1>1, ServerNames DEF Init, ToolsHaveOneSource
<1>3. OneConnection
  BY <1>1 DEF Init, OneConnection
<1>4. QED
  BY <1>1, <1>2, <1>3 DEF Init, EntryInv

\* What the owner does with the lists of its servers and tasks leaves the
\* names and the connections alone.
LEMMA EntryKept ==
  ASSUME EntryInv, UNCHANGED <<toolVars, status, at, now>>,
         pc' \notin {"starting", "closed"}, pc # "closed"
  PROVE  EntryInv'
<1>1. ToolsHaveOneSource'
  BY DEF EntryInv, ToolsHaveOneSource, toolVars
<1>2. OneConnection'
  BY DEF EntryInv, OneConnection
<1>3. QED
  BY <1>1, <1>2 DEF EntryInv

\* A task's move between places where it connects nothing.
LEMMA EntrySpawn ==
  ASSUME TypeOK, EntryInv, WaitInv, pc \in {"starting", "loading"}, Spawn,
         pc' \notin {"starting", "closed", "step"}, ToolsHaveOneSource'
  PROVE  EntryInv'
<1>1. UNCHANGED <<status, now>>
  BY DEF Spawn
<1>2. \A t \in Tasks : at'[t] = IF t \in Spawned THEN "next" ELSE at[t]
  BY DEF Spawn
<1>3. \A t \in Spawned : at[t] = "unborn"
  BY DEF Spawned, WaitInv
<1>4. \A t \in Tasks : now'[t] # "none" <=> at'[t] \in {"connect", "list"}
  BY <1>1, <1>2, <1>3 DEF EntryInv
<1>5. OneConnection'
  BY <1>1 DEF EntryInv, OneConnection
<1>6. QED
  BY <1>4, <1>5 DEF EntryInv

\* The overlay's names were free of owners: nothing has been connected yet.
LEMMA OverlayStep ==
  ASSUME TypeOK, EntryInv, WaitInv, pc = "starting", Spawn,
         NEW applied \in SUBSET Names, applied \cap Builtins = {},
         external' = applied,
         tools' = [n \in Names |-> IF n \in applied THEN "external" ELSE tools[n]]
  PROVE  /\ ToolsHaveOneSource'
         /\ \A n \in Names : tools[n] \in {"builtin", "external"} \/ pc = "step" => tools'[n] = tools[n]
<1>1. \A n \in Names : owner[n] = "none" /\ tools[n] \notin Servers /\ tools[n] # "external"
  BY ServerNames DEF EntryInv, ToolsHaveOneSource
<1>2. UNCHANGED <<owner, listed, status>>
  BY DEF Spawn
<1>3. \A n \in Names : tools'[n] = IF n \in applied THEN "external" ELSE tools[n]
  OBVIOUS
<1>4. ToolsHaveOneSource'
  BY <1>1, <1>2, <1>3, ServerNames DEF ToolsHaveOneSource
<1>5. \A n \in Names : tools[n] = "builtin" => n \notin applied
  BY DEF EntryInv
<1>6. QED
  BY <1>1, <1>3, <1>4, <1>5

\* A connected server is entered: it takes names that are free or an MCP
\* tool's, and gives up only its own.
LEMMA EnterStep ==
  ASSUME TypeOK, EntryInv, NEW s \in Servers, Enter(s), pc # "step"
  PROVE  /\ ToolsHaveOneSource'
         /\ \A n \in Names : tools[n] \in {"builtin", "external"} \/ pc = "step" => tools'[n] = tools[n]
<1> DEFINE taken == Registrable(s)
           gone  == {n \in listed[s] \ taken : owner[n] = s}
<1>1. /\ \A n \in Names :
           /\ n \in taken => tools'[n] = s /\ owner'[n] = s
           /\ n \notin taken /\ n \in gone => tools'[n] = "none" /\ owner'[n] = "none"
           /\ n \notin taken /\ n \notin gone => tools'[n] = tools[n] /\ owner'[n] = owner[n]
      /\ UNCHANGED external
      /\ status'[s] = "Connected" /\ listed'[s] = taken
      /\ \A r \in Servers : r # s => status'[r] = status[r] /\ listed'[r] = listed[r]
  BY DEF Enter, TypeOK
<1>2. \A n \in taken : owner[n] # "none" \/ tools[n] = "none"
  BY DEF Registrable
<1>3. \A n \in gone : owner[n] = s
  OBVIOUS
<1>4. \A n \in Names : owner[n] = s /\ n \notin taken => n \in gone
  BY DEF EntryInv, ToolsHaveOneSource
<1> HIDE DEF taken, gone
<1>5. SUFFICES ASSUME NEW n \in Names
               PROVE  /\ n \in external' <=> tools'[n] = "external"
                      /\ owner'[n] = IF tools'[n] \in Servers THEN tools'[n] ELSE "none"
                      /\ owner'[n] \in Servers =>
                           status'[owner'[n]] = "Connected" /\ n \in listed'[owner'[n]]
                      /\ tools[n] \in {"builtin", "external"} \/ pc = "step" => tools'[n] = tools[n]
  BY DEF ToolsHaveOneSource
<1>6. /\ n \in external <=> tools[n] = "external"
      /\ owner[n] = IF tools[n] \in Servers THEN tools[n] ELSE "none"
      /\ owner[n] \in Servers => status[owner[n]] = "Connected" /\ n \in listed[owner[n]]
  BY DEF EntryInv, ToolsHaveOneSource
<1>7. CASE n \in taken
  BY <1>1, <1>2, <1>6, <1>7, ServerNames
<1>8. CASE n \notin taken /\ n \in gone
  BY <1>1, <1>3, <1>6, <1>8, ServerNames
<1>9. CASE n \notin taken /\ n \notin gone
  <2>1. owner[n] # s
    BY <1>4, <1>9
  <2>2. QED
    BY <1>1, <1>6, <1>9, <2>1
<1>10. QED
  BY <1>7, <1>8, <1>9

\* Entries change where no tool hangs on them: those taken up by a load, and
\* those of the server that a task is at.
LEMMA OneSourceKept ==
  ASSUME EntryInv, UNCHANGED toolVars,
         \A s \in Servers : status[s] = "Connected" => status'[s] = "Connected"
  PROVE  ToolsHaveOneSource'
BY DEF EntryInv, ToolsHaveOneSource, toolVars

LEMMA EntryStep ==
  ASSUME TypeOK, EntryInv, WaitInv, [Next]_vars
  PROVE  /\ EntryInv'
         /\ \A n \in Names : tools[n] \in {"builtin", "external"} \/ pc = "step" => tools'[n] = tools[n]
<1> DEFINE Kept == \A n \in Names : tools[n] \in {"builtin", "external"} \/ pc = "step" => tools'[n] = tools[n]
<1>1. CASE UNCHANGED vars
  BY <1>1 DEF vars, ownerVars, toolVars, taskVars, EntryInv, ToolsHaveOneSource,
              OneConnection
<1>2. ASSUME NEW s \in Servers, LoadServer(s) PROVE EntryInv' /\ Kept
  <2>1. /\ UNCHANGED <<pc, toolVars, at, now>>
        /\ pc \in {"starting", "loading"}
        /\ \A r \in Servers : status[r] \notin Resting => status'[r] = status[r]
    BY <1>2 DEF LoadServer, taskVars, TypeOK
  <2>2. ToolsHaveOneSource'
    BY <2>1, OneSourceKept DEF Resting
  <2>3. OneConnection'
    BY <2>1 DEF EntryInv, OneConnection, Resting, TypeOK
  <2>4. UNCHANGED <<tools, external>>
    BY <2>1 DEF toolVars
  <2>5. QED
    BY <2>1, <2>2, <2>3, <2>4 DEF EntryInv
<1>3. ASSUME NEW overlay \in Overlays, Started(overlay) PROVE EntryInv' /\ Kept
  <2>1. overlay \in SUBSET Names /\ overlay \cap Builtins = {}
    BY <1>3 DEF Started
  <2>2. ToolsHaveOneSource' /\ Kept
    BY <1>3, <2>1, OverlayStep DEF Started
  <2>3. QED
    BY <1>3, <2>2, EntrySpawn DEF Started
<1>4. ASSUME NEW overlay \in Overlays, OverlayFails(overlay) PROVE EntryInv' /\ Kept
  <2>1. PICK applied \in SUBSET (overlay \ Builtins) :
          /\ external' = applied
          /\ tools' = [n \in Names |-> IF n \in applied THEN "external" ELSE tools[n]]
    BY <1>4 DEF OverlayFails
  <2>2. applied \in SUBSET Names /\ applied \cap Builtins = {}
    OBVIOUS
  <2>3. ToolsHaveOneSource' /\ Kept
    BY <1>4, <2>1, <2>2, OverlayStep DEF OverlayFails
  <2>4. QED
    BY <1>4, <2>3, EntrySpawn DEF OverlayFails
<1>5. CASE SkillLoaded
  <2>1. UNCHANGED <<toolVars, status>>
    BY <1>5 DEF SkillLoaded, Spawn, toolVars
  <2>2. ToolsHaveOneSource' /\ Kept
    BY <2>1, OneSourceKept DEF toolVars
  <2>3. QED
    BY <1>5, <2>2, EntrySpawn DEF SkillLoaded
<1>6. ASSUME UNCHANGED <<toolVars, status, at, now>>,
             pc' \notin {"starting", "closed"}, pc # "closed"
      PROVE  EntryInv' /\ Kept
  BY <1>6, EntryKept DEF toolVars
<1>7. ASSUME NEW s \in Servers, StartFails(s) \/ LoadFails(s) \/ CancelLoad(s) PROVE EntryInv' /\ Kept
  BY <1>6, <1>7 DEF StartFails, LoadFails, CancelLoad, Interrupted, taskVars
<1>8. ASSUME NEW skill \in Skills, RunSkill(skill) PROVE EntryInv' /\ Kept
  BY <1>6, <1>8 DEF RunSkill, taskVars
<1>9. CASE RunPrompt \/ SkillChecked \/ TakeTasks \/ ToolsReady
  BY <1>6, <1>9 DEF RunPrompt, SkillChecked, TakeTasks, ToolsReady, taskVars
<1>10. CASE BeginStep \/ StepEnds \/ RunEnds \/ Cancel \/ Shutdown
  BY <1>6, <1>10 DEF BeginStep, StepEnds, RunEnds, Cancel, Shutdown, taskVars
<1>11. ASSUME NEW n \in Names, RegisterExternal(n) PROVE EntryInv' /\ Kept
  <2>1. /\ pc = "idle" /\ UNCHANGED <<pc, owner, listed, status, at, now>>
        /\ tools[n] = "none" \/ n \in external
        /\ \A m \in Names : tools'[m] = IF m = n THEN "external" ELSE tools[m]
        /\ external' = external \cup {n}
    BY <1>11 DEF RegisterExternal, FreeForClient, ownerVars, taskVars, TypeOK
  <2>2. owner[n] = "none" /\ tools[n] # "builtin"
    BY <2>1, ServerNames DEF EntryInv, ToolsHaveOneSource
  <2>3. ToolsHaveOneSource'
    BY <2>1, <2>2, ServerNames DEF EntryInv, ToolsHaveOneSource
  <2>4. OneConnection'
    BY <2>1 DEF EntryInv, OneConnection
  <2>5. QED
    BY <2>1, <2>2, <2>3, <2>4 DEF EntryInv
<1>12. ASSUME NEW t \in Tasks, NEW s \in Servers, NextServer(t, s) PROVE EntryInv' /\ Kept
  <2>1. LockFree /\ UNCHANGED <<pc, toolVars>>
    BY <1>12 DEF NextServer, ownerVars
  <2>2. CASE UNCHANGED <<status, at, now>>
    BY <1>6, <2>1, <2>2 DEF EntryInv, LockFree, ToolsHaveOneSource, toolVars,
                            OneConnection
  <2>3. CASE /\ status[s] = "Pending"
             /\ status' = [status EXCEPT ![s] = "Connecting"]
             /\ at' = [at EXCEPT ![t] = "connect"]
             /\ now' = [now EXCEPT ![t] = s]
    <3>1. /\ \A r \in Servers : status'[r] = IF r = s THEN "Connecting" ELSE status[r]
          /\ \A u \in Tasks : /\ now'[u] = IF u = t THEN s ELSE now[u]
                              /\ at'[u] = IF u = t THEN "connect" ELSE at[u]
      BY <2>3 DEF TypeOK
    <3>2. pc \notin {"starting", "step", "closed"}
      BY <2>1, <2>3 DEF LockFree, EntryInv
    <3>3. \A u \in Tasks : now[u] # s
      BY <2>3, <3>2 DEF EntryInv, OneConnection
    <3>4. OneConnection'
      BY <2>1, <3>1, <3>2, <3>3 DEF EntryInv, OneConnection, TypeOK
    <3>5. ToolsHaveOneSource'
      BY <2>1, <2>3, <3>1, OneSourceKept
    <3>6. QED
      BY <2>1, <3>1, <3>2, <3>4, <3>5, ServerNames DEF EntryInv, toolVars
  <2>4. QED
    BY <1>12, <2>2, <2>3 DEF NextServer
<1>13. ASSUME NEW t \in Tasks, TaskEnds(t) \/ Connects(t) PROVE EntryInv' /\ Kept
  <2>1. UNCHANGED <<pc, toolVars, status, now>>
    BY <1>13 DEF TaskEnds, Connects, ownerVars
  <2>2. \A u \in Tasks : at'[u] \in {"connect", "list"} <=> at[u] \in {"connect", "list"}
    BY <1>13 DEF TaskEnds, Connects, TypeOK
  <2>3. ToolsHaveOneSource'
    BY <2>1, OneSourceKept
  <2>4. QED
    BY <2>1, <2>2, <2>3 DEF EntryInv, OneConnection, toolVars
\* The task leaves its server, which nobody else is at.
<1>14. ASSUME NEW t \in Tasks, at[t] \in {"connect", "list"}, Back(t), LockFree,
              UNCHANGED ownerVars, ToolsHaveOneSource', Kept,
              \A r \in Servers : r # now[t] => status'[r] = status[r],
              status[now[t]] = "none" => status' = status
       PROVE  EntryInv' /\ Kept
  <2>1. /\ \A u \in Tasks : /\ now'[u] = IF u = t THEN "none" ELSE now[u]
                            /\ at'[u] = IF u = t THEN "next" ELSE at[u]
        /\ UNCHANGED <<pc>>
    BY <1>14 DEF Back, TypeOK, ownerVars
  <2>2. now[t] \in Servers
    BY <1>14 DEF EntryInv, TypeOK
  <2>3. OneConnection'
    BY <1>14, <2>1, <2>2 DEF EntryInv, OneConnection, TypeOK
  <2>4. pc = "closed" => status' = status
    BY <1>14, <2>2 DEF EntryInv
  <2>5. pc \notin {"starting", "step"}
    BY <1>14 DEF LockFree
  <2>6. QED
    BY <1>14, <2>1, <2>3, <2>4, <2>5 DEF EntryInv
<1>15. ASSUME NEW t \in Tasks, Unauthorized(t) \/ Fails(t) PROVE EntryInv' /\ Kept
  <2>1. PICK outcome \in {"Unauthorized", "Failed"} : at[t] \in {"connect", "list"} /\ Mark(t, outcome)
    BY <1>15 DEF Unauthorized, Fails
  <2>2. Back(t) /\ LockFree /\ UNCHANGED <<ownerVars, toolVars>>
    BY <2>1 DEF Mark
  <2>3. now[t] \in Servers /\ status[now[t]] \in {"none", "Connecting"}
    BY <2>1 DEF EntryInv, OneConnection, TypeOK
  <2>4. status' = [status EXCEPT ![now[t]] = IF status[now[t]] = "none" THEN "none" ELSE outcome]
    BY <2>1 DEF Mark
  <2>5. /\ \A r \in Servers : r # now[t] => status'[r] = status[r]
        /\ status[now[t]] = "none" => status' = status
    BY <2>3, <2>4 DEF TypeOK
  <2>6. ToolsHaveOneSource' /\ Kept
    BY <2>2, <2>3, <2>5, OneSourceKept DEF toolVars
  <2>7. QED
    BY <1>14, <2>1, <2>2, <2>5, <2>6
<1>16. ASSUME NEW t \in Tasks, Registers(t) PROVE EntryInv' /\ Kept
  <2>1. at[t] = "list" /\ Back(t) /\ LockFree /\ UNCHANGED ownerVars
    BY <1>16 DEF Registers
  <2>2. now[t] \in Servers
    BY <2>1 DEF EntryInv, TypeOK
  <2>3. CASE UNCHANGED <<status, toolVars>>
    <3>1. ToolsHaveOneSource' /\ Kept
      BY <2>3, OneSourceKept DEF toolVars
    <3>2. QED
      BY <1>14, <2>1, <2>3, <3>1
  <2>4. CASE status[now[t]] # "none" /\ Enter(now[t])
    <3>1. ToolsHaveOneSource' /\ Kept
      BY <2>1, <2>2, <2>4, EnterStep DEF LockFree
    <3>2. \A r \in Servers : r # now[t] => status'[r] = status[r]
      BY <2>4 DEF Enter, TypeOK
    <3>3. QED
      BY <1>14, <2>1, <2>4, <3>1, <3>2
  <2>5. QED
    BY <1>16, <2>3, <2>4 DEF Registers
<1>17. ASSUME NEW t \in Tasks, Abort(t) PROVE EntryInv' /\ Kept
  <2>1. /\ UNCHANGED <<pc, toolVars, status>> /\ pc = "aborting"
        /\ \A u \in Tasks : /\ now'[u] = IF u = t THEN "none" ELSE now[u]
                            /\ at'[u] = IF u = t THEN "done" ELSE at[u]
    BY <1>17 DEF Abort, ownerVars, TypeOK
  <2>2. ToolsHaveOneSource' /\ Kept
    BY <2>1, OneSourceKept DEF toolVars
  <2>3. QED
    BY <2>1, <2>2 DEF EntryInv, OneConnection
<1>18. CASE CleanedUp
  <2>1. /\ UNCHANGED <<at, now, external>> /\ pc = "aborting" /\ pc' = "closed"
        /\ \A s \in Servers : status'[s] = "none"
        /\ \A n \in Names : /\ tools'[n] = IF owner[n] # "none" THEN "none" ELSE tools[n]
                            /\ owner'[n] = "none"
    BY <1>18 DEF CleanedUp, taskVars
  <2>2. ToolsHaveOneSource'
    BY <2>1, ServerNames DEF EntryInv, ToolsHaveOneSource
  <2>3. Kept
    BY <2>1, ServerNames DEF EntryInv, ToolsHaveOneSource
  <2>4. QED
    BY <2>1, <2>2, <2>3 DEF EntryInv, OneConnection
<1>19. QED
  BY <1>1, <1>2, <1>3, <1>4, <1>5, <1>7, <1>8, <1>9, <1>10, <1>11, <1>12, <1>13, <1>15, <1>16,
     <1>17, <1>18 DEF Next, Load, Working, Closing

-----------------------------------------------------------------------------
(* Who is at each server.                                                     *)

LEMMA ServedInit == Init => ServedInv
BY DEF Init, ServedInv

\* A step of the owner between its loads takes nobody off a batch or a server.
LEMMA ServedKept ==
  ASSUME ServedInv, pc \notin {"aborting", "closed"},
         cut' \cup batch' = cut \cup batch, UNCHANGED <<status, at, todo, now>>
  PROVE  ServedInv'
<1>1. \A s \in Servers : s \in batch \cup cut => s \in batch' \cup cut'
  OBVIOUS
<1>2. QED
  BY <1>1 DEF ServedInv, Live

LEMMA ServedStep ==
  ASSUME TypeOK, EntryInv, WaitInv, ServedInv, [Next]_vars
  PROVE  ServedInv'
<1>1. CASE UNCHANGED vars
  BY <1>1 DEF vars, ownerVars, taskVars, ServedInv, Live
<1>2. ASSUME NEW s \in Servers, LoadServer(s) PROVE ServedInv'
  <2>1. /\ pc \notin {"aborting", "closed"} /\ UNCHANGED <<cut, at, todo, now>>
        /\ batch \subseteq batch'
    BY <1>2 DEF LoadServer, taskVars
  <2>2. \A r \in Servers : r # s => status'[r] = status[r]
    BY <1>2 DEF LoadServer, TypeOK
  <2>3. \/ status'[s] = status[s]
        \/ status'[s] = "Pending" /\ s \in batch'
        \/ status'[s] = "Unauthorized"
    BY <1>2 DEF LoadServer, TypeOK
  <2>4. QED
    BY <2>1, <2>2, <2>3 DEF ServedInv, Live
\* The batch becomes the work of a live task.
<1>3. ASSUME Spawn, pc \in {"starting", "loading"} PROVE ServedInv'
  <2>1. /\ UNCHANGED <<status, cut, now>>
        /\ \A t \in Tasks : /\ at'[t] = IF t \in Spawned THEN "next" ELSE at[t]
                            /\ todo'[t] = IF t \in Spawned THEN batch ELSE todo[t]
    BY <1>3 DEF Spawn
  <2>2. runs \in Tasks /\ at[runs] = "unborn"
    BY <1>3 DEF TypeOK, WaitInv, Tasks
  <2>3. \A s \in batch : \E t \in Tasks : Live(t)' /\ s \in todo'[t]
    BY <2>1, <2>2 DEF Spawned, Live
  <2>4. \A t \in Tasks, s \in Servers : Live(t) /\ s \in todo[t] => Live(t)' /\ s \in todo'[t]
    BY <2>1, <2>2 DEF Spawned, Live
  <2>5. QED
    BY <1>3, <2>1, <2>2, <2>3, <2>4 DEF ServedInv
<1>4. ASSUME NEW overlay \in Overlays, Started(overlay) \/ OverlayFails(overlay) PROVE ServedInv'
  BY <1>3, <1>4 DEF Started, OverlayFails
<1>5. CASE SkillLoaded
  BY <1>3, <1>5 DEF SkillLoaded
<1>6. ASSUME NEW s \in Servers, StartFails(s) \/ LoadFails(s) \/ CancelLoad(s) PROVE ServedInv'
  BY <1>6, ServedKept DEF StartFails, LoadFails, CancelLoad, Interrupted, taskVars
<1>7. ASSUME NEW skill \in Skills, RunSkill(skill) PROVE ServedInv'
  BY <1>7, ServedKept DEF RunSkill, taskVars
<1>8. CASE RunPrompt \/ SkillChecked \/ TakeTasks \/ ToolsReady
  BY <1>8, ServedKept DEF RunPrompt, SkillChecked, TakeTasks, ToolsReady, taskVars
<1>9. CASE BeginStep \/ StepEnds \/ RunEnds \/ Cancel
  BY <1>9, ServedKept DEF BeginStep, StepEnds, RunEnds, Cancel, taskVars
<1>10. ASSUME NEW n \in Names, RegisterExternal(n) PROVE ServedInv'
  BY <1>10, ServedKept DEF RegisterExternal, FreeForClient, ownerVars, taskVars
<1>11. ASSUME NEW t \in Tasks, NEW s \in Servers, NextServer(t, s) PROVE ServedInv'
  <2>1. /\ UNCHANGED <<pc, batch, cut>> /\ at[t] = "next"
        /\ \A u \in Tasks : todo'[u] = IF u = t THEN todo[u] \ {s} ELSE todo[u]
    BY <1>11 DEF NextServer, ownerVars, TypeOK
  <2>2. now[t] = "none"
    BY <2>1 DEF EntryInv
  <2>3. \A r \in Servers, u \in Tasks : r # s /\ r \in todo[u] => r \in todo'[u]
    BY <2>1
  <2>4. CASE status[s] # "Pending" /\ UNCHANGED <<status, at, now>>
    BY <2>1, <2>3, <2>4 DEF ServedInv, Live
  <2>5. CASE /\ status' = [status EXCEPT ![s] = "Connecting"]
             /\ at' = [at EXCEPT ![t] = "connect"]
             /\ now' = [now EXCEPT ![t] = s]
    <3>1. /\ \A r \in Servers : status'[r] = IF r = s THEN "Connecting" ELSE status[r]
          /\ \A u \in Tasks : now'[u] = IF u = t THEN s ELSE now[u]
          /\ \A u \in Tasks : at'[u] = IF u = t THEN "connect" ELSE at[u]
      BY <2>5 DEF TypeOK
    <3>2. \A u \in Tasks : Live(u) => Live(u)'
      BY <3>1 DEF Live
    <3>3. \A r \in Servers, u \in Tasks : now[u] = r => now'[u] = r
      BY <2>2, <3>1, ServerNames
    <3>4. now'[t] = s
      BY <3>1
    <3>5. QED
      BY <2>1, <2>3, <3>1, <3>2, <3>3, <3>4 DEF ServedInv
  <2>6. QED
    BY <1>11, <2>4, <2>5 DEF NextServer
<1>12. ASSUME NEW t \in Tasks, TaskEnds(t) PROVE ServedInv'
  <2>1. /\ UNCHANGED <<pc, batch, cut, status, todo, now>> /\ todo[t] = {}
        /\ \A u \in Tasks : at'[u] = IF u = t THEN "done" ELSE at[u]
    BY <1>12 DEF TaskEnds, ownerVars, TypeOK
  <2>2. QED
    BY <2>1 DEF ServedInv, Live
<1>13. ASSUME NEW t \in Tasks, Connects(t) PROVE ServedInv'
  <2>1. /\ UNCHANGED <<pc, batch, cut, status, todo, now>> /\ at[t] = "connect"
        /\ \A u \in Tasks : at'[u] = IF u = t THEN "list" ELSE at[u]
    BY <1>13 DEF Connects, ownerVars, TypeOK
  <2>2. QED
    BY <2>1 DEF ServedInv, Live
\* A task leaves its server settled.
<1>14. ASSUME NEW t \in Tasks, at[t] \in {"connect", "list"}, Back(t),
              UNCHANGED <<ownerVars, todo>>,
              \A r \in Servers : r # now[t] => status'[r] = status[r],
              status'[now[t]] \notin {"Pending", "Connecting"}
       PROVE  ServedInv'
  <2>1. /\ UNCHANGED <<pc, batch, cut, todo>>
        /\ \A u \in Tasks : /\ now'[u] = IF u = t THEN "none" ELSE now[u]
                            /\ at'[u] = IF u = t THEN "next" ELSE at[u]
    BY <1>14 DEF Back, TypeOK, ownerVars
  <2>2. \A u \in Tasks : Live(u) => Live(u)'
    BY <2>1 DEF Live
  <2>3. \A r \in Servers, u \in Tasks : r # now[t] /\ now[u] = r => now'[u] = r
    BY <2>1
  <2>4. QED
    BY <1>14, <2>1, <2>2, <2>3 DEF ServedInv
<1>15. ASSUME NEW t \in Tasks, Unauthorized(t) \/ Fails(t) PROVE ServedInv'
  <2>1. PICK outcome \in {"Unauthorized", "Failed"} : at[t] \in {"connect", "list"} /\ Mark(t, outcome)
    BY <1>15 DEF Unauthorized, Fails
  <2>2. Back(t) /\ UNCHANGED <<ownerVars, todo>>
    BY <2>1 DEF Mark
  <2>3. now[t] \in Servers
    BY <2>1 DEF EntryInv, TypeOK
  <2>4. status' = [status EXCEPT ![now[t]] = IF status[now[t]] = "none" THEN status[now[t]] ELSE outcome]
    BY <2>1 DEF Mark
  <2>5. /\ \A r \in Servers : r # now[t] => status'[r] = status[r]
        /\ status'[now[t]] \notin {"Pending", "Connecting"}
    BY <2>3, <2>4 DEF TypeOK
  <2>6. QED
    BY <1>14, <2>1, <2>2, <2>5
<1>16. ASSUME NEW t \in Tasks, Registers(t) PROVE ServedInv'
  <2>1. at[t] = "list" /\ Back(t) /\ UNCHANGED <<ownerVars, todo>>
    BY <1>16 DEF Registers
  <2>2. now[t] \in Servers
    BY <2>1 DEF EntryInv, TypeOK
  <2>3. CASE status[now[t]] = "none" /\ UNCHANGED status
    BY <1>14, <2>1, <2>3
  <2>4. CASE Enter(now[t])
    <3>1. /\ \A r \in Servers : r # now[t] => status'[r] = status[r]
          /\ status'[now[t]] = "Connected"
      BY <2>2, <2>4 DEF Enter, TypeOK
    <3>2. QED
      BY <1>14, <2>1, <3>1
  <2>5. QED
    BY <1>16, <2>3, <2>4 DEF Registers
<1>17. ASSUME NEW t \in Tasks, Abort(t) PROVE ServedInv'
  BY <1>17 DEF Abort, ownerVars, ServedInv
<1>18. CASE Shutdown \/ CleanedUp
  BY <1>18 DEF Shutdown, CleanedUp, ServedInv
<1>19. QED
  BY <1>1, <1>2, <1>4, <1>5, <1>6, <1>7, <1>8, <1>9, <1>10, <1>11, <1>12, <1>13, <1>15, <1>16,
     <1>17, <1>18 DEF Next, Load, Working, Closing

-----------------------------------------------------------------------------
(* The theorems.                                                              *)

LEMMA Invariants == Spec => [](TypeOK /\ EntryInv /\ WaitInv /\ ServedInv)
<1>1. Init => TypeOK /\ EntryInv /\ WaitInv /\ ServedInv
  BY TypeInit, EntryInit, WaitInit, ServedInit
<1>2. TypeOK /\ EntryInv /\ WaitInv /\ ServedInv /\ [Next]_vars
        => (TypeOK /\ EntryInv /\ WaitInv /\ ServedInv)'
  BY TypeStep, EntryStep, WaitStep, ServedStep
<1>3. QED
  BY <1>1, <1>2, PTL DEF Spec

\* For every set of servers and whatever they list: the toolset's maps agree
\* about who serves each name, and an MCP tool's server is connected.
THEOREM OneSource == Spec => []ToolsHaveOneSource
<1>1. EntryInv => ToolsHaveOneSource
  BY DEF EntryInv
<1>2. QED
  BY <1>1, Invariants, PTL

\* For every choice of builtin names, overlays and offers: no builtin or
\* external tool is ever replaced or lost.
THEOREM ToolsAreKept == Spec => ToolsStay
<1>1. TypeOK /\ EntryInv /\ WaitInv /\ ServedInv /\ [Next]_vars
        => [\A n \in Names : tools[n] \in {"builtin", "external"} \/ pc = "step" => tools'[n] = tools[n]]_vars
  BY EntryStep
<1>2. QED
  BY <1>1, Invariants, PTL DEF Spec, ToolsStay

\* For any number of cancelled and repeated runs: a server is connected by one
\* task at a time.
THEOREM ConnectedOnce == Spec => []OneConnection
<1>1. EntryInv => OneConnection
  BY DEF EntryInv
<1>2. QED
  BY <1>1, Invariants, PTL

\* Whatever tasks outlive it: a cleaned toolset has no server and no MCP tool.
THEOREM StaysClean == Spec => []CleanStaysClean
<1>1. TypeOK /\ EntryInv => CleanStaysClean
  <2>1. SUFFICES ASSUME TypeOK, EntryInv, pc = "closed"
                 PROVE  /\ \A n \in Names : tools[n] \in {"none", "builtin", "external"}
                                            /\ owner[n] = "none"
                        /\ \A s \in Servers : status[s] = "none"
    BY DEF CleanStaysClean
  <2>2. \A s \in Servers : status[s] = "none"
    BY <2>1 DEF EntryInv
  <2>3. \A n \in Names : owner[n] \notin Servers
    BY <2>1, <2>2 DEF EntryInv, ToolsHaveOneSource
  <2>4. \A n \in Names : tools[n] \notin Servers /\ owner[n] = "none"
    BY <2>1, <2>3 DEF EntryInv, ToolsHaveOneSource, TypeOK
  <2>5. QED
    BY <2>1, <2>2, <2>4 DEF TypeOK
<1>2. QED
  BY <1>1, Invariants, PTL

\* For any number of runs: a step finds every server settled, but for those that
\* a cancelled wait or an interrupted load accounts for.
THEOREM StepsCovered == Spec => []StepsAreCovered
<1>1. WaitInv /\ EntryInv /\ ServedInv => StepsAreCovered
  <2>1. SUFFICES ASSUME WaitInv, EntryInv, ServedInv, pc \in {"turn", "step"},
                        NEW s \in Servers, status[s] \in {"Pending", "Connecting"}
                 PROVE  s \in cut \/ \E t \in detached : Live(t) /\ s \in todo[t] \cup {now[t]}
    BY DEF StepsAreCovered
  <2>2. batch = {} /\ \A t \in Tasks : Live(t) => t \in detached
    BY <2>1 DEF WaitInv
  <2>3. CASE status[s] = "Pending"
    BY <2>1, <2>2, <2>3 DEF ServedInv
  <2>4. CASE status[s] = "Connecting"
    <3>1. PICK t \in Tasks : now[t] = s
      BY <2>1, <2>4 DEF ServedInv
    <3>2. Live(t)
      BY <2>1, <3>1, ServerNames DEF EntryInv, Live
    <3>3. QED
      BY <2>2, <3>1, <3>2
  <2>5. QED
    BY <2>1, <2>3, <2>4
<1>2. QED
  BY <1>1, Invariants, PTL
=============================================================================
