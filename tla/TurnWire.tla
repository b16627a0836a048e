------------------------------ MODULE TurnWire ------------------------------
(***************************************************************************)
(* One turn and its wire: run_soul (soul/mod.rs), the wire with its merge  *)
(* buffer and recorder (wire/channel.rs), the UI loop of the wire server   *)
(* (wire/server.rs), and the lock around every storage operation of the    *)
(* process (storage/db.rs).                                                *)
(*                                                                         *)
(* Three tasks send to one wire, in parallel and without awaiting: the     *)
(* soul, the task that forwards the model's stream and the tool results,   *)
(* and a tool that asks the client. A send is published raw at once, for   *)
(* the UI loop; for the recorder, parts are merged in a buffer that each   *)
(* sender locks for a moment, publishing what it took out after unlocking. *)
(* An action is what happens under one lock, or between two awaits.        *)
(*                                                                         *)
(* What a task sends is its script, a sequence of kinds. A message is      *)
(* <<source, n>>, the n-th entry of a script.                              *)
(***************************************************************************)
EXTENDS Naturals, Sequences

CONSTANTS
  Script,       \* the scripts of "soul", "parts", "results" and "tool"
  CancelAt,     \* what the soul may be at when the client cancels
  MayFail       \* an append of the recorder may fail

Sources == {"soul", "parts", "results", "tool"}
Senders == {"soul", "forward", "tool"}
Kinds   == {"text", "think", "call", "part", "event", "request"}
Steps   == {"store", "model", "tools"}  \* what the soul does between its events

ASSUME TurnWireAssumption ==
  /\ Script \in [Sources -> Seq(Kinds \cup Steps)]
  /\ \A s \in Sources \ {"soul"} : \A n \in DOMAIN Script[s] : Script[s][n] \in Kinds
  /\ CancelAt \subseteq {"ready", "storing"}
  /\ MayFail \in BOOLEAN

\* What a turn's tasks send: only tools ask the client, the soul waits for the
\* tools it started, and what is merged comes from the stream alone, or from a
\* soul (a command's output) that nothing else runs beside.
Merged(s) == \E n \in DOMAIN Script[s] : Script[s][n] \in {"text", "think", "call", "part"}
SenderOf(s) == IF s \in {"parts", "results"} THEN "forward" ELSE s

ASSUME TurnScripts ==
  /\ \A s \in Sources \ {"tool"} : \A n \in DOMAIN Script[s] : Script[s][n] # "request"
  /\ Script["tool"] # <<>> => \E n \in DOMAIN Script["soul"] : Script["soul"][n] = "tools"
  /\ \A s, t \in Sources :
       Merged(s) /\ SenderOf(t) # SenderOf(s) /\ Script[t] # <<>> => s = "parts"

VARIABLES
  next,      \* the next entry of each script
  at,        \* where each sender is inside send()
  sending,   \* the source it sends from
  hand,      \* the chunk that a sender, or run_soul, has taken out of the buffer
  buffer,    \* merge_buffer: a chunk of merged messages, or <<>>
  raw, rawOpen,        \* the UI loop's queue
  merged, mergedOpen,  \* the recorder's queue of chunks
  lock,      \* the holder of operation_lock and those who wait, in order
  recorder, taken,     \* the recorder task and the chunk it appends
  stored,    \* the wire events of the session
  failed,    \* history: the chunks whose append failed
  ui, shown, answered, \* the UI loop, what it wrote, the requests answered
  run,       \* where run_soul is
  result     \* what it will return

wire     == <<buffer, raw, rawOpen, merged, mergedOpen>>
recVars  == <<recorder, taken, stored, failed>>
uiVars   == <<ui, shown, answered>>
sendVars == <<next, at, sending, hand>>
vars == <<sendVars, wire, lock, recVars, uiVars, run, result>>

Kind(m)     == Script[m[1]][m[2]]
Over(s)     == next[s] > Len(Script[s])
Msg(w)      == <<sending[w], next[sending[w]]>>

Passed(what) == \E n \in 1 .. next["soul"] - 1 : Script["soul"][n] = what
Streaming    == Passed("model") \/ (~Over("soul") /\ Kind(<<"soul", next["soul"]>>) = "model")

Init ==
  /\ next = [s \in Sources |-> 1]
  /\ at = [w \in Senders |-> "ready"] /\ sending = [w \in Senders |-> IF w = "forward" THEN "parts" ELSE w]
  /\ hand = [w \in Senders \cup {"run"} |-> <<>>]
  /\ buffer = <<>> /\ raw = <<>> /\ merged = <<>> /\ rawOpen = TRUE /\ mergedOpen = TRUE
  /\ lock = <<>> /\ recorder = "get" /\ taken = <<>> /\ stored = <<>> /\ failed = <<>>
  /\ ui = "read" /\ shown = <<>> /\ answered = {}
  /\ run = "run" /\ result = "none"

-----------------------------------------------------------------------------
(* WireSoulSide::send.                                                     *)

Settled == \A n \in 1 .. next["tool"] - 1 : Script["tool"][n] = "request" => <<"tool", n>> \in answered

\* The tools are done: each got its answer.
ToolsDone == Over("tool") /\ at["tool"] = "ready" /\ Settled

\* When a task has something to send: the forwarder selects among the parts of
\* the stream, which may lag behind the model, and the results of tools that are
\* done; a tool goes on when its request is answered.
HasMessage(s) ==
  /\ ~Over(s) /\ Script[s][next[s]] \in Kinds
  /\ CASE s = "soul"    -> run = "run"
       [] s = "parts"   -> Streaming
       [] s = "results" -> Passed("model") /\ ToolsDone
       [] s = "tool"    -> Passed("model") /\ Settled

PublishRaw(s) ==
  LET w == SenderOf(s) IN
  /\ at[w] = "ready" /\ HasMessage(s)
  /\ sending' = [sending EXCEPT ![w] = s]
  /\ at' = [at EXCEPT ![w] = "merge"]
  /\ raw' = IF rawOpen THEN Append(raw, <<s, next[s]>>) ELSE raw
  /\ UNCHANGED <<next, hand, buffer, rawOpen, merged, mergedOpen, lock, recVars, uiVars, run, result>>

Sent(w) == next' = [next EXCEPT ![sending[w]] = @ + 1] /\ at' = [at EXCEPT ![w] = "ready"]

\* merge_in_place of the buffered message and the next one.
Joins(chunk, kind) ==
  \/ Kind(chunk[1]) = kind /\ kind \in {"text", "think", "part"}
  \/ Kind(chunk[1]) = "call" /\ kind = "part"

IsPart(kind) == kind \in {"text", "think", "part"}

Fits(m) == IsPart(Kind(m)) /\ (buffer # <<>> => Joins(buffer, Kind(m)))

\* A part joins the buffered chunk.
Join(w) ==
  /\ at[w] = "merge" /\ Fits(Msg(w))
  /\ buffer' = Append(buffer, Msg(w))
  /\ Sent(w)
  /\ UNCHANGED <<sending, hand, raw, rawOpen, merged, mergedOpen, lock, recVars, uiVars, run, result>>

\* Everything else takes the chunk out of the buffer; a tool call takes its
\* place at once, another part after the chunk was published.
Take(w) ==
  /\ at[w] = "merge" /\ ~Fits(Msg(w))
  /\ hand' = [hand EXCEPT ![w] = buffer]
  /\ buffer' = IF Kind(Msg(w)) = "call" THEN <<Msg(w)>> ELSE <<>>
  /\ at' = [at EXCEPT ![w] = "publish"]
  /\ UNCHANGED <<next, sending, raw, rawOpen, merged, mergedOpen, lock, recVars, uiVars, run, result>>

\* Publishing to a queue that is shut down drops the message.
Publish(chunk) == merged' = IF mergedOpen /\ chunk # <<>> THEN Append(merged, chunk) ELSE merged

PublishTaken(w) ==
  /\ at[w] = "publish"
  /\ Publish(hand[w])
  /\ hand' = [hand EXCEPT ![w] = <<>>]
  /\ IF Kind(Msg(w)) = "call" THEN Sent(w)
     ELSE at' = [at EXCEPT ![w] = "last"] /\ UNCHANGED next
  /\ UNCHANGED <<sending, buffer, raw, rawOpen, mergedOpen, lock, recVars, uiVars, run, result>>

\* A part is put in the buffer whatever has come there since; other messages
\* are published as they are.
Finish(w) ==
  /\ at[w] = "last"
  /\ IF IsPart(Kind(Msg(w))) THEN buffer' = <<Msg(w)>> /\ UNCHANGED merged
                             ELSE Publish(<<Msg(w)>>) /\ UNCHANGED buffer
  /\ Sent(w)
  /\ UNCHANGED <<sending, hand, raw, rawOpen, mergedOpen, lock, recVars, uiVars, run, result>>

Send(w) == (\E s \in Sources : SenderOf(s) = w /\ PublishRaw(s))
           \/ Join(w) \/ Take(w) \/ PublishTaken(w) \/ Finish(w)

-----------------------------------------------------------------------------
(* The soul between its events.                                            *)

GoOn == next' = [next EXCEPT !["soul"] = @ + 1]

\* The model's answer is complete, or all tools are done.
Proceed ==
  /\ run = "run" /\ at["soul"] = "ready" /\ ~Over("soul")
  /\ \/ Script["soul"][next["soul"]] = "model"
     \/ Script["soul"][next["soul"]] = "tools" /\ ToolsDone
  /\ GoOn
  /\ UNCHANGED <<at, sending, hand, wire, lock, recVars, uiVars, run, result>>

BeginStore ==
  /\ run = "run" /\ at["soul"] = "ready" /\ ~Over("soul")
  /\ Script["soul"][next["soul"]] = "store"
  /\ lock' = Append(lock, "soul")
  /\ at' = [at EXCEPT !["soul"] = "storing"]
  /\ UNCHANGED <<next, sending, hand, wire, recVars, uiVars, run, result>>

EndStore ==
  /\ run = "run" /\ at["soul"] = "storing" /\ Head(lock) = "soul"
  /\ lock' = Tail(lock)
  /\ GoOn
  /\ at' = [at EXCEPT !["soul"] = "ready"]
  /\ UNCHANGED <<sending, hand, wire, recVars, uiVars, run, result>>

\* step() awaits the forwarder last.
SoulEnds ==
  /\ run = "run" /\ at["soul"] = "ready" /\ Over("soul")
  /\ at["forward"] = "ready" /\ Over("parts") /\ Over("results")
  /\ run' = "flush" /\ result' = "ok"
  /\ UNCHANGED <<sendVars, wire, lock, recVars, uiVars>>

-----------------------------------------------------------------------------
(* run_soul.                                                               *)

\* The soul's future is not polled any more, but it is not dropped either: it
\* keeps its place in line for the storage lock.
Cancel ==
  /\ run = "run" /\ at["soul"] \in CancelAt
  /\ run' = "flush" /\ result' = "cancelled"
  /\ UNCHANGED <<sendVars, wire, lock, recVars, uiVars>>

\* Wire::shutdown.
Flush ==
  /\ run = "flush"
  /\ hand' = [hand EXCEPT !["run"] = buffer] /\ buffer' = <<>>
  /\ run' = "flushed"
  /\ UNCHANGED <<next, at, sending, raw, rawOpen, merged, mergedOpen, lock, recVars, uiVars, result>>

PublishFlushed ==
  /\ run = "flushed"
  /\ Publish(hand["run"]) /\ hand' = [hand EXCEPT !["run"] = <<>>]
  /\ run' = "close"
  /\ UNCHANGED <<next, at, sending, buffer, raw, rawOpen, mergedOpen, lock, recVars, uiVars, result>>

CloseRaw ==
  /\ run = "close" /\ rawOpen
  /\ rawOpen' = FALSE
  /\ UNCHANGED <<sendVars, buffer, raw, merged, mergedOpen, lock, recVars, uiVars, run, result>>

\* Faulty variant: what the recorder has not read yet is thrown away.
CloseMerged_Immediate ==
  /\ run = "close" /\ ~rawOpen
  /\ mergedOpen' = FALSE /\ merged' = <<>>
  /\ run' = "join"
  /\ UNCHANGED <<sendVars, buffer, raw, rawOpen, lock, recVars, uiVars, result>>

CloseMerged ==
  /\ run = "close" /\ ~rawOpen
  /\ mergedOpen' = FALSE
  /\ run' = "join"
  /\ UNCHANGED <<sendVars, buffer, raw, rawOpen, merged, lock, recVars, uiVars, result>>

\* Wire::join.
JoinRecorder ==
  /\ run = "join" /\ recorder = "done"
  /\ run' = "ui"
  /\ UNCHANGED <<sendVars, wire, lock, recVars, uiVars, result>>

\* Faulty variant: the UI loop is not waited for.
Return_Eager ==
  /\ run = "ui"
  /\ run' = "returned"
  /\ lock' = SelectSeq(lock, LAMBDA holder : holder # "soul")
  /\ UNCHANGED <<sendVars, wire, recVars, uiVars, result>>

\* Faulty variant: it is waited for as long as it takes.
Return_Patient ==
  /\ run = "ui" /\ ui = "done"
  /\ run' = "returned"
  /\ lock' = SelectSeq(lock, LAMBDA holder : holder # "soul")
  /\ UNCHANGED <<sendVars, wire, recVars, uiVars, result>>

\* The UI loop has half a second to end: enough to write what is queued, which
\* needs no wait, but a question to the client may outlast it. Only now is the soul's future dropped.
Return ==
  /\ run = "ui" /\ ui \in {"done", "asking"}
  /\ run' = "returned"
  /\ lock' = SelectSeq(lock, LAMBDA holder : holder # "soul")
  /\ UNCHANGED <<sendVars, wire, recVars, uiVars, result>>

-----------------------------------------------------------------------------
(* The recorder, the UI loop and the client.                               *)

RecorderTakes ==
  /\ recorder = "get" /\ merged # <<>>
  /\ taken' = Head(merged) /\ merged' = Tail(merged)
  /\ recorder' = "append" /\ lock' = Append(lock, "recorder")
  /\ UNCHANGED <<sendVars, buffer, raw, rawOpen, mergedOpen, stored, failed, uiVars, run, result>>

RecorderAppends ==
  /\ recorder = "append" /\ Head(lock) = "recorder"
  /\ lock' = Tail(lock)
  /\ \/ stored' = Append(stored, taken) /\ UNCHANGED failed
     \/ MayFail /\ failed' = Append(failed, taken) /\ UNCHANGED stored
  /\ taken' = <<>> /\ recorder' = "get"
  /\ UNCHANGED <<sendVars, wire, uiVars, run, result>>

RecorderEnds ==
  /\ recorder = "get" /\ merged = <<>> /\ ~mergedOpen
  /\ recorder' = "done"
  /\ UNCHANGED <<sendVars, wire, lock, taken, stored, failed, uiVars, run, result>>

\* stream_wire_messages passes a request on and waits until it is answered.
UiShows ==
  /\ ui = "read" /\ raw # <<>>
  /\ shown' = Append(shown, Head(raw)) /\ raw' = Tail(raw)
  /\ ui' = IF Kind(Head(raw)) = "request" THEN "asking" ELSE "read"
  /\ UNCHANGED <<sendVars, buffer, rawOpen, merged, mergedOpen, lock, recVars, answered, run, result>>

UiEnds ==
  /\ ui = "read" /\ raw = <<>> /\ ~rawOpen
  /\ ui' = "done"
  /\ UNCHANGED <<sendVars, wire, lock, recVars, shown, answered, run, result>>

Answer ==
  /\ ui = "asking"
  /\ ui' = "read" /\ answered' = answered \cup {shown[Len(shown)]}
  /\ UNCHANGED <<sendVars, wire, lock, recVars, shown, run, result>>

-----------------------------------------------------------------------------
Soul     == Send("soul") \/ Proceed \/ BeginStore \/ EndStore \/ SoulEnds
RunSoul  == Flush \/ PublishFlushed \/ CloseRaw \/ CloseMerged \/ JoinRecorder \/ Return
Recorder == RecorderTakes \/ RecorderAppends \/ RecorderEnds
UiLoop   == UiShows \/ UiEnds

Next == Soul \/ Send("forward") \/ Send("tool") \/ Cancel \/ RunSoul \/ Recorder \/ UiLoop \/ Answer

Spec == Init /\ [][Next]_vars

\* Tasks that can go on are polled, and storage operations end. The client
\* answers while the turn runs; after a cancel it owes nothing.
Fairness ==
  /\ WF_vars(Soul) /\ WF_vars(Send("forward")) /\ WF_vars(Send("tool"))
  /\ WF_vars(RunSoul) /\ WF_vars(Recorder) /\ WF_vars(UiLoop)
  /\ WF_vars(run = "run" /\ Answer)

FairSpec == Spec /\ Fairness
-----------------------------------------------------------------------------
Message == UNION {{<<s, n>> : n \in {k \in DOMAIN Script[s] : Script[s][k] \in Kinds}} : s \in Sources}

TypeOK ==
  /\ \A s \in Sources : next[s] \in 1 .. Len(Script[s]) + 1
  /\ at \in [Senders -> {"ready", "merge", "publish", "last", "storing"}]
  /\ \A w \in Senders : sending[w] \in Sources /\ SenderOf(sending[w]) = w
  /\ hand \in [Senders \cup {"run"} -> Seq(Message)] /\ buffer \in Seq(Message)
  /\ raw \in Seq(Message) /\ merged \in Seq(Seq(Message)) /\ {rawOpen, mergedOpen} \subseteq BOOLEAN
  /\ lock \in Seq({"soul", "recorder"})
  /\ recorder \in {"get", "append", "done"} /\ taken \in Seq(Message)
  /\ stored \in Seq(Seq(Message)) /\ failed \in Seq(Seq(Message))
  /\ ui \in {"read", "asking", "done"} /\ shown \in Seq(Message) /\ answered \subseteq Message
  /\ run \in {"run", "flush", "flushed", "close", "join", "ui", "returned"}
  /\ result \in {"none", "ok", "cancelled"}

\* The chunks on their way to the record, wherever they are.
Chunks == stored \o failed \o <<taken>> \o merged \o
          <<hand["soul"], hand["forward"], hand["tool"], hand["run"], buffer>>

Places(m, chunks) ==
  UNION {{<<i, j>> : j \in {k \in DOMAIN chunks[i] : chunks[i][k] = m}} : i \in DOMAIN chunks}

\* What a task has sent is in exactly one place on its way to the record as long
\* as the wire is open, and never in two, however the tasks take the buffer from
\* one another. (WireSoulSide::send and the merges, channel.rs:108-227)
KeptOnce ==
  \A m \in Message :
    LET places == Places(m, Chunks) IN
    /\ \A p, q \in places : p = q
    /\ m[2] < next[m[1]] /\ mergedOpen => places # {}

\* When a turn has run to its end, all its messages are in the record; of a
\* cancelled one, all that the soul itself had sent. (Wire::shutdown flushes the
\* buffer and Wire::join waits for the recorder, channel.rs:79-90)
TurnIsRecorded ==
  run = "returned" =>
    \A m \in Message : m[2] < next[m[1]] /\ (result = "ok" \/ m[1] = "soul") =>
      Places(m, stored \o failed) # {}

\* The record of a turn is whole: on its way nothing is lost or doubled, and at
\* the end it has arrived. (channel.rs:79-227)
RecordIsWhole == KeptOnce /\ TurnIsRecorded

\* The client has seen every message of a turn that ran to its end before it
\* reads that the turn is over. (soul/mod.rs:138-154)
EventsBeforeResponse ==
  run = "returned" /\ result = "ok" =>
    \A m \in Message : m[2] < next[m[1]] => \E i \in 1 .. Len(shown) : shown[i] = m

-----------------------------------------------------------------------------
(* The turn implements TurnLog.                                            *)

InSend == {"merge", "publish", "last"}

\* What a task has sent, or is sending.
Published(m) ==
  \/ m[2] < next[m[1]]
  \/ \E w \in Senders : at[w] \in InSend /\ m = Msg(w)

\* What was appended to the record, or failed to be.
Recorded(m) == Places(m, stored \o failed) # {}

Log == INSTANCE TurnLog WITH
  Messages <- Message, Soul <- {m \in Message : m[1] = "soul"},
  sent <- {m \in Message : Published(m)}, seen <- {shown[i] : i \in DOMAIN shown},
  kept <- {m \in Message : Recorded(m)}, end <- IF run = "returned" THEN result ELSE "none"

\* Each message is seen once and recorded once, a turn that ran to its end returns
\* when all of them are and is over then, and a cancelled one when all that the soul
\* sent is recorded. (channel.rs:79-227, soul/mod.rs:126-154)
KeepsTheLog == Log!LogSpec

-----------------------------------------------------------------------------
\* A turn that ends or is cancelled returns, although its record is written
\* under the lock that the soul uses and its UI loop may be waiting for a client
\* that never answers. (soul/mod.rs:126-154)
TurnReturns == run # "returned" ~> run = "returned"
=============================================================================
