--------------------------- MODULE TurnWireProofs ---------------------------
(* What a turn's wire keeps for any scripts of its tasks: the client has seen *)
(* all of a turn before it is told that the turn is over, the record of the   *)
(* turn is whole, and the wire implements TurnLog.                            *)
EXTENDS TurnWire, TLAPS

-----------------------------------------------------------------------------
(* The invariant of the senders and of run_soul.                              *)

SendTypes ==
  /\ next \in [Sources -> Nat]
  /\ at \in [Senders -> InSend \cup {"ready", "storing"}]
  /\ sending \in [Senders -> Sources]
  /\ \A w \in Senders : SenderOf(sending[w]) = w

\* A sender that is inside send() has a message, a soul that stores is at a
\* store, and no entry is passed twice.
SendInv ==
  /\ \A s \in Sources : next[s] >= 1
  /\ \A w \in Senders :
       /\ at[w] \in InSend => ~Over(sending[w]) /\ Kind(Msg(w)) \in Kinds
       /\ at[w] = "storing" => w = "soul" /\ ~Over(w) /\ Kind(<<w, next[w]>>) = "store"

\* The turn is complete only when everybody is, and the queues close in order.
RunInv ==
  /\ run = "run" <=> result = "none"
  /\ run \in {"run", "flush", "flushed", "close", "join", "ui", "returned"}
  /\ result \in {"none", "ok", "cancelled"}
  /\ rawOpen \in BOOLEAN /\ (run \in {"run", "flush", "flushed"} => rawOpen)
  /\ result = "ok" => (\A s \in Sources : Over(s)) /\ (\A w \in Senders : at[w] = "ready")
  /\ Passed("tools") => ToolsDone

TurnInv == SendTypes /\ SendInv /\ RunInv

-----------------------------------------------------------------------------
(* What the client has seen.                                                  *)

Seen == shown \o raw

SeenInv ==
  /\ shown \in Seq(Message) /\ raw \in Seq(Message)
  /\ \A i \in 1 .. Len(Seen) : Published(Seen[i])
  /\ \A i, j \in 1 .. Len(Seen) : Seen[i] = Seen[j] => i = j
  /\ rawOpen \/ result = "ok" =>
       \A m \in Message : Published(m) => \E i \in 1 .. Len(Seen) : Seen[i] = m

AskInv ==
  /\ \A m \in answered : \E i \in 1 .. Len(shown) : shown[i] = m
  /\ ui = "asking" =>
       /\ shown # <<>> /\ Kind(shown[Len(shown)]) = "request"
       /\ shown[Len(shown)] \notin answered
  /\ ui = "done" => raw = <<>> /\ ~rawOpen
  /\ run = "returned" /\ result = "ok" => ui = "done"

-----------------------------------------------------------------------------
(* Facts about scripts and functions.                                         *)

\* What the assumptions say of each script.
LEMMA ScriptIs ==
  \A s \in Sources :
    /\ Script[s] \in Seq(Kinds \cup Steps)
    /\ Len(Script[s]) \in Nat /\ DOMAIN Script[s] = 1 .. Len(Script[s])
<1>1. SUFFICES ASSUME NEW s \in Sources PROVE Script[s] \in Seq(Kinds \cup Steps)
  OBVIOUS
<1> QED BY TurnWireAssumption

\* A function changed at one argument.
LEMMA OneEntry ==
  ASSUME NEW D, NEW R, NEW f \in [D -> R], NEW p \in D, NEW v \in R, NEW g, g = [f EXCEPT ![p] = v]
  PROVE  g \in [D -> R] /\ g[p] = v /\ \A q \in D : q # p => g[q] = f[q]
OBVIOUS

\* The messages are the entries of the scripts that are sent.
LEMMA MessageIs ==
  /\ \A m \in Message :
       /\ m[1] \in Sources /\ m[2] \in Nat /\ m[2] >= 1 /\ m[2] <= Len(Script[m[1]])
       /\ Kind(m) \in Kinds /\ m = <<m[1], m[2]>>
  /\ \A s \in Sources : \A n \in Nat :
       n >= 1 /\ n <= Len(Script[s]) /\ Script[s][n] \in Kinds => <<s, n>> \in Message
<1>1. ASSUME NEW m \in Message
      PROVE  /\ m[1] \in Sources /\ m[2] \in Nat /\ m[2] >= 1 /\ m[2] <= Len(Script[m[1]])
             /\ Kind(m) \in Kinds /\ m = <<m[1], m[2]>>
  <2>1. PICK s \in Sources : m \in {<<s, n>> : n \in {k \in DOMAIN Script[s] : Script[s][k] \in Kinds}}
    BY <1>1 DEF Message
  <2>2. PICK n \in DOMAIN Script[s] : m = <<s, n>> /\ Script[s][n] \in Kinds
    BY <2>1
  <2> QED BY <2>2, ScriptIs DEF Kind
<1>2. ASSUME NEW s \in Sources, NEW n \in Nat, n >= 1, n <= Len(Script[s]), Script[s][n] \in Kinds
      PROVE  <<s, n>> \in Message
  <2>1. n \in DOMAIN Script[s]
    BY <1>2, ScriptIs
  <2> QED BY <2>1, <1>2 DEF Message
<1> QED BY <1>1, <1>2

-----------------------------------------------------------------------------
(* The senders: how each kind of step moves them.                             *)

RunVars == <<run, result, rawOpen>>

\* A sender begins to send, goes on, and has sent its message.
Begins(s) ==
  /\ at[SenderOf(s)] = "ready" /\ HasMessage(s)
  /\ sending' = [sending EXCEPT ![SenderOf(s)] = s]
  /\ at' = [at EXCEPT ![SenderOf(s)] = "merge"] /\ next' = next

GoesOn(w) ==
  /\ at[w] \in InSend
  /\ \E where \in InSend : at' = [at EXCEPT ![w] = where]
  /\ next' = next /\ sending' = sending

HasSent(w) == at[w] \in InSend /\ Sent(w) /\ sending' = sending

\* A step of one of the senders changes nothing else that TurnInv is about.
LEMMA SendSteps ==
  ASSUME NEW w \in Senders, Send(w)
  PROVE  /\ UNCHANGED <<RunVars, answered>>
         /\ \/ \E s \in Sources : SenderOf(s) = w /\ PublishRaw(s) /\ Begins(s)
            \/ GoesOn(w)
            \/ HasSent(w)
<1>1. CASE \E s \in Sources : SenderOf(s) = w /\ PublishRaw(s)
  BY <1>1 DEF PublishRaw, Begins, RunVars, uiVars
<1>2. CASE Join(w)
  BY <1>2 DEF Join, HasSent, RunVars, uiVars, InSend
<1>3. CASE Take(w)
  BY <1>3 DEF Take, GoesOn, RunVars, uiVars, InSend
<1>4. CASE PublishTaken(w)
  BY <1>4 DEF PublishTaken, GoesOn, HasSent, RunVars, uiVars, InSend
<1>5. CASE Finish(w)
  BY <1>5 DEF Finish, HasSent, RunVars, uiVars, InSend
<1> QED BY <1>1, <1>2, <1>3, <1>4, <1>5 DEF Send

LEMMA BeginsKeeps ==
  ASSUME TurnInv, NEW s \in Sources, Begins(s), UNCHANGED <<RunVars, answered>>
  PROVE  TurnInv'
<1> DEFINE w == SenderOf(s)
<1>t. SendTypes /\ SendInv /\ RunInv
  BY DEF TurnInv
<1>w. w \in Senders
  BY DEF SenderOf, Senders, Sources
<1>1. at' \in [Senders -> InSend \cup {"ready", "storing"}] /\ at'[w] = "merge"
      /\ \A v \in Senders : v # w => at'[v] = at[v]
  BY <1>t, <1>w, OneEntry DEF SendTypes, Begins, InSend
<1>2. sending' \in [Senders -> Sources] /\ sending'[w] = s
      /\ \A v \in Senders : v # w => sending'[v] = sending[v]
  BY <1>t, <1>w, OneEntry DEF SendTypes, Begins
<1>3. next' = next /\ at[w] = "ready" /\ ~Over(s) /\ Script[s][next[s]] \in Kinds
  BY DEF Begins, HasMessage
<1>4. SendTypes'
  BY <1>t, <1>1, <1>2, <1>3, <1>w DEF SendTypes
<1>5. SendInv'
  <2>1. \A q \in Sources : next'[q] >= 1
    BY <1>t, <1>3 DEF SendInv
  <2>2. ASSUME NEW v \in Senders
        PROVE  /\ at'[v] \in InSend => ~(Over(sending[v])') /\ Kind(Msg(v))' \in Kinds
               /\ at'[v] = "storing" => v = "soul" /\ ~(Over(v)') /\ Kind(<<v, next[v]>>)' = "store"
    <3>1. CASE v = w
      BY <3>1, <1>1, <1>2, <1>3 DEF Over, Kind, Msg
    <3>2. CASE v # w
      BY <3>2, <1>1, <1>2, <1>3, <1>t DEF SendInv, Over, Kind, Msg
    <3> QED BY <3>1, <3>2
  <2> QED BY <2>1, <2>2 DEF SendInv
<1>6. RunInv'
  <2>1. result # "ok"
    BY <1>t, <1>3 DEF RunInv
  <2>2. Passed("tools") => ToolsDone'
    <3>1. SUFFICES ASSUME Passed("tools") PROVE ToolsDone'
      OBVIOUS
    <3>2. ToolsDone
      BY <3>1, <1>t DEF RunInv
    <3>3. w # "tool"
      BY <3>2, <1>3 DEF ToolsDone, SenderOf
    <3> QED BY <3>2, <3>3, <1>1, <1>3 DEF ToolsDone, Over, Settled, Senders
  <2> QED BY <1>t, <2>1, <2>2, <1>3 DEF RunInv, RunVars, Passed
<1> QED BY <1>4, <1>5, <1>6 DEF TurnInv

LEMMA GoesOnKeeps ==
  ASSUME TurnInv, NEW w \in Senders, GoesOn(w), UNCHANGED <<RunVars, answered>>
  PROVE  TurnInv'
<1>t. SendTypes /\ SendInv /\ RunInv
  BY DEF TurnInv
<1>1. at' \in [Senders -> InSend \cup {"ready", "storing"}] /\ at'[w] \in InSend
      /\ \A v \in Senders : v # w => at'[v] = at[v]
  <2>1. PICK where \in InSend : at' = [at EXCEPT ![w] = where]
    BY DEF GoesOn
  <2> QED BY <2>1, <1>t, OneEntry DEF SendTypes
<1>2. next' = next /\ sending' = sending /\ at[w] \in InSend
  BY DEF GoesOn
<1>4. SendTypes'
  BY <1>t, <1>1, <1>2 DEF SendTypes
<1>5. SendInv'
  <2>1. \A q \in Sources : next'[q] >= 1
    BY <1>t, <1>2 DEF SendInv
  <2>2. ASSUME NEW v \in Senders
        PROVE  /\ at'[v] \in InSend => ~(Over(sending[v])') /\ Kind(Msg(v))' \in Kinds
               /\ at'[v] = "storing" => v = "soul" /\ ~(Over(v)') /\ Kind(<<v, next[v]>>)' = "store"
    <3>1. CASE v = w
      BY <3>1, <1>1, <1>2, <1>t DEF SendInv, Over, Kind, Msg, InSend
    <3>2. CASE v # w
      BY <3>2, <1>1, <1>2, <1>t DEF SendInv, Over, Kind, Msg
    <3> QED BY <3>1, <3>2
  <2> QED BY <2>1, <2>2 DEF SendInv
<1>6. RunInv'
  <2>1. result # "ok"
    BY <1>t, <1>2 DEF RunInv, InSend
  <2>2. Passed("tools") => ToolsDone'
    <3>1. SUFFICES ASSUME Passed("tools") PROVE ToolsDone'
      OBVIOUS
    <3>2. ToolsDone
      BY <3>1, <1>t DEF RunInv
    <3>3. w # "tool"
      BY <3>2, <1>2 DEF ToolsDone, InSend
    <3> QED BY <3>2, <3>3, <1>1, <1>2 DEF ToolsDone, Over, Settled, Senders
  <2> QED BY <1>t, <2>1, <2>2, <1>2 DEF RunInv, RunVars, Passed
<1> QED BY <1>4, <1>5, <1>6 DEF TurnInv

LEMMA HasSentKeeps ==
  ASSUME TurnInv, NEW w \in Senders, HasSent(w), UNCHANGED <<RunVars, answered>>
  PROVE  TurnInv'
<1> DEFINE s == sending[w]
<1>t. SendTypes /\ SendInv /\ RunInv
  BY DEF TurnInv
<1>s. s \in Sources /\ SenderOf(s) = w /\ next[s] \in Nat /\ next[s] + 1 \in Nat
  BY <1>t DEF SendTypes
<1>1. at' \in [Senders -> InSend \cup {"ready", "storing"}] /\ at'[w] = "ready"
      /\ \A v \in Senders : v # w => at'[v] = at[v]
  BY <1>t, OneEntry DEF SendTypes, HasSent, Sent
<1>2. next' \in [Sources -> Nat] /\ next'[s] = next[s] + 1
      /\ \A q \in Sources : q # s => next'[q] = next[q]
  <2>1. next' = [next EXCEPT ![s] = next[s] + 1] /\ next \in [Sources -> Nat]
    BY <1>t DEF HasSent, Sent, SendTypes
  <2> HIDE DEF s
  <2> QED BY <2>1, <1>s, OneEntry
<1>3. sending' = sending /\ at[w] \in InSend /\ ~Over(s) /\ Script[s][next[s]] \in Kinds
  BY <1>t DEF HasSent, SendInv, Kind, Msg
<1>4. SendTypes'
  BY <1>t, <1>1, <1>2, <1>3 DEF SendTypes
<1>5. SendInv'
  <2>1. \A q \in Sources : next'[q] >= 1
    BY <1>t, <1>2, <1>s DEF SendInv
  <2>2. ASSUME NEW v \in Senders
        PROVE  /\ at'[v] \in InSend => ~(Over(sending[v])') /\ Kind(Msg(v))' \in Kinds
               /\ at'[v] = "storing" => v = "soul" /\ ~(Over(v)') /\ Kind(<<v, next[v]>>)' = "store"
    <3>1. CASE v = w
      BY <3>1, <1>1 DEF InSend
    <3>2. CASE v # w
      <4>1. sending[v] # s /\ (v = "soul" => v # s)
        BY <3>2, <1>s, <1>t DEF SendTypes, SenderOf
      <4>2. next'[sending[v]] = next[sending[v]] /\ (v = "soul" => next'[v] = next[v])
        BY <4>1, <1>2, <1>t DEF SendTypes, Sources
      <4> QED BY <3>2, <4>1, <4>2, <1>1, <1>3, <1>t DEF SendInv, Over, Kind, Msg
    <3> QED BY <3>1, <3>2
  <2> QED BY <2>1, <2>2 DEF SendInv
<1>6. RunInv'
  <2>1. result # "ok"
    BY <1>t, <1>3 DEF RunInv, InSend
  <2>2. Passed("tools")' => ToolsDone'
    <3>1. SUFFICES ASSUME Passed("tools")' PROVE ToolsDone'
      OBVIOUS
    <3>2. Passed("tools")
      <4>1. PICK n \in 1 .. next'["soul"] - 1 : Script["soul"][n] = "tools"
        BY <3>1 DEF Passed
      <4>2. next["soul"] \in Nat /\ next'["soul"] \in Nat
        BY <1>t, <1>2 DEF SendTypes, Sources
      <4>3. n \in 1 .. next["soul"] - 1
        <5>1. CASE s = "soul"
          BY <5>1, <4>1, <4>2, <1>2, <1>3 DEF Kinds
        <5>2. CASE s # "soul"
          BY <5>2, <4>1, <4>2, <1>2 DEF Sources
        <5> QED BY <5>1, <5>2
      <4> QED BY <4>1, <4>3 DEF Passed
    <3>3. ToolsDone
      BY <3>2, <1>t DEF RunInv
    <3>4. w # "tool" /\ s # "tool"
      BY <3>3, <1>3, <1>s DEF ToolsDone, InSend, SenderOf
    <3> QED BY <3>3, <3>4, <1>1, <1>2 DEF ToolsDone, Over, Settled, Senders, Sources
  <2> QED BY <1>t, <2>1, <2>2 DEF RunInv, RunVars
<1> QED BY <1>4, <1>5, <1>6 DEF TurnInv

\* A soul that goes on between its events: it proceeds or begins and ends a store.
SoulGoes == Proceed \/ BeginStore \/ EndStore

LEMMA SoulGoesKeeps ==
  ASSUME TurnInv, SoulGoes
  PROVE  TurnInv' /\ UNCHANGED <<RunVars, answered, sending>>
<1>t. SendTypes /\ SendInv /\ RunInv
  BY DEF TurnInv
<1>u. UNCHANGED <<RunVars, answered, sending>> /\ run = "run"
  BY DEF SoulGoes, Proceed, BeginStore, EndStore, RunVars, uiVars, wire
<1>n. next["soul"] \in Nat /\ next["soul"] + 1 \in Nat /\ at["soul"] \notin InSend
  BY <1>t DEF SendTypes, SoulGoes, Proceed, BeginStore, EndStore, Sources, InSend
<1>1. /\ next' \in [Sources -> Nat] /\ next'["soul"] \in {next["soul"], next["soul"] + 1}
      /\ \A q \in Sources : q # "soul" => next'[q] = next[q]
  <2>1. next' = next \/ next' = [next EXCEPT !["soul"] = next["soul"] + 1]
    BY DEF SoulGoes, Proceed, BeginStore, EndStore, GoOn
  <2> QED BY <2>1, <1>n, <1>t, OneEntry DEF SendTypes, Sources
<1>2. /\ at' \in [Senders -> InSend \cup {"ready", "storing"}]
      /\ at'["soul"] \in {"ready", "storing"}
      /\ \A v \in Senders : v # "soul" => at'[v] = at[v]
  <2>1. \/ at' = at /\ at["soul"] = "ready"
        \/ at' = [at EXCEPT !["soul"] = "storing"] \/ at' = [at EXCEPT !["soul"] = "ready"]
    BY DEF SoulGoes, Proceed, BeginStore, EndStore
  <2> QED BY <2>1, <1>t, OneEntry DEF SendTypes, Senders
<1>3. at'["soul"] = "storing" => next' = next /\ ~Over("soul") /\ Script["soul"][next["soul"]] = "store"
  BY <1>t DEF SoulGoes, Proceed, BeginStore, EndStore, SendTypes, Senders
<1>4. SendTypes'
  BY <1>t, <1>1, <1>2, <1>u DEF SendTypes
<1>5. SendInv'
  <2>1. \A q \in Sources : next'[q] >= 1
    BY <1>t, <1>1, <1>n DEF SendInv
  <2>2. ASSUME NEW v \in Senders
        PROVE  /\ at'[v] \in InSend => ~(Over(sending[v])') /\ Kind(Msg(v))' \in Kinds
               /\ at'[v] = "storing" => v = "soul" /\ ~(Over(v)') /\ Kind(<<v, next[v]>>)' = "store"
    <3>1. CASE v = "soul"
      BY <3>1, <1>2, <1>3 DEF InSend, Over, Kind
    <3>2. CASE v # "soul"
      <4>1. sending[v] # "soul"
        BY <3>2, <1>t DEF SendTypes, SenderOf
      <4>2. next'[sending[v]] = next[sending[v]]
        BY <4>1, <1>1, <1>t DEF SendTypes
      <4> QED BY <3>2, <4>2, <1>2, <1>u, <1>t DEF SendInv, Over, Kind, Msg
    <3> QED BY <3>1, <3>2
  <2> QED BY <2>1, <2>2, <1>u DEF SendInv
<1>6. RunInv'
  <2>1. result # "ok"
    BY <1>t, <1>u DEF RunInv
  <2>2. Passed("tools")' => ToolsDone'
    <3>1. SUFFICES ASSUME Passed("tools")' PROVE ToolsDone'
      OBVIOUS
    <3>2. PICK n \in 1 .. next'["soul"] - 1 : Script["soul"][n] = "tools"
      BY <3>1 DEF Passed
    <3>3. ToolsDone
      <4>1. CASE n \in 1 .. next["soul"] - 1
        BY <4>1, <3>2, <1>t DEF Passed, RunInv
      <4>2. CASE n \notin 1 .. next["soul"] - 1
        <5>1. n = next["soul"] /\ next'["soul"] # next["soul"]
          BY <4>2, <1>n, <1>1
        <5>2. Script["soul"][next["soul"]] = "tools"
          BY <5>1, <3>2
        <5>3. at["soul"] = "storing" => Script["soul"][next["soul"]] = "store"
          BY <1>t DEF SendInv, Senders, Kind
        <5> QED BY <5>1, <5>2, <5>3 DEF SoulGoes, Proceed, BeginStore, EndStore
      <4> QED BY <4>1, <4>2
    <3> QED BY <3>3, <1>1, <1>2, <1>u DEF ToolsDone, Over, Settled, Senders, Sources
  <2> QED BY <1>t, <1>u, <2>1, <2>2 DEF RunInv, RunVars
<1> QED BY <1>4, <1>5, <1>6, <1>u DEF TurnInv

\* A step that leaves the senders alone keeps their part; an answer only settles more.
LEMMA SendersRest ==
  ASSUME TurnInv, UNCHANGED <<next, at, sending>>, answered \subseteq answered'
  PROVE  SendTypes' /\ SendInv' /\ (Passed("tools")' => ToolsDone')
<1>t. SendTypes /\ SendInv /\ RunInv
  BY DEF TurnInv
<1>1. SendTypes'
  BY <1>t DEF SendTypes
<1>2. SendInv'
  BY <1>t DEF SendInv, Over, Kind, Msg
<1>3. ToolsDone => ToolsDone'
  BY DEF ToolsDone, Over, Settled
<1>4. Passed("tools")' => Passed("tools")
  BY DEF Passed
<1> QED BY <1>1, <1>2, <1>3, <1>4, <1>t DEF RunInv

LEMMA SoulEndsKeeps ==
  ASSUME TurnInv, SoulEnds
  PROVE  TurnInv' /\ UNCHANGED <<rawOpen, answered>>
<1>t. SendTypes /\ SendInv /\ RunInv
  BY DEF TurnInv
<1>u. UNCHANGED <<next, at, sending, rawOpen, answered>> /\ run = "run" /\ run' = "flush" /\ result' = "ok"
  BY DEF SoulEnds, sendVars, wire, uiVars
<1>1. Over("soul") /\ Over("parts") /\ Over("results") /\ at["soul"] = "ready" /\ at["forward"] = "ready"
  BY DEF SoulEnds
<1>2. Over("tool") /\ at["tool"] = "ready"
  <2>1. CASE Script["tool"] = <<>>
    <3>1. Over("tool")
      BY <2>1, <1>t DEF SendTypes, SendInv, Over, Sources
    <3>2. sending["tool"] = "tool"
      BY <1>t DEF SendTypes, SenderOf, Senders
    <3> QED BY <3>1, <3>2, <1>t DEF SendTypes, SendInv, Senders
  <2>2. CASE Script["tool"] # <<>>
    <3>1. PICK n \in DOMAIN Script["soul"] : Script["soul"][n] = "tools"
      BY <2>2, TurnScripts
    <3>2. n \in 1 .. next["soul"] - 1
      BY <1>1, <1>t, ScriptIs DEF Over, SendTypes, Sources
    <3> QED BY <3>1, <3>2, <1>t DEF Passed, RunInv, ToolsDone
  <2> QED BY <2>1, <2>2
<1>3. RunInv'
  <2>1. (\A s \in Sources : Over(s)) /\ (\A w \in Senders : at[w] = "ready")
    BY <1>1, <1>2 DEF Sources, Senders
  <2>2. (\A s \in Sources : Over(s))' /\ (\A w \in Senders : at[w] = "ready")'
    BY <2>1, <1>u DEF Over
  <2> QED BY <2>2, <1>t, <1>u, SendersRest DEF RunInv
<1> QED BY <1>u, <1>3, SendersRest DEF TurnInv

LEMMA RunKeeps ==
  ASSUME TurnInv, Cancel \/ RunSoul
  PROVE  /\ TurnInv' /\ UNCHANGED <<next, at, sending, raw, shown, answered, ui>>
         /\ run' # "run" /\ (result' = "ok" => result = "ok") /\ (rawOpen' => rawOpen)
<1>t. SendTypes /\ SendInv /\ RunInv
  BY DEF TurnInv
<1>u. UNCHANGED <<next, at, sending, raw, shown, answered, ui>>
  BY DEF Cancel, RunSoul, Flush, PublishFlushed, CloseRaw, CloseMerged, JoinRecorder, Return,
         sendVars, wire, uiVars, Publish
<1>1. /\ run' \in {"flush", "flushed", "close", "join", "ui", "returned"}
      /\ (run' = "flushed" => run = "flush") /\ (run' = "flush" => run = "run")
      /\ result' \in {"ok", "cancelled"} /\ (result' = "ok" => result = "ok")
      /\ rawOpen' \in BOOLEAN /\ (rawOpen' => rawOpen)
      /\ (run' \in {"flush", "flushed"} => rawOpen')
  <2>1. CASE Cancel
    BY <2>1, <1>t DEF Cancel, RunInv, wire
  <2>2. CASE Flush
    BY <2>2, <1>t DEF Flush, RunInv
  <2>3. CASE PublishFlushed
    BY <2>3, <1>t DEF PublishFlushed, RunInv
  <2>4. CASE CloseRaw
    BY <2>4, <1>t DEF CloseRaw, RunInv
  <2>5. CASE CloseMerged
    BY <2>5, <1>t DEF CloseMerged, RunInv
  <2>6. CASE JoinRecorder
    BY <2>6, <1>t DEF JoinRecorder, RunInv, wire
  <2>7. CASE Return
    BY <2>7, <1>t DEF Return, RunInv, wire
  <2> QED BY <2>1, <2>2, <2>3, <2>4, <2>5, <2>6, <2>7 DEF RunSoul
<1>2. RunInv'
  <2>1. result' = "ok" => (\A s \in Sources : Over(s))' /\ (\A w \in Senders : at[w] = "ready")'
    BY <1>1, <1>u, <1>t DEF RunInv, Over
  <2> QED BY <2>1, <1>1, <1>u, <1>t, SendersRest DEF RunInv
<1> QED BY <1>u, <1>1, <1>2, SendersRest DEF TurnInv

\* The recorder, the UI loop, the client, and a step that changes nothing.
Others == Recorder \/ UiLoop \/ Answer \/ UNCHANGED vars

LEMMA OthersKeep ==
  ASSUME TurnInv, Others
  PROVE  TurnInv' /\ UNCHANGED <<next, at, sending, RunVars>>
<1>u. UNCHANGED <<next, at, sending, RunVars>> /\ answered \subseteq answered'
  BY DEF Others, Recorder, RecorderTakes, RecorderAppends, RecorderEnds, UiLoop, UiShows, UiEnds, Answer,
         vars, sendVars, wire, uiVars, RunVars
<1>1. RunInv'
  BY <1>u, SendersRest DEF RunInv, RunVars, TurnInv, Over
<1> QED BY <1>u, <1>1, SendersRest DEF TurnInv

LEMMA TurnInit == Init => TurnInv
<1> SUFFICES ASSUME Init PROVE TurnInv
  OBVIOUS
<1>1. \A s \in Sources : next[s] = 1
  BY DEF Init
<1>2. \A w \in Senders : at[w] = "ready"
  BY DEF Init
<1>3. SendTypes
  <2>1. next \in [Sources -> Nat] /\ at \in [Senders -> InSend \cup {"ready", "storing"}]
    BY DEF Init
  <2>2. \A w \in Senders : sending[w] = IF w = "forward" THEN "parts" ELSE w
    BY DEF Init
  <2>3. sending \in [Senders -> Sources]
    BY DEF Init, Senders, Sources
  <2>4. \A w \in Senders : SenderOf(sending[w]) = w
    BY <2>2 DEF Senders, SenderOf
  <2> QED BY <2>1, <2>3, <2>4 DEF SendTypes
<1>4. SendInv
  BY <1>1, <1>2 DEF SendInv, InSend
<1>5. ~Passed("tools")
  BY <1>1 DEF Passed, Sources
<1>6. run = "run" /\ result = "none" /\ rawOpen = TRUE
  BY DEF Init
<1> QED BY <1>3, <1>4, <1>5, <1>6 DEF TurnInv, RunInv

-----------------------------------------------------------------------------
(* The client has seen all of a turn before it is told that the turn is over. *)

\* The kinds of steps that Next is made of.
LEMMA StepKinds ==
  ASSUME [Next]_vars
  PROVE  \/ \E w \in Senders : Send(w)
         \/ SoulGoes \/ SoulEnds \/ Cancel \/ RunSoul \/ Others
BY DEF Next, Soul, SoulGoes, Others, Senders

LEMMA TurnStep ==
  ASSUME TurnInv, [Next]_vars
  PROVE  TurnInv'
<1>1. CASE \E w \in Senders : Send(w)
  BY <1>1, SendSteps, BeginsKeeps, GoesOnKeeps, HasSentKeeps
<1>2. CASE SoulGoes
  BY <1>2, SoulGoesKeeps
<1>3. CASE SoulEnds
  BY <1>3, SoulEndsKeeps
<1>4. CASE Cancel \/ RunSoul
  BY <1>4, RunKeeps
<1>5. CASE Others
  BY <1>5, OthersKeep
<1> QED BY <1>1, <1>2, <1>3, <1>4, <1>5, StepKinds

\* A step that publishes nothing new leaves what is published as it is.
LEMMA PublishedSame ==
  ASSUME TurnInv, NEW w \in Senders, GoesOn(w) \/ HasSent(w) \/ SoulGoes
  PROVE  \A m \in Message : Published(m)' <=> Published(m)
<1>t. SendTypes /\ SendInv /\ RunInv
  BY DEF TurnInv
<1>m. \A m \in Message : m[1] \in Sources /\ m[2] \in Nat /\ m = <<m[1], m[2]>> /\ Kind(m) \in Kinds
  BY MessageIs
<1>1. CASE GoesOn(w)
  <2>1. PICK where \in InSend : at' = [at EXCEPT ![w] = where]
    BY <1>1 DEF GoesOn
  <2>2. next' = next /\ sending' = sending /\ at[w] \in InSend /\ at'[w] \in InSend
        /\ \A v \in Senders : v # w => at'[v] = at[v]
    BY <1>1, <2>1, <1>t DEF GoesOn, SendTypes
  <2>3. \A v \in Senders : at'[v] \in InSend <=> at[v] \in InSend
    BY <2>2
  <2> QED BY <2>2, <2>3 DEF Published, Msg
<1>2. CASE HasSent(w)
  <2>1. at[w] \in InSend /\ at'[w] = "ready" /\ sending' = sending
        /\ \A v \in Senders : v # w => at'[v] = at[v]
    BY <1>2, <1>t DEF HasSent, Sent, SendTypes
  <2> DEFINE s == sending[w]
  <2>2. s \in Sources /\ next'[s] = next[s] + 1 /\ next[s] \in Nat
        /\ \A q \in Sources : q # s => next'[q] = next[q]
    BY <1>2, <1>t DEF HasSent, Sent, SendTypes
  <2>3. \A v \in Senders : v # w => sending[v] # s
    BY <1>t DEF SendTypes
  <2>4. ASSUME NEW m \in Message PROVE Published(m)' <=> Published(m)
    <3>1. m[2] < next'[m[1]] <=> m[2] < next[m[1]] \/ m = Msg(w)
      BY <2>2, <1>m, <1>t DEF Msg, SendTypes
    <3>2. ASSUME NEW v \in Senders, v # w
          PROVE  (at'[v] \in InSend /\ m = Msg(v)') <=> (at[v] \in InSend /\ m = Msg(v))
      <4>1. sending[v] \in Sources
        BY <1>t DEF SendTypes
      <4> QED BY <4>1, <3>2, <2>1, <2>2, <2>3 DEF Msg
    <3>3. at'[w] \notin InSend
      BY <2>1 DEF InSend
    <3> QED BY <3>1, <3>2, <3>3, <2>1 DEF Published
  <2> QED BY <2>4
<1>3. CASE SoulGoes
  <2>1. /\ sending' = sending /\ next["soul"] \in Nat
        /\ next' = next \/ (next' = [next EXCEPT !["soul"] = next["soul"] + 1])
        /\ \A q \in Sources : q # "soul" => next'[q] = next[q]
    BY <1>3, <1>t DEF SoulGoes, Proceed, BeginStore, EndStore, GoOn, SendTypes, Sources
  <2>2. Script["soul"][next["soul"]] \in Steps
    <3>1. at["soul"] = "storing" => Kind(<<"soul", next["soul"]>>) = "store"
      BY <1>t DEF SendInv, Senders
    <3> QED BY <3>1, <1>3 DEF SoulGoes, Proceed, BeginStore, EndStore, Steps, Kind
  <2>3. at["soul"] \notin InSend /\ at'["soul"] \notin InSend
        /\ \A v \in Senders : v # "soul" => at'[v] = at[v]
    BY <1>3, <1>t DEF SoulGoes, Proceed, BeginStore, EndStore, SendTypes, InSend, Senders
  <2>4. ASSUME NEW m \in Message PROVE Published(m)' <=> Published(m)
    <3>1. m # <<"soul", next["soul"]>>
      <4>1. Steps \cap Kinds = {}
        BY DEF Steps, Kinds
      <4> QED BY <4>1, <2>2, <1>m DEF Kind
    <3>2. m[2] < next'[m[1]] <=> m[2] < next[m[1]]
      BY <3>1, <2>1, <1>m, <1>t DEF SendTypes, Sources
    <3>3. ASSUME NEW v \in Senders
          PROVE  (at'[v] \in InSend /\ m = Msg(v)') <=> (at[v] \in InSend /\ m = Msg(v))
      <4>1. CASE v = "soul"
        BY <4>1, <2>3
      <4>2. CASE v # "soul"
        <5>1. sending[v] \in Sources /\ sending[v] # "soul"
          BY <4>2, <1>t DEF SendTypes, SenderOf
        <5> QED BY <4>2, <5>1, <2>1, <2>3 DEF Msg
      <4> QED BY <4>1, <4>2
    <3> QED BY <3>2, <3>3 DEF Published
  <2> QED BY <2>4
<1> QED BY <1>1, <1>2, <1>3

LEMMA PublishedBegins ==
  ASSUME TurnInv, NEW s \in Sources, Begins(s)
  PROVE  /\ <<s, next[s]>> \in Message /\ ~Published(<<s, next[s]>>)
         /\ \A m \in Message : Published(m)' <=> Published(m) \/ m = <<s, next[s]>>
<1> DEFINE w == SenderOf(s)
<1>t. SendTypes /\ SendInv /\ RunInv
  BY DEF TurnInv
<1>w. w \in Senders
  BY DEF SenderOf, Senders, Sources
<1>1. next' = next /\ at[w] = "ready" /\ at'[w] = "merge" /\ sending'[w] = s
      /\ \A v \in Senders : v # w => at'[v] = at[v] /\ sending'[v] = sending[v]
  BY <1>t, <1>w DEF Begins, SendTypes
<1>2. <<s, next[s]>> \in Message
  BY <1>t, MessageIs, ScriptIs DEF Begins, HasMessage, Over, SendTypes, SendInv
<1>3. ~Published(<<s, next[s]>>)
  <2>1. \A v \in Senders : at[v] \in InSend => sending[v] # s
    BY <1>t, <1>1 DEF SendTypes, InSend
  <2>2. next[s] \in Nat
    BY <1>t DEF SendTypes
  <2> QED BY <2>1, <2>2 DEF Published, Msg
<1>4. ASSUME NEW m \in Message
      PROVE  Published(m)' <=> Published(m) \/ m = <<s, next[s]>>
  <2>1. Msg(w)' = <<s, next[s]>> /\ at'[w] \in InSend /\ at[w] \notin InSend
    BY <1>1 DEF Msg, InSend
  <2>2. \A v \in Senders : v # w => at'[v] = at[v] /\ Msg(v)' = Msg(v)
    BY <1>1 DEF Msg
  <2> HIDE DEF w
  <2> QED BY <1>1, <1>w, <2>1, <2>2 DEF Published
<1> QED BY <1>2, <1>3, <1>4

\* A step that changes neither what is published nor what is seen, and does not
\* open the queue again.
LEMMA SeenSame ==
  ASSUME SeenInv, Seen' = Seen, shown' \in Seq(Message), raw' \in Seq(Message),
         \A m \in Message : Published(m)' <=> Published(m),
         rawOpen' \/ result' = "ok" => rawOpen \/ result = "ok"
  PROVE  SeenInv'
<1>1. \A i \in 1 .. Len(Seen) : Seen[i] \in Message
  <2>1. Seen \in Seq(Message)
    BY DEF SeenInv, Seen
  <2> QED BY <2>1
<1>2. \A i \in 1 .. Len(Seen) : Published(Seen[i])'
  BY <1>1 DEF SeenInv
<1>3. \A i \in 1 .. Len(Seen') : Published(Seen[i])'
  BY <1>2
<1> QED BY <1>3 DEF SeenInv

LEMMA SeenSend ==
  ASSUME TurnInv, SeenInv, NEW w \in Senders, Send(w)
  PROVE  SeenInv'
<1>1. CASE \E s \in Sources : SenderOf(s) = w /\ PublishRaw(s)
  <2>1. PICK s \in Sources : SenderOf(s) = w /\ PublishRaw(s)
    BY <1>1
  <2> DEFINE new == <<s, next[s]>>
  <2>2. Begins(s) /\ UNCHANGED <<rawOpen, shown, result, run>>
        /\ raw' = IF rawOpen THEN Append(raw, new) ELSE raw
    BY <2>1 DEF PublishRaw, Begins, uiVars
  <2>3. new \in Message /\ ~Published(new)
        /\ \A m \in Message : Published(m)' <=> Published(m) \/ m = new
    BY <2>2, PublishedBegins
  <2>4. shown \in Seq(Message) /\ raw \in Seq(Message) /\ Seen \in Seq(Message)
    BY DEF SeenInv, Seen
  <2>5. result # "ok"
    BY <2>2 DEF TurnInv, RunInv, Begins, HasMessage
  <2>6. CASE rawOpen
    <3> HIDE DEF new
    <3>1. raw' \in Seq(Message) /\ shown' = shown /\ Seen' = Append(Seen, new)
      BY <2>6, <2>2, <2>3, <2>4 DEF Seen
    <3>2. Len(Seen') = Len(Seen) + 1 /\ Len(Seen) \in Nat /\ Seen'[Len(Seen) + 1] = new
          /\ \A i \in 1 .. Len(Seen) : Seen'[i] = Seen[i] /\ Seen[i] \in Message
      BY <3>1, <2>3, <2>4
    <3>3. \A i \in 1 .. Len(Seen) : Seen[i] # new
      BY <2>3 DEF SeenInv
    <3>4. \A i \in 1 .. Len(Seen') : Published(Seen[i])'
      <4>1. SUFFICES ASSUME NEW i \in 1 .. Len(Seen') PROVE Published(Seen[i])'
        OBVIOUS
      <4>2. CASE i = Len(Seen) + 1
        <5>1. (Seen[i])' = new
          BY <3>2, <4>2
        <5>2. ASSUME NEW x, x = new PROVE Published(x)'
          BY <5>2, <2>3
        <5> QED BY <5>1, <5>2, <2>3 DEF Published
      <4>3. CASE i # Len(Seen) + 1
        <5>1. i \in 1 .. Len(Seen) /\ (Seen[i])' = Seen[i] /\ Seen[i] \in Message
          BY <3>2, <4>3
        <5>2. Published(Seen[i])
          BY <5>1 DEF SeenInv
        <5>3. \A m \in Message : Published(m) => Published(m)'
          BY <2>3
        <5> QED BY <5>1, <5>2, <5>3 DEF Published
      <4> QED BY <4>2, <4>3
    <3>5. \A i, j \in 1 .. Len(Seen') : (Seen')[i] = (Seen')[j] => i = j
      <4>1. \A i, j \in 1 .. Len(Seen) : Seen[i] = Seen[j] => i = j
        BY DEF SeenInv
      <4> QED BY <4>1, <3>2, <3>3
    <3>6. \A m \in Message : Published(m)' => \E i \in 1 .. Len(Seen') : (Seen')[i] = m
      <4>1. \A m \in Message : Published(m) => \E i \in 1 .. Len(Seen) : Seen[i] = m
        BY <2>6 DEF SeenInv
      <4>2. \A i \in 1 .. Len(Seen) : i \in 1 .. Len(Seen') /\ (Seen')[i] = Seen[i]
        BY <3>2
      <4>3. Len(Seen) + 1 \in 1 .. Len(Seen') /\ (Seen')[Len(Seen) + 1] = new
        BY <3>2
      <4> QED BY <4>1, <4>2, <4>3, <2>3
    <3> QED BY <3>1, <3>4, <3>5, <3>6, <2>4 DEF SeenInv
  <2>7. CASE ~rawOpen
    <3>1. Seen' = Seen /\ shown' = shown /\ raw' = raw
      BY <2>7, <2>2 DEF Seen
    <3>3. \A i \in 1 .. Len(Seen') : Published(Seen[i])'
      <4>1. \A i \in 1 .. Len(Seen) : Seen[i] \in Message /\ Published(Seen[i])
        BY <2>4 DEF SeenInv
      <4> QED BY <4>1, <2>3, <3>1
    <3> QED BY <3>1, <3>3, <2>7, <2>2, <2>5 DEF SeenInv
  <2> QED BY <2>6, <2>7
<1>2. CASE ~\E s \in Sources : SenderOf(s) = w /\ PublishRaw(s)
  <2>1. GoesOn(w) \/ HasSent(w)
    BY <1>2, SendSteps
  <2>2. UNCHANGED <<rawOpen, result>>
    BY SendSteps DEF RunVars
  <2>3. UNCHANGED <<raw, shown>>
    BY <1>2 DEF Send, Join, Take, PublishTaken, Finish, uiVars
  <2>4. \A m \in Message : Published(m)' <=> Published(m)
    BY <2>1, PublishedSame
  <2>5. shown' \in Seq(Message) /\ raw' \in Seq(Message) /\ Seen' = Seen
    BY <2>3 DEF SeenInv, Seen
  <2> QED BY <2>2, <2>4, <2>5, SeenSame
<1> QED BY <1>1, <1>2

LEMMA SeenStep ==
  ASSUME TurnInv, SeenInv, [Next]_vars
  PROVE  SeenInv'
<1>1. CASE \E w \in Senders : Send(w)
  BY <1>1, SeenSend
<1>t. shown \in Seq(Message) /\ raw \in Seq(Message)
  BY DEF SeenInv
<1>2. CASE SoulGoes
  <2>1. UNCHANGED <<raw, shown, rawOpen, result>>
    BY <1>2 DEF SoulGoes, Proceed, BeginStore, EndStore, uiVars, wire
  <2>2. \A m \in Message : Published(m)' <=> Published(m)
    BY <1>2, PublishedSame DEF Senders
  <2>3. Seen' = Seen
    BY <2>1 DEF Seen
  <2> QED BY <1>t, <2>1, <2>2, <2>3, SeenSame
<1>3. CASE SoulEnds
  <2>1. UNCHANGED <<next, at, sending, raw, shown>> /\ rawOpen
    BY <1>3 DEF SoulEnds, sendVars, wire, uiVars, TurnInv, RunInv
  <2>2. Seen' = Seen /\ \A m \in Message : Published(m)' <=> Published(m)
    BY <2>1 DEF Seen, Published, Msg
  <2> QED BY <1>t, <2>1, <2>2, SeenSame
<1>4. CASE Cancel \/ RunSoul
  <2>1. /\ UNCHANGED <<next, at, sending, raw, shown>>
        /\ (result' = "ok" => result = "ok") /\ (rawOpen' => rawOpen)
    BY <1>4, RunKeeps
  <2>2. Seen' = Seen /\ \A m \in Message : Published(m)' <=> Published(m)
    BY <2>1 DEF Seen, Published, Msg
  <2> QED BY <1>t, <2>1, <2>2, SeenSame
<1>5. CASE Others
  <2>1. UNCHANGED <<next, at, sending, rawOpen, result>>
    BY <1>5, OthersKeep DEF RunVars
  <2>2. \A m \in Message : Published(m)' <=> Published(m)
    BY <2>1 DEF Published, Msg
  <2>3. CASE UiShows
    <3>1. raw # <<>> /\ shown' = Append(shown, Head(raw)) /\ raw' = Tail(raw)
      BY <2>3 DEF UiShows
    <3>2. Head(raw) \in Message /\ shown' \in Seq(Message) /\ raw' \in Seq(Message)
      BY <3>1, <1>t
    <3>3. Seen' = Seen
      BY <3>1, <3>2, <1>t DEF Seen
    <3> QED BY <2>1, <2>2, <3>2, <3>3, SeenSame
  <2>4. CASE ~UiShows
    <3>1. UNCHANGED <<raw, shown>>
      BY <1>5, <2>4 DEF Others, Recorder, RecorderTakes, RecorderAppends, RecorderEnds, UiLoop, UiEnds,
         Answer, vars, wire, uiVars
    <3>2. Seen' = Seen
      BY <3>1 DEF Seen
    <3> QED BY <1>t, <2>1, <2>2, <3>1, <3>2, SeenSame
  <2> QED BY <2>3, <2>4
<1> QED BY <1>1, <1>2, <1>3, <1>4, <1>5, StepKinds

LEMMA AskStep ==
  ASSUME TurnInv, SeenInv, AskInv, [Next]_vars
  PROVE  AskInv'
<1>t. shown \in Seq(Message) /\ raw \in Seq(Message)
  BY DEF SeenInv
<1>r. result = "ok" => run # "run"
  BY DEF TurnInv, RunInv
<1>1. CASE UNCHANGED <<answered, shown, ui, raw>> /\ (rawOpen' => rawOpen)
           /\ (run' = "returned" /\ result' = "ok" => run = "returned" /\ result = "ok")
  BY <1>1 DEF AskInv
<1>2. CASE \E w \in Senders : Send(w)
  <2>1. UNCHANGED <<answered, shown, ui, rawOpen, run, result>>
    BY <1>2, SendSteps DEF Send, PublishRaw, Join, Take, PublishTaken, Finish, uiVars
  <2>2. CASE UNCHANGED raw
    BY <1>1, <2>1, <2>2
  <2>3. CASE ~UNCHANGED raw
    <3>1. rawOpen
      BY <1>2, <2>3 DEF Send, PublishRaw, Join, Take, PublishTaken, Finish
    <3> QED BY <3>1, <2>1 DEF AskInv
  <2> QED BY <2>2, <2>3
<1>3. CASE SoulGoes
  <2>1. UNCHANGED <<answered, shown, ui, raw, rawOpen, run, result>>
    BY <1>3 DEF SoulGoes, Proceed, BeginStore, EndStore, uiVars, wire
  <2> QED BY <2>1, <1>1
<1>4. CASE SoulEnds
  <2>1. UNCHANGED <<answered, shown, ui, raw, rawOpen>> /\ run' = "flush"
    BY <1>4 DEF SoulEnds, wire, uiVars
  <2> QED BY <2>1, <1>1
<1>5. CASE Cancel \/ RunSoul
  <2>1. UNCHANGED <<answered, shown, ui, raw>> /\ (rawOpen' => rawOpen) /\ (result' = "ok" => result = "ok")
    BY <1>5, RunKeeps
  <2>2. CASE run' # "returned"
    BY <2>1, <2>2, <1>1
  <2>3. CASE run' = "returned" /\ result' # "ok"
    BY <2>1, <2>3, <1>1
  <2>4. CASE run' = "returned" /\ result' = "ok"
    <3>1. Return /\ result = "ok" /\ ui \in {"done", "asking"}
      BY <1>5, <2>4 DEF Cancel, RunSoul, Flush, PublishFlushed, CloseRaw, CloseMerged, JoinRecorder, Return
    <3>2. ui # "asking"
      <4>1. SUFFICES ASSUME ui = "asking" PROVE FALSE
        OBVIOUS
      <4> DEFINE m == shown[Len(shown)]
      <4>2. shown # <<>> /\ Kind(m) = "request" /\ m \notin answered
        BY <4>1 DEF AskInv
      <4>3. m \in Message /\ Len(shown) \in 1 .. Len(Seen) /\ Seen[Len(shown)] = m
        BY <4>2, <1>t DEF Seen
      <4>4. Published(m)
        BY <4>3 DEF SeenInv
      <4> HIDE DEF m
      <4>5. m[1] \in Sources /\ m[2] \in Nat /\ m[2] >= 1 /\ m[2] <= Len(Script[m[1]]) /\ m = <<m[1], m[2]>>
        BY <4>3, MessageIs
      <4>6. m[1] = "tool"
        <5>1. m[2] \in DOMAIN Script[m[1]]
          BY <4>5, ScriptIs
        <5> QED BY <5>1, <4>2, <4>5, TurnScripts DEF Kind
      <4>7. (\A s \in Sources : Over(s)) /\ (\A w \in Senders : at[w] = "ready")
        BY <3>1 DEF TurnInv, RunInv
      <4>8. m[2] < next["tool"]
        BY <4>4, <4>6, <4>7 DEF Published, InSend
      <4>9. Passed("tools")
        <5>1. Script["tool"] # <<>>
          BY <4>5, <4>6
        <5>2. PICK n \in DOMAIN Script["soul"] : Script["soul"][n] = "tools"
          BY <5>1, TurnScripts
        <5>3. next["soul"] \in Nat /\ Over("soul")
          BY <4>7 DEF TurnInv, SendTypes, Sources
        <5>4. n \in 1 .. next["soul"] - 1
          BY <5>2, <5>3, ScriptIs DEF Over, Sources
        <5> QED BY <5>2, <5>4 DEF Passed
      <4>10. Settled
        BY <4>9 DEF TurnInv, RunInv, ToolsDone
      <4>11. m[2] \in 1 .. next["tool"] - 1
        BY <4>5, <4>8 DEF TurnInv, SendTypes, Sources
      <4>12. <<"tool", m[2]>> \in answered
        BY <4>2, <4>6, <4>10, <4>11 DEF Settled, Kind
      <4> QED BY <4>2, <4>5, <4>6, <4>12
    <3>3. ui = "done"
      BY <3>1, <3>2
    <3> QED BY <2>1, <3>3 DEF AskInv
  <2> QED BY <2>2, <2>3, <2>4
<1>6. CASE Others
  <2>0. UNCHANGED RunVars
    BY <1>6, OthersKeep
  <2>1. CASE UiShows
    <3>1. /\ ui = "read" /\ raw # <<>> /\ shown' = Append(shown, Head(raw)) /\ raw' = Tail(raw)
          /\ ui' = (IF Kind(Head(raw)) = "request" THEN "asking" ELSE "read") /\ answered' = answered
      BY <2>1 DEF UiShows
    <3>2. Head(raw) \in Message /\ Len(shown) \in Nat /\ Len(raw) \in Nat /\ Head(raw) = raw[1]
      BY <3>1, <1>t
    <3>3. /\ Len(shown') = Len(shown) + 1 /\ shown'[Len(shown) + 1] = Head(raw) /\ shown' # <<>>
          /\ \A i \in 1 .. Len(shown) : shown'[i] = shown[i]
      BY <3>1, <3>2, <1>t
    <3>4. \A i \in 1 .. Len(shown) : shown[i] # Head(raw)
      <4>1. SUFFICES ASSUME NEW i \in 1 .. Len(shown), shown[i] = Head(raw) PROVE FALSE
        OBVIOUS
      <4>2. i \in 1 .. Len(Seen) /\ Len(shown) + 1 \in 1 .. Len(Seen)
            /\ Seen[i] = shown[i] /\ Seen[Len(shown) + 1] = raw[1]
        BY <1>t, <3>1, <3>2 DEF Seen
      <4>3. i = Len(shown) + 1
        BY <4>1, <4>2, <3>2 DEF SeenInv
      <4> QED BY <4>3, <3>2
    <3>5. Head(raw) \notin answered
      BY <3>4 DEF AskInv
    <3>6. \A m \in answered' : \E i \in 1 .. Len(shown') : shown'[i] = m
      <4>1. \A m \in answered : \E i \in 1 .. Len(shown) : shown[i] = m
        BY DEF AskInv
      <4>2. \A i \in 1 .. Len(shown) : i \in 1 .. Len(shown') /\ shown'[i] = shown[i]
        BY <3>2, <3>3
      <4> QED BY <4>1, <4>2, <3>1
    <3>7. ui' = "asking" => /\ shown' # <<>> /\ Kind(shown'[Len(shown')]) = "request"
                            /\ shown'[Len(shown')] \notin answered'
      BY <3>1, <3>3, <3>5
    <3>8. run = "returned" /\ result = "ok" => FALSE
      BY <3>1 DEF AskInv
    <3>9. ui' # "done"
      BY <3>1
    <3>10. \A m \in answered' : (\E i \in 1 .. Len(shown) : shown[i] = m)'
      BY <3>6
    <3> QED BY <3>7, <3>8, <3>9, <3>10, <2>0 DEF AskInv, RunVars, Kind
  <2>2. CASE UiEnds
    <3>1. raw = <<>> /\ ~rawOpen /\ ui' = "done" /\ UNCHANGED <<shown, answered, raw>>
      BY <2>2 DEF UiEnds, wire
    <3> QED BY <3>1, <2>0 DEF AskInv, RunVars
  <2>3. CASE Answer
    <3>1. ui = "asking" /\ ui' = "read" /\ answered' = answered \cup {shown[Len(shown)]}
          /\ UNCHANGED <<shown, raw>>
      BY <2>3 DEF Answer, wire
    <3>2. Len(shown) \in 1 .. Len(shown)
      BY <3>1, <1>t DEF AskInv
    <3>3. \A m \in answered' : \E i \in 1 .. Len(shown) : shown[i] = m
      BY <3>1, <3>2 DEF AskInv
    <3>4. run = "returned" /\ result = "ok" => FALSE
      BY <3>1 DEF AskInv
    <3> QED BY <3>1, <3>3, <3>4, <2>0 DEF AskInv, RunVars
  <2>4. CASE Recorder \/ UNCHANGED vars
    <3>1. UNCHANGED <<answered, shown, ui, raw>>
      BY <2>4 DEF Recorder, RecorderTakes, RecorderAppends, RecorderEnds, vars, wire, uiVars
    <3> QED BY <3>1, <2>0, <1>1 DEF RunVars
  <2> QED BY <1>6, <2>1, <2>2, <2>3, <2>4 DEF Others, UiLoop
<1> QED BY <1>2, <1>3, <1>4, <1>5, <1>6, StepKinds

LEMMA SeenInit == Init => SeenInv /\ AskInv
<1> SUFFICES ASSUME Init PROVE SeenInv /\ AskInv
  OBVIOUS
<1>1. shown = <<>> /\ raw = <<>> /\ rawOpen = TRUE /\ answered = {} /\ ui = "read" /\ run = "run"
  BY DEF Init
<1>2. Seen = <<>> /\ Len(Seen) = 0
  BY <1>1 DEF Seen
<1>3. ASSUME NEW m \in Message PROVE ~Published(m)
  <2>1. \A s \in Sources : next[s] = 1
    BY DEF Init
  <2>2. \A w \in Senders : at[w] \notin InSend
    BY DEF Init, InSend
  <2> QED BY <2>1, <2>2, MessageIs DEF Published
<1>4. SeenInv
  BY <1>1, <1>2, <1>3 DEF SeenInv
<1> QED BY <1>1, <1>4 DEF AskInv

\* The client has seen every message of a turn that ran to its end before it
\* reads that the turn is over, although the UI loop is waited for half a second
\* only. (soul/mod.rs:138-154)
THEOREM SeenBeforeEnd == Spec => []EventsBeforeResponse
<1> DEFINE Inv == TurnInv /\ SeenInv /\ AskInv
<1>1. Init => Inv
  BY TurnInit, SeenInit
<1>2. Inv /\ [Next]_vars => Inv'
  BY TurnStep, SeenStep, AskStep
<1>3. Inv => EventsBeforeResponse
  <2> SUFFICES ASSUME Inv, run = "returned", result = "ok", NEW m \in Message, m[2] < next[m[1]]
               PROVE  \E i \in 1 .. Len(shown) : shown[i] = m
    BY DEF EventsBeforeResponse
  <2>1. raw = <<>> /\ shown \in Seq(Message)
    BY DEF AskInv, SeenInv
  <2>2. Seen = shown
    BY <2>1 DEF Seen
  <2>3. Published(m)
    BY DEF Published
  <2> QED BY <2>2, <2>3 DEF SeenInv
<1> HIDE DEF Inv
<1> QED BY <1>1, <1>2, <1>3, PTL DEF Spec

-----------------------------------------------------------------------------
(* The record.                                                                *)

Buffered == {"text", "think", "call", "part"}

\* The places on the way to the record: three sequences of chunks, and chunks.
Rows   == {"stored", "failed", "merged"}
Stages == Rows \cup {"taken", "soul", "forward", "tool", "run", "buffer"}

Held(l) ==
  CASE l = "stored" -> stored [] l = "failed" -> failed [] l = "merged" -> merged
    [] l = "taken" -> taken [] l = "buffer" -> buffer [] OTHER -> hand[l]

Has(c, m) == \E k \in 1 .. Len(c) : c[k] = m
HasRow(r, m) == \E i \in 1 .. Len(r) : Has(r[i], m)
In(l, m) == IF l \in Rows THEN HasRow(Held(l), m) ELSE Has(Held(l), m)

\* No message is twice in a chunk, or in a sequence of them.
Neat(c) == \A k, n \in 1 .. Len(c) : c[k] = c[n] => k = n
NeatRow(r) ==
  /\ \A i \in 1 .. Len(r) : Neat(r[i])
  /\ \A m \in Message : \A i, j \in 1 .. Len(r) : Has(r[i], m) /\ Has(r[j], m) => i = j
NeatIn(l) == IF l \in Rows THEN NeatRow(Held(l)) ELSE Neat(Held(l))

\* What has been put on its way: what was sent, and a call that took the place
\* of the chunk its sender still has to publish.
Gone(m) ==
  \/ m[2] < next[m[1]]
  \/ \E w \in Senders : at[w] = "publish" /\ Kind(Msg(w)) = "call" /\ m = Msg(w)

RecTypes ==
  /\ hand \in [Senders \cup {"run"} -> Seq(Message)]
  /\ buffer \in Seq(Message) /\ taken \in Seq(Message)
  /\ stored \in Seq(Seq(Message)) /\ failed \in Seq(Seq(Message)) /\ merged \in Seq(Seq(Message))

\* Each message that is on its way is in one place, once.
PlaceInv ==
  /\ \A m \in Message : \A l, k \in Stages : In(l, m) /\ In(k, m) => l = k
  /\ \A l \in Stages : NeatIn(l)
  /\ \A m \in Message : \A l \in Stages : In(l, m) => Gone(m)
  /\ mergedOpen => \A m \in Message : Gone(m) => \E l \in Stages : In(l, m)

\* The hands are empty but for a moment, and the buffer is when a part is put in.
HandInv ==
  /\ \A w \in Senders : at[w] # "publish" => hand[w] = <<>>
  /\ run # "flushed" => hand["run"] = <<>>
  /\ recorder # "append" => taken = <<>>
  /\ \A w \in Senders : at[w] \in {"publish", "last"} /\ IsPart(Kind(Msg(w))) => buffer = <<>>
  /\ \A m \in Message : \A l \in {"soul", "forward", "tool", "run", "buffer"} : In(l, m) => Kind(m) \in Buffered

\* What has to be in the record when the turn is over, and where it may still be.
Due(m) == m[2] < next[m[1]] /\ (result = "ok" \/ m[1] = "soul")

Way == Rows \cup {"taken"} \cup (IF run = "flush" THEN {"buffer"} ELSE {})
                           \cup (IF run = "flushed" THEN {"run"} ELSE {})

CloseInv ==
  /\ mergedOpen \in BOOLEAN
  /\ mergedOpen <=> run \notin {"join", "ui", "returned"}
  /\ run # "run" => \A m \in Message : Due(m) => \E l \in Way : In(l, m)
  /\ result = "cancelled" => at["soul"] \in {"ready", "storing"}
  /\ recorder \in {"get", "append", "done"}
  /\ recorder = "done" => merged = <<>> /\ ~mergedOpen
  /\ run \in {"ui", "returned"} => recorder = "done"

RecordInv == RecTypes /\ PlaceInv /\ HandInv /\ CloseInv

-----------------------------------------------------------------------------
(* Facts about chunks and sequences of chunks.                                *)

LEMMA EmptyChunk == Neat(<<>>) /\ NeatRow(<<>>) /\ \A m : ~Has(<<>>, m) /\ ~HasRow(<<>>, m)
BY DEF Neat, NeatRow, Has, HasRow

LEMMA OneChunk ==
  ASSUME NEW x
  PROVE  Neat(<<x>>) /\ \A m : Has(<<x>>, m) <=> m = x
BY DEF Neat, Has

LEMMA LongerChunk ==
  ASSUME NEW c \in Seq(Message), NEW x \in Message
  PROVE  /\ Append(c, x) \in Seq(Message)
         /\ \A m \in Message : Has(Append(c, x), m) <=> Has(c, m) \/ m = x
         /\ Neat(c) /\ ~Has(c, x) => Neat(Append(c, x))
<1> DEFINE d == Append(c, x)
<1>1. d \in Seq(Message) /\ Len(d) = Len(c) + 1 /\ d[Len(c) + 1] = x /\ Len(c) \in Nat
      /\ \A i \in 1 .. Len(c) : d[i] = c[i]
  OBVIOUS
<1> HIDE DEF d
<1>2. \A i \in 1 .. Len(d) : i \in 1 .. Len(c) \/ i = Len(c) + 1
  BY <1>1
<1>3. \A i \in 1 .. Len(c) : i \in 1 .. Len(d)
  BY <1>1
<1>4. Len(c) + 1 \in 1 .. Len(d)
  BY <1>1
<1>5. \A m \in Message : Has(d, m) <=> Has(c, m) \/ m = x
  BY <1>1, <1>2, <1>3, <1>4 DEF Has
<1>6. Neat(c) /\ ~Has(c, x) => Neat(d)
  BY <1>1, <1>2 DEF Neat, Has
<1> QED BY <1>1, <1>5, <1>6 DEF d

LEMMA LongerRow ==
  ASSUME NEW r \in Seq(Seq(Message)), NEW c \in Seq(Message)
  PROVE  /\ Append(r, c) \in Seq(Seq(Message))
         /\ \A m \in Message : HasRow(Append(r, c), m) <=> HasRow(r, m) \/ Has(c, m)
         /\ NeatRow(r) /\ Neat(c) /\ (\A m \in Message : ~(HasRow(r, m) /\ Has(c, m)))
              => NeatRow(Append(r, c))
<1> DEFINE d == Append(r, c)
<1>1. d \in Seq(Seq(Message)) /\ Len(d) = Len(r) + 1 /\ d[Len(r) + 1] = c /\ Len(r) \in Nat
      /\ \A i \in 1 .. Len(r) : d[i] = r[i]
  OBVIOUS
<1> HIDE DEF d
<1>2. \A i \in 1 .. Len(d) : i \in 1 .. Len(r) \/ i = Len(r) + 1
  BY <1>1
<1>3. \A i \in 1 .. Len(r) : i \in 1 .. Len(d)
  BY <1>1
<1>4. Len(r) + 1 \in 1 .. Len(d)
  BY <1>1
<1>5. \A m \in Message : HasRow(d, m) <=> HasRow(r, m) \/ Has(c, m)
  <2> SUFFICES ASSUME NEW m \in Message PROVE HasRow(d, m) <=> HasRow(r, m) \/ Has(c, m)
    OBVIOUS
  <2>1. \A i \in 1 .. Len(r) : Has(d[i], m) <=> Has(r[i], m)
    BY <1>1
  <2>2. Has(d[Len(r) + 1], m) <=> Has(c, m)
    BY <1>1
  <2> QED BY <2>1, <2>2, <1>2, <1>3, <1>4 DEF HasRow
<1>6. ASSUME NeatRow(r), Neat(c), \A m \in Message : ~(HasRow(r, m) /\ Has(c, m))
      PROVE  NeatRow(d)
  <2>1. \A i \in 1 .. Len(d) : Neat(d[i])
    BY <1>6, <1>1, <1>2 DEF NeatRow
  <2>2. ASSUME NEW m \in Message, NEW i \in 1 .. Len(d), NEW j \in 1 .. Len(d), Has(d[i], m), Has(d[j], m)
        PROVE  i = j
    <3>1. \A k \in 1 .. Len(r) : Has(d[k], m) => HasRow(r, m)
      BY <1>1 DEF HasRow
    <3>2. CASE i \in 1 .. Len(r) /\ j \in 1 .. Len(r)
      BY <3>2, <2>2, <1>6, <1>1 DEF NeatRow
    <3>3. CASE ~(i \in 1 .. Len(r) /\ j \in 1 .. Len(r))
      BY <3>1, <3>3, <2>2, <1>6, <1>1, <1>2
    <3> QED BY <3>2, <3>3
  <2> QED BY <2>1, <2>2 DEF NeatRow
<1> QED BY <1>1, <1>5, <1>6 DEF d

LEMMA ShorterRow ==
  ASSUME NEW r \in Seq(Seq(Message)), r # <<>>, NeatRow(r)
  PROVE  /\ Head(r) \in Seq(Message) /\ Tail(r) \in Seq(Seq(Message))
         /\ Neat(Head(r)) /\ NeatRow(Tail(r))
         /\ \A m \in Message : /\ HasRow(r, m) <=> HasRow(Tail(r), m) \/ Has(Head(r), m)
                               /\ ~(HasRow(Tail(r), m) /\ Has(Head(r), m))
<1> DEFINE d == Tail(r)
<1>1. /\ d \in Seq(Seq(Message)) /\ Len(d) = Len(r) - 1 /\ Len(r) \in Nat /\ Len(r) >= 1
      /\ Head(r) = r[1] /\ r[1] \in Seq(Message) /\ \A i \in 1 .. Len(d) : d[i] = r[i + 1]
  OBVIOUS
<1> HIDE DEF d
<1>2. \A i \in 1 .. Len(d) : i + 1 \in 1 .. Len(r)
  BY <1>1
<1>3. \A i \in 1 .. Len(r) : i = 1 \/ (i - 1 \in 1 .. Len(d) /\ (i - 1) + 1 = i)
  BY <1>1
<1>4. 1 \in 1 .. Len(r)
  BY <1>1
<1>5. Neat(r[1]) /\ \A i \in 1 .. Len(d) : Neat(d[i])
  BY <1>1, <1>2, <1>4 DEF NeatRow
<1>6. ASSUME NEW m \in Message
      PROVE  /\ HasRow(r, m) <=> HasRow(d, m) \/ Has(r[1], m)
             /\ ~(HasRow(d, m) /\ Has(r[1], m))
             /\ \A i, j \in 1 .. Len(d) : Has(d[i], m) /\ Has(d[j], m) => i = j
  <2>1. \A i \in 1 .. Len(d) : Has(d[i], m) <=> Has(r[i + 1], m)
    BY <1>1
  <2>2. HasRow(r, m) => HasRow(d, m) \/ Has(r[1], m)
    <3>1. SUFFICES ASSUME NEW i \in 1 .. Len(r), Has(r[i], m), i # 1 PROVE HasRow(d, m)
      BY DEF HasRow
    <3>2. i - 1 \in 1 .. Len(d) /\ d[i - 1] = r[i]
      BY <3>1, <1>1, <1>3
    <3> QED BY <3>1, <3>2 DEF HasRow
  <2>3. HasRow(d, m) \/ Has(r[1], m) => HasRow(r, m)
    BY <2>1, <1>2, <1>4 DEF HasRow
  <2>4. \A i, j \in 1 .. Len(r) : Has(r[i], m) /\ Has(r[j], m) => i = j
    BY DEF NeatRow
  <2>5. ~(HasRow(d, m) /\ Has(r[1], m))
    <3>1. SUFFICES ASSUME NEW i \in 1 .. Len(d), Has(d[i], m), Has(r[1], m) PROVE FALSE
      BY DEF HasRow
    <3>2. i + 1 = 1
      BY <3>1, <2>1, <2>4, <1>2, <1>4
    <3> QED BY <3>2
  <2>6. ASSUME NEW i \in 1 .. Len(d), NEW j \in 1 .. Len(d), Has(d[i], m), Has(d[j], m)
        PROVE  i = j
    <3>1. i + 1 = j + 1
      BY <2>6, <2>1, <2>4, <1>2
    <3> QED BY <3>1
  <2> QED BY <2>2, <2>3, <2>5, <2>6
<1> QED BY <1>1, <1>5, <1>6 DEF d, NeatRow

\* Two sequences of chunks that share no message, one after the other.
LEMMA JoinedRows ==
  ASSUME NEW a \in Seq(Seq(Message)), NEW b \in Seq(Seq(Message)), NeatRow(a), NeatRow(b),
         \A m \in Message : ~(HasRow(a, m) /\ HasRow(b, m))
  PROVE  /\ a \o b \in Seq(Seq(Message)) /\ NeatRow(a \o b)
         /\ \A m \in Message : HasRow(a \o b, m) <=> HasRow(a, m) \/ HasRow(b, m)
<1> DEFINE d == a \o b
<1>1. /\ d \in Seq(Seq(Message)) /\ Len(d) = Len(a) + Len(b) /\ Len(a) \in Nat /\ Len(b) \in Nat
      /\ \A i \in 1 .. Len(a) : d[i] = a[i]
      /\ \A i \in 1 .. Len(b) : d[Len(a) + i] = b[i]
  OBVIOUS
<1> HIDE DEF d
<1>2. \A i \in 1 .. Len(d) : i \in 1 .. Len(a) \/ (i - Len(a) \in 1 .. Len(b) /\ d[i] = b[i - Len(a)])
  <2>1. SUFFICES ASSUME NEW i \in 1 .. Len(d), i \notin 1 .. Len(a)
                 PROVE  i - Len(a) \in 1 .. Len(b) /\ d[i] = b[i - Len(a)]
    OBVIOUS
  <2>2. i - Len(a) \in 1 .. Len(b) /\ Len(a) + (i - Len(a)) = i
    BY <2>1, <1>1
  <2> QED BY <2>2, <1>1
<1>3. \A i \in 1 .. Len(a) : i \in 1 .. Len(d)
  BY <1>1
<1>4. \A i \in 1 .. Len(b) : Len(a) + i \in 1 .. Len(d)
  BY <1>1
<1>5. \A i \in 1 .. Len(d) : Neat(d[i])
  BY <1>1, <1>2 DEF NeatRow
<1>6. ASSUME NEW m \in Message
      PROVE  /\ HasRow(d, m) <=> HasRow(a, m) \/ HasRow(b, m)
             /\ \A i, j \in 1 .. Len(d) : Has(d[i], m) /\ Has(d[j], m) => i = j
  <2>1. \A i \in 1 .. Len(d) : Has(d[i], m) =>
          \/ i \in 1 .. Len(a) /\ Has(a[i], m)
          \/ i - Len(a) \in 1 .. Len(b) /\ Has(b[i - Len(a)], m)
    BY <1>1, <1>2
  <2>2. HasRow(d, m) => HasRow(a, m) \/ HasRow(b, m)
    BY <2>1 DEF HasRow
  <2>3. HasRow(a, m) => HasRow(d, m)
    BY <1>1, <1>3 DEF HasRow
  <2>4. HasRow(b, m) => HasRow(d, m)
    BY <1>1, <1>4 DEF HasRow
  <2>5. ASSUME NEW i \in 1 .. Len(d), NEW j \in 1 .. Len(d), Has(d[i], m), Has(d[j], m)
        PROVE  i = j
    <3>1. \A k, n \in 1 .. Len(a) : Has(a[k], m) /\ Has(a[n], m) => k = n
      BY DEF NeatRow
    <3>2. \A k, n \in 1 .. Len(b) : Has(b[k], m) /\ Has(b[n], m) => k = n
      BY DEF NeatRow
    <3>3. CASE i \in 1 .. Len(a) /\ Has(a[i], m) /\ j \in 1 .. Len(a) /\ Has(a[j], m)
      BY <3>1, <3>3
    <3>4. CASE /\ i - Len(a) \in 1 .. Len(b) /\ Has(b[i - Len(a)], m)
               /\ j - Len(a) \in 1 .. Len(b) /\ Has(b[j - Len(a)], m)
      <4>1. i - Len(a) = j - Len(a)
        BY <3>2, <3>4
      <4> QED BY <4>1, <1>1
    <3>5. ~(HasRow(a, m) /\ HasRow(b, m))
      OBVIOUS
    <3> QED BY <3>3, <3>4, <3>5, <2>1, <2>5 DEF HasRow
  <2> QED BY <2>2, <2>3, <2>4, <2>5
<1> QED BY <1>1, <1>5, <1>6 DEF d, NeatRow

-----------------------------------------------------------------------------
(* How a message goes from place to place.                                    *)

Hands == {"soul", "forward", "tool", "run"}

LEMMA InIs ==
  \A m :
    /\ (In("stored", m) <=> HasRow(stored, m)) /\ (In("stored", m)' <=> HasRow(stored', m))
    /\ (In("failed", m) <=> HasRow(failed, m)) /\ (In("failed", m)' <=> HasRow(failed', m))
    /\ (In("merged", m) <=> HasRow(merged, m)) /\ (In("merged", m)' <=> HasRow(merged', m))
    /\ (In("taken", m) <=> Has(taken, m)) /\ (In("taken", m)' <=> Has(taken', m))
    /\ (In("buffer", m) <=> Has(buffer, m)) /\ (In("buffer", m)' <=> Has(buffer', m))
    /\ \A k \in Hands : In(k, m) <=> Has(hand[k], m)
    /\ \A k \in Hands : In(k, m)' <=> Has(hand'[k], m)
BY DEF In, Held, Rows, Hands

LEMMA NeatIs ==
  /\ (NeatIn("stored") <=> NeatRow(stored)) /\ (NeatIn("stored")' <=> NeatRow(stored'))
  /\ (NeatIn("failed") <=> NeatRow(failed)) /\ (NeatIn("failed")' <=> NeatRow(failed'))
  /\ (NeatIn("merged") <=> NeatRow(merged)) /\ (NeatIn("merged")' <=> NeatRow(merged'))
  /\ (NeatIn("taken") <=> Neat(taken)) /\ (NeatIn("taken")' <=> Neat(taken'))
  /\ (NeatIn("buffer") <=> Neat(buffer)) /\ (NeatIn("buffer")' <=> Neat(buffer'))
  /\ \A k \in Hands : NeatIn(k) <=> Neat(hand[k])
  /\ \A k \in Hands : NeatIn(k)' <=> Neat(hand'[k])
BY DEF NeatIn, NeatRow, Held, Rows, Hands

LEMMA StagesAre == Stages = {"stored", "failed", "merged", "taken", "buffer"} \cup Hands
BY DEF Stages, Rows, Hands

\* A message stays where it is, goes to one place, or is nowhere any more.
Stays(m) == \A l \in Stages : In(l, m)' <=> In(l, m)
Lands(m, l) == \A k \in Stages : In(k, m)' <=> k = l
Falls(m) == \A k \in Stages : ~In(k, m)'

\* What is in one place goes to another, and all else stays.
Moves(k, l) ==
  /\ \A m \in Message : IF In(k, m) THEN Lands(m, l) ELSE Stays(m)
  /\ \A j \in Stages : NeatIn(j)'

\* A new message comes, and all else stays.
Comes(x, l) ==
  /\ \A m \in Message : IF m = x THEN Lands(m, l) ELSE Stays(m)
  /\ \A j \in Stages : NeatIn(j)'

\* Where a chunk is, and its messages are nowhere else.
LEMMA OnlyIn ==
  ASSUME PlaceInv
  PROVE  \A m \in Message : \A k, l \in Stages : In(k, m) /\ k # l => ~In(l, m)
BY DEF PlaceInv

\* A part joins the buffer.
LEMMA BufferGrows ==
  ASSUME RecTypes, PlaceInv, NEW x \in Message, ~Gone(x),
         buffer' = Append(buffer, x), UNCHANGED <<hand, taken, stored, failed, merged>>
  PROVE  Comes(x, "buffer") /\ RecTypes'
<1>1. buffer \in Seq(Message) /\ RecTypes'
  BY LongerChunk DEF RecTypes
<1>2. \A l \in Stages : ~In(l, x) /\ NeatIn(l)
  BY DEF PlaceInv
<1>3. /\ \A m \in Message : Has(buffer', m) <=> Has(buffer, m) \/ m = x
      /\ Neat(buffer) /\ ~Has(buffer, x) => Neat(buffer')
  BY <1>1, LongerChunk
<1>4. \A j \in Stages : NeatIn(j)'
  BY <1>2, <1>3, InIs, NeatIs, StagesAre
<1>5. ASSUME NEW m \in Message PROVE IF m = x THEN Lands(m, "buffer") ELSE Stays(m)
  <2>1. In("buffer", m)' <=> In("buffer", m) \/ m = x
    BY <1>3, InIs
  <2>2. \A l \in Stages \ {"buffer"} : In(l, m)' <=> In(l, m)
    BY InIs, StagesAre
  <2>3. "buffer" \in Stages
    BY StagesAre
  <2> QED BY <2>1, <2>2, <2>3, <1>2 DEF Lands, Stays
<1> QED BY <1>1, <1>4, <1>5 DEF Comes

\* A chunk, or a message of its own, is published for the recorder, or is lost.
LEMMA RowGrows ==
  ASSUME RecTypes, PlaceInv, NEW x \in Message, ~Gone(x), mergedOpen,
         Publish(<<x>>), UNCHANGED <<hand, taken, stored, failed, buffer>>
  PROVE  Comes(x, "merged") /\ RecTypes'
<1>1. merged \in Seq(Seq(Message)) /\ <<x>> \in Seq(Message) /\ merged' = Append(merged, <<x>>)
  BY DEF RecTypes, Publish
<1>2. \A l \in Stages : ~In(l, x) /\ NeatIn(l)
  BY DEF PlaceInv
<1>3. /\ \A m \in Message : HasRow(merged', m) <=> HasRow(merged, m) \/ m = x
      /\ NeatRow(merged) /\ ~HasRow(merged, x) => NeatRow(merged')
      /\ merged' \in Seq(Seq(Message))
  <2> DEFINE c == <<x>>
  <2>1. Neat(c) /\ \A m : Has(c, m) <=> m = x
    BY OneChunk
  <2>2. c \in Seq(Message) /\ merged' = Append(merged, c)
    BY <1>1
  <2> HIDE DEF c
  <2>3. /\ merged' \in Seq(Seq(Message))
        /\ \A m \in Message : HasRow(merged', m) <=> HasRow(merged, m) \/ Has(c, m)
        /\ NeatRow(merged) /\ Neat(c) /\ (\A m \in Message : ~(HasRow(merged, m) /\ Has(c, m)))
             => NeatRow(merged')
    BY <2>2, <1>1, LongerRow
  <2> QED BY <2>1, <2>3
<1>4. \A j \in Stages : NeatIn(j)'
  BY <1>2, <1>3, InIs, NeatIs, StagesAre
<1>5. ASSUME NEW m \in Message PROVE IF m = x THEN Lands(m, "merged") ELSE Stays(m)
  <2>1. In("merged", m)' <=> In("merged", m) \/ m = x
    BY <1>3, InIs
  <2>2. \A l \in Stages \ {"merged"} : In(l, m)' <=> In(l, m)
    BY InIs, StagesAre
  <2>3. "merged" \in Stages
    BY StagesAre
  <2> QED BY <2>1, <2>2, <2>3, <1>2 DEF Lands, Stays
<1> QED BY <1>3, <1>4, <1>5 DEF Comes, RecTypes

LEMMA HandPublished ==
  ASSUME RecTypes, PlaceInv, NEW k \in Hands, Publish(hand[k]),
         hand' = [hand EXCEPT ![k] = <<>>], UNCHANGED <<taken, stored, failed, buffer>>
  PROVE  /\ RecTypes'
         /\ mergedOpen => Moves(k, "merged")
         /\ \A m \in Message : ~In(k, m) => Stays(m)
         /\ ~mergedOpen => \A m \in Message : In(k, m) => Falls(m)
         /\ \A j \in Stages : NeatIn(j)'
<1>0. k \in Stages /\ "merged" \in Stages /\ k # "merged"
  BY StagesAre DEF Hands
<1>1. hand[k] \in Seq(Message) /\ merged \in Seq(Seq(Message))
  BY DEF RecTypes, Hands, Senders
<1>2. /\ hand' \in [Senders \cup {"run"} -> Seq(Message)] /\ hand'[k] = <<>>
      /\ \A j \in Hands : j # k => hand'[j] = hand[j]
  BY DEF RecTypes, Hands, Senders
<1>3. /\ merged' \in Seq(Seq(Message))
      /\ \A m \in Message : HasRow(merged', m) <=> HasRow(merged, m) \/ (mergedOpen /\ Has(hand[k], m))
      /\ NeatRow(merged')
  <2>1. NeatRow(merged) /\ Neat(hand[k])
    BY <1>0, NeatIs DEF PlaceInv
  <2>2. \A m \in Message : ~(HasRow(merged, m) /\ Has(hand[k], m))
    BY <1>0, InIs, OnlyIn
  <2>3. CASE mergedOpen /\ hand[k] # <<>>
    BY <2>1, <2>2, <2>3, <1>1, LongerRow DEF Publish
  <2>4. CASE ~(mergedOpen /\ hand[k] # <<>>)
    <3>1. merged' = merged
      BY <2>4 DEF Publish
    <3>2. mergedOpen => \A m : ~Has(hand[k], m)
      BY <2>4, EmptyChunk
    <3> QED BY <3>1, <3>2, <2>1, <1>1
  <2> QED BY <2>3, <2>4
<1>4. RecTypes'
  BY <1>2, <1>3 DEF RecTypes
<1>5. \A j \in Stages : NeatIn(j)'
  <2>1. \A j \in Stages : NeatIn(j)
    BY DEF PlaceInv
  <2>2. Neat(hand'[k])
    BY <1>2, EmptyChunk
  <2> QED BY <2>1, <2>2, <1>2, <1>3, NeatIs, StagesAre
<1>6. ASSUME NEW m \in Message
      PROVE  /\ ~In(k, m) => Stays(m)
             /\ In(k, m) => IF mergedOpen THEN Lands(m, "merged") ELSE Falls(m)
  <2>1. In("merged", m)' <=> In("merged", m) \/ (mergedOpen /\ In(k, m))
    BY <1>3, InIs
  <2>2. ~In(k, m)'
    BY <1>2, InIs, EmptyChunk
  <2>3. \A l \in Stages \ {"merged", k} : In(l, m)' <=> In(l, m)
    BY <1>2, InIs, StagesAre
  <2>4. \A l \in Stages : In(k, m) /\ l # k => ~In(l, m)
    BY <1>0, OnlyIn
  <2> QED BY <1>0, <2>1, <2>2, <2>3, <2>4 DEF Lands, Falls, Stays
<1> QED BY <1>4, <1>5, <1>6 DEF Moves

\* A chunk is taken out of the buffer, and a call may take its place.
LEMMA BufferTaken ==
  ASSUME RecTypes, PlaceInv, NEW k \in Hands, hand[k] = <<>>, NEW x \in Message,
         hand' = [hand EXCEPT ![k] = buffer], buffer' = <<>> \/ (buffer' = <<x>> /\ ~Gone(x)),
         UNCHANGED <<taken, stored, failed, merged>>
  PROVE  /\ RecTypes'
         /\ \A m \in Message : In("buffer", m) => Lands(m, k)
         /\ \A m \in Message : ~In("buffer", m) /\ (m # x \/ buffer' = <<>>) => Stays(m)
         /\ buffer' = <<x>> => Lands(x, "buffer")
         /\ \A j \in Stages : NeatIn(j)'
<1>0. k \in Stages /\ "buffer" \in Stages /\ k # "buffer"
  BY StagesAre DEF Hands
<1>2. /\ hand' \in [Senders \cup {"run"} -> Seq(Message)] /\ hand'[k] = buffer
      /\ \A j \in Hands : j # k => hand'[j] = hand[j]
  BY DEF RecTypes, Hands, Senders
<1>3. Neat(buffer') /\ buffer' \in Seq(Message)
      /\ \A m : Has(buffer', m) <=> m = x /\ buffer' = <<x>>
  <2>1. CASE buffer' = <<>>
    <3>1. <<>> # <<x>>
      OBVIOUS
    <3>2. Neat(buffer') /\ \A m : ~Has(buffer', m)
      BY <2>1, EmptyChunk
    <3> QED BY <2>1, <3>1, <3>2
  <2>2. CASE buffer' = <<x>>
    <3>1. Neat(buffer') /\ \A m : Has(buffer', m) <=> m = x
      BY <2>2, OneChunk
    <3> QED BY <2>2, <3>1
  <2> QED BY <2>1, <2>2
<1>4. RecTypes'
  BY <1>2, <1>3 DEF RecTypes
<1>5. \A j \in Stages : NeatIn(j)'
  <2>1. \A j \in Stages : NeatIn(j)
    BY DEF PlaceInv
  <2>2. Neat(hand'[k])
    BY <1>0, <1>2, <2>1, NeatIs
  <2> QED BY <2>1, <2>2, <1>2, <1>3, NeatIs, StagesAre
<1>6. buffer' = <<x>> => \A l \in Stages : ~In(l, x)
  BY DEF PlaceInv
<1>7. ASSUME NEW m \in Message
      PROVE  /\ In("buffer", m) => Lands(m, k)
             /\ ~In("buffer", m) /\ (m # x \/ buffer' = <<>>) => Stays(m)
             /\ buffer' = <<x>> /\ m = x => Lands(m, "buffer")
  <2>1. In("buffer", m)' <=> m = x /\ buffer' = <<x>>
    BY <1>3, InIs
  <2>2. In(k, m)' <=> In("buffer", m)
    BY <1>2, InIs
  <2>3. \A l \in Stages \ {"buffer", k} : In(l, m)' <=> In(l, m)
    BY <1>2, InIs, StagesAre
  <2>4. \A l \in Stages : In("buffer", m) /\ l # "buffer" => ~In(l, m)
    BY <1>0, OnlyIn
  <2>5. ~In(k, m)
    BY InIs, EmptyChunk
  <2>6. buffer' = <<>> => buffer' # <<x>>
    OBVIOUS
  <2> QED BY <1>0, <1>6, <2>1, <2>2, <2>3, <2>4, <2>5, <2>6 DEF Lands, Stays
<1> QED BY <1>4, <1>5, <1>7

\* The recorder takes a chunk, and appends it.
LEMMA RowTaken ==
  ASSUME RecTypes, PlaceInv, taken = <<>>, merged # <<>>, taken' = Head(merged), merged' = Tail(merged),
         UNCHANGED <<hand, stored, failed, buffer>>
  PROVE  /\ RecTypes' /\ \A j \in Stages : NeatIn(j)'
         /\ \A m \in Message : Stays(m) \/ (In("merged", m) /\ Lands(m, "taken"))
<1>0. "merged" \in Stages /\ "taken" \in Stages
  BY StagesAre
<1>1. merged \in Seq(Seq(Message)) /\ NeatRow(merged)
  BY <1>0, NeatIs DEF RecTypes, PlaceInv
<1>2. /\ taken' \in Seq(Message) /\ merged' \in Seq(Seq(Message)) /\ Neat(taken') /\ NeatRow(merged')
      /\ \A m \in Message : /\ HasRow(merged, m) <=> HasRow(merged', m) \/ Has(taken', m)
                            /\ ~(HasRow(merged', m) /\ Has(taken', m))
  BY <1>1, ShorterRow
<1>3. RecTypes'
  BY <1>2 DEF RecTypes
<1>4. \A j \in Stages : NeatIn(j)'
  <2>1. \A j \in Stages : NeatIn(j)
    BY DEF PlaceInv
  <2> QED BY <2>1, <1>2, NeatIs, StagesAre
<1>5. ASSUME NEW m \in Message
      PROVE  Stays(m) \/ (In("merged", m) /\ Lands(m, "taken"))
  <2>1. /\ In("merged", m) <=> In("merged", m)' \/ In("taken", m)'
        /\ ~(In("merged", m)' /\ In("taken", m)')
    BY <1>2, InIs
  <2>2. ~In("taken", m)
    BY InIs, EmptyChunk
  <2>3. \A l \in Stages \ {"merged", "taken"} : In(l, m)' <=> In(l, m)
    BY InIs, StagesAre
  <2>4. \A l \in Stages : In("merged", m) /\ l # "merged" => ~In(l, m)
    BY <1>0, OnlyIn
  <2> QED BY <1>0, <2>1, <2>2, <2>3, <2>4 DEF Lands, Stays
<1> QED BY <1>3, <1>4, <1>5

LEMMA ChunkAppended ==
  ASSUME RecTypes, PlaceInv, taken' = <<>>,
         \/ stored' = Append(stored, taken) /\ UNCHANGED failed
         \/ failed' = Append(failed, taken) /\ UNCHANGED stored,
         UNCHANGED <<hand, merged, buffer>>
  PROVE  RecTypes' /\ (Moves("taken", "stored") \/ Moves("taken", "failed"))
<1>0. "stored" \in Stages /\ "failed" \in Stages /\ "taken" \in Stages
  BY StagesAre
<1>1. stored \in Seq(Seq(Message)) /\ failed \in Seq(Seq(Message)) /\ taken \in Seq(Message)
  BY DEF RecTypes
<1>2. NeatRow(stored) /\ NeatRow(failed) /\ Neat(taken) /\ Neat(taken')
  BY <1>0, NeatIs, EmptyChunk DEF PlaceInv
<1>3. \A m \in Message : ~(HasRow(stored, m) /\ Has(taken, m)) /\ ~(HasRow(failed, m) /\ Has(taken, m))
  BY <1>0, InIs, OnlyIn
<1>4. \A m : ~In("taken", m)'
  BY InIs, EmptyChunk
<1>5. \A j \in Stages : NeatIn(j)
  BY DEF PlaceInv
<1>6. \A m \in Message : \A l \in Stages : In("taken", m) /\ l # "taken" => ~In(l, m)
  BY <1>0, OnlyIn
<1>7. CASE stored' = Append(stored, taken) /\ UNCHANGED failed
  <2>1. /\ stored' \in Seq(Seq(Message)) /\ NeatRow(stored')
        /\ \A m \in Message : HasRow(stored', m) <=> HasRow(stored, m) \/ Has(taken, m)
    BY <1>7, <1>1, <1>2, <1>3, LongerRow
  <2>2. \A j \in Stages : NeatIn(j)'
    BY <1>2, <1>5, <1>7, <2>1, NeatIs, StagesAre
  <2>3. ASSUME NEW m \in Message PROVE IF In("taken", m) THEN Lands(m, "stored") ELSE Stays(m)
    <3>1. In("stored", m)' <=> In("stored", m) \/ In("taken", m)
      BY <2>1, InIs
    <3>2. \A l \in Stages \ {"stored", "taken"} : In(l, m)' <=> In(l, m)
      BY <1>7, InIs, StagesAre
    <3> QED BY <1>0, <1>4, <1>6, <3>1, <3>2 DEF Lands, Stays
  <2> QED BY <1>1, <1>7, <2>1, <2>2, <2>3 DEF RecTypes, Moves
<1>8. CASE failed' = Append(failed, taken) /\ UNCHANGED stored
  <2>1. /\ failed' \in Seq(Seq(Message)) /\ NeatRow(failed')
        /\ \A m \in Message : HasRow(failed', m) <=> HasRow(failed, m) \/ Has(taken, m)
    BY <1>8, <1>1, <1>2, <1>3, LongerRow
  <2>2. \A j \in Stages : NeatIn(j)'
    BY <1>2, <1>5, <1>8, <2>1, NeatIs, StagesAre
  <2>3. ASSUME NEW m \in Message PROVE IF In("taken", m) THEN Lands(m, "failed") ELSE Stays(m)
    <3>1. In("failed", m)' <=> In("failed", m) \/ In("taken", m)
      BY <2>1, InIs
    <3>2. \A l \in Stages \ {"failed", "taken"} : In(l, m)' <=> In(l, m)
      BY <1>8, InIs, StagesAre
    <3> QED BY <1>0, <1>4, <1>6, <3>1, <3>2 DEF Lands, Stays
  <2> QED BY <1>1, <1>8, <2>1, <2>2, <2>3 DEF RecTypes, Moves
<1> QED BY <1>7, <1>8

-----------------------------------------------------------------------------
(* What the senders do to the record.                                         *)

GoneSame == \A m \in Message : Gone(m)' <=> Gone(m)
GoneGains(x) ==
  x \in Message /\ ~Gone(x) /\ \A m \in Message : Gone(m)' <=> Gone(m) \/ m = x

\* Each message stays where it is, goes to one place, or is lost to a closed queue.
Trip(m) ==
  \/ Stays(m) /\ (Gone(m)' <=> Gone(m))
  \/ (\E l \in Stages : Lands(m, l)) /\ Gone(m)'
  \/ Falls(m) /\ ~mergedOpen'

LEMMA PlaceKept ==
  ASSUME PlaceInv, mergedOpen' => mergedOpen, \A j \in Stages : NeatIn(j)', \A m \in Message : Trip(m)
  PROVE  PlaceInv'
<1>1. ASSUME NEW m \in Message
      PROVE  /\ \A l, k \in Stages : In(l, m)' /\ In(k, m)' => l = k
             /\ \A l \in Stages : In(l, m)' => Gone(m)'
             /\ mergedOpen' => (Gone(m)' => \E l \in Stages : In(l, m)')
  <2>1. CASE Stays(m) /\ (Gone(m)' <=> Gone(m))
    BY <2>1 DEF Stays, PlaceInv
  <2>2. CASE (\E l \in Stages : Lands(m, l)) /\ Gone(m)'
    BY <2>2 DEF Lands
  <2>3. CASE Falls(m) /\ ~mergedOpen'
    BY <2>3 DEF Falls
  <2> QED BY <2>1, <2>2, <2>3 DEF Trip
<1> QED BY <1>1 DEF PlaceInv

LEMMA GoneRests == UNCHANGED <<next, at, sending>> => GoneSame
BY DEF GoneSame, Gone, Msg, Kind

\* The message of a sender that is inside send().
LEMMA InHand ==
  ASSUME TurnInv, NEW w \in Senders, at[w] \in InSend
  PROVE  /\ Msg(w) \in Message /\ ~(Msg(w)[2] < next[Msg(w)[1]])
         /\ \A v \in Senders : v # w => Msg(v) # Msg(w)
<1>t. SendTypes /\ SendInv
  BY DEF TurnInv
<1>1. /\ sending[w] \in Sources /\ next[sending[w]] \in Nat /\ next[sending[w]] >= 1
      /\ ~Over(sending[w]) /\ Kind(Msg(w)) \in Kinds
  BY <1>t DEF SendTypes, SendInv
<1>2. Msg(w) \in Message
  BY <1>1, MessageIs, ScriptIs DEF Msg, Kind, Over
<1>3. \A v \in Senders : v # w => sending[v] # sending[w]
  BY <1>t DEF SendTypes
<1> QED BY <1>1, <1>2, <1>3 DEF Msg

LEMMA GoneSent ==
  ASSUME TurnInv, NEW w \in Senders, HasSent(w)
  PROVE  /\ at[w] # "publish" => GoneGains(Msg(w))
         /\ at[w] = "publish" /\ Kind(Msg(w)) = "call" => GoneSame
<1>t. SendTypes /\ SendInv /\ RunInv
  BY DEF TurnInv
<1>1. at[w] \in InSend /\ at'[w] = "ready" /\ sending' = sending
      /\ \A v \in Senders : v # w => at'[v] = at[v]
  BY <1>t DEF HasSent, Sent, SendTypes
<1> DEFINE s == sending[w]
<1>2. s \in Sources /\ next'[s] = next[s] + 1 /\ next[s] \in Nat
      /\ \A q \in Sources : q # s => next'[q] = next[q]
  BY <1>t DEF HasSent, Sent, SendTypes
<1>3. \A v \in Senders : v # w => sending[v] # s /\ sending[v] \in Sources
  BY <1>t DEF SendTypes
<1>4. /\ Msg(w) \in Message /\ ~(Msg(w)[2] < next[Msg(w)[1]])
      /\ \A v \in Senders : v # w => Msg(v) # Msg(w)
  BY <1>1, InHand
<1>5. ASSUME NEW m \in Message
      PROVE  Gone(m)' <=> (Gone(m) \/ m = Msg(w))
  <2>1. m[2] < next'[m[1]] <=> m[2] < next[m[1]] \/ m = Msg(w)
    BY <1>2, MessageIs, <1>t DEF Msg, SendTypes
  <2>2. \A v \in Senders : v # w => Msg(v)' = Msg(v)
    BY <1>1, <1>2, <1>3 DEF Msg
  <2>3. \A v \in Senders : v # w => Kind(Msg(v))' = Kind(Msg(v))
    BY <2>2 DEF Kind
  <2> QED BY <1>1, <2>1, <2>2, <2>3 DEF Gone
<1>6. at[w] # "publish" => ~Gone(Msg(w))
  BY <1>4 DEF Gone
<1>7. at[w] = "publish" /\ Kind(Msg(w)) = "call" => Gone(Msg(w))
  BY DEF Gone
<1> QED BY <1>4, <1>5, <1>6, <1>7 DEF GoneGains, GoneSame

LEMMA GoneGoesOn ==
  ASSUME TurnInv, NEW w \in Senders, GoesOn(w)
  PROVE  /\ Kind(Msg(w)) # "call" => GoneSame
         /\ Kind(Msg(w)) = "call" /\ at[w] # "publish" /\ at'[w] = "publish" => GoneGains(Msg(w))
<1>t. SendTypes /\ SendInv /\ RunInv
  BY DEF TurnInv
<1>1. at[w] \in InSend /\ next' = next /\ sending' = sending
      /\ \A v \in Senders : v # w => at'[v] = at[v]
  BY <1>t DEF GoesOn, SendTypes
<1>2. \A v \in Senders : Msg(v)' = Msg(v) /\ Kind(Msg(v))' = Kind(Msg(v))
  BY <1>1 DEF Msg, Kind
<1>3. /\ Msg(w) \in Message /\ ~(Msg(w)[2] < next[Msg(w)[1]])
      /\ \A v \in Senders : v # w => Msg(v) # Msg(w)
  BY <1>1, InHand
<1>4. Kind(Msg(w)) # "call" => GoneSame
  BY <1>1, <1>2 DEF GoneSame, Gone
<1>5. ASSUME Kind(Msg(w)) = "call", at[w] # "publish", at'[w] = "publish"
      PROVE  GoneGains(Msg(w))
  <2>1. ~Gone(Msg(w))
    BY <1>3, <1>5 DEF Gone
  <2>2. ASSUME NEW m \in Message PROVE Gone(m)' <=> Gone(m) \/ m = Msg(w)
    BY <1>1, <1>2, <1>5 DEF Gone
  <2> QED BY <1>3, <2>1, <2>2 DEF GoneGains
<1> QED BY <1>4, <1>5

LEMMA GoneBegins ==
  ASSUME TurnInv, NEW s \in Sources, Begins(s)
  PROVE  GoneSame
<1> DEFINE w == SenderOf(s)
<1>t. SendTypes /\ SendInv /\ RunInv
  BY DEF TurnInv
<1>w. w \in Senders
  BY DEF SenderOf, Senders, Sources
<1>1. next' = next /\ at[w] = "ready" /\ at'[w] = "merge"
      /\ \A v \in Senders : v # w => at'[v] = at[v] /\ sending'[v] = sending[v]
  BY <1>t, <1>w DEF Begins, SendTypes
<1>2. \A v \in Senders : v # w => Msg(v)' = Msg(v) /\ Kind(Msg(v))' = Kind(Msg(v))
  BY <1>1 DEF Msg, Kind
<1> HIDE DEF w
<1> QED BY <1>1, <1>2 DEF GoneSame, Gone

LEMMA GoneSoul ==
  ASSUME TurnInv, SoulGoes
  PROVE  GoneSame /\ \A m \in Message : m[2] < next'[m[1]] <=> m[2] < next[m[1]]
<1>t. SendTypes /\ SendInv /\ RunInv
  BY DEF TurnInv
<1>1. /\ sending' = sending /\ next["soul"] \in Nat
      /\ next' = next \/ (next' = [next EXCEPT !["soul"] = next["soul"] + 1])
      /\ \A q \in Sources : q # "soul" => next'[q] = next[q]
  BY <1>t DEF SoulGoes, Proceed, BeginStore, EndStore, GoOn, SendTypes, Sources
<1>2. Script["soul"][next["soul"]] \in Steps
  <2>1. at["soul"] = "storing" => Kind(<<"soul", next["soul"]>>) = "store"
    BY <1>t DEF SendInv, Senders
  <2> QED BY <2>1 DEF SoulGoes, Proceed, BeginStore, EndStore, Steps, Kind
<1>3. at["soul"] # "publish" /\ at'["soul"] # "publish"
      /\ \A v \in Senders : v # "soul" => at'[v] = at[v]
  BY <1>t DEF SoulGoes, Proceed, BeginStore, EndStore, SendTypes, Senders
<1>4. ASSUME NEW m \in Message
      PROVE  (m[2] < next'[m[1]] <=> m[2] < next[m[1]]) /\ (Gone(m)' <=> Gone(m))
  <2>1. m # <<"soul", next["soul"]>>
    <3>1. Steps \cap Kinds = {}
      BY DEF Steps, Kinds
    <3> QED BY <3>1, <1>2, MessageIs DEF Kind
  <2>2. m[2] < next'[m[1]] <=> m[2] < next[m[1]]
    BY <2>1, <1>1, MessageIs, <1>t DEF SendTypes, Sources
  <2>3. \A v \in Senders : v # "soul" => Msg(v)' = Msg(v)
    <3>1. \A v \in Senders : v # "soul" => sending[v] \in Sources /\ sending[v] # "soul"
      BY <1>t DEF SendTypes, SenderOf
    <3> QED BY <3>1, <1>1 DEF Msg
  <2>4. \A v \in Senders : v # "soul" => Kind(Msg(v))' = Kind(Msg(v))
    BY <2>3 DEF Kind
  <2> QED BY <1>3, <2>2, <2>3, <2>4 DEF Gone
<1> QED BY <1>4 DEF GoneSame

-----------------------------------------------------------------------------
(* Who may be in the buffer at the same time.                                 *)

LEMMA MergedIs ==
  ASSUME NEW m \in Message, Kind(m) \in Buffered
  PROVE  Merged(m[1])
BY MessageIs, ScriptIs DEF Merged, Kind, Buffered

\* Of two senders that are in the middle of a send, one has a part or a call at most.
LEMMA OneMerges ==
  ASSUME TurnInv, NEW v \in Senders, NEW w \in Senders, at[v] \in InSend, at[w] \in InSend,
         Kind(Msg(v)) \in Buffered, Kind(Msg(w)) \in Buffered
  PROVE  v = w
<1>1. SendTypes /\ SendInv
  BY DEF TurnInv
<1>2. Msg(v) \in Message /\ Msg(w) \in Message
  BY InHand
<1>3. Merged(sending[v]) /\ Merged(sending[w])
  BY <1>2, MergedIs DEF Msg
<1>4. sending[v] \in Sources /\ sending[w] \in Sources /\ SenderOf(sending[v]) = v /\ SenderOf(sending[w]) = w
  BY <1>1 DEF SendTypes
<1>5. Script[sending[v]] # <<>> /\ Script[sending[w]] # <<>>
  BY <1>2, MessageIs DEF Msg
<1> QED BY <1>3, <1>4, <1>5, TurnScripts

\* While something the soul said is in the buffer or in a hand, nobody else sends.
LEMMA SoulAlone ==
  ASSUME TurnInv, NEW m \in Message, m[1] = "soul", Kind(m) \in Buffered,
         NEW w \in Senders, w # "soul"
  PROVE  at[w] = "ready"
<1>1. SendTypes /\ SendInv
  BY DEF TurnInv
<1>2. Merged("soul")
  BY MergedIs
<1>3. at[w] \notin InSend
  <2>1. SUFFICES ASSUME at[w] \in InSend PROVE FALSE
    OBVIOUS
  <2>2. Msg(w) \in Message
    BY <2>1, InHand
  <2>3. Script[sending[w]] # <<>> /\ sending[w] \in Sources /\ SenderOf(sending[w]) = w
    BY <2>2, MessageIs, <1>1 DEF Msg, SendTypes
  <2> QED BY <2>3, <1>2, TurnScripts DEF SenderOf, Sources
<1> QED BY <1>1, <1>3 DEF SendTypes, SendInv

-----------------------------------------------------------------------------
(* A step of a sender keeps the record.                                       *)

Containers == <<hand, buffer, taken, stored, failed, merged>>

LEMMA ContainersRest ==
  ASSUME RecTypes, PlaceInv, UNCHANGED Containers, GoneSame, mergedOpen' => mergedOpen
  PROVE  RecTypes' /\ PlaceInv' /\ \A m \in Message : Stays(m)
<1>1. RecTypes'
  BY DEF RecTypes, Containers
<1>2. \A m \in Message : Stays(m)
  BY InIs, StagesAre DEF Stays, Containers
<1>3. \A j \in Stages : NeatIn(j)'
  BY NeatIs, StagesAre DEF Containers, PlaceInv
<1> QED BY <1>1, <1>2, <1>3, PlaceKept DEF Trip, GoneSame

\* After the turn was cancelled only the others send, and what is due stays.
LEMMA SendCloses ==
  ASSUME TurnInv, CloseInv, NEW w \in Senders, Send(w),
         ~mergedOpen => merged' = merged,
         w # "soul" => \A m \in Message : m[1] = "soul" /\ (\E l \in Way : In(l, m)) => Stays(m)
  PROVE  CloseInv'
<1>t. SendTypes /\ SendInv /\ RunInv
  BY DEF TurnInv
<1>u. UNCHANGED <<run, result, mergedOpen, recorder>>
  BY DEF Send, PublishRaw, Join, Take, PublishTaken, Finish, recVars
<1>1. CASE run = "run"
  BY <1>1, <1>t, <1>u DEF CloseInv, RunInv
<1>2. CASE run # "run"
  <2>1. result # "ok"
    <3>1. SUFFICES ASSUME result = "ok" PROVE FALSE
      OBVIOUS
    <3>2. at[w] = "ready" /\ \A s \in Sources : Over(s)
      BY <3>1, <1>t DEF RunInv
    <3>3. \A s \in Sources : ~HasMessage(s)
      BY <3>2 DEF HasMessage
    <3> QED BY <3>2, <3>3 DEF Send, PublishRaw, Join, Take, PublishTaken, Finish
  <2>2. w # "soul"
    <3>1. SUFFICES ASSUME w = "soul" PROVE FALSE
      OBVIOUS
    <3>2. at[w] \notin InSend
      <4>1. result = "cancelled"
        BY <1>2, <2>1, <1>t DEF RunInv
      <4> QED BY <3>1, <4>1 DEF CloseInv, InSend
    <3>3. PICK s \in Sources : SenderOf(s) = w /\ PublishRaw(s)
      BY <3>2, SendSteps DEF GoesOn, HasSent
    <3>4. s = "soul"
      BY <3>1, <3>3 DEF SenderOf, Sources
    <3> QED BY <3>3, <3>4, <1>2 DEF PublishRaw, HasMessage
  <2>3. next'["soul"] = next["soul"] /\ at'["soul"] = at["soul"]
    <3>1. sending[w] # "soul" /\ \A s \in Sources : SenderOf(s) = w => s # "soul"
      BY <2>2, <1>t DEF SendTypes, SenderOf
    <3>2. "soul" \in Senders /\ "soul" \in Sources
      BY DEF Senders, Sources
    <3> QED BY <2>2, <3>1, <3>2, <1>t, SendSteps DEF Begins, GoesOn, HasSent, Sent, SendTypes
  <2>4. ASSUME NEW m \in Message, Due(m)' PROVE \E l \in Way : In(l, m)'
    <3>1. m[1] = "soul" /\ Due(m)
      BY <2>1, <2>3, <2>4, <1>u DEF Due
    <3>2. PICK l \in Way : In(l, m)
      BY <3>1, <1>2 DEF CloseInv
    <3>3. Stays(m) /\ l \in Stages
      BY <2>2, <3>1, <3>2 DEF Way, Stages
    <3> QED BY <3>2, <3>3 DEF Stays
  <2>5. \A m \in Message : Due(m)' => (\E l \in Way : In(l, m))'
    BY <2>4, <1>u DEF Way
  <2> QED BY <2>3, <2>5, <1>u DEF CloseInv
<1> QED BY <1>1, <1>2

LEMMA RawKeeps ==
  ASSUME TurnInv, RecordInv, NEW w \in Senders, NEW s \in Sources, SenderOf(s) = w, PublishRaw(s)
  PROVE  RecordInv'
<1>t. SendTypes /\ SendInv /\ RunInv /\ RecTypes /\ PlaceInv /\ HandInv /\ CloseInv
  BY DEF TurnInv, RecordInv
<1>u. UNCHANGED Containers /\ UNCHANGED <<mergedOpen, run, result, recorder>> /\ Begins(s)
  BY DEF PublishRaw, Containers, recVars, Begins
<1>1. RecTypes' /\ PlaceInv' /\ \A m \in Message : Stays(m)
  BY <1>t, <1>u, GoneBegins, ContainersRest
<1>2. CloseInv'
  <2>1. Send(w)
    BY DEF Send
  <2> QED BY <2>1, <1>1, <1>t, <1>u, SendCloses DEF Containers
<1>3. HandInv'
  <2>1. at[w] = "ready" /\ at'[w] = "merge" /\ next' = next
        /\ \A v \in Senders : v # w => at'[v] = at[v] /\ sending'[v] = sending[v]
    BY <1>t, <1>u DEF Begins, SendTypes
  <2>2. \A v \in Senders : v # w => Msg(v)' = Msg(v) /\ Kind(Msg(v))' = Kind(Msg(v))
    BY <2>1 DEF Msg, Kind
  <2>3. \A v \in Senders : at'[v] # "publish" => hand'[v] = <<>>
    BY <2>1, <1>t, <1>u DEF HandInv, Containers
  <2>4. \A v \in Senders : at'[v] \in {"publish", "last"} /\ IsPart(Kind(Msg(v)))' => buffer' = <<>>
    BY <2>1, <2>2, <1>t, <1>u DEF HandInv, Containers, IsPart
  <2>5. \A m \in Message : \A l \in {"soul", "forward", "tool", "run", "buffer"} : In(l, m)' => Kind(m)' \in Buffered
    BY <1>1, <1>t, StagesAre DEF Stays, HandInv, Kind, Hands
  <2> QED BY <2>3, <2>4, <2>5, <1>t, <1>u DEF HandInv, Containers
<1> QED BY <1>1, <1>2, <1>3 DEF RecordInv

LEMMA JoinKeeps ==
  ASSUME TurnInv, RecordInv, NEW w \in Senders, Join(w)
  PROVE  RecordInv'
<1>t. SendTypes /\ SendInv /\ RunInv /\ RecTypes /\ PlaceInv /\ HandInv /\ CloseInv
  BY DEF TurnInv, RecordInv
<1>p. PICK x \in Message : x = Msg(w)
  BY InHand DEF Join, InSend
<1>u. /\ UNCHANGED <<hand, taken, stored, failed, merged>> /\ UNCHANGED <<mergedOpen, run, result, recorder, sending>>
      /\ buffer' = Append(buffer, x) /\ at[w] = "merge" /\ HasSent(w) /\ IsPart(Kind(x))
  BY <1>p DEF Join, Fits, recVars, HasSent, InSend
<1>g. GoneGains(x)
  BY <1>p, <1>u, GoneSent
<1>1. Comes(x, "buffer") /\ RecTypes'
  BY <1>g, <1>t, <1>u, BufferGrows DEF GoneGains
<1>2. PlaceInv'
  <2>1. \A m \in Message : Trip(m)
    BY <1>1, <1>g, StagesAre DEF Comes, Trip, GoneGains
  <2> QED BY <2>1, <1>1, <1>t, <1>u, PlaceKept DEF Comes
<1>3. CloseInv'
  <2>1. Send(w)
    BY DEF Send
  <2>2. w # "soul" => x[1] # "soul"
    BY <1>p, <1>t DEF Msg, SendTypes, SenderOf
  <2>3. w # "soul" => \A m \in Message : m[1] = "soul" => Stays(m)
    BY <2>2, <1>1 DEF Comes
  <2> QED BY <2>1, <2>3, <1>t, <1>u, SendCloses
<1>4. HandInv'
  <2>1. at[w] = "merge" /\ at'[w] = "ready" /\ \A v \in Senders : v # w => at'[v] = at[v]
    BY <1>t, <1>u DEF HasSent, Sent, SendTypes
  <2>2. \A v \in Senders : at'[v] # "publish" => hand'[v] = <<>>
    BY <2>1, <1>t, <1>u DEF HandInv
  <2>3. \A v \in Senders : v # w => Msg(v)' = Msg(v)
    <3>1. \A v \in Senders : v # w => sending[v] # sending[w] /\ sending[v] \in Sources
      BY <1>t DEF SendTypes
    <3>2. \A q \in Sources : q # sending[w] => next'[q] = next[q]
      BY <1>t, <1>u DEF HasSent, Sent, SendTypes
    <3> QED BY <3>1, <3>2, <1>u DEF Msg
  <2>4. ASSUME NEW v \in Senders, at'[v] \in {"publish", "last"}, IsPart(Kind(Msg(v)))' PROVE FALSE
    <3>1. v # w /\ at[v] \in InSend /\ Msg(v)' = Msg(v)
      BY <2>1, <2>3, <2>4 DEF InSend
    <3>2. Kind(Msg(v)) \in Buffered /\ Kind(x) \in Buffered /\ at[w] \in InSend
      BY <2>4, <3>1, <1>p, <1>u, <2>1 DEF IsPart, Buffered, Kind, InSend
    <3> QED BY <3>1, <3>2, <1>p, OneMerges
  <2>5. \A m \in Message : \A l \in {"soul", "forward", "tool", "run", "buffer"} : In(l, m)' => Kind(m) \in Buffered
    <3>1. Kind(x) \in Buffered
      BY <1>u DEF IsPart, Buffered
    <3> QED BY <3>1, <1>1, <1>t, StagesAre DEF Comes, Lands, Stays, HandInv, Hands
  <2>6. \A m \in Message : \A l \in {"soul", "forward", "tool", "run", "buffer"} : In(l, m)' => Kind(m)' \in Buffered
    BY <2>5 DEF Kind
  <2> QED BY <2>2, <2>4, <2>6, <1>t, <1>u DEF HandInv
<1> QED BY <1>1, <1>2, <1>3, <1>4 DEF RecordInv

LEMMA TakeKeeps ==
  ASSUME TurnInv, RecordInv, NEW w \in Senders, Take(w)
  PROVE  RecordInv'
<1>t. SendTypes /\ SendInv /\ RunInv /\ RecTypes /\ PlaceInv /\ HandInv /\ CloseInv
  BY DEF TurnInv, RecordInv
<1>p. PICK x \in Message : x = Msg(w)
  BY InHand DEF Take, InSend
<1>u. /\ UNCHANGED <<taken, stored, failed, merged>> /\ UNCHANGED <<next, mergedOpen, run, result, recorder, sending>>
      /\ hand' = [hand EXCEPT ![w] = buffer]
      /\ buffer' = (IF Kind(x) = "call" THEN <<x>> ELSE <<>>)
      /\ at[w] = "merge" /\ at' = [at EXCEPT ![w] = "publish"] /\ GoesOn(w)
  BY <1>p DEF Take, recVars, GoesOn, InSend
<1>a. at'[w] = "publish" /\ \A v \in Senders : v # w => at'[v] = at[v]
  BY <1>t, <1>u DEF SendTypes
<1>g. /\ Kind(x) # "call" => GoneSame
      /\ Kind(x) = "call" => GoneGains(x)
  BY <1>p, <1>u, <1>a, GoneGoesOn
<1>x. <<>> # <<x>>
  OBVIOUS
<1>h. hand[w] = <<>> /\ w \in Hands /\ (w # "soul" => x[1] # "soul")
  BY <1>p, <1>t, <1>u DEF HandInv, Hands, Senders, Msg, SendTypes, SenderOf
<1>1. /\ RecTypes' /\ \A j \in Stages : NeatIn(j)'
      /\ \A m \in Message : In("buffer", m) => Lands(m, w)
      /\ \A m \in Message : ~In("buffer", m) /\ (m # x \/ Kind(x) # "call") => Stays(m)
      /\ Kind(x) = "call" => Lands(x, "buffer")
  <2>1. buffer' = <<>> \/ (buffer' = <<x>> /\ ~Gone(x))
    BY <1>u, <1>g DEF GoneGains
  <2>2. Kind(x) = "call" <=> buffer' = <<x>>
    BY <1>u, <1>x
  <2> QED BY <2>1, <2>2, <1>t, <1>u, <1>x, <1>h, BufferTaken
<1>2. PlaceInv'
  <2>1. ASSUME NEW m \in Message PROVE Trip(m)
    <3>1. w \in Stages /\ "buffer" \in Stages
      BY <1>h, StagesAre
    <3>2. Gone(m)' <=> Gone(m) \/ (m = x /\ Kind(x) = "call")
      BY <1>g DEF GoneSame, GoneGains
    <3>3. In("buffer", m) => Gone(m)
      BY <3>1, <1>t DEF PlaceInv
    <3> QED BY <1>1, <3>1, <3>2, <3>3 DEF Trip
  <2> QED BY <2>1, <1>1, <1>t, <1>u, PlaceKept
<1>3. CloseInv'
  <2>1. Send(w)
    BY DEF Send
  <2>3. ASSUME w # "soul", NEW m \in Message, m[1] = "soul" PROVE Stays(m)
    <3>1. ~In("buffer", m)
      <4>1. In("buffer", m) => Kind(m) \in Buffered
        BY <1>t DEF HandInv
      <4> QED BY <4>1, <2>3, <1>u, SoulAlone
    <3> QED BY <3>1, <1>1, <1>h, <2>3
  <2> QED BY <2>1, <2>3, <1>t, <1>u, SendCloses
<1>4. HandInv'
  <2>1. \A v \in Senders : at'[v] # "publish" => hand'[v] = <<>>
    BY <1>a, <1>t, <1>u DEF HandInv, RecTypes, Senders
  <2>2. hand'["run"] = hand["run"]
    BY <1>u, <1>t DEF RecTypes, Senders
  <2>3. \A v \in Senders : Msg(v)' = Msg(v)
    BY <1>u DEF Msg
  <2>4. ASSUME NEW v \in Senders, at'[v] \in {"publish", "last"}, IsPart(Kind(Msg(v)))' PROVE buffer' = <<>>
    <3>1. CASE Kind(x) # "call"
      BY <3>1, <1>u
    <3>2. CASE Kind(x) = "call"
      <4>1. IsPart(Kind(Msg(v)))
        BY <2>3, <2>4 DEF IsPart, Kind
      <4>2. v # w
        BY <1>p, <3>2, <4>1 DEF IsPart
      <4>3. at[v] \in InSend /\ at[w] \in InSend
        BY <4>2, <1>a, <1>u, <2>4 DEF InSend
      <4>4. Kind(Msg(v)) \in Buffered /\ Kind(Msg(w)) \in Buffered
        BY <1>p, <3>2, <4>1 DEF IsPart, Buffered
      <4> QED BY <4>2, <4>3, <4>4, OneMerges
    <3> QED BY <3>1, <3>2
  <2>5. \A m \in Message : \A l \in {"soul", "forward", "tool", "run", "buffer"} : In(l, m)' => Kind(m) \in Buffered
    <3>1. Kind(x) = "call" => Kind(x) \in Buffered
      BY DEF Buffered
    <3>2. \A m \in Message : In("buffer", m) => Kind(m) \in Buffered
      BY <1>t DEF HandInv
    <3> QED BY <3>1, <3>2, <1>1, <1>t, StagesAre DEF Lands, Stays, HandInv, Hands
  <2>6. \A m \in Message : \A l \in {"soul", "forward", "tool", "run", "buffer"} : In(l, m)' => Kind(m)' \in Buffered
    BY <2>5 DEF Kind
  <2> QED BY <2>1, <2>2, <2>4, <2>6, <1>t, <1>u DEF HandInv
<1> QED BY <1>1, <1>2, <1>3, <1>4 DEF RecordInv

LEMMA PublishTakenKeeps ==
  ASSUME TurnInv, RecordInv, NEW w \in Senders, PublishTaken(w)
  PROVE  RecordInv'
<1>t. SendTypes /\ SendInv /\ RunInv /\ RecTypes /\ PlaceInv /\ HandInv /\ CloseInv
  BY DEF TurnInv, RecordInv
<1>p. PICK x \in Message : x = Msg(w)
  BY InHand DEF PublishTaken, InSend
<1>u. /\ UNCHANGED <<buffer, taken, stored, failed>> /\ UNCHANGED <<mergedOpen, run, result, recorder, sending>>
      /\ Publish(hand[w]) /\ hand' = [hand EXCEPT ![w] = <<>>] /\ at[w] = "publish"
      /\ IF Kind(x) = "call" THEN HasSent(w) ELSE next' = next /\ at' = [at EXCEPT ![w] = "last"] /\ GoesOn(w)
  BY <1>p DEF PublishTaken, recVars, GoesOn, HasSent, InSend
<1>a. at'[w] # "publish" /\ \A v \in Senders : v # w => at'[v] = at[v]
  BY <1>t, <1>u DEF SendTypes, HasSent, Sent
<1>g. GoneSame
  BY <1>p, <1>u, GoneGoesOn, GoneSent
<1>h. w \in Hands /\ w \in Stages
  BY StagesAre DEF Hands, Senders
<1>1. /\ RecTypes' /\ \A j \in Stages : NeatIn(j)'
      /\ mergedOpen => Moves(w, "merged")
      /\ \A m \in Message : ~In(w, m) => Stays(m)
      /\ ~mergedOpen => \A m \in Message : In(w, m) => Falls(m)
  BY <1>t, <1>u, <1>h, HandPublished
<1>2. PlaceInv'
  <2>1. ASSUME NEW m \in Message PROVE Trip(m)
    <3>1. "merged" \in Stages /\ (In(w, m) => Gone(m))
      BY <1>h, <1>t, StagesAre DEF PlaceInv
    <3>2. Gone(m)' <=> Gone(m)
      BY <1>g DEF GoneSame
    <3> QED BY <1>1, <1>u, <3>1, <3>2 DEF Trip, Moves
  <2> QED BY <2>1, <1>1, <1>t, <1>u, PlaceKept
<1>3. CloseInv'
  <2>1. Send(w)
    BY DEF Send
  <2>2. \A l \in Way : l \in Stages /\ l # w
    BY DEF Way, Rows, Stages, Senders
  <2>3. \A m \in Message : (\E l \in Way : In(l, m)) => Stays(m)
    BY <2>2, <1>1, <1>h, <1>t, OnlyIn
  <2>4. ~mergedOpen => merged' = merged
    BY <1>u DEF Publish
  <2> QED BY <2>1, <2>3, <2>4, <1>t, SendCloses
<1>4. HandInv'
  <2>1. \A v \in Senders : at'[v] # "publish" => hand'[v] = <<>>
    BY <1>a, <1>t, <1>u DEF HandInv, RecTypes, Senders
  <2>2. hand'["run"] = hand["run"]
    BY <1>u, <1>t DEF RecTypes, Senders
  <2>3. \A v \in Senders : v # w => Msg(v)' = Msg(v)
    <3>1. \A v \in Senders : v # w => sending[v] # sending[w] /\ sending[v] \in Sources
      BY <1>t DEF SendTypes
    <3>2. \A q \in Sources : q # sending[w] => next'[q] = next[q]
      BY <1>t, <1>u DEF HasSent, Sent, SendTypes
    <3> QED BY <3>1, <3>2, <1>u DEF Msg
  <2>4. ASSUME NEW v \in Senders, at'[v] \in {"publish", "last"}, IsPart(Kind(Msg(v)))' PROVE buffer' = <<>>
    <3>1. CASE v # w
      BY <3>1, <2>3, <2>4, <1>a, <1>t, <1>u DEF HandInv, IsPart, Kind
    <3>2. CASE v = w
      <4>1. Kind(x) # "call"
        BY <3>2, <2>4, <1>u, <1>t DEF HasSent, Sent, SendTypes
      <4>2. Msg(w)' = Msg(w)
        BY <4>1, <1>u DEF Msg
      <4> QED BY <3>2, <4>2, <2>4, <1>t, <1>u DEF HandInv, IsPart, Kind
    <3> QED BY <3>1, <3>2
  <2>5. \A m \in Message : \A l \in {"soul", "forward", "tool", "run", "buffer"} : In(l, m)' => Kind(m) \in Buffered
    <3>1. \A m \in Message : Stays(m) \/ Lands(m, "merged") \/ Falls(m)
      BY <1>1 DEF Moves
    <3> QED BY <3>1, <1>t, StagesAre DEF Lands, Stays, Falls, HandInv, Hands
  <2>6. \A m \in Message : \A l \in {"soul", "forward", "tool", "run", "buffer"} : In(l, m)' => Kind(m)' \in Buffered
    BY <2>5 DEF Kind
  <2> QED BY <2>1, <2>2, <2>4, <2>6, <1>t, <1>u DEF HandInv
<1> QED BY <1>1, <1>2, <1>3, <1>4 DEF RecordInv

LEMMA FinishKeeps ==
  ASSUME TurnInv, RecordInv, NEW w \in Senders, Finish(w)
  PROVE  RecordInv'
<1>t. SendTypes /\ SendInv /\ RunInv /\ RecTypes /\ PlaceInv /\ HandInv /\ CloseInv
  BY DEF TurnInv, RecordInv
<1>p. PICK x \in Message : x = Msg(w)
  BY InHand DEF Finish, InSend
<1>u. /\ UNCHANGED <<hand, taken, stored, failed>> /\ UNCHANGED <<mergedOpen, run, result, recorder, sending>>
      /\ IF IsPart(Kind(x)) THEN buffer' = <<x>> /\ merged' = merged ELSE Publish(<<x>>) /\ buffer' = buffer
      /\ at[w] = "last" /\ HasSent(w)
  BY <1>p DEF Finish, recVars, HasSent, InSend
<1>g. GoneGains(x)
  BY <1>p, <1>u, GoneSent
<1>1. /\ RecTypes' /\ \A j \in Stages : NeatIn(j)'
      /\ \A m \in Message : m # x => Stays(m)
      /\ \/ Lands(x, "buffer") /\ IsPart(Kind(x))
         \/ Lands(x, "merged")
         \/ Falls(x) /\ ~mergedOpen
  <2>1. CASE IsPart(Kind(x))
    <3>1. buffer = <<>>
      BY <1>p, <2>1, <1>t, <1>u DEF HandInv
    <3>2. buffer' = Append(buffer, x)
      BY <2>1, <3>1, <1>u
    <3>3. Comes(x, "buffer") /\ RecTypes'
      BY <2>1, <3>2, <1>g, <1>t, <1>u, BufferGrows DEF GoneGains
    <3> QED BY <2>1, <3>3 DEF Comes
  <2>2. CASE ~IsPart(Kind(x)) /\ mergedOpen
    <3>1. Comes(x, "merged") /\ RecTypes'
      BY <2>2, <1>g, <1>t, <1>u, RowGrows DEF GoneGains
    <3> QED BY <3>1 DEF Comes
  <2>3. CASE ~IsPart(Kind(x)) /\ ~mergedOpen
    <3>1. UNCHANGED Containers
      BY <2>3, <1>u DEF Containers, Publish
    <3>2. RecTypes' /\ (\A m \in Message : Stays(m)) /\ \A j \in Stages : NeatIn(j)'
      <4>1. RecTypes'
        BY <3>1, <1>t DEF RecTypes, Containers
      <4>2. \A m \in Message : Stays(m)
        BY <3>1, InIs, StagesAre DEF Stays, Containers
      <4>3. \A j \in Stages : NeatIn(j)'
        BY <3>1, <1>t, NeatIs, StagesAre DEF Containers, PlaceInv
      <4> QED BY <4>1, <4>2, <4>3
    <3>3. Falls(x)
      BY <3>2, <1>g, <1>t DEF Falls, Stays, PlaceInv, GoneGains
    <3> QED BY <2>3, <3>2, <3>3
  <2> QED BY <2>1, <2>2, <2>3
<1>2. PlaceInv'
  <2>1. ASSUME NEW m \in Message PROVE Trip(m)
    <3>1. "merged" \in Stages /\ "buffer" \in Stages
      BY StagesAre
    <3>2. Gone(m)' <=> Gone(m) \/ m = x
      BY <1>g DEF GoneGains
    <3> QED BY <1>1, <1>u, <3>1, <3>2 DEF Trip
  <2> QED BY <2>1, <1>1, <1>t, <1>u, PlaceKept
<1>3. CloseInv'
  <2>1. Send(w)
    BY DEF Send
  <2>2. w # "soul" => x[1] # "soul"
    BY <1>p, <1>t DEF Msg, SendTypes, SenderOf
  <2>3. w # "soul" => \A m \in Message : m[1] = "soul" => Stays(m)
    BY <2>2, <1>1
  <2>4. ~mergedOpen => merged' = merged
    BY <1>u DEF Publish
  <2> QED BY <2>1, <2>3, <2>4, <1>t, SendCloses
<1>4. HandInv'
  <2>1. at[w] = "last" /\ at'[w] = "ready" /\ \A v \in Senders : v # w => at'[v] = at[v]
    BY <1>t, <1>u DEF HasSent, Sent, SendTypes
  <2>2. \A v \in Senders : at'[v] # "publish" => hand'[v] = <<>>
    BY <2>1, <1>t, <1>u DEF HandInv
  <2>3. \A v \in Senders : v # w => Msg(v)' = Msg(v)
    <3>1. \A v \in Senders : v # w => sending[v] # sending[w] /\ sending[v] \in Sources
      BY <1>t DEF SendTypes
    <3>2. \A q \in Sources : q # sending[w] => next'[q] = next[q]
      BY <1>t, <1>u DEF HasSent, Sent, SendTypes
    <3> QED BY <3>1, <3>2, <1>u DEF Msg
  <2>4. ASSUME NEW v \in Senders, at'[v] \in {"publish", "last"}, IsPart(Kind(Msg(v)))' PROVE buffer' = <<>>
    <3>1. v # w /\ at[v] \in {"publish", "last"} /\ Msg(v)' = Msg(v) /\ IsPart(Kind(Msg(v)))
      BY <2>1, <2>3, <2>4 DEF Kind, IsPart
    <3>2. CASE IsPart(Kind(x))
      <4>1. Kind(Msg(v)) \in Buffered /\ Kind(Msg(w)) \in Buffered /\ at[w] \in InSend /\ at[v] \in InSend
        BY <1>p, <3>1, <3>2, <2>1 DEF IsPart, Buffered, InSend
      <4> QED BY <3>1, <4>1, OneMerges
    <3>3. CASE ~IsPart(Kind(x))
      BY <3>1, <3>3, <1>t, <1>u DEF HandInv
    <3> QED BY <3>2, <3>3
  <2>5. \A m \in Message : \A l \in {"soul", "forward", "tool", "run", "buffer"} : In(l, m)' => Kind(m) \in Buffered
    <3>1. IsPart(Kind(x)) => Kind(x) \in Buffered
      BY DEF IsPart, Buffered
    <3> QED BY <3>1, <1>1, <1>t, StagesAre DEF Lands, Stays, Falls, HandInv, Hands
  <2>6. \A m \in Message : \A l \in {"soul", "forward", "tool", "run", "buffer"} : In(l, m)' => Kind(m)' \in Buffered
    BY <2>5 DEF Kind
  <2> QED BY <2>2, <2>4, <2>6, <1>t, <1>u DEF HandInv
<1> QED BY <1>1, <1>2, <1>3, <1>4 DEF RecordInv

-----------------------------------------------------------------------------
(* The other steps keep the record.                                           *)

\* The senders' part of HandInv, when they rest.
LEMMA HandsRest ==
  ASSUME HandInv, UNCHANGED <<next, at, sending>>, \A w \in Senders : hand'[w] = hand[w],
         buffer = <<>> => buffer' = <<>>,
         run' # "flushed" => hand'["run"] = <<>>, recorder' # "append" => taken' = <<>>,
         \A m \in Message : \/ Stays(m)
                            \/ \E l \in Rows \cup {"taken"} : Lands(m, l)
                            \/ In("buffer", m) \/ In("run", m)
  PROVE  HandInv'
<1>1. \A w \in Senders : Msg(w)' = Msg(w)
  BY DEF Msg
<1>2. \A w \in Senders : at'[w] \in {"publish", "last"} /\ IsPart(Kind(Msg(w)))' => buffer' = <<>>
  BY <1>1 DEF HandInv, IsPart, Kind
<1>3. ASSUME NEW m \in Message, NEW l \in {"soul", "forward", "tool", "run", "buffer"}, In(l, m)'
      PROVE  Kind(m)' \in Buffered
  <2>1. \/ In(l, m)
        \/ \E k \in Rows \cup {"taken"} : Lands(m, k)
        \/ In("buffer", m) \/ In("run", m)
    BY <1>3, StagesAre DEF Stays, Hands
  <2>2. ~\E k \in Rows \cup {"taken"} : Lands(m, k)
    BY <1>3, StagesAre DEF Lands, Rows, Hands
  <2> QED BY <2>1, <2>2 DEF HandInv, Kind
<1> QED BY <1>2, <1>3 DEF HandInv

LEMMA SoulGoesRecord ==
  ASSUME TurnInv, RecordInv, SoulGoes
  PROVE  RecordInv'
<1>t. SendTypes /\ SendInv /\ RunInv /\ RecTypes /\ PlaceInv /\ HandInv /\ CloseInv
  BY DEF TurnInv, RecordInv
<1>u. UNCHANGED Containers /\ UNCHANGED <<mergedOpen, run, result, recorder, sending>> /\ run = "run"
  BY DEF SoulGoes, Proceed, BeginStore, EndStore, Containers, recVars, wire
<1>1. RecTypes' /\ PlaceInv' /\ \A m \in Message : Stays(m)
  BY <1>t, <1>u, GoneSoul, ContainersRest
<1>2. CloseInv'
  BY <1>t, <1>u DEF CloseInv, RunInv, Containers
<1>3. HandInv'
  <2>1. /\ at["soul"] \notin {"publish", "last"} /\ at'["soul"] \notin {"publish", "last"}
        /\ \A v \in Senders : v # "soul" => at'[v] = at[v]
    BY <1>t DEF SoulGoes, Proceed, BeginStore, EndStore, SendTypes, Senders
  <2>2. \A v \in Senders : v # "soul" => Msg(v)' = Msg(v)
    <3>1. \A v \in Senders : v # "soul" => sending[v] # "soul" /\ sending[v] \in Sources
      BY <1>t DEF SendTypes, SenderOf
    <3>2. \A q \in Sources : q # "soul" => next'[q] = next[q]
      BY <1>t DEF SoulGoes, Proceed, BeginStore, EndStore, GoOn, SendTypes
    <3> QED BY <3>1, <3>2, <1>u DEF Msg
  <2>3. \A v \in Senders : at'[v] # "publish" => hand'[v] = <<>>
    BY <2>1, <1>t, <1>u DEF HandInv, Containers
  <2>4. \A v \in Senders : at'[v] \in {"publish", "last"} /\ IsPart(Kind(Msg(v)))' => buffer' = <<>>
    BY <2>1, <2>2, <1>t, <1>u DEF HandInv, Containers, IsPart, Kind
  <2>5. \A m \in Message : \A l \in {"soul", "forward", "tool", "run", "buffer"} : In(l, m)' => Kind(m)' \in Buffered
    BY <1>1, <1>t, StagesAre DEF Stays, HandInv, Kind, Hands
  <2> QED BY <2>3, <2>4, <2>5, <1>t, <1>u DEF HandInv, Containers
<1> QED BY <1>1, <1>2, <1>3 DEF RecordInv

\* When the turn ends or is cancelled, what is due is in the buffer or beyond.
LEMMA EndRecord ==
  ASSUME TurnInv, TurnInv', RecordInv, SoulEnds \/ Cancel
  PROVE  RecordInv'
<1>t. SendTypes /\ SendInv /\ RunInv /\ RecTypes /\ PlaceInv /\ HandInv /\ CloseInv
  BY DEF TurnInv, RecordInv
<1>u. UNCHANGED Containers /\ UNCHANGED <<mergedOpen, recorder, next, at, sending>>
      /\ run = "run" /\ run' = "flush" /\ result' \in {"ok", "cancelled"}
      /\ (result' = "cancelled" => at["soul"] \in {"ready", "storing"})
  BY TurnWireAssumption DEF SoulEnds, Cancel, Containers, sendVars, recVars, wire
<1>1. RecTypes' /\ PlaceInv' /\ \A m \in Message : Stays(m)
  BY <1>t, <1>u, GoneRests, ContainersRest
<1>2. HandInv'
  BY <1>1, <1>t, <1>u, HandsRest DEF Containers, HandInv
<1>3. ASSUME NEW m \in Message, Due(m)' PROVE \E l \in Rows \cup {"taken", "buffer"} : In(l, m)'
  <2>1. m[2] < next[m[1]] /\ (result' = "ok" \/ m[1] = "soul")
    BY <1>3, <1>u DEF Due
  <2>2. PICK l \in Stages : In(l, m)
    BY <2>1, <1>t, <1>u DEF PlaceInv, CloseInv, Gone
  <2>3. l # "run"
    BY <2>2, <1>t, <1>u, InIs, EmptyChunk DEF HandInv, Hands
  <2>4. ASSUME l \in Senders PROVE FALSE
    <3>1. at[l] = "publish"
      BY <2>2, <2>4, <1>t, InIs, EmptyChunk DEF HandInv, Hands, Senders
    <3>2. CASE result' = "ok"
      BY <3>1, <3>2, <2>4, <1>u DEF TurnInv, RunInv
    <3>3. CASE result' # "ok"
      <4>1. m[1] = "soul" /\ at["soul"] \in {"ready", "storing"} /\ l # "soul"
        BY <2>1, <3>1, <3>3, <1>u
      <4>2. Kind(m) \in Buffered
        BY <2>2, <2>4, <1>t DEF HandInv, Senders
      <4> QED BY <3>1, <4>1, <4>2, <2>4, SoulAlone
    <3> QED BY <3>2, <3>3
  <2>5. l \in Rows \cup {"taken", "buffer"}
    BY <2>2, <2>3, <2>4 DEF Stages, Rows, Senders
  <2>6. In(l, m)'
    BY <2>2, <1>1 DEF Stays
  <2> QED BY <2>5, <2>6
<1>4. CloseInv'
  <2>1. \A m \in Message : Due(m)' => (\E l \in Way : In(l, m))'
    BY <1>3, <1>u DEF Way
  <2> QED BY <2>1, <1>t, <1>u DEF CloseInv, Containers
<1> QED BY <1>1, <1>2, <1>4 DEF RecordInv

\* Wire::shutdown takes the buffer, publishes it, and closes the queues.
LEMMA FlushRecord ==
  ASSUME TurnInv, RecordInv, Flush
  PROVE  RecordInv'
<1>t. SendTypes /\ SendInv /\ RunInv /\ RecTypes /\ PlaceInv /\ HandInv /\ CloseInv
  BY DEF TurnInv, RecordInv
<1>u. /\ UNCHANGED <<taken, stored, failed, merged>> /\ UNCHANGED <<mergedOpen, recorder, result, next, at, sending>>
      /\ run = "flush" /\ run' = "flushed"
      /\ hand' = [hand EXCEPT !["run"] = buffer] /\ buffer' = <<>>
  BY DEF Flush, recVars
<1>h. hand["run"] = <<>> /\ "run" \in Hands /\ "run" \in Stages /\ "buffer" \in Stages
  BY <1>t, <1>u, StagesAre DEF HandInv, Hands
<1>1. /\ RecTypes' /\ \A j \in Stages : NeatIn(j)'
      /\ \A m \in Message : In("buffer", m) => Lands(m, "run")
      /\ \A m \in Message : ~In("buffer", m) => Stays(m)
  <2>1. CASE Message = {}
    <3>1. RecTypes'
      BY <1>t, <1>u, <1>h DEF RecTypes
    <3>2. Neat(hand'["run"]) /\ \A k \in Hands : k # "run" => hand'[k] = hand[k]
      BY <1>t, <1>u, <1>h, NeatIs DEF RecTypes, PlaceInv, Hands, Senders
    <3>3. \A j \in Stages : NeatIn(j)'
      BY <1>t, <1>u, <3>2, NeatIs, StagesAre, EmptyChunk DEF PlaceInv
    <3> QED BY <2>1, <3>1, <3>3
  <2>2. CASE Message # {}
    <3>1. PICK x \in Message : TRUE
      BY <2>2
    <3> QED BY <1>t, <1>u, <1>h, BufferTaken
  <2> QED BY <2>1, <2>2
<1>g. \A m \in Message : Gone(m)' <=> Gone(m)
  BY <1>u, GoneRests DEF GoneSame
<1>2. PlaceInv'
  <2>1. ASSUME NEW m \in Message PROVE Trip(m)
    BY <1>1, <1>g, <1>h, <1>t DEF Trip, PlaceInv
  <2> QED BY <2>1, <1>1, <1>t, <1>u, PlaceKept
<1>3. HandInv'
  <2>1. \A w \in Senders : hand'[w] = hand[w]
    BY <1>t, <1>u DEF RecTypes, Senders
  <2> QED BY <2>1, <1>1, <1>t, <1>u, HandsRest DEF HandInv
<1>4. CloseInv'
  <2>1. ASSUME NEW m \in Message, Due(m)' PROVE \E l \in Rows \cup {"taken", "run"} : In(l, m)'
    <3>1. PICK l \in Rows \cup {"taken", "buffer"} : In(l, m)
      BY <2>1, <1>t, <1>u DEF CloseInv, Due, Way
    <3>2. CASE In("buffer", m)
      BY <3>2, <1>1, <1>h DEF Lands
    <3>3. CASE ~In("buffer", m)
      <4>1. l # "buffer" /\ l \in Stages
        BY <3>1, <3>3 DEF Stages
      <4> QED BY <4>1, <3>1, <3>3, <1>1 DEF Stays
    <3> QED BY <3>2, <3>3
  <2>2. \A m \in Message : Due(m)' => (\E l \in Way : In(l, m))'
    BY <2>1, <1>u DEF Way
  <2> QED BY <2>2, <1>t, <1>u DEF CloseInv
<1> QED BY <1>1, <1>2, <1>3, <1>4 DEF RecordInv

LEMMA FlushedRecord ==
  ASSUME TurnInv, RecordInv, PublishFlushed
  PROVE  RecordInv'
<1>t. SendTypes /\ SendInv /\ RunInv /\ RecTypes /\ PlaceInv /\ HandInv /\ CloseInv
  BY DEF TurnInv, RecordInv
<1>u. /\ UNCHANGED <<taken, stored, failed, buffer>> /\ UNCHANGED <<mergedOpen, recorder, result, next, at, sending>>
      /\ run = "flushed" /\ run' = "close" /\ mergedOpen
      /\ Publish(hand["run"]) /\ hand' = [hand EXCEPT !["run"] = <<>>]
  BY <1>t DEF PublishFlushed, recVars, CloseInv
<1>h. "run" \in Hands /\ "run" \in Stages /\ "merged" \in Stages /\ "merged" \in Rows
  BY StagesAre DEF Hands, Rows
<1>1. RecTypes' /\ Moves("run", "merged")
  BY <1>t, <1>u, <1>h, HandPublished
<1>g. \A m \in Message : Gone(m)' <=> Gone(m)
  BY <1>u, GoneRests DEF GoneSame
<1>2. PlaceInv'
  <2>1. ASSUME NEW m \in Message PROVE Trip(m)
    BY <1>1, <1>g, <1>h, <1>t DEF Trip, PlaceInv, Moves
  <2> QED BY <2>1, <1>1, <1>t, <1>u, PlaceKept DEF Moves
<1>3. HandInv'
  <2>1. \A w \in Senders : hand'[w] = hand[w]
    BY <1>t, <1>u DEF RecTypes, Senders
  <2>2. hand'["run"] = <<>>
    BY <1>t, <1>u DEF RecTypes
  <2> QED BY <2>1, <2>2, <1>1, <1>h, <1>t, <1>u, HandsRest DEF HandInv, Moves
<1>4. CloseInv'
  <2>1. ASSUME NEW m \in Message, Due(m)' PROVE \E l \in Rows \cup {"taken"} : In(l, m)'
    <3>1. PICK l \in Rows \cup {"taken", "run"} : In(l, m)
      BY <2>1, <1>t, <1>u DEF CloseInv, Due, Way
    <3>2. CASE In("run", m)
      BY <3>2, <1>1, <1>h DEF Lands, Moves
    <3>3. CASE ~In("run", m)
      <4>1. l # "run" /\ l \in Stages
        BY <3>1, <3>3 DEF Stages
      <4> QED BY <4>1, <3>1, <3>3, <1>1 DEF Stays, Moves
    <3> QED BY <3>2, <3>3
  <2>2. \A m \in Message : Due(m)' => (\E l \in Way : In(l, m))'
    BY <2>1, <1>u DEF Way
  <2> QED BY <2>2, <1>t, <1>u DEF CloseInv
<1> QED BY <1>1, <1>2, <1>3, <1>4 DEF RecordInv

\* A step that moves nothing, and closes a queue or passes a gate.
LEMMA GatesRecord ==
  ASSUME TurnInv, RecordInv, CloseRaw \/ CloseMerged \/ JoinRecorder \/ Return
  PROVE  RecordInv'
<1>t. SendTypes /\ SendInv /\ RunInv /\ RecTypes /\ PlaceInv /\ HandInv /\ CloseInv
  BY DEF TurnInv, RecordInv
<1>u. UNCHANGED Containers /\ UNCHANGED <<recorder, result, next, at, sending>>
      /\ run \in {"close", "join", "ui"} /\ run' \in {"close", "join", "ui", "returned"}
      /\ mergedOpen' \in BOOLEAN /\ (mergedOpen' <=> run' = "close")
      /\ (mergedOpen' => mergedOpen) /\ (run' \in {"ui", "returned"} => recorder = "done")
  <2>c. mergedOpen \in BOOLEAN /\ (mergedOpen <=> run \notin {"join", "ui", "returned"})
        /\ (run \in {"ui", "returned"} => recorder = "done")
    BY <1>t DEF CloseInv
  <2>1. CASE CloseRaw
    BY <2>1, <2>c DEF CloseRaw, Containers, sendVars, recVars
  <2>2. CASE CloseMerged
    BY <2>2, <2>c DEF CloseMerged, Containers, sendVars, recVars
  <2>3. CASE JoinRecorder
    BY <2>3, <2>c DEF JoinRecorder, Containers, sendVars, recVars, wire
  <2>4. CASE Return
    BY <2>4, <2>c DEF Return, Containers, sendVars, recVars, wire
  <2> QED BY <2>1, <2>2, <2>3, <2>4
<1>1. RecTypes' /\ PlaceInv' /\ \A m \in Message : Stays(m)
  BY <1>t, <1>u, GoneRests, ContainersRest
<1>2. HandInv'
  BY <1>1, <1>t, <1>u, HandsRest DEF Containers, HandInv
<1>3. ASSUME NEW m \in Message, Due(m)' PROVE \E l \in Rows \cup {"taken"} : In(l, m)'
  <2>1. PICK l \in Rows \cup {"taken"} : In(l, m)
    BY <1>3, <1>t, <1>u DEF CloseInv, Due, Way
  <2> QED BY <2>1, <1>1 DEF Stays, Stages
<1>4. CloseInv'
  <2>1. \A m \in Message : Due(m)' => (\E l \in Way : In(l, m))'
    BY <1>3, <1>u DEF Way
  <2> QED BY <2>1, <1>t, <1>u DEF CloseInv, Containers
<1> QED BY <1>1, <1>2, <1>4 DEF RecordInv

\* The recorder moves what is due towards the record.
LEMMA RecorderRecord ==
  ASSUME TurnInv, RecordInv, Others
  PROVE  RecordInv'
<1>t. SendTypes /\ SendInv /\ RunInv /\ RecTypes /\ PlaceInv /\ HandInv /\ CloseInv
  BY DEF TurnInv, RecordInv
<1>u. UNCHANGED <<hand, buffer, mergedOpen, run, result, next, at, sending>>
  BY DEF Others, Recorder, RecorderTakes, RecorderAppends, RecorderEnds, UiLoop, UiShows, UiEnds, Answer,
         vars, sendVars, wire
<1>g. \A m \in Message : Gone(m)' <=> Gone(m)
  BY <1>u, GoneRests DEF GoneSame
<1>r. recorder' \in {"get", "append", "done"} /\ (run' \in {"ui", "returned"} => recorder' = "done")
      /\ (recorder' = "done" => merged' = <<>> /\ ~mergedOpen)
      /\ (recorder' # "append" => taken' = <<>>)
  BY <1>t, <1>u DEF Others, Recorder, RecorderTakes, RecorderAppends, RecorderEnds, UiLoop, UiShows, UiEnds,
     Answer, vars, recVars, wire, CloseInv, HandInv
<1>1. /\ RecTypes' /\ \A j \in Stages : NeatIn(j)'
      /\ \A m \in Message : \/ Stays(m)
                            \/ \E l \in Rows \cup {"taken"} : Lands(m, l) /\ \E k \in Stages : In(k, m)
  <2>1. CASE RecorderTakes
    <3>1. taken = <<>> /\ merged # <<>> /\ taken' = Head(merged) /\ merged' = Tail(merged)
          /\ UNCHANGED <<hand, stored, failed, buffer>>
      BY <2>1, <1>t, <1>u DEF RecorderTakes, HandInv
    <3>2. /\ RecTypes' /\ \A j \in Stages : NeatIn(j)'
          /\ \A m \in Message : Stays(m) \/ (In("merged", m) /\ Lands(m, "taken"))
      BY <3>1, <1>t, RowTaken
    <3> QED BY <3>2, StagesAre
  <2>2. CASE RecorderAppends
    <3>1. /\ taken' = <<>> /\ UNCHANGED <<hand, merged, buffer>>
          /\ \/ stored' = Append(stored, taken) /\ UNCHANGED failed
             \/ failed' = Append(failed, taken) /\ UNCHANGED stored
      BY <2>2 DEF RecorderAppends, sendVars, wire
    <3>2. RecTypes' /\ (Moves("taken", "stored") \/ Moves("taken", "failed"))
      BY <3>1, <1>t, ChunkAppended
    <3> QED BY <3>2, StagesAre DEF Moves, Rows
  <2>3. CASE ~RecorderTakes /\ ~RecorderAppends
    <3>1. UNCHANGED Containers
      BY <2>3, <1>u DEF Others, Recorder, RecorderEnds, UiLoop, UiShows, UiEnds, Answer,
         vars, sendVars, wire, recVars, Containers
    <3>2. RecTypes' /\ PlaceInv' /\ \A m \in Message : Stays(m)
      BY <3>1, <1>t, <1>u, GoneRests, ContainersRest
    <3> QED BY <3>2 DEF PlaceInv
  <2> QED BY <2>1, <2>2, <2>3
<1>2. PlaceInv'
  <2>1. ASSUME NEW m \in Message PROVE Trip(m)
    <3>1. Rows \cup {"taken"} \subseteq Stages
      BY DEF Stages
    <3> QED BY <3>1, <1>1, <1>g, <1>t DEF Trip, PlaceInv
  <2> QED BY <2>1, <1>1, <1>t, <1>u, PlaceKept
<1>3. HandInv'
  BY <1>1, <1>r, <1>t, <1>u, HandsRest DEF HandInv
<1>4. CloseInv'
  <2>1. ASSUME run # "run", NEW m \in Message, Due(m)' PROVE \E l \in Way : In(l, m)'
    <3>1. PICK l \in Way : In(l, m)
      BY <2>1, <1>t, <1>u DEF CloseInv, Due
    <3>2. l \in Stages /\ \A k \in Rows \cup {"taken"} : k \in Stages /\ k \in Way
      BY DEF Way, Stages
    <3> QED BY <3>1, <3>2, <1>1 DEF Stays, Lands
  <2>2. run # "run" => \A m \in Message : Due(m)' => (\E l \in Way : In(l, m))'
    BY <2>1, <1>u DEF Way
  <2> QED BY <2>2, <1>r, <1>t, <1>u DEF CloseInv
<1> QED BY <1>1, <1>2, <1>3, <1>4 DEF RecordInv

LEMMA RecordStep ==
  ASSUME TurnInv, RecordInv, [Next]_vars
  PROVE  RecordInv'
<1>1. ASSUME NEW w \in Senders, Send(w) PROVE RecordInv'
  BY <1>1, RawKeeps, JoinKeeps, TakeKeeps, PublishTakenKeeps, FinishKeeps DEF Send
<1>2. CASE SoulGoes
  BY <1>2, SoulGoesRecord
<1>3. CASE SoulEnds \/ Cancel
  BY <1>3, TurnStep, EndRecord
<1>4. CASE RunSoul
  BY <1>4, FlushRecord, FlushedRecord, GatesRecord DEF RunSoul
<1>5. CASE Others
  BY <1>5, RecorderRecord
<1> QED BY <1>1, <1>2, <1>3, <1>4, <1>5, StepKinds

LEMMA RecordInit == Init => RecordInv
<1> SUFFICES ASSUME Init PROVE RecordInv
  OBVIOUS
<1>1. /\ \A k \in Hands : hand[k] = <<>>
      /\ buffer = <<>> /\ taken = <<>> /\ stored = <<>> /\ failed = <<>> /\ merged = <<>>
      /\ mergedOpen = TRUE /\ run = "run" /\ result = "none" /\ recorder = "get"
      /\ \A w \in Senders : at[w] = "ready"
  BY DEF Init, Hands, Senders
<1>2. RecTypes
  <2>1. hand \in [Senders \cup {"run"} -> Seq(Message)]
    BY DEF Init
  <2> QED BY <2>1, <1>1 DEF RecTypes
<1>3. \A l \in Stages : NeatIn(l) /\ \A m \in Message : ~In(l, m)
  BY <1>1, InIs, NeatIs, StagesAre, EmptyChunk
<1>4. \A m \in Message : ~Gone(m)
  <2>1. \A s \in Sources : next[s] = 1
    BY DEF Init
  <2> QED BY <2>1, <1>1, MessageIs DEF Gone
<1>5. PlaceInv
  BY <1>3, <1>4 DEF PlaceInv
<1>6. HandInv
  <2>1. \A w \in Senders : w \in Hands
    BY DEF Senders, Hands
  <2> QED BY <2>1, <1>1, <1>3, StagesAre DEF HandInv, Hands
<1>7. CloseInv
  BY <1>1 DEF CloseInv
<1> QED BY <1>2, <1>5, <1>6, <1>7 DEF RecordInv

-----------------------------------------------------------------------------
(* The record is whole.                                                       *)

\* Where a message is, and which chunks have it, are the same question.
LEMMA PlacesAre ==
  ASSUME NEW chunks \in Seq(Seq(Message)), NEW m \in Message
  PROVE  /\ Places(m, chunks) # {} <=> HasRow(chunks, m)
         /\ NeatRow(chunks) => \A p, q \in Places(m, chunks) : p = q
<1>1. \A i \in DOMAIN chunks : chunks[i] \in Seq(Message)
  OBVIOUS
<1>2. /\ DOMAIN chunks = 1 .. Len(chunks)
      /\ \A i \in DOMAIN chunks : DOMAIN chunks[i] = 1 .. Len(chunks[i])
  BY <1>1
<1>3. \A p : p \in Places(m, chunks) <=>
         \E i \in 1 .. Len(chunks) : \E j \in 1 .. Len(chunks[i]) : p = <<i, j>> /\ chunks[i][j] = m
  BY <1>2 DEF Places
<1>4. Places(m, chunks) # {} <=> HasRow(chunks, m)
  <2>1. ASSUME HasRow(chunks, m) PROVE Places(m, chunks) # {}
    <3>1. PICK i \in 1 .. Len(chunks) : \E j \in 1 .. Len(chunks[i]) : chunks[i][j] = m
      BY <2>1 DEF HasRow, Has
    <3>2. PICK j \in 1 .. Len(chunks[i]) : chunks[i][j] = m
      BY <3>1
    <3>3. <<i, j>> \in Places(m, chunks)
      BY <3>2, <1>3
    <3> QED BY <3>3
  <2>2. ASSUME Places(m, chunks) # {} PROVE HasRow(chunks, m)
    BY <2>2, <1>3 DEF HasRow, Has
  <2> QED BY <2>1, <2>2
<1>5. ASSUME NeatRow(chunks), NEW p \in Places(m, chunks), NEW q \in Places(m, chunks)
      PROVE  p = q
  <2>1. PICK i \in 1 .. Len(chunks) : \E j \in 1 .. Len(chunks[i]) : p = <<i, j>> /\ chunks[i][j] = m
    BY <1>3
  <2>2. PICK j \in 1 .. Len(chunks[i]) : p = <<i, j>> /\ chunks[i][j] = m
    BY <2>1
  <2>3. PICK k \in 1 .. Len(chunks) : \E n \in 1 .. Len(chunks[k]) : q = <<k, n>> /\ chunks[k][n] = m
    BY <1>3
  <2>4. PICK n \in 1 .. Len(chunks[k]) : q = <<k, n>> /\ chunks[k][n] = m
    BY <2>3
  <2>5. i = k
    BY <1>5, <2>2, <2>4 DEF NeatRow, Has
  <2>6. j = n
    BY <1>5, <2>2, <2>4, <2>5 DEF NeatRow, Neat
  <2> QED BY <2>2, <2>4, <2>5, <2>6
<1> QED BY <1>4, <1>5

\* The chunks on their way, one after the other.
LEMMA ChunksAre ==
  ASSUME RecTypes, PlaceInv
  PROVE  /\ Chunks \in Seq(Seq(Message)) /\ NeatRow(Chunks)
         /\ \A m \in Message : HasRow(Chunks, m) <=> \E l \in Stages : In(l, m)
<1> DEFINE one == <<taken>>
           five == <<hand["soul"], hand["forward"], hand["tool"], hand["run"], buffer>>
<1>t. /\ stored \in Seq(Seq(Message)) /\ failed \in Seq(Seq(Message)) /\ merged \in Seq(Seq(Message))
      /\ taken \in Seq(Message) /\ buffer \in Seq(Message)
      /\ \A k \in Hands : hand[k] \in Seq(Message)
  BY DEF RecTypes, Hands, Senders
<1>n. /\ NeatRow(stored) /\ NeatRow(failed) /\ NeatRow(merged) /\ Neat(taken) /\ Neat(buffer)
      /\ \A k \in Hands : Neat(hand[k])
  BY NeatIs, StagesAre DEF PlaceInv
<1>o. \A m \in Message : \A k, l \in Stages : In(k, m) /\ In(l, m) => k = l
  BY DEF PlaceInv
<1>1. /\ one \in Seq(Seq(Message)) /\ NeatRow(one)
      /\ \A m \in Message : HasRow(one, m) <=> Has(taken, m)
  <2>1. one \in Seq(Seq(Message)) /\ Len(one) = 1 /\ one[1] = taken /\ 1 .. 1 = {1}
    BY <1>t
  <2> HIDE DEF one
  <2> QED BY <2>1, <1>n DEF NeatRow, HasRow
<1>2. /\ five \in Seq(Seq(Message)) /\ NeatRow(five)
      /\ \A m \in Message : HasRow(five, m) <=> (\E k \in Hands : Has(hand[k], m)) \/ Has(buffer, m)
  <2>1. /\ five \in Seq(Seq(Message)) /\ Len(five) = 5 /\ 1 .. 5 = {1, 2, 3, 4, 5}
        /\ five[1] = hand["soul"] /\ five[2] = hand["forward"] /\ five[3] = hand["tool"]
        /\ five[4] = hand["run"] /\ five[5] = buffer
    BY <1>t DEF Hands
  <2>2. \A i \in 1 .. 5 : Neat(five[i])
    BY <2>1, <1>n DEF Hands
  <2>3. ASSUME NEW m \in Message
        PROVE  /\ \A i, j \in 1 .. 5 : Has(five[i], m) /\ Has(five[j], m) => i = j
               /\ HasRow(five, m) <=> (\E k \in Hands : Has(hand[k], m)) \/ Has(buffer, m)
    <3>1. /\ In("soul", m) <=> Has(five[1], m)
          /\ In("forward", m) <=> Has(five[2], m)
          /\ In("tool", m) <=> Has(five[3], m)
          /\ In("run", m) <=> Has(five[4], m)
          /\ In("buffer", m) <=> Has(five[5], m)
      BY <2>1, InIs DEF Hands
    <3>2. {"soul", "forward", "tool", "run", "buffer"} \subseteq Stages
      BY StagesAre DEF Hands
    <3>3. \A i, j \in {1, 2, 3, 4, 5} : Has(five[i], m) /\ Has(five[j], m) => i = j
      <4> HIDE DEF five
      <4> QED BY <3>1, <3>2, <1>o
    <3>4. HasRow(five, m) <=> \E i \in {1, 2, 3, 4, 5} : Has(five[i], m)
      BY <2>1 DEF HasRow
    <3>5. (\E i \in {1, 2, 3, 4, 5} : Has(five[i], m)) <=>
            (\E k \in Hands : Has(hand[k], m)) \/ Has(buffer, m)
      BY <2>1 DEF Hands
    <3> QED BY <2>1, <3>3, <3>4, <3>5
  <2> HIDE DEF five
  <2>4. NeatRow(five)
    BY <2>1, <2>2, <2>3 DEF NeatRow
  <2> QED BY <2>1, <2>3, <2>4
<1>3. Chunks = (((stored \o failed) \o one) \o merged) \o five
  BY DEF Chunks
<1> HIDE DEF one, five
<1>i. \A m \in Message :
        /\ (HasRow(stored, m) <=> In("stored", m)) /\ (HasRow(failed, m) <=> In("failed", m))
        /\ (HasRow(one, m) <=> In("taken", m)) /\ (HasRow(merged, m) <=> In("merged", m))
        /\ HasRow(five, m) <=> (\E k \in Hands : In(k, m)) \/ In("buffer", m)
  BY <1>1, <1>2, InIs
<1>d. \A m \in Message : \A k \in Hands \cup {"buffer"} :
        /\ ~(In("stored", m) /\ In("failed", m)) /\ ~(In("stored", m) /\ In("taken", m))
        /\ ~(In("failed", m) /\ In("taken", m)) /\ ~(In("stored", m) /\ In("merged", m))
        /\ ~(In("failed", m) /\ In("merged", m)) /\ ~(In("taken", m) /\ In("merged", m))
        /\ ~(In("stored", m) /\ In(k, m)) /\ ~(In("failed", m) /\ In(k, m))
        /\ ~(In("taken", m) /\ In(k, m)) /\ ~(In("merged", m) /\ In(k, m))
  BY <1>o, StagesAre DEF Hands
<1> DEFINE two == stored \o failed
<1>4. /\ two \in Seq(Seq(Message)) /\ NeatRow(two)
      /\ \A m \in Message : HasRow(two, m) <=> In("stored", m) \/ In("failed", m)
  BY <1>t, <1>n, <1>i, <1>d, JoinedRows
<1> HIDE DEF two
<1> DEFINE three == two \o one
<1>5. /\ three \in Seq(Seq(Message)) /\ NeatRow(three)
      /\ \A m \in Message : HasRow(three, m) <=> In("stored", m) \/ In("failed", m) \/ In("taken", m)
  BY <1>1, <1>4, <1>i, <1>d, JoinedRows
<1> HIDE DEF three
<1> DEFINE four == three \o merged
<1>6. /\ four \in Seq(Seq(Message)) /\ NeatRow(four)
      /\ \A m \in Message : HasRow(four, m) <=>
           In("stored", m) \/ In("failed", m) \/ In("taken", m) \/ In("merged", m)
  BY <1>t, <1>n, <1>5, <1>i, <1>d, JoinedRows
<1> HIDE DEF four
<1>7. /\ four \o five \in Seq(Seq(Message)) /\ NeatRow(four \o five)
      /\ \A m \in Message : HasRow(four \o five, m) <=> HasRow(four, m) \/ HasRow(five, m)
  BY <1>2, <1>6, <1>i, <1>d, JoinedRows
<1>8. Chunks = four \o five
  BY <1>3 DEF two, three, four
<1>9. \A m \in Message : HasRow(Chunks, m) <=> \E l \in Stages : In(l, m)
  BY <1>6, <1>7, <1>8, <1>i, StagesAre
<1> QED BY <1>7, <1>8, <1>9

\* The record of a turn is whole: on its way nothing is lost or doubled, however
\* the tasks take the buffer from one another, and when the turn has returned it
\* has arrived: all that was sent in a turn that ran to its end, and of a
\* cancelled one all that the soul itself sent. (channel.rs:79-227)
THEOREM RecordArrives == Spec => []RecordIsWhole
<1> DEFINE Inv == TurnInv /\ RecordInv
<1>1. Init => Inv
  BY TurnInit, RecordInit
<1>2. Inv /\ [Next]_vars => Inv'
  BY TurnStep, RecordStep
<1>3. Inv => RecordIsWhole
  <2> SUFFICES ASSUME TurnInv, RecordInv PROVE KeptOnce /\ TurnIsRecorded
    BY DEF RecordIsWhole
  <2>t. RecTypes /\ PlaceInv /\ CloseInv
    BY DEF RecordInv
  <2>1. KeptOnce
    <3> SUFFICES ASSUME NEW m \in Message
                 PROVE  /\ \A p, q \in Places(m, Chunks) : p = q
                        /\ m[2] < next[m[1]] /\ mergedOpen => Places(m, Chunks) # {}
      BY DEF KeptOnce
    <3>1. \A p, q \in Places(m, Chunks) : p = q
      BY <2>t, ChunksAre, PlacesAre
    <3>2. ASSUME m[2] < next[m[1]], mergedOpen PROVE Places(m, Chunks) # {}
      <4>1. \E l \in Stages : In(l, m)
        BY <3>2, <2>t DEF PlaceInv, Gone
      <4> QED BY <4>1, <2>t, ChunksAre, PlacesAre
    <3> QED BY <3>1, <3>2
  <2>2. TurnIsRecorded
    <3> SUFFICES ASSUME run = "returned", NEW m \in Message, m[2] < next[m[1]], result = "ok" \/ m[1] = "soul"
                 PROVE  Places(m, stored \o failed) # {}
      BY DEF TurnIsRecorded
    <3>1. PICK l \in Rows \cup {"taken"} : In(l, m)
      BY <2>t DEF CloseInv, Due, Way
    <3>2. merged = <<>> /\ taken = <<>>
      BY <2>t DEF CloseInv, RecordInv, HandInv
    <3>3. In("stored", m) \/ In("failed", m)
      <4>1. ~In("merged", m) /\ ~In("taken", m)
        BY <3>2, InIs, EmptyChunk
      <4> QED BY <3>1, <4>1 DEF Rows
    <3>4. stored \in Seq(Seq(Message)) /\ failed \in Seq(Seq(Message)) /\ NeatRow(stored) /\ NeatRow(failed)
      BY <2>t, NeatIs, StagesAre DEF RecTypes, PlaceInv
    <3>5. \A n \in Message : ~(HasRow(stored, n) /\ HasRow(failed, n))
      <4>1. "stored" \in Stages /\ "failed" \in Stages
        BY StagesAre
      <4> QED BY <4>1, <2>t, InIs, OnlyIn
    <3>6. stored \o failed \in Seq(Seq(Message)) /\ HasRow(stored \o failed, m)
      BY <3>3, <3>4, <3>5, InIs, JoinedRows
    <3> QED BY <3>6, PlacesAre
  <2> QED BY <2>1, <2>2
<1> HIDE DEF Inv
<1> QED BY <1>1, <1>2, <1>3, PTL DEF Spec

-----------------------------------------------------------------------------
(* The turn implements TurnLog. What the log sees of the turn is View.        *)

SentSet == {m \in Message : Published(m)}
SeenSet == {shown[i] : i \in DOMAIN shown}
KeptSet == {m \in Message : Recorded(m)}
End     == IF run = "returned" THEN result ELSE "none"

View == <<SentSet, SeenSet, KeptSet, End>>

LogInv == TurnInv /\ SeenInv /\ AskInv /\ RecordInv

LEMMA ViewRests ==
  ASSUME UNCHANGED View
  PROVE  UNCHANGED Log!logVars
BY DEF View, SentSet, SeenSet, KeptSet, End, Log!logVars

\* What two sequences of chunks hold, one after the other.
LEMMA PlacesJoined ==
  ASSUME NEW a \in Seq(Seq(Message)), NEW b \in Seq(Seq(Message)), NeatRow(a), NeatRow(b),
         \A m \in Message : ~(HasRow(a, m) /\ HasRow(b, m))
  PROVE  \A m \in Message : Places(m, a \o b) # {} <=> HasRow(a, m) \/ HasRow(b, m)
BY JoinedRows, PlacesAre

LEMMA RecordedIs ==
  ASSUME RecTypes, PlaceInv
  PROVE  \A m \in Message : Recorded(m) <=> In("stored", m) \/ In("failed", m)
<1>1. stored \in Seq(Seq(Message)) /\ failed \in Seq(Seq(Message)) /\ NeatRow(stored) /\ NeatRow(failed)
  BY NeatIs, StagesAre DEF RecTypes, PlaceInv
<1>2. \A n \in Message : ~(HasRow(stored, n) /\ HasRow(failed, n))
  <2>1. "stored" \in Stages /\ "failed" \in Stages
    BY StagesAre
  <2> QED BY <2>1, InIs, OnlyIn
<1> QED BY <1>1, <1>2, PlacesJoined, InIs DEF Recorded

\* A message comes, and otherwise nothing changes that the log sees.
LEMMA LogSends ==
  ASSUME LogInv, NEW s \in Sources, PublishRaw(s), Begins(s), UNCHANGED RunVars
  PROVE  \E m \in Message : Log!Send(m)
<1> DEFINE m == <<s, next[s]>>
<1>1. /\ m \in Message /\ ~Published(m)
      /\ \A n \in Message : Published(n)' <=> Published(n) \/ n = m
  BY PublishedBegins DEF LogInv
<1>2. m \notin SentSet /\ SentSet' = SentSet \cup {m}
  BY <1>1 DEF SentSet
<1>3. UNCHANGED <<SeenSet, KeptSet, End>>
  BY DEF PublishRaw, uiVars, recVars, SeenSet, KeptSet, End, Recorded
<1>4. End # "ok" /\ (End = "cancelled" => m[1] # "soul")
  <2>1. ~Over(s) /\ (s = "soul" => run = "run")
    BY DEF Begins, HasMessage
  <2>2. result = "ok" => Over(s)
    BY DEF LogInv, TurnInv, RunInv
  <2> QED BY <2>1, <2>2 DEF End
<1> HIDE DEF m
<1> QED BY <1>1, <1>2, <1>3, <1>4 DEF Log!Send, SentSet, SeenSet, KeptSet, End

\* The other steps of the senders and of the soul change nothing that it sees.
LEMMA LogWaits ==
  ASSUME LogInv, NEW w \in Senders, GoesOn(w) \/ HasSent(w) \/ SoulGoes,
         UNCHANGED <<shown, stored, failed, run, result>>
  PROVE  UNCHANGED View
<1>1. \A m \in Message : Published(m)' <=> Published(m)
  BY PublishedSame DEF LogInv
<1> QED BY <1>1 DEF View, SentSet, SeenSet, KeptSet, End, Recorded

LEMMA LogSame ==
  ASSUME UNCHANGED <<next, at, sending, shown, stored, failed>>,
         (run' = "returned" <=> run = "returned"), run = "returned" => result' = result
  PROVE  UNCHANGED View
<1>1. \A m \in Message : Published(m)' <=> Published(m)
  BY DEF Published, Msg
<1> QED BY <1>1 DEF View, SentSet, SeenSet, KeptSet, End, Recorded

\* When a turn that ran to its end may return, the client has seen all of it.
LEMMA AllSeen ==
  ASSUME LogInv, ui = "done", result = "ok"
  PROVE  SentSet \subseteq SeenSet
<1>1. raw = <<>> /\ shown \in Seq(Message)
  BY DEF LogInv, AskInv, SeenInv
<1>2. Seen = shown /\ DOMAIN shown = 1 .. Len(shown)
  BY <1>1 DEF Seen
<1>3. \A m \in Message : Published(m) => \E i \in 1 .. Len(Seen) : Seen[i] = m
  BY DEF LogInv, SeenInv
<1> QED BY <1>2, <1>3 DEF SentSet, SeenSet

\* When the recorder has been joined, all that is due is in the record.
LEMMA DueKept ==
  ASSUME LogInv, run = "ui", NEW m \in SentSet, result = "ok" \/ m[1] = "soul"
  PROVE  m \in KeptSet
<1>t. SendTypes /\ RunInv /\ RecTypes /\ PlaceInv /\ HandInv /\ CloseInv
  BY DEF LogInv, TurnInv, RecordInv
<1>0. m \in Message /\ Published(m)
  BY DEF SentSet
<1>1. m[2] < next[m[1]]
  <2>1. ASSUME NEW w \in Senders, at[w] \in InSend, m = Msg(w) PROVE FALSE
    <3>1. result \in {"ok", "cancelled"}
      BY <1>t DEF RunInv
    <3>2. CASE result = "ok"
      BY <3>2, <2>1, <1>t DEF RunInv, InSend
    <3>3. CASE result = "cancelled"
      <4>1. m[1] = "soul" /\ sending[w] = "soul"
        BY <3>3, <2>1 DEF Msg
      <4>2. w = "soul"
        BY <4>1, <1>t DEF SendTypes, SenderOf
      <4> QED BY <4>2, <3>3, <2>1, <1>t DEF CloseInv, InSend
    <3> QED BY <3>1, <3>2, <3>3
  <2> QED BY <1>0, <2>1 DEF Published
<1>2. PICK l \in Rows \cup {"taken"} : In(l, m)
  BY <1>0, <1>1, <1>t DEF CloseInv, Due, Way
<1>3. merged = <<>> /\ taken = <<>>
  BY <1>t DEF CloseInv, HandInv
<1>4. ~In("merged", m) /\ ~In("taken", m)
  BY <1>3, InIs, EmptyChunk
<1>5. Recorded(m)
  BY <1>0, <1>2, <1>4, <1>t, RecordedIs DEF Rows
<1> QED BY <1>0, <1>5 DEF KeptSet

LEMMA LogReturns ==
  ASSUME LogInv, LogInv', Return
  PROVE  \E how \in {"ok", "cancelled"} : Log!Return(how)
<1>1. /\ run = "ui" /\ run' = "returned" /\ result' = result
      /\ UNCHANGED <<next, at, sending, shown, stored, failed, ui>>
  BY DEF Return, sendVars, uiVars, recVars
<1>2. result \in {"ok", "cancelled"}
  BY <1>1 DEF LogInv, TurnInv, RunInv
<1>3. \A m \in Message : Published(m)' <=> Published(m)
  BY <1>1 DEF Published, Msg
<1>4. UNCHANGED <<SentSet, SeenSet, KeptSet>> /\ End = "none" /\ End' = result
  BY <1>1, <1>3 DEF SentSet, SeenSet, KeptSet, End, Recorded
<1>5. result = "ok" => SentSet \subseteq SeenSet \cap KeptSet
  <2>1. result = "ok" => ui = "done"
    BY <1>1 DEF LogInv, AskInv
  <2> QED BY <2>1, <1>1, AllSeen, DueKept
<1>6. SentSet \cap {m \in Message : m[1] = "soul"} \subseteq KeptSet
  BY <1>1, DueKept
<1>7. Log!Return(result)
  BY <1>4, <1>5, <1>6 DEF Log!Return, SentSet, SeenSet, KeptSet, End
<1> QED BY <1>2, <1>7

\* The recorder is through with a chunk.
LEMMA LogKeeps ==
  ASSUME LogInv, LogInv', RecorderAppends
  PROVE  \E chunk \in SUBSET Message : Log!Keep(chunk)
<1> DEFINE chunk == {m \in Message : In("taken", m)}
<1>t. RecTypes /\ PlaceInv /\ CloseInv /\ RecTypes' /\ PlaceInv'
  BY DEF LogInv, RecordInv
<1>1. /\ recorder = "append" /\ taken' = <<>>
      /\ UNCHANGED <<hand, merged, buffer, next, at, sending, shown, run, result>>
      /\ \/ stored' = Append(stored, taken) /\ UNCHANGED failed
         \/ failed' = Append(failed, taken) /\ UNCHANGED stored
  BY DEF RecorderAppends, sendVars, wire, uiVars
<1>2. Moves("taken", "stored") \/ Moves("taken", "failed")
  BY <1>t, <1>1, ChunkAppended
<1>3. \A m \in Message : Recorded(m) <=> In("stored", m) \/ In("failed", m)
  BY <1>t, RecordedIs
<1>4. \A m \in Message : Recorded(m)' <=> In("stored", m)' \/ In("failed", m)'
  <2>1. stored' \in Seq(Seq(Message)) /\ failed' \in Seq(Seq(Message)) /\ NeatRow(stored') /\ NeatRow(failed')
    BY <1>t, NeatIs, StagesAre DEF RecTypes, PlaceInv
  <2>2. \A n \in Message : ~(HasRow(stored', n) /\ HasRow(failed', n))
    <3>1. "stored" \in Stages /\ "failed" \in Stages
      BY StagesAre
    <3>2. \A n \in Message : ~(In("stored", n)' /\ In("failed", n)')
      BY <1>t, <3>1 DEF PlaceInv
    <3> QED BY <3>2, InIs
  <2>3. \A m \in Message : Places(m, stored' \o failed') # {} <=> HasRow(stored', m) \/ HasRow(failed', m)
    BY <2>1, <2>2, PlacesJoined
  <2> QED BY <2>3, InIs DEF Recorded
<1>5. KeptSet' = KeptSet \cup chunk
  <2>1. ASSUME NEW m \in Message PROVE Recorded(m)' <=> Recorded(m) \/ In("taken", m)
    <3>1. "stored" \in Stages /\ "failed" \in Stages
      BY StagesAre
    <3> QED BY <1>2, <1>3, <1>4, <3>1 DEF Moves, Lands, Stays
  <2> QED BY <2>1 DEF KeptSet
<1>6. chunk \subseteq SentSet \ KeptSet
  <2>1. ASSUME NEW m \in Message, In("taken", m) PROVE Published(m) /\ ~Recorded(m)
    <3>1. Gone(m)
      BY <2>1, <1>t, StagesAre DEF PlaceInv
    <3>2. Published(m)
      BY <3>1 DEF Gone, Published, InSend
    <3>3. ~In("stored", m) /\ ~In("failed", m)
      BY <2>1, <1>t, StagesAre, OnlyIn
    <3> QED BY <3>2, <3>3, <1>3
  <2> QED BY <2>1 DEF SentSet, KeptSet
<1>7. End = "none"
  BY <1>1, <1>t DEF CloseInv, End
<1>8. UNCHANGED <<SentSet, SeenSet, End>>
  <2>1. \A m \in Message : Published(m)' <=> Published(m)
    BY <1>1 DEF Published, Msg
  <2> QED BY <2>1, <1>1 DEF SentSet, SeenSet, End
<1>9. chunk \in SUBSET Message
  OBVIOUS
<1> HIDE DEF chunk
<1>10. Log!Keep(chunk)
  BY <1>5, <1>6, <1>7, <1>8 DEF Log!Keep, SentSet, SeenSet, KeptSet, End
<1> QED BY <1>9, <1>10

\* The client sees one more message.
LEMMA LogShows ==
  ASSUME LogInv, UiShows
  PROVE  \E m \in Message : Log!See(m)
<1> DEFINE m == Head(raw)
<1>t. SeenInv /\ AskInv
  BY DEF LogInv
<1>1. /\ ui = "read" /\ raw # <<>> /\ shown' = Append(shown, m)
      /\ UNCHANGED <<next, at, sending, stored, failed, run, result>>
  BY DEF UiShows, sendVars, recVars
<1>2. shown \in Seq(Message) /\ raw \in Seq(Message) /\ m \in Message
  BY <1>1, <1>t DEF SeenInv
<1>3. /\ Len(shown) \in Nat /\ Len(Seen) = Len(shown) + Len(raw) /\ Len(raw) \in Nat /\ Len(raw) > 0
      /\ \A i \in 1 .. Len(shown) : Seen[i] = shown[i]
      /\ Seen[Len(shown) + 1] = m
  BY <1>1, <1>2 DEF Seen
<1>4. Published(m)
  BY <1>3, <1>t DEF SeenInv
<1>5. m \notin SeenSet
  <2>1. ASSUME NEW i \in 1 .. Len(shown), shown[i] = m PROVE FALSE
    BY <2>1, <1>3, <1>t DEF SeenInv
  <2> QED BY <2>1, <1>2 DEF SeenSet
<1>6. SeenSet' = SeenSet \cup {m}
  <2>1. /\ DOMAIN shown = 1 .. Len(shown) /\ DOMAIN shown' = 1 .. Len(shown) + 1
        /\ \A i \in 1 .. Len(shown) : shown'[i] = shown[i]
        /\ shown'[Len(shown) + 1] = m
    BY <1>1, <1>2
  <2> HIDE DEF m
  <2> QED BY <2>1, <1>3 DEF SeenSet
<1>7. End # "ok"
  BY <1>1, <1>t DEF AskInv, End
<1>8. UNCHANGED <<SentSet, KeptSet, End>>
  <2>1. \A n \in Message : Published(n)' <=> Published(n)
    BY <1>1 DEF Published, Msg
  <2> QED BY <2>1, <1>1 DEF SentSet, KeptSet, End, Recorded
<1>9. m \in SentSet \ SeenSet
  BY <1>2, <1>4, <1>5 DEF SentSet
<1> HIDE DEF m
<1> QED BY <1>2, <1>6, <1>7, <1>8, <1>9 DEF Log!See, SentSet, SeenSet, KeptSet, End

LEMMA LogStep ==
  ASSUME LogInv, LogInv', [Next]_vars
  PROVE  [Log!LogNext]_(Log!logVars)
<1>1. ASSUME NEW w \in Senders, Send(w) PROVE [Log!LogNext]_(Log!logVars)
  <2>1. CASE \E s \in Sources : PublishRaw(s) /\ Begins(s)
    BY <1>1, <2>1, SendSteps, LogSends DEF Log!LogNext
  <2>2. CASE GoesOn(w) \/ HasSent(w)
    <3>1. ~(\E s \in Sources : PublishRaw(s) /\ SenderOf(s) = w)
      BY <2>2 DEF PublishRaw, GoesOn, HasSent, InSend
    <3>2. UNCHANGED <<shown, stored, failed, run, result>>
      BY <1>1, <3>1 DEF Send, Join, Take, PublishTaken, Finish, recVars, uiVars
    <3> QED BY <2>2, <3>2, <1>1, LogWaits, ViewRests
  <2> QED BY <1>1, <2>1, <2>2, SendSteps
<1>2. CASE SoulGoes
  <2>1. UNCHANGED <<shown, stored, failed, run, result>> /\ "soul" \in Senders
    BY <1>2 DEF SoulGoes, Proceed, BeginStore, EndStore, recVars, uiVars, Senders
  <2> QED BY <1>2, <2>1, LogWaits, ViewRests
<1>3. CASE SoulEnds \/ Cancel
  <2>1. UNCHANGED <<next, at, sending, shown, stored, failed>> /\ run = "run" /\ run' = "flush"
    BY <1>3 DEF SoulEnds, Cancel, sendVars, recVars, uiVars
  <2> QED BY <2>1, LogSame, ViewRests
<1>4. CASE RunSoul
  <2>1. CASE Return
    BY <2>1, LogReturns DEF Log!LogNext
  <2>2. CASE Flush \/ PublishFlushed \/ CloseRaw \/ CloseMerged \/ JoinRecorder
    <3>1. /\ UNCHANGED <<next, at, sending, shown, stored, failed, result>>
          /\ run # "returned" /\ run' # "returned"
      BY <2>2 DEF Flush, PublishFlushed, CloseRaw, CloseMerged, JoinRecorder, sendVars, recVars, uiVars
    <3> QED BY <3>1, LogSame, ViewRests
  <2> QED BY <1>4, <2>1, <2>2 DEF RunSoul
<1>5. CASE Others
  <2>1. CASE RecorderAppends
    BY <2>1, LogKeeps DEF Log!LogNext
  <2>2. CASE UiShows
    BY <2>2, LogShows DEF Log!LogNext
  <2>3. CASE RecorderTakes \/ RecorderEnds \/ UiEnds \/ Answer \/ UNCHANGED vars
    <3>1. UNCHANGED <<next, at, sending, shown, stored, failed, run, result>>
      BY <2>3 DEF RecorderTakes, RecorderEnds, UiEnds, Answer, vars, sendVars, recVars, uiVars
    <3> QED BY <3>1, LogSame, ViewRests
  <2> QED BY <1>5, <2>1, <2>2, <2>3 DEF Others, Recorder, UiLoop
<1> QED BY <1>1, <1>2, <1>3, <1>4, <1>5, StepKinds

LEMMA LogStarts == Init => Log!LogInit
<1> SUFFICES ASSUME Init PROVE Log!LogInit
  OBVIOUS
<1>1. shown = <<>> /\ run = "run" /\ RecordInv /\ stored = <<>> /\ failed = <<>>
  BY RecordInit DEF Init
<1>2. \A m \in Message : ~Published(m)
  <2>1. \A s \in Sources : next[s] = 1
    BY DEF Init
  <2>2. \A w \in Senders : at[w] \notin InSend
    BY DEF Init, InSend
  <2> QED BY <2>1, <2>2, MessageIs DEF Published
<1>3. \A m \in Message : ~Recorded(m)
  BY <1>1, RecordedIs, InIs, EmptyChunk DEF RecordInv
<1> QED BY <1>1, <1>2, <1>3 DEF Log!LogInit

\* The wire implements the log, for any scripts: the client sees and the recorder
\* takes in each message once and after it was sent, a turn that ran to its end
\* returns when all were seen and recorded and is over then, and a cancelled one
\* when all that the soul sent is recorded. (channel.rs:79-227, soul/mod.rs:126-154)
THEOREM LogKept == Spec => KeepsTheLog
<1>1. Init => LogInv
  BY TurnInit, SeenInit, RecordInit DEF LogInv
<1>2. LogInv /\ [Next]_vars => LogInv'
  BY TurnStep, SeenStep, AskStep, RecordStep DEF LogInv
<1> QED BY <1>1, <1>2, LogStarts, LogStep, PTL DEF Spec, KeepsTheLog, Log!LogSpec
=============================================================================
