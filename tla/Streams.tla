------------------------------ MODULE Streams -------------------------------
(***************************************************************************)
(* One step of the model: a provider's server answers, the provider reads  *)
(* the body as it arrives, generate() puts the message together and step() *)
(* dispatches its calls and collects their results, which then go back in  *)
(* the next request.                                                       *)
(*                                                                         *)
(* The server is external. It answers with a sequence of blocks and says   *)
(* it in its dialect and style; the code is what has to hear it right.     *)
(* Whatever has arrived is read at once, so the moments of reading are all *)
(* the ways to cut the body; what is cut off an event waits in a buffer.   *)
(* But each chunk is decoded for itself, and a letter of several bytes     *)
(* that is cut in two is torn: U+FFFD comes in place of its halves.        *)
(***************************************************************************)
EXTENDS ChatStream, AnthropicStream, ResponsesStream, Requests

CONSTANTS
  Dialects,    \* the dialects that are spoken
  Shapes,      \* Shapes[d]: the answers, sequences of <<kind, number of letters>>
  DoneApart,   \* kimi's [DONE] comes alone, after the rest was read
  MayBreak,    \* the connection may break
  Wide         \* the letters of several bytes, <<block, place>>: one may be torn

AllDialects == {"kimi", "legacy", "anthropic", "responses"}
Kinds       == {"think", "redacted", "text", "refusal", "call"}

ASSUME StreamsAssumption ==
  /\ Dialects \subseteq AllDialects
  /\ \A d \in Dialects : Shapes[d] \subseteq Seq(Kinds \X Nat)
  /\ {DoneApart, MayBreak} \subseteq BOOLEAN /\ Wide \subseteq Nat \X Nat

VARIABLES
  dialect, style, answer,   \* what is said and how, chosen once
  torn,                     \* history: the letter that was torn, if any
  opened, given, closed,    \* the server: blocks begun, letters said, blocks ended
  server,                   \* "speaking", "finished" (before the end mark), "ended", "broken"
  body,                     \* the events that have arrived and are not read
  reader,                   \* the provider's StreamedMessage
  eof,                      \* "no"; "drain": no more body, parts are left; "yes"
  pending, message,         \* generate(): at most one part, and the message
  result,                   \* "none", "error", "empty", "message"
  receivers, ran, results   \* step(): receiver of each id, tools that ended, results

spoken   == <<dialect, style, answer, torn>>
srvVars  == <<opened, given, closed, server>>
readVars == <<reader, eof>>
genVars  == <<pending, message, result>>
stepVars == <<receivers, ran, results>>
vars == <<spoken, srvVars, body, readVars, genVars, stepVars>>

-----------------------------------------------------------------------------
(* The server's ways of saying things.                                     *)

Plain == [whole |-> FALSE, ids |-> "once", indexed |-> TRUE, keyed |-> TRUE,
          added |-> "empty", deltas |-> TRUE, partDone |-> TRUE, itemDone |-> TRUE,
          route |-> "item", bare |-> FALSE, signed |-> TRUE]

ChatStyles(d) ==
  LET ways == {[Plain EXCEPT !.ids = i] : i \in {"once", "always", "never"}}
              \cup {[Plain EXCEPT !.ids = "always", !.indexed = FALSE],
                    [Plain EXCEPT !.whole = TRUE]}
  IN  IF d = "kimi" THEN ways ELSE ways \cup {[Plain EXCEPT !.keyed = FALSE]}

AnthropicStyles ==
  {Plain, [Plain EXCEPT !.indexed = FALSE], [Plain EXCEPT !.whole = TRUE]}

\* Every call is named by the event that adds it or the one that ends it, and
\* every text is said at least once. An item's id is known once it is added. Reasoning
\* that is not signed is said under the ids of its items only.
ResponsesStyles ==
  {[Plain EXCEPT !.whole = TRUE], [Plain EXCEPT !.bare = TRUE]} \cup
  {s \in [whole : {FALSE}, ids : {"once"}, indexed : {TRUE}, keyed : {TRUE},
          added : {"no", "empty", "inline"}, deltas : BOOLEAN, partDone : BOOLEAN,
          itemDone : BOOLEAN, route : {"call", "item", "index"}, bare : {FALSE},
          signed : BOOLEAN] :
     /\ s.added = "no" => s.itemDone /\ s.route = "call"
     /\ s.added = "inline" => ~s.deltas
     /\ ~s.signed => s.route = "item"
     /\ s.deltas \/ s.partDone \/ s.itemDone}

Styles(d) == CASE d \in {"kimi", "legacy"} -> ChatStyles(d)
               [] d = "anthropic"          -> AnthropicStyles
               [] OTHER                    -> ResponsesStyles

\* Styles that differ in calls or in signatures only are one to an answer that
\* has none.
Matters(s, shape) ==
  LET has == {shape[n][1] : n \in DOMAIN shape}
  IN  /\ "call" \notin has => s.added = "empty" /\ s.route # "call"
      /\ "think" \notin has => s.signed

\* The id under which a call is known.
IdOf(n) == IF style.ids = "never" THEN <<"index", n>> ELSE <<"call", n>>
AllIds  == [n \in DOMAIN answer |-> IdOf(n)]

Blocks(shape, signed) ==
  [n \in DOMAIN shape |->
     [kind |-> shape[n][1], at |-> n, letters |-> [k \in 1 .. shape[n][2] |-> <<n, k>>],
      sign |-> IF signed /\ shape[n][1] \in {"think", "redacted"} THEN n ELSE NoSign]]

Signs(d, s) == d = "anthropic" \/ (d = "responses" /\ s.signed)

Event(type, kind, n, letters) ==
  [type |-> type, kind |-> kind, letters |-> letters, named |-> FALSE,
   index |-> IF style.indexed THEN n ELSE 0, item |-> 0,
   id |-> NoId, call |-> NoId, part |-> 0, sign |-> NoSign,
   usage |-> <<>>, reports |-> FALSE]

Counts == [input |-> 1, output |-> 2]

Report(type, usage) ==
  [Event(type, "usage", 0, <<>>) EXCEPT !.usage = usage, !.reports = TRUE]

\* An event of the Responses API, routed as the style has it.
About(e, n) ==
  [e EXCEPT !.call  = IF style.route = "call" /\ answer[n].kind = "call" THEN IdOf(n) ELSE NoId,
            !.item  = IF style.route = "index" THEN 0 ELSE n,
            !.index = n]

-----------------------------------------------------------------------------
(* The server speaks.                                                      *)

NewReader == CASE dialect \in {"kimi", "legacy"} -> NewChatStream(style.keyed)
               [] dialect = "anthropic"          -> NewAnthropicStream
               [] OTHER                          -> NewResponsesStream

Whole == CASE dialect = "kimi"               -> ParseKimi(answer, AllIds)
           [] dialect = "legacy"             -> ParseLegacy(style.keyed, answer, AllIds)
           [] dialect = "anthropic"          -> ParseAnthropic(answer, AllIds)
           [] OTHER                          -> ParseResponses(answer, AllIds)

\* The first event of a stream; a body that is read whole becomes parts at once.
Opening == CASE dialect = "anthropic" -> <<Report("start", [Counts EXCEPT !.output = 1])>>
             [] dialect = "responses" -> <<Report("created", <<>>)>>
             [] OTHER                 -> <<>>

Init ==
  /\ dialect \in Dialects
  /\ style \in Styles(dialect)
  /\ \E shape \in Shapes[dialect] :
       /\ dialect = "responses" => Matters(style, shape)
       /\ answer = Blocks(shape, Signs(dialect, style))
  /\ torn = NoLetter
  /\ opened = 0 /\ given = [n \in DOMAIN answer |-> 0] /\ closed = {}
  /\ server = IF style.whole THEN "ended" ELSE "speaking"
  /\ body = IF style.whole THEN <<>> ELSE Opening
  /\ reader = IF style.whole THEN [NewReader EXCEPT !.parts = Whole, !.usage = Counts]
                             ELSE NewReader
  /\ eof = IF style.whole THEN "drain" ELSE "no"
  /\ pending = <<>> /\ message = EmptyMessage /\ result = "none"
  /\ receivers = <<>> /\ ran = {} /\ results = <<>>

Says(events) ==
  /\ body' = body \o events
  /\ UNCHANGED <<spoken, readVars, genVars, stepVars>>

Kind(n) == answer[n].kind
Said(n) == given[n] = Len(answer[n].letters)

\* Blocks come one after the other; only calls may overlap, and only if an event
\* of their own opens them and the later ones tell whose they are.
MayOpen(n) ==
  /\ server = "speaking" /\ ~style.bare /\ n \in DOMAIN answer /\ n = opened + 1
  /\ \A m \in 1 .. opened :
       \/ m \in closed
       \/ /\ Kind(m) = "call" /\ Kind(n) = "call"
          /\ style.added # "no" /\ (style.indexed \/ style.ids = "always")

OpeningEvents(n, first) ==
  LET e == Event("call", Kind(n), n, first)
  IN CASE dialect = "anthropic" ->
            <<[e EXCEPT !.type = "block", !.sign = answer[n].sign, !.id = IdOf(n)]>>
       [] dialect = "responses" ->
            IF Kind(n) # "call" \/ style.added = "no" THEN <<>>
            ELSE <<[About(e, n) EXCEPT !.type = "call added", !.call = IdOf(n)]>>
       [] OTHER ->
            IF Kind(n) # "call" THEN <<>>
            ELSE <<[e EXCEPT !.named = TRUE,
                             !.id = IF style.ids = "never" THEN NoId ELSE IdOf(n)]>>

\* A call may bring its arguments, or some, when it opens.
FirstLetters(n) ==
  LET letters == answer[n].letters
  IN  IF dialect = "responses" /\ style.added = "inline" /\ Kind(n) = "call" THEN {letters}
      ELSE IF dialect \in {"kimi", "legacy"} /\ Kind(n) = "call" /\ letters # <<>>
      THEN {<<>>, SubSeq(letters, 1, 1)}
      ELSE {<<>>}

Open(n) ==
  /\ MayOpen(n)
  /\ \E first \in FirstLetters(n) :
       /\ given' = [given EXCEPT ![n] = Len(first)]
       /\ Says(OpeningEvents(n, first))
  /\ opened' = n
  /\ UNCHANGED <<closed, server>>

DeltaEvent(n, letters) ==
  LET e == Event(Kind(n), Kind(n), n, letters)
  IN CASE dialect = "anthropic" -> [e EXCEPT !.type = "delta"]
       [] dialect = "responses" ->
            [About(e, n) EXCEPT !.type = CASE Kind(n) = "call"  -> "arguments"
                                           [] Kind(n) = "think" -> "thought"
                                           [] OTHER             -> Kind(n),
                                !.part = given[n] + 1]
       [] OTHER -> [e EXCEPT !.id = IF style.ids = "always" THEN IdOf(n) ELSE NoId]

\* The next letter of a block. A server that sends no deltas says nothing yet.
Give(n) ==
  /\ server = "speaking" /\ n \in 1 .. opened \ closed /\ ~Said(n)
  /\ LET silent == dialect = "responses" /\ ~style.deltas /\ Kind(n) \notin {"text", "refusal"}
         next   == SubSeq(answer[n].letters, given[n] + 1, given[n] + 1)
     IN  /\ given' = [given EXCEPT ![n] = IF silent THEN Len(answer[n].letters) ELSE @ + 1]
         /\ Says(IF silent THEN <<>> ELSE <<DeltaEvent(n, next)>>)
  /\ UNCHANGED <<opened, closed, server>>

\* What the Responses API repeats when a part, and when an item, is done.
Repeats(n) ==
  LET b == answer[n]
      e == About(Event("", b.kind, n, b.letters), n)
      parts == CASE b.kind = "think" ->
                      [k \in DOMAIN b.letters |->
                         [e EXCEPT !.type = "thought done", !.part = k,
                                   !.letters = <<b.letters[k]>>]]
                 [] b.kind = "call"  -> <<[e EXCEPT !.type = "arguments done"]>>
                 [] OTHER            -> <<>>
      item  == CASE b.kind = "think" -> <<[e EXCEPT !.type = "thinking done", !.sign = b.sign]>>
                 [] b.kind = "call"  -> <<[e EXCEPT !.type = "call done", !.call = IdOf(n)]>>
                 [] OTHER            -> <<>>
  IN  (IF style.partDone THEN parts ELSE <<>>) \o (IF style.itemDone THEN item ELSE <<>>)

ClosingEvents(n) ==
  CASE dialect = "responses" -> Repeats(n)
    [] dialect = "anthropic" /\ Kind(n) = "think" ->
         <<[Event("delta", "signature", n, <<>>) EXCEPT !.sign = answer[n].sign]>>
    [] OTHER -> <<>>

Close(n) ==
  /\ server = "speaking" /\ n \in 1 .. opened \ closed /\ Said(n)
  /\ closed' = closed \cup {n}
  /\ Says(ClosingEvents(n))
  /\ UNCHANGED <<opened, given, server>>

\* The network cuts the body within a letter of what is on its way.
Tear(n, k) ==
  /\ torn = NoLetter
  /\ n \in DOMAIN body /\ k \in DOMAIN body[n].letters /\ body[n].letters[k] \in Wide
  /\ torn' = body[n].letters[k]
  /\ body' = [body EXCEPT ![n].letters[k] = Torn(@)]
  /\ UNCHANGED <<dialect, style, answer, srvVars, readVars, genVars, stepVars>>

\* The usage comes last, and then the end mark, if the dialect has one.
Finish ==
  /\ server = "speaking" /\ (closed = DOMAIN answer \/ style.bare)
  /\ server' = "finished"
  /\ Says(CASE dialect = "anthropic" -> <<Report("report", [output |-> 2])>>
            [] dialect = "responses" -> <<Report("completed", Counts)>>
            [] OTHER                 -> <<Report("usage", Counts)>>)
  /\ UNCHANGED <<opened, given, closed>>

\* The mark may not be heard: a last line without its end never leaves the buffer.
EndBody ==
  /\ server = "finished"
  /\ \/ Says(<<>>)
     \/ /\ dialect # "responses"
        /\ (dialect = "kimi" /\ DoneApart) => (body = <<>> /\ reader.parts = <<>>)
        /\ Says(<<Event("done", "done", 0, <<>>)>>)
  /\ server' = "ended"
  /\ UNCHANGED <<opened, given, closed>>

\* The connection breaks: the next read after what has arrived fails.
Break ==
  /\ MayBreak /\ server \in {"speaking", "finished"}
  /\ server' = "broken"
  /\ UNCHANGED <<spoken, opened, given, closed, body, readVars, genVars, stepVars>>

-----------------------------------------------------------------------------
(* The provider reads, generate() assembles.                               *)

Ingest(s, e) ==
  CASE dialect = "kimi"      -> IngestKimi(s, e)
    [] dialect = "legacy"    -> IngestLegacy(s, e)
    [] dialect = "anthropic" -> IngestAnthropic(s, e)
    [] OTHER                 -> IngestResponses(s, e, answer, AllIds)

\* The reader after all of these events. (The bound t has TLC compute each reader
\* of the fold once.)
IngestAll(events) ==
  FoldLeft(LAMBDA s, e : CHOOSE r \in {Ingest(t, e) : t \in {s}} : TRUE, reader, events)

Done(e) == e.type = "done"

\* At the mark, kimi returns None at once, whatever parts came with it; the others
\* first hand out what they have.
AtMark == IF dialect = "kimi" THEN "yes" ELSE "drain"

\* next_part() without parts: it waits for the body and takes all that has come,
\* up to the end mark.
Read ==
  /\ result = "none" /\ eof = "no" /\ reader.parts = <<>> /\ body # <<>>
  /\ body' = <<>>
  /\ UNCHANGED <<spoken, srvVars, genVars, stepVars>>
  /\ LET news == SelectSeq(body, LAMBDA e : ~Done(e))
         over == \E n \in DOMAIN body : Done(body[n])
     IN  /\ reader' = IngestAll(news)
         /\ eof' = IF over THEN AtMark ELSE "no"

\* Faulty variant: the end of the body is no reason to stop.
X_EndOfBody ==
  /\ result = "none" /\ eof = "no" /\ reader.parts = <<>> /\ body = <<>>
  /\ server = "ended"
  /\ UNCHANGED vars

EndOfBody ==
  /\ result = "none" /\ eof = "no" /\ reader.parts = <<>> /\ body = <<>>
  /\ server = "ended"
  /\ eof' = "yes"
  /\ UNCHANGED <<spoken, srvVars, body, reader, genVars, stepVars>>

\* The error leaves generate() at once; what it had is lost.
ReadFails ==
  /\ result = "none" /\ eof = "no" /\ reader.parts = <<>> /\ body = <<>>
  /\ server = "broken"
  /\ result' = "error"
  /\ UNCHANGED <<spoken, srvVars, body, readVars, pending, message, stepVars>>

Merged(part) ==
  IF pending = <<>> THEN <<message, part>>
  ELSE IF Joins(pending[1], part) THEN <<message, Join(pending[1], part)>>
  ELSE <<AppendPart(message, pending[1]), part>>

TakePart ==
  /\ result = "none" /\ eof # "yes" /\ reader.parts # <<>>
  /\ LET next == Merged(Head(reader.parts))
     IN  message' = next[1] /\ pending' = <<next[2]>>
  /\ reader' = [reader EXCEPT !.parts = Tail(@)]
  /\ UNCHANGED <<spoken, srvVars, body, eof, result, stepVars>>

\* The stream is over: the last part is appended and every call is dispatched,
\* under its id.
Conclude ==
  /\ result = "none"
  /\ eof = "yes" \/ (eof = "drain" /\ reader.parts = <<>>)
  /\ LET whole == IF pending = <<>> THEN message ELSE AppendPart(message, pending[1])
         ids   == {whole.calls[n].id : n \in DOMAIN whole.calls}
     IN  /\ message' = whole
         /\ receivers' = [id \in ids |->
                            Max({n \in DOMAIN whole.calls : whole.calls[n].id = id})]
         /\ result' = IF whole.content = <<>> /\ whole.calls = <<>> THEN "empty" ELSE "message"
  /\ pending' = <<>>
  /\ UNCHANGED <<spoken, srvVars, body, readVars, ran, results>>

-----------------------------------------------------------------------------
(* step() and its tools.                                                   *)

RunTool(n) ==
  /\ result = "message" /\ n \in DOMAIN message.calls \ ran
  /\ ran' = ran \cup {n}
  /\ UNCHANGED <<spoken, srvVars, body, readVars, genVars, receivers, results>>

\* tool_results(): one result for each call whose receiver is still there, in the
\* order of the calls.
Collected ==
  LET calls == message.calls
      first == {n \in DOMAIN calls : \A m \in 1 .. n - 1 : calls[m].id # calls[n].id}
      kept  == SelectSeq([n \in DOMAIN calls |-> n], LAMBDA n : n \in first)
  IN  [k \in DOMAIN kept |->
         [id |-> calls[kept[k]].id, call |-> receivers[calls[kept[k]].id]]]

Collect ==
  /\ result = "message" /\ results = <<>> /\ message.calls # <<>>
  /\ {receivers[id] : id \in DOMAIN receivers} \subseteq ran
  /\ results' = Collected
  /\ UNCHANGED <<spoken, srvVars, body, readVars, genVars, receivers, ran>>

\* What comes while parts are handed out is not read before they are gone, so it
\* may as well come then.
Arrives == reader.parts = <<>>

Server == \/ \E n \in DOMAIN answer : Open(n) \/ Give(n) \/ Close(n)
          \/ Finish \/ EndBody \/ Break
          \/ \E n \in DOMAIN body : \E k \in DOMAIN body[n].letters : Tear(n, k)
Reader == TakePart \/ EndOfBody \/ ReadFails \/ Conclude \/ Read
Step   == Collect \/ \E n \in DOMAIN message.calls : RunTool(n)

Next == (Arrives /\ Server) \/ Reader \/ Step

Spec == Init /\ [][Next]_vars

\* The reading task is polled when a part or a read is ready, and tools end. The
\* server owes nothing: no read has a timeout.
FairSpec == Spec /\ WF_vars(Reader) /\ WF_vars(Step)
-----------------------------------------------------------------------------
(* What a step owes the conversation.                                      *)

Of(kinds) == SelectSeq(answer, LAMBDA b : b.kind \in kinds)
Letters(blocks) == FlattenSeq([n \in DOMAIN blocks |-> blocks[n].letters])
Parts(kind) == SelectSeq(message.content, LAMBDA p : p.kind = kind)
Bodies(parts) == FlattenSeq([n \in DOMAIN parts |-> parts[n].body])
Signed(sign) == SelectSeq(message.content, LAMBDA p : p.sign = sign)

CallsOf(blocks) == [n \in DOMAIN blocks |-> <<IdOf(blocks[n].at), blocks[n].letters>>]

\* A server that names a call only when it is done: pieces of it wait for it, and
\* are compared with the whole. If a letter of either is torn they are not alike,
\* and both are kept.
Spoilt(n) == torn # NoLetter /\ torn[1] = n /\ style.added = "no"

\* A response that was read to its end holds what the server said, however the
\* server said it and the network cut it: every call once, under its id, with its
\* own arguments whole; the text and the reasoning in order; no signature on
\* other reasoning than the one it was given for; the final token counts. A cut
\* within a letter harms that letter and no other, except in the arguments of a
\* call that the server names too late. (next_part of the four providers,
\* generate.rs:60-140)
AnswerIsKept ==
  result \in {"message", "empty"} =>
    LET calls == Of({"call"}) IN
    /\ [n \in DOMAIN message.calls |-> message.calls[n].id]
         = [n \in DOMAIN calls |-> IdOf(calls[n].at)]
    /\ \A n \in DOMAIN calls :
         ~Spoilt(calls[n].at) => Mended(message.calls[n].body) = calls[n].letters
    /\ Mended(Bodies(Parts("text"))) = Letters(Of({"text", "refusal"}))
    /\ Mended(Bodies(Parts("think"))) = IF style.keyed THEN Letters(Of({"think"})) ELSE <<>>
    /\ \A part \in Range(message.content) :
         part.sign # NoSign => Mended(Bodies(Signed(part.sign))) = answer[part.sign].letters
    /\ reader.usage = Counts

StepDone == result = "message" /\ (message.calls = <<>> \/ results # <<>>)

Request == CASE dialect = "anthropic" -> ToAnthropic(message.content, message.calls, results)
             [] dialect = "responses" -> ToResponses(message.content, message.calls, results)
             [] dialect = "kimi"      -> ToKimi(message.content, message.calls, results)
             [] OTHER -> ToLegacy(style.keyed, message.content, message.calls, results)

Entries(type) == SelectSeq(Request, LAMBDA e : e.type = type)
Ids(entries)  == [n \in DOMAIN entries |-> entries[n].id]

\* What the server said goes back to it in the next request: every call once, each
\* with the one result of its own tool, in the order of the calls; arguments it
\* can parse; and the signed reasoning, block by block, each text under the
\* signature it came with. Redacted reasoning goes back to Anthropic as if it were
\* reasoning without a text that its data signs: the message does not hold what
\* kind it was. (convert_message, anthropic/request.rs:20-95)
StepGoesBack ==
  StepDone =>
    LET calls    == Of({"call"})
        thoughts == SelectSeq(Entries("thinking"), LAMBDA e : e.sign # NoSign)
    IN
    /\ Ids(Entries("call")) = [n \in DOMAIN calls |-> IdOf(calls[n].at)]
    /\ Ids(Entries("output")) = Ids(Entries("call"))
    /\ \A n \in DOMAIN results : results[n].call = n
    /\ dialect = "anthropic" =>
         /\ AnthropicAccepts(message.calls, {b.letters : b \in Range(calls)})
         /\ [n \in DOMAIN thoughts |-> thoughts[n].sign]
              = [n \in DOMAIN Of({"think", "redacted"}) |-> Of({"think", "redacted"})[n].at]
    /\ \A n \in DOMAIN thoughts : LET said == answer[thoughts[n].sign] IN
         Mended(thoughts[n].letters) = IF said.kind = "redacted" THEN <<>> ELSE said.letters
    /\ \A n \in 2 .. Len(thoughts) : thoughts[n - 1].sign < thoughts[n].sign

\* Once the server has said everything, or the connection is gone, the step ends:
\* with an error, or with a message and the results of its calls.
StepEnds == (server \in {"ended", "broken"}) ~> (result \in {"error", "empty"} \/ StepDone)
=============================================================================
