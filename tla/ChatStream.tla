----------------------------- MODULE ChatStream -----------------------------
(***************************************************************************)
(* A chat-completions response, as chat_provider/kimi.rs and               *)
(* openai_legacy.rs read it. The two differ in the reasoning key, which    *)
(* kimi fixes and a legacy model may not have, in refusals, which only     *)
(* legacy hears, and in what they do at the end of the stream (Streams).   *)
(*                                                                         *)
(* An event is one entry of a chunk's delta: "think", "text" and "refusal" *)
(* with letters, "call" with an index, an id and letters, named if the     *)
(* tool's name comes with it, or "usage".                                  *)
(***************************************************************************)
EXTENDS Parts

NoUsage == <<>>  \* usage: None. A report maps "input" and "output" to counts.

NewChatStream(keyed) ==
  [parts |-> <<>>, usage |-> NoUsage, keyed |-> keyed,
   ids   |-> <<>>]  \* tool_call_id_by_index

\* The index decides; without one the id; the first event of an index that has
\* no id makes one up. (An event with neither opens a call of its own, under a
\* fresh UUID: no server of this model sends one.)
StreamCallId(ids, e) ==
  IF e.index \in DOMAIN ids THEN ids[e.index]
  ELSE IF e.id # NoId THEN e.id
  ELSE <<"index", e.index>>

Routed(ids, e) ==
  IF e.index = 0 THEN ids ELSE (e.index :> StreamCallId(ids, e)) @@ ids

\* An event that has a name is a call, whatever came before it.
CallDelta(s, e) ==
  LET id   == StreamCallId(s.ids, e)
      part == IF e.named THEN <<Call(id, e.letters)>>
                         ELSE OrNothing(e.letters, Piece(id, e.letters))
  IN  [s EXCEPT !.ids = Routed(@, e), !.parts = @ \o part]

\* Only a whole report counts.
ChatUsage(s, e) ==
  IF {"input", "output"} \subseteq DOMAIN e.usage THEN [s EXCEPT !.usage = e.usage] ELSE s

ChatThought(letters) == OrNothing(letters, Think(letters, NoSign))

IngestKimi(s, e) ==
  CASE e.type = "think" -> [s EXCEPT !.parts = @ \o ChatThought(e.letters)]
    [] e.type = "text"  -> [s EXCEPT !.parts = @ \o OrNothing(e.letters, Text(e.letters))]
    [] e.type = "call"  -> CallDelta(s, e)
    [] e.type = "usage" -> ChatUsage(s, e)
    [] OTHER            -> s

\* A refusal is a text; reasoning needs its key.
IngestLegacy(s, e) ==
  CASE e.type = "refusal"           -> IngestKimi(s, [e EXCEPT !.type = "text"])
    [] e.type = "think" /\ ~s.keyed -> s
    [] OTHER                        -> IngestKimi(s, e)

\* A response that is not streamed: reasoning, content and calls, in this order.
\* blocks are what the server answered, ids[n] the id it gave to the n-th.
AllOf(blocks, kinds) ==
  LET of == SelectSeq(blocks, LAMBDA b : b.kind \in kinds)
  IN  FlattenSeq([n \in DOMAIN of |-> of[n].letters])

ParseKimi(blocks, ids) ==
  LET calls == SelectSeq(blocks, LAMBDA b : b.kind = "call")
  IN  ChatThought(AllOf(blocks, {"think"}))
      \o OrNothing(AllOf(blocks, {"text"}), Text(AllOf(blocks, {"text"})))
      \o [n \in DOMAIN calls |-> Call(ids[calls[n].at], calls[n].letters)]

ParseLegacy(keyed, blocks, ids) ==
  LET Heard(b) == IF b.kind = "refusal" THEN [b EXCEPT !.kind = "text"] ELSE b
      heard == [n \in DOMAIN blocks |-> Heard(blocks[n])]
  IN  ParseKimi(SelectSeq(heard, LAMBDA b : keyed \/ b.kind # "think"), ids)
=============================================================================
