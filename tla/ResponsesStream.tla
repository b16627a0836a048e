-------------------------- MODULE ResponsesStream ---------------------------
(***************************************************************************)
(* A Responses API response, as chat_provider/openai_responses reads it.   *)
(*                                                                         *)
(* The API says most things more than once: as deltas, whole when a part   *)
(* is done, whole again when its item is done, and whole in the completed  *)
(* response. Servers leave out some of these, so the reader takes whatever *)
(* comes first and has to know what it has already taken.                  *)
(*                                                                         *)
(* An event names the item it is about by e.call (NoId if it does not),    *)
(* e.item and e.index (0 if not). A summary part is one letter: <<n, k>>   *)
(* is the k-th part of item n.                                             *)
(***************************************************************************)
EXTENDS Parts

NewResponsesStream ==
  [parts |-> <<>>, usage |-> <<>>,
   saw          |-> FALSE,  \* saw_emittable_parts
   byItem       |-> <<>>,   \* tool_call_by_item_id
   byIndex      |-> <<>>,   \* tool_call_by_output_index
   emitted      |-> {},     \* emitted_tool_call_ids
   withDeltas   |-> {},     \* tool_calls_with_argument_deltas
   withDone     |-> {},     \* tool_calls_with_completion_arguments
   withInline   |-> {},     \* tool_calls_with_inline_arguments
   thoughtKeys  |-> {},     \* reasoning_delta_keys
   thoughtItems |-> {},     \* reasoning_items_with_text_by_id
   thoughtIndexes |-> {}]   \* reasoning_items_with_text_by_output_index

Emit(s, parts) == [s EXCEPT !.parts = @ \o parts, !.saw = @ \/ parts # <<>>]

Known(set, x, none) == IF x = none THEN set ELSE set \cup {x}

-----------------------------------------------------------------------------
(* Reasoning.                                                              *)

ThoughtKey(e) ==
  IF e.item # 0 THEN <<"item", e.item, e.part>>
  ELSE IF e.index # 0 THEN <<"output", e.index, e.part>>
  ELSE <<"part", 0, e.part>>

MarkThought(s, e) ==
  [s EXCEPT !.thoughtItems   = Known(@, e.item, 0),
            !.thoughtIndexes = Known(@, e.index, 0)]

ThoughtDelta(s, e) ==
  IF e.letters = <<>> THEN s
  ELSE MarkThought([Emit(s, <<Think(e.letters, NoSign)>>)
                      EXCEPT !.thoughtKeys = @ \cup {ThoughtKey(e)}], e)

\* A part that is done is new only if no delta of it came.
ThoughtDone(s, e) ==
  IF e.letters = <<>> \/ ThoughtKey(e) \in s.thoughtKeys THEN s
  ELSE MarkThought(Emit(s, <<Think(e.letters, NoSign)>>), e)

Thoughts(letters, sign) == [k \in DOMAIN letters |-> Think(<<letters[k]>>, sign)]

\* A reasoning item that is done: all of it if nothing of it came before, and
\* else what only it has, the encrypted reasoning.
ThoughtItemDone(s, e) ==
  LET streamed == e.item \in s.thoughtItems \/ e.index \in s.thoughtIndexes
      texts    == IF streamed THEN <<>> ELSE Thoughts(e.letters, e.sign)
      secret   == IF texts = <<>> /\ e.sign # NoSign THEN <<Think(<<>>, e.sign)>> ELSE <<>>
      taken    == Emit(s, texts \o secret)
  IN  IF texts = <<>> THEN taken ELSE MarkThought(taken, e)

-----------------------------------------------------------------------------
(* Calls.                                                                  *)

Remember(s, e) ==
  [s EXCEPT !.byItem  = IF e.item = 0 THEN @ ELSE (e.item :> e.call) @@ @,
            !.byIndex = IF e.index = 0 THEN @ ELSE (e.index :> e.call) @@ @]

ResolveCall(s, e) ==
  IF e.call # NoId THEN e.call
  ELSE IF e.item \in DOMAIN s.byItem THEN s.byItem[e.item]
  ELSE IF e.index \in DOMAIN s.byIndex THEN s.byIndex[e.index]
  ELSE NoId

ArgumentsDelta(s, e) ==
  LET id == ResolveCall(s, e)
  IN  IF e.letters = <<>> THEN s
      ELSE [s EXCEPT !.parts = Append(@, Piece(id, e.letters)),
                     !.withDeltas = Known(@, id, NoId)]

\* Faulty variant: arguments that came when the call was added are forgotten.
X_TakesWhole(s, id) == id = NoId \/ id \notin s.withDeltas \cup s.withDone

\* Whole arguments are new only if no form of them came before. Nothing is known
\* of a call that cannot be resolved.
TakesWhole(s, id) == id = NoId \/ id \notin s.withDeltas \cup s.withDone \cup s.withInline

ArgumentsDone(s, e) ==
  LET id == ResolveCall(s, e)
  IN  IF e.letters = <<>> \/ ~TakesWhole(s, id) THEN s
      ELSE [s EXCEPT !.parts = Append(@, Piece(id, e.letters)),
                     !.withDone = Known(@, id, NoId)]

NewCall(s, e) ==
  [Emit(s, <<Call(e.call, e.letters)>>) EXCEPT
     !.emitted    = @ \cup {e.call},
     !.withInline = IF e.letters = <<>> THEN @ ELSE @ \cup {e.call}]

CallAdded(s, e) == NewCall(Remember(s, e), e)

CallItemDone(s, e) ==
  IF e.call \in s.emitted THEN ArgumentsDone(Remember(s, e), e)
                          ELSE NewCall(Remember(s, e), e)

-----------------------------------------------------------------------------
\* The response as a whole: what is not streamed, or the last resort when
\* nothing was.
ParseItem(b, ids) ==
  CASE b.kind \in {"text", "refusal"} -> OrNothing(b.letters, Text(b.letters))
    [] b.kind = "think" -> Thoughts(b.letters, b.sign)
    [] b.kind = "call"  -> <<Call(ids[b.at], b.letters)>>
    [] OTHER            -> <<>>

ParseResponses(blocks, ids) ==
  FlattenSeq([n \in DOMAIN blocks |-> ParseItem(blocks[n], ids)])

Completed(s, blocks, ids) ==
  IF s.saw THEN s ELSE Emit(s, ParseResponses(blocks, ids))

HandleResponses(s, e, blocks, ids) ==
  CASE e.type \in {"text", "refusal"} -> Emit(s, OrNothing(e.letters, Text(e.letters)))
    [] e.type = "thought"        -> ThoughtDelta(s, e)
    [] e.type = "thought done"   -> ThoughtDone(s, e)
    [] e.type = "thinking done"  -> ThoughtItemDone(s, e)
    [] e.type = "arguments"      -> ArgumentsDelta(s, e)
    [] e.type = "arguments done" -> ArgumentsDone(s, e)
    [] e.type = "call added"     -> CallAdded(s, e)
    [] e.type = "call done"      -> CallItemDone(s, e)
    [] e.type = "completed"      -> Completed(s, blocks, ids)
    [] OTHER                     -> s

\* Every event that carries a usage replaces the one before, even by null.
ResponsesUsage(s, e) == IF e.reports THEN e.usage ELSE s.usage

IngestResponses(s, e, blocks, ids) ==
  [HandleResponses(s, e, blocks, ids) EXCEPT !.usage = ResponsesUsage(s, e)]
=============================================================================
