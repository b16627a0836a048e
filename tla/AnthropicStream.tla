-------------------------- MODULE AnthropicStream ---------------------------
(***************************************************************************)
(* A Messages response, as chat_provider/anthropic reads it.               *)
(*                                                                         *)
(* Events: "start" and "report" bring a usage; "block" opens the content   *)
(* block e.index and names its kind; "delta" adds letters to it, or its    *)
(* signature.                                                              *)
(***************************************************************************)
EXTENDS Parts

NewAnthropicStream ==
  [parts |-> <<>>, usage |-> <<>>,
   ids   |-> <<>>]  \* tool_call_id_by_content_block_index

\* What a report does not mention stays as it was.
MergeUsage(s, e) == [s EXCEPT !.usage = e.usage @@ @]

\* A call starts without arguments, even if its block brings an input.
StartedCall(id) == Call(id, <<>>)

OpenBlock(s, e) ==
  LET part == CASE e.kind = "text"     -> OrNothing(e.letters, Text(e.letters))
                [] e.kind = "think"    -> OrNothing(e.letters, Think(e.letters, e.sign))
                [] e.kind = "redacted" -> <<Think(<<>>, e.sign)>>
                [] e.kind = "call"     -> <<StartedCall(e.id)>>
                [] OTHER               -> <<>>
      knows == e.kind = "call" /\ e.index # 0
  IN  [s EXCEPT !.parts = @ \o part, !.ids = IF knows THEN (e.index :> e.id) @@ @ ELSE @]

BlockDelta(s, e) ==
  LET id   == IF e.index \in DOMAIN s.ids THEN s.ids[e.index] ELSE NoId
      part == CASE e.kind = "text"      -> OrNothing(e.letters, Text(e.letters))
                [] e.kind = "think"     -> OrNothing(e.letters, Think(e.letters, NoSign))
                [] e.kind = "signature" -> <<Think(<<>>, e.sign)>>
                [] e.kind = "call"      -> OrNothing(e.letters, Piece(id, e.letters))
                [] OTHER                -> <<>>
  IN  [s EXCEPT !.parts = @ \o part]

IngestAnthropic(s, e) ==
  CASE e.type \in {"start", "report"} -> MergeUsage(s, e)
    [] e.type = "block"               -> OpenBlock(s, e)
    [] e.type = "delta"               -> BlockDelta(s, e)
    [] OTHER                          -> s

\* A response that is not streamed.
ParseAnthropic(blocks, ids) ==
  LET Parsed(b) ==
        CASE b.kind = "text"     -> OrNothing(b.letters, Text(b.letters))
          [] b.kind = "think"    -> OrNothing(b.letters, Think(b.letters, b.sign))
          [] b.kind = "redacted" -> <<Think(<<>>, b.sign)>>
          [] b.kind = "call"     -> <<Call(ids[b.at], b.letters)>>
          [] OTHER               -> <<>>
  IN  FlattenSeq([n \in DOMAIN blocks |-> Parsed(blocks[n])])
=============================================================================
