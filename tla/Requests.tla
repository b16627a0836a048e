------------------------------ MODULE Requests ------------------------------
(***************************************************************************)
(* The assistant's message and its tool results, as the next request takes *)
(* them back to the provider: convert_message of the four providers.       *)
(*                                                                         *)
(* A request is a sequence of entries in the order in which the server     *)
(* reads them: "text", "thinking", "call" and "output". Several entries    *)
(* of one message (Anthropic, chat) and an entry of their own (Responses)  *)
(* are the same here. The objects are the arguments that parse to one; a   *)
(* torn letter in them leaves them one.                                    *)
(***************************************************************************)
EXTENDS Parts

Entry(type, letters, sign, id) ==
  [type |-> type, letters |-> letters, sign |-> sign, id |-> id]

CallEntries(calls) ==
  [n \in DOMAIN calls |-> Entry("call", calls[n].body, NoSign, calls[n].id)]

Outputs(results) ==
  [n \in DOMAIN results |-> Entry("output", <<>>, NoSign, results[n].id)]

TextEntry(part) == OrNothing(part.body, Entry("text", part.body, NoSign, NoId))

\* Anthropic: unsigned thoughts are left out. A signed one is a thinking block of
\* its text and signature; so is what came as a redacted_thinking block, whose
\* data OpenBlock and ParseAnthropic keep as the signature of an empty thought.
\* Every call's arguments must parse to an object, or the whole history is refused.
ToAnthropic(content, calls, results) ==
  LET Block(part) ==
        CASE part.kind = "text"                         -> TextEntry(part)
          [] part.kind = "think" /\ part.sign # NoSign  ->
               <<Entry("thinking", part.body, part.sign, NoId)>>
          [] OTHER                                      -> <<>>
  IN  FlattenSeq([n \in DOMAIN content |-> Block(content[n])])
      \o CallEntries(calls) \o Outputs(results)

AnthropicAccepts(calls, objects) ==
  \A n \in DOMAIN calls : calls[n].body = <<>> \/ Mended(calls[n].body) \in objects

\* Responses: neighbouring thoughts with one signature are one reasoning item.
ToResponses(content, calls, results) ==
  LET Add(entries, part) ==
        IF part.kind = "text" THEN entries \o TextEntry(part)
        ELSE IF /\ entries # <<>>
                /\ Last(entries).type = "thinking" /\ Last(entries).sign = part.sign
             THEN [entries EXCEPT ![Len(entries)].letters = @ \o part.body]
             ELSE Append(entries, Entry("thinking", part.body, part.sign, NoId))
  IN  FoldLeft(Add, <<>>, content) \o CallEntries(calls) \o Outputs(results)

\* Chat completions: one reasoning text and one content, then the calls.
ToKimi(content, calls, results) ==
  LET Bodies(kind) ==
        LET parts == SelectSeq(content, LAMBDA p : p.kind = kind)
        IN  FlattenSeq([n \in DOMAIN parts |-> parts[n].body])
      EntryOf(type, letters) == OrNothing(letters, Entry(type, letters, NoSign, NoId))
  IN  EntryOf("thinking", Bodies("think")) \o EntryOf("text", Bodies("text"))
      \o CallEntries(calls) \o Outputs(results)

\* A model without a key for it gets no reasoning.
ToLegacy(keyed, content, calls, results) ==
  ToKimi(SelectSeq(content, LAMBDA p : keyed \/ p.kind # "think"), calls, results)
=============================================================================
