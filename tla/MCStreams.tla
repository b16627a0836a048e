------------------------------ MODULE MCStreams ------------------------------
EXTENDS Streams

\* Chat completions have one order: reasoning, content, calls.
ChatShapes ==
  {<<>>,
   << <<"think", 2>>, <<"text", 1>> >>,
   << <<"text", 1>>, <<"call", 2>>, <<"call", 1>> >>,
   << <<"call", 2>>, <<"call", 2>> >>,
   << <<"think", 1>>, <<"call", 1>>, <<"call", 0>> >>}

BlockShapes ==
  {<<>>,
   << <<"think", 2>>, <<"think", 1>>, <<"text", 1>> >>,
   << <<"text", 1>>, <<"call", 2>>, <<"call", 1>> >>,
   << <<"think", 1>>, <<"call", 2>>, <<"call", 0>> >>,
   << <<"call", 1>>, <<"text", 2>>, <<"call", 1>> >>}

RedactedShapes ==
  {<< <<"redacted", 0>>, <<"think", 1>>, <<"call", 1>> >>,
   << <<"think", 1>>, <<"redacted", 0>>, <<"text", 1>> >>}

Refusal == << <<"think", 1>>, <<"refusal", 2>> >>

AllShapes == [d \in AllDialects |->
                CASE d = "kimi"      -> ChatShapes
                  [] d = "legacy"    -> ChatShapes \cup {Refusal}
                  [] d = "anthropic" -> BlockShapes \cup RedactedShapes
                  [] OTHER           -> BlockShapes \cup {Refusal}]

\* A letter of a text, a thought, a refusal and arguments, by the shape.
SecondBlock == {<<2, 1>>}
=============================================================================
