----------------------------- MODULE MCTurnWire -----------------------------
(* Small instances of TurnWire for TLC. *)
EXTENDS TurnWire

\* A step begins, the model answers with a tool call in two deltas, the usage
\* is stored, and the tool asks.
Step == [
  soul    |-> <<"event", "model", "store", "tools">>,
  parts   |-> <<"call", "part">>,
  results |-> <<>>,
  tool    |-> <<"request">>]

\* A content part is in the buffer when the usage is stored.
ShortStep == [
  soul    |-> <<"event", "store", "model", "store">>,
  parts   |-> <<"text">>,
  results |-> <<>>,
  tool    |-> <<>>]
=============================================================================
