---------------------------- MODULE MCFileTools ----------------------------
(* Small instances of FileTools for TLC. *)
EXTENDS FileTools, TLC
CONSTANTS put, add, patch, view

With(reading) ==
  put   :> [kind |-> "overwrite"] @@
  add   :> [kind |-> "append"] @@
  patch :> [kind |-> "replace", old |-> 0, all |-> FALSE] @@
  view  :> reading

Readings == {[kind |-> "read", from |-> 1, n |-> 3], [kind |-> "read", from |-> 2, n |-> 2],
             [kind |-> "media"]}
SomeJobs == {With(reading) : reading \in Readings}

SomeTexts == {Missing, <<0, 0, Raw>>}

\* What put writes is too long a line, and fills a reading by itself.
Sizes == [piece \in Pieces |-> IF piece = put THEN 3 ELSE 1]
=============================================================================
