------------------------------- MODULE MCFlow -------------------------------
(* A small instance of Flow for TLC. *)
EXTENDS Flow

\* An edge line, its nodes named by their ids.
Line(src, dst, word) ==
  [src |-> src, srcText |-> None, dst |-> dst, dstText |-> None,
   label |-> [word |-> word, padded |-> FALSE]]

\* The nodes of the ralph loop serve as the nodes of drawings, too.
MCIds == {"BEGIN", "END", "R1", "R2"}
MCTexts == MCIds \cup {"ask"}
MCWords == {"CONTINUE", "STOP"}
MCIterations == {-1, 0, 1, 2}

\* Chains, choices, a loop, edges without labels, a padded label, a written
\* BEGIN, a second label for a node, and loops at BEGIN.
MCStatements ==
  { Line("BEGIN", "R1", None), Line("R1", "END", "STOP"), Line("R1", "R1", "CONTINUE"),
    Line("R1", "END", None), Line("BEGIN", "BEGIN", "CONTINUE"), Line("BEGIN", "END", "STOP"),
    Line("R2", "END", None), Line("R1", "R2", "CONTINUE"),
    [Line("R1", "END", "STOP") EXCEPT !.label.padded = TRUE],
    [Line("R1", "R2", None) EXCEPT !.srcText = "BEGIN"],
    [Line("R1", "END", "CONTINUE") EXCEPT !.dstText = "ask"],
    [Line("R1", None, None) EXCEPT !.srcText = "ask"],
    [Line("BEGIN", None, None) EXCEPT !.srcText = "ask"] }
=============================================================================
