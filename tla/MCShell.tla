------------------------------- MODULE MCShell -------------------------------
EXTENDS Shell

W(stream, ends) == [on |-> stream, ends |-> ends]

\* Lines, and lines that come in pieces or do not end, on one stream and on both.
Lines ==
  {<<>>, <<W("out", TRUE), W("out", TRUE)>>, <<W("out", TRUE), W("err", TRUE), W("out", TRUE)>>}
Pieces ==
  {<<W("out", FALSE)>>,
   <<W("out", FALSE), W("err", TRUE), W("out", TRUE)>>,
   <<W("out", FALSE), W("out", FALSE), W("out", TRUE), W("err", FALSE)>>}

\* Commands on this machine write whole lines and are not killed by others.
Careful   == [local |-> Lines, ssh |-> Lines \cup Pieces]
ByExit    == [local |-> {"exit 0", "exit 1"}, ssh |-> {"exit 0", "exit 1", "signal"}]

Unfinished == [local |-> Pieces]
Signalled  == [local |-> {"exit 0", "exit 1", "signal"}]
=============================================================================
