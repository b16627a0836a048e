---------------------------- MODULE MCSoulContext ----------------------------
(* Small instances of SoulContext for TLC. *)
EXTENDS SoulContext

\* A small prompt, one that grows over the limit, and one without usage.
SomeUsages == {None, <<Fits, Fits>>, <<Fits, Long>>}

\* Every prompt but the first of a call that reports no usage is too long.
LongUsages == {None, <<Fits, Long>>}

\* Storage and the model may fail, and the client may cancel, everywhere but
\* between the two halves of a rewind.
Faulty == Labels \ {"idle", "down", "restore", "loop", "settle", "tools"}
Cancellable == Labels \ {"idle", "down", "restore"}
Nowhere == {}
=============================================================================
