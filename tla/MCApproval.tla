----------------------------- MODULE MCApproval -----------------------------
(* Small instances of Approval for TLC. *)
EXTENDS Approval, TLC
CONSTANTS r1, r2

Symmetry == Permutations({r1, r2})
=============================================================================
