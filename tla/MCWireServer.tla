---------------------------- MODULE MCWireServer ----------------------------
(* Small instances of WireServer for TLC. *)
EXTENDS WireServer, TLC

CONSTANTS first, second
Two == {first, second}

\* The first client prompts twice; the second comes for the session.
TwoNone == first :> 2 @@ second :> 0
=============================================================================
