------------------------------ MODULE TurnLog -------------------------------
(***************************************************************************)
(* What a turn promises of its messages: the client sees, and the record   *)
(* takes in, each of them once and after it was sent; a turn that ran to   *)
(* its end returns when all were seen and recorded, and is over for both;  *)
(* one that was cancelled returns when all of the soul's were recorded,    *)
(* and nothing more comes from the soul. TurnWire implements it.           *)
(***************************************************************************)
CONSTANTS
  Messages,   \* what may be sent
  Soul        \* what the soul itself may send of it

VARIABLES
  sent,       \* the messages sent so far
  seen,       \* those that the client has seen
  kept,       \* those that the recorder is through with
  end         \* how the turn has returned, "none" before

logVars == <<sent, seen, kept, end>>

LogInit == sent = {} /\ seen = {} /\ kept = {} /\ end = "none"

Send(m) ==
  /\ end # "ok" /\ (end = "cancelled" => m \notin Soul)
  /\ m \notin sent
  /\ sent' = sent \cup {m}
  /\ UNCHANGED <<seen, kept, end>>

See(m) ==
  /\ end # "ok"
  /\ m \in sent \ seen
  /\ seen' = seen \cup {m}
  /\ UNCHANGED <<sent, kept, end>>

\* Merged messages are recorded together.
Keep(chunk) ==
  /\ end = "none"
  /\ chunk \subseteq sent \ kept
  /\ kept' = kept \cup chunk
  /\ UNCHANGED <<sent, seen, end>>

Return(how) ==
  /\ end = "none"
  /\ how = "ok" => sent \subseteq seen \cap kept
  /\ sent \cap Soul \subseteq kept
  /\ end' = how
  /\ UNCHANGED <<sent, seen, kept>>

LogNext ==
  \/ \E m \in Messages : Send(m) \/ See(m)
  \/ \E chunk \in SUBSET Messages : Keep(chunk)
  \/ \E how \in {"ok", "cancelled"} : Return(how)

LogSpec == LogInit /\ [][LogNext]_logVars
=============================================================================
