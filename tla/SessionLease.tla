---------------------------- MODULE SessionLease ----------------------------
(***************************************************************************)
(* What the wire server promises of a session: one client holds it at a    *)
(* time and is the only one to have turns in it, one after another; every  *)
(* prompt has one reply, "busy" at once or that of its turn while the turn *)
(* is still in its place; and nobody gives the session back in the middle  *)
(* of a turn. WireServer implements it.                                    *)
(***************************************************************************)
EXTENDS Naturals

CONSTANTS
  Clients,    \* those who want the session
  Turns,      \* the numbers of a client's prompts
  Nobody      \* no client

VARIABLES
  holder,     \* who has the session
  turn,       \* the prompt of the holder that has its turn, 0 for none
  reply       \* what each prompt got

leaseVars == <<holder, turn, reply>>

LeaseInit ==
  /\ holder = Nobody /\ turn = 0
  /\ reply = [c \in Clients |-> [n \in Turns |-> "none"]]

Says(c, n, what) ==
  /\ reply[c][n] = "none"
  /\ reply' = [reply EXCEPT ![c][n] = what]

Take(c) ==
  /\ holder = Nobody
  /\ holder' = c
  /\ UNCHANGED <<turn, reply>>

Begin(c, n) ==
  /\ holder = c /\ turn = 0 /\ reply[c][n] = "none"
  /\ turn' = n
  /\ UNCHANGED <<holder, reply>>

Refuse(c, n) ==
  /\ holder = c /\ turn \notin {0, n}
  /\ Says(c, n, "busy")
  /\ UNCHANGED <<holder, turn>>

Answer(c, n) ==
  /\ holder = c /\ turn = n
  /\ \E what \in {"finished", "stopped"} : Says(c, n, what)
  /\ UNCHANGED <<holder, turn>>

End(c, n) ==
  /\ holder = c /\ turn = n /\ reply[c][n] # "none"
  /\ turn' = 0
  /\ UNCHANGED <<holder, reply>>

GiveBack(c) ==
  /\ holder = c /\ turn = 0
  /\ holder' = Nobody
  /\ UNCHANGED <<turn, reply>>

LeaseNext ==
  \E c \in Clients :
    \/ Take(c) \/ GiveBack(c)
    \/ \E n \in Turns : Begin(c, n) \/ Refuse(c, n) \/ Answer(c, n) \/ End(c, n)

LeaseSpec == LeaseInit /\ [][LeaseNext]_leaseVars
=============================================================================
