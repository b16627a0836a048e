----------------------------- MODULE WireServer -----------------------------
(***************************************************************************)
(* The wire server (wire/server.rs): clients that connect to one session   *)
(* over WebSocket, the JSON-RPC reader of each connection with its prompt, *)
(* cancel and response handlers, the task of each turn with its UI loop,   *)
(* the shutdown of a connection and what becomes of the session's row.     *)
(*                                                                         *)
(* A prompt is the n-th of its connection. A turn's request to the client  *)
(* is <<n, k>>, the k-th of turn n. What a turn does is in TurnWire and    *)
(* SoulContext: here it asks, writes, ends, fails or is cancelled.         *)
(***************************************************************************)
EXTENDS Naturals, Sequences

CONSTANTS
  Conns,        \* the connections that clients open to the session
  Limit,        \* the prompts of each connection
  MaxAsks,      \* the requests of a turn
  GivesUp,      \* a client may go away while its connection is prepared
  Nobody        \* no connection

ASSUME WireServerAssumption ==
  /\ Limit \in [Conns -> Nat] /\ MaxAsks \in Nat
  /\ GivesUp \in BOOLEAN /\ Nobody \notin Conns

Prompts  == UNION {1 .. Limit[c] : c \in Conns}
Requests == Prompts \X (1 .. MaxAsks)

VARIABLES
  active,    \* active_sessions holds the session
  row,       \* the session in storage: "none", "unused" or "used"
  conn,      \* where each connection is
  created,   \* created_new_session
  turns,     \* next_turn_id: the prompts handled
  slot,      \* active_turn, 0 for None; from shutdown's take() on, what it waits for
  token,     \* the turns whose cancel token is set
  task,      \* where the task of each turn is
  failing,   \* the turns that end in an error or a cancel
  asked,     \* the requests each turn has sent to its wire
  ui, taken, \* its UI loop, and the requests it has taken from the wire
  pending,   \* the pending map
  settled,   \* the requests that were resolved
  replied,   \* what the write queue got in reply to each prompt
  lastTurn   \* last_turn_state is set

connVars == <<active, row, conn, created>>
turnVars == <<turns, slot, token, task, failing, asked, replied, lastTurn>>
askVars  == <<ui, taken, pending, settled>>
vars == <<connVars, turnVars, askVars>>

Init ==
  /\ active = FALSE /\ row \in {"none", "used"}
  /\ conn = [c \in Conns |-> "away"] /\ created = [c \in Conns |-> FALSE]
  /\ turns = [c \in Conns |-> 0] /\ slot = [c \in Conns |-> 0]
  /\ token = [c \in Conns |-> {}] /\ failing = [c \in Conns |-> {}]
  /\ task = [c \in Conns |-> [n \in Prompts |-> "none"]]
  /\ ui = [c \in Conns |-> [n \in Prompts |-> "none"]]
  /\ asked = [c \in Conns |-> [n \in Prompts |-> 0]]
  /\ taken = [c \in Conns |-> [n \in Prompts |-> 0]]
  /\ pending = [c \in Conns |-> {}] /\ settled = [c \in Conns |-> {}]
  /\ replied = [c \in Conns |-> [n \in Prompts |-> <<>>]]
  /\ lastTurn = [c \in Conns |-> FALSE]

At(c, place)     == conn[c] = place
Goes(c, place)   == conn' = [conn EXCEPT ![c] = place]
TaskAt(c, n, place) == task' = [task EXCEPT ![c][n] = place]

-----------------------------------------------------------------------------
(* ws_upgrade_handler.                                                     *)

Connect(c) ==
  /\ At(c, "away")
  /\ IF active THEN Goes(c, "refused") /\ UNCHANGED active
               ELSE Goes(c, "finding") /\ active' = TRUE
  /\ UNCHANGED <<row, created, turnVars, askVars>>

\* Session::find and, if there is none, Session::create.
FindOrCreate(c) ==
  /\ At(c, "finding")
  /\ created' = [created EXCEPT ![c] = row = "none"]
  /\ row' = IF row = "none" THEN "unused" ELSE row
  /\ Goes(c, "preparing")
  /\ UNCHANGED <<active, turnVars, askVars>>

\* KimiCLI::create; if it or the search fails, cleanup_failed_startup, whose own
\* failure is only logged.
Prepare(c) ==
  /\ At(c, "preparing")
  /\ Goes(c, "prepared")
  /\ UNCHANGED <<active, row, created, turnVars, askVars>>

\* Faulty variant: the session is not released.
PrepareFails_KeepsSession(c) ==
  /\ conn[c] \in {"finding", "preparing"}
  /\ row' \in {row, IF created[c] THEN "none" ELSE row}
  /\ Goes(c, "closed")
  /\ UNCHANGED <<active, created, turnVars, askVars>>

PrepareFails(c) ==
  /\ conn[c] \in {"finding", "preparing"}
  /\ row' \in {row, IF created[c] THEN "none" ELSE row}
  /\ Goes(c, "release")
  /\ UNCHANGED <<active, created, turnVars, askVars>>

\* The client goes away and the HTTP server drops the handler's future.
DropHandler(c) ==
  /\ GivesUp /\ conn[c] \in {"finding", "preparing"}
  /\ Goes(c, "gone")
  /\ UNCHANGED <<active, row, created, turnVars, askVars>>

Upgrade(c) ==
  /\ At(c, "prepared")
  /\ Goes(c, "open") \/ Goes(c, "reject")   \* on_upgrade or on_failed_upgrade
  /\ UNCHANGED <<active, row, created, turnVars, askVars>>

-----------------------------------------------------------------------------
(* The reader: one message at a time.                                      *)

\* The write queue takes replies until it is shut down, between the last
\* rejections and finalize_session.
QueueOpen(c) == conn[c] \in {"open", "reject", "stop", "join", "reject again"}

Reply(c, n, what) ==
  replied' = IF QueueOpen(c) THEN [replied EXCEPT ![c][n] = Append(@, what)] ELSE replied

Prompt(c) ==
  /\ At(c, "open") /\ turns[c] < Limit[c]
  /\ LET n == turns[c] + 1 IN
     /\ turns' = [turns EXCEPT ![c] = n]
     /\ IF slot[c] # 0
        THEN Reply(c, n, "busy") /\ UNCHANGED <<slot, task, ui>>
        ELSE /\ slot' = [slot EXCEPT ![c] = n]
             /\ TaskAt(c, n, "running") /\ ui' = [ui EXCEPT ![c][n] = "read"]
             /\ UNCHANGED replied
  /\ UNCHANGED <<connVars, token, failing, asked, lastTurn, taken, pending, settled>>

\* Faulty variant: the requests of the turn are forgotten.
CancelTurn_Forgets(c) ==
  /\ At(c, "open") /\ slot[c] # 0
  /\ token' = [token EXCEPT ![c] = @ \cup {slot[c]}]
  /\ pending' = [pending EXCEPT ![c] = {r \in @ : r[1] # slot[c]}]
  /\ UNCHANGED <<connVars, turns, slot, task, failing, asked, replied, lastTurn, ui, taken, settled>>

\* The requests of the turn stay pending and its UI loop goes on waiting.
CancelTurn(c) ==
  /\ At(c, "open") /\ slot[c] # 0
  /\ token' = [token EXCEPT ![c] = @ \cup {slot[c]}]
  /\ UNCHANGED <<connVars, turns, slot, task, failing, asked, replied, lastTurn, askVars>>

\* An answer, an error or an invalid answer; unknown ids are ignored.
Respond(c) ==
  /\ At(c, "open")
  /\ \E r \in pending[c] :
       /\ pending' = [pending EXCEPT ![c] = @ \ {r}]
       /\ settled' = [settled EXCEPT ![c] = @ \cup {r}]
  /\ UNCHANGED <<connVars, turnVars, ui, taken>>

Disconnect(c) ==
  /\ At(c, "open")
  /\ Goes(c, "reject")
  /\ UNCHANGED <<active, row, created, turnVars, askVars>>

-----------------------------------------------------------------------------
(* WireRpcState::shutdown, finalize_session and release_session.           *)

\* reject_pending_requests, before and after the turn is stopped.
Reject(c) ==
  /\ conn[c] \in {"reject", "reject again"}
  /\ settled' = [settled EXCEPT ![c] = @ \cup pending[c]]
  /\ pending' = [pending EXCEPT ![c] = {}]
  /\ Goes(c, IF At(c, "reject") THEN "stop" ELSE "finalize")
  /\ UNCHANGED <<active, row, created, turnVars, ui, taken>>

Stop(c) ==
  /\ At(c, "stop")
  /\ token' = [token EXCEPT ![c] = @ \cup ({slot[c]} \ {0})]
  /\ Goes(c, IF slot[c] = 0 THEN "reject again" ELSE "join")
  /\ UNCHANGED <<active, row, created, turns, slot, task, failing, asked, replied, lastTurn, askVars>>

\* Faulty variant: the turn is told to stop, but not waited for.
Join_NoWait(c) ==
  /\ At(c, "join")
  /\ Goes(c, "reject again") /\ slot' = [slot EXCEPT ![c] = 0]
  /\ UNCHANGED <<active, row, created, turns, token, task, failing, asked, replied, lastTurn, askVars>>

Join(c) ==
  /\ At(c, "join") /\ task[c][slot[c]] = "ended"
  /\ Goes(c, "reject again") /\ slot' = [slot EXCEPT ![c] = 0]
  /\ UNCHANGED <<active, row, created, turns, token, task, failing, asked, replied, lastTurn, askVars>>

\* A new session that had no turn is deleted. A failure is only logged.
Finalize(c) ==
  /\ At(c, "finalize")
  /\ row' \in {row, IF created[c] /\ ~lastTurn[c] THEN "none" ELSE row}
  /\ Goes(c, "release")
  /\ UNCHANGED <<active, created, turnVars, askVars>>

Release(c) ==
  /\ At(c, "release")
  /\ active' = FALSE /\ Goes(c, "closed")
  /\ UNCHANGED <<row, created, turnVars, askVars>>

-----------------------------------------------------------------------------
(* The task of turn n: run_soul, then the reply, the facts and the slot.   *)

\* Its events are recorded: the session is not empty any more.
Write(c, n) ==
  /\ task[c][n] = "running"
  /\ row # "none" /\ row' = "used"
  /\ UNCHANGED <<active, conn, created, turnVars, askVars>>

\* A tool asks: several may, one after another or in parallel.
Ask(c, n) ==
  /\ task[c][n] = "running" /\ asked[c][n] < MaxAsks
  /\ asked' = [asked EXCEPT ![c][n] = @ + 1]
  /\ UNCHANGED <<connVars, turns, slot, token, task, failing, replied, lastTurn, askVars>>

\* A turn is complete when its tools have their answers, and may fail before.
SoulEnds(c, n) ==
  /\ task[c][n] = "running"
  /\ \/ (\A k \in 1 .. asked[c][n] : <<n, k>> \in settled[c]) /\ UNCHANGED failing
     \/ failing' = [failing EXCEPT ![c] = @ \cup {n}]
  /\ TaskAt(c, n, "closing")
  /\ UNCHANGED <<connVars, turns, slot, token, asked, replied, lastTurn, askVars>>

CancelSeen(c, n) ==
  /\ task[c][n] = "running" /\ n \in token[c]
  /\ failing' = [failing EXCEPT ![c] = @ \cup {n}]
  /\ TaskAt(c, n, "closing")
  /\ UNCHANGED <<connVars, turns, slot, token, asked, replied, lastTurn, askVars>>

\* Faulty variant: run_soul waits for the UI loop without a limit.
RunReturns_Patient(c, n) ==
  /\ task[c][n] = "closing" /\ ui[c][n] = "done"
  /\ TaskAt(c, n, "returned")
  /\ UNCHANGED <<connVars, turns, slot, token, failing, asked, replied, lastTurn, askVars>>

\* The UI loop has 500 ms to end; it needs longer only if it waits for a client.
RunReturns(c, n) ==
  /\ task[c][n] = "closing" /\ ui[c][n] \in {"asking", "done"}
  /\ TaskAt(c, n, "returned")
  /\ UNCHANGED <<connVars, turns, slot, token, failing, asked, replied, lastTurn, askVars>>

SendReply(c, n) ==
  /\ task[c][n] = "returned"
  /\ Reply(c, n, IF n \in failing[c] THEN "stopped" ELSE "finished")
  /\ TaskAt(c, n, "replied")
  /\ UNCHANGED <<connVars, turns, slot, token, failing, asked, lastTurn, askVars>>

KeepState(c, n) ==
  /\ task[c][n] = "replied"
  /\ lastTurn' = [lastTurn EXCEPT ![c] = TRUE]
  /\ TaskAt(c, n, "kept")
  /\ UNCHANGED <<connVars, turns, slot, token, failing, asked, replied, askVars>>

\* The slot is cleared unless shutdown has taken it.
ClearSlot(c, n) ==
  /\ task[c][n] = "kept"
  /\ slot' = IF slot[c] = n /\ ~At(c, "join") THEN [slot EXCEPT ![c] = 0] ELSE slot
  /\ TaskAt(c, n, "ended")
  /\ UNCHANGED <<connVars, turns, token, failing, asked, replied, lastTurn, askVars>>

-----------------------------------------------------------------------------
(* stream_wire_messages, request_approval and request_tool_call.           *)

UiTakes(c, n) ==
  /\ ui[c][n] = "read" /\ taken[c][n] < asked[c][n]
  /\ taken' = [taken EXCEPT ![c][n] = @ + 1]
  /\ pending' = [pending EXCEPT ![c] = @ \cup {<<n, taken[c][n] + 1>>}]
  /\ ui' = [ui EXCEPT ![c][n] = "asking"]
  /\ UNCHANGED <<connVars, turnVars, settled>>

UiWakes(c, n) ==
  /\ ui[c][n] = "asking" /\ <<n, taken[c][n]>> \in settled[c]
  /\ ui' = [ui EXCEPT ![c][n] = "read"]
  /\ UNCHANGED <<connVars, turnVars, taken, pending, settled>>

\* The queue is empty and run_soul has shut it down.
UiEnds(c, n) ==
  /\ ui[c][n] = "read" /\ taken[c][n] = asked[c][n] /\ task[c][n] # "running"
  /\ ui' = [ui EXCEPT ![c][n] = "done"]
  /\ UNCHANGED <<connVars, turnVars, taken, pending, settled>>

-----------------------------------------------------------------------------
Handler(c)  == FindOrCreate(c) \/ Prepare(c) \/ PrepareFails(c) \/ Upgrade(c)
Client(c)   == Connect(c) \/ DropHandler(c) \/ Prompt(c) \/ CancelTurn(c) \/ Respond(c) \/ Disconnect(c)
Shutdown(c) == Reject(c) \/ Stop(c) \/ Join(c) \/ Finalize(c) \/ Release(c)
Turn(c, n)  == CancelSeen(c, n) \/ RunReturns(c, n) \/ SendReply(c, n) \/ KeepState(c, n) \/ ClearSlot(c, n)
Soul(c, n)  == Write(c, n) \/ Ask(c, n) \/ SoulEnds(c, n)
UiLoop(c, n) == UiTakes(c, n) \/ UiWakes(c, n) \/ UiEnds(c, n)

Next ==
  \E c \in Conns :
    \/ Handler(c) \/ Client(c) \/ Shutdown(c)
    \/ \E n \in Prompts : Soul(c, n) \/ Turn(c, n) \/ UiLoop(c, n)

Spec == Init /\ [][Next]_vars

\* The server's tasks are polled when they can go on. The soul and the client
\* owe nothing: a turn may think for ever, a client may never answer.
Fairness ==
  \A c \in Conns :
    /\ WF_vars(Handler(c)) /\ WF_vars(Shutdown(c))
    /\ \A n \in Prompts : WF_vars(Turn(c, n)) /\ WF_vars(UiLoop(c, n))

FairSpec == Spec /\ Fairness
-----------------------------------------------------------------------------
Serving == {"finding", "preparing", "prepared", "open", "reject", "stop", "join",
            "reject again", "finalize", "release"}

TypeOK ==
  /\ active \in BOOLEAN /\ row \in {"none", "unused", "used"}
  /\ conn \in [Conns -> Serving \cup {"away", "refused", "gone", "closed"}]
  /\ created \in [Conns -> BOOLEAN] /\ lastTurn \in [Conns -> BOOLEAN]
  /\ turns \in [Conns -> Nat] /\ slot \in [Conns -> Nat]
  /\ \A c \in Conns : turns[c] <= Limit[c] /\ slot[c] <= turns[c]
  /\ token \in [Conns -> SUBSET Prompts] /\ failing \in [Conns -> SUBSET Prompts]
  /\ task \in [Conns -> [Prompts -> {"none", "running", "closing", "returned",
                                     "replied", "kept", "ended"}]]
  /\ ui \in [Conns -> [Prompts -> {"none", "read", "asking", "done"}]]
  /\ asked \in [Conns -> [Prompts -> 0 .. MaxAsks]] /\ taken \in [Conns -> [Prompts -> 0 .. MaxAsks]]
  /\ pending \in [Conns -> SUBSET Requests] /\ settled \in [Conns -> SUBSET Requests]
  /\ replied \in [Conns -> [Prompts -> Seq({"busy", "finished", "stopped"})]]

Working(c, n) == task[c][n] \in {"running", "closing"}

\* A turn at work has the session to itself: no other turn of its connection is
\* at work, and no other client has been let in, although the first one may have
\* left in the middle of the turn. (handle_prompt, server.rs:278; shutdown and
\* release_session, server.rs:610-854)
OneTurnAtATime ==
  \A c \in Conns : \A n \in Prompts : Working(c, n) =>
    /\ \A m \in Prompts \ {n} : ~Working(c, m)
    /\ \A d \in Conns \ {c} : conn[d] \notin Serving

\* A prompt gets exactly one reply: at once if it is refused, and before its
\* turn's task ends otherwise, whatever cancels or disconnects come between.
\* (handle_prompt, server.rs:278-442)
OneReplyPerPrompt ==
  \A c \in Conns : \A n \in Prompts :
    Len(replied[c][n]) =
      IF n <= turns[c] /\ task[c][n] \in {"none", "replied", "kept", "ended"} THEN 1 ELSE 0

\* The pending map holds exactly what the UI loops, those of earlier, cancelled
\* turns included, are waiting for: no answer of a client goes nowhere and no
\* loop waits for an answer that cannot come. (server.rs:474-480, 1103-1131)
PendingIsAwaited ==
  \A c \in Conns : \A r \in Requests :
    r \in pending[c] <=> ui[c][r[1]] = "asking" /\ taken[c][r[1]] = r[2] /\ r \notin settled[c]

\* A session with recorded events is never deleted: the only sessions deleted
\* are those that were created for a client and had no turn. (finalize_session
\* and create_rpc, server.rs:622-665, 849-911)
UsedSessionIsKept == [][row = "used" => row' = "used"]_row

\* A turn that is cancelled gets its reply even if the client leaves a request of
\* it unanswered. (handle_cancel, server.rs:444-472)
CancelIsAnswered ==
  \A c \in Conns : \A n \in Prompts : n \in token[c] ~> replied[c][n] # <<>>

\* When a client leaves, its session is released, whatever its turn was waiting
\* for. (shutdown, server.rs:610-620)
SessionIsReleased == \A c \in Conns : At(c, "reject") ~> At(c, "closed")

\* Whoever leaves, or cancels, is done with: nothing that a client or a turn still
\* waits for holds up the reply or the session. (server.rs:444-472, 610-620)
LeavingEnds == SessionIsReleased /\ CancelIsAnswered

\* A session is taken only while some connection is served, so that a client is
\* refused only because of another client; the one exception is a client that
\* went away while its connection was prepared. (ws_upgrade_handler,
\* server.rs:914-985)
TakenIsServed == active <=> \E c \in Conns : conn[c] \in Serving \cup {"gone"}

-----------------------------------------------------------------------------
(* The server implements SessionLease. A client that went away while its   *)
(* connection was prepared keeps the session: its handler is gone.         *)

Holds(c) == conn[c] \in Serving \cup {"gone"}

\* A turn has its place from the prompt until the slot is cleared.
InPlace(c, n) == task[c][n] \notin {"none", "ended"}

Holder ==
  IF \E c \in Conns : Holds(c) THEN CHOOSE c \in Conns : Holds(c) ELSE Nobody

InTurn ==
  IF \E c \in Conns : \E n \in Prompts : InPlace(c, n)
  THEN CHOOSE n \in Prompts : \E c \in Conns : InPlace(c, n) ELSE 0

ReplyTo(c, n) ==
  IF replied[c][n] = <<>> THEN "none"
  ELSE IF Len(replied[c][n]) = 1 THEN replied[c][n][1] ELSE "several"

Lease == INSTANCE SessionLease WITH
  Clients <- Conns, Turns <- Prompts, Nobody <- Nobody, holder <- Holder, turn <- InTurn,
  reply <- [c \in Conns |-> [n \in Prompts |-> ReplyTo(c, n)]]

\* The session has one holder at a time, whose turns follow one another and each
\* have one reply, and it is not given back before the turn is over, whoever
\* leaves, cancels or fails to start. (server.rs:278-472, 588-665, 849-1059)
KeepsTheLease == Lease!LeaseSpec
=============================================================================
