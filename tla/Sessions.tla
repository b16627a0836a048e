------------------------------ MODULE Sessions ------------------------------
(***************************************************************************)
(* The sessions of one workspace: the rows that storage/sessions.rs keeps  *)
(* in a database shared by every process of the user, and those who use    *)
(* them - clients of a server process (stdio or websocket) and the         *)
(* subagents that their turns start.                                       *)
(*                                                                         *)
(* Storage::with_connection makes every transaction atomic within a        *)
(* process and SQLite between processes, so each transaction is one step.  *)
(* Titles, times, token counts and the stored SessionState are left out;   *)
(* nothing in the program reads them to decide. Session ids that the       *)
(* program makes up are UUIDs: a client without --session is one that      *)
(* picks a name nobody else uses.                                          *)
(***************************************************************************)
EXTENDS Integers, FiniteSetsExt

CONSTANTS
  Clients,     \* those who connect to, or are, a server process
  Process,     \* Process[c]: the process of a client. Leases are per process.
  Continues,   \* the clients of stdio processes started with --continue, one in each
  Names,       \* session ids that clients ask for
  Kids,        \* subagents; also the ids of their sessions
  Inits,       \* those of them that are agents of /init
  MaxRow,      \* bound of this model on row ids
  Apart,       \* no session has clients of two processes at a time
  MayCrash     \* processes may be killed

None == "none"   \* no session id

ASSUME SessionsAssumption ==
  /\ Continues \subseteq Clients
  /\ Names \cap Kids = {}
  /\ Inits \subseteq Kids
  /\ \A c \in Continues, d \in Clients : Process[c] = Process[d] => c = d
  /\ None \notin Names \cup Kids
  /\ MaxRow \in Nat
  /\ {Apart, MayCrash} \subseteq BOOLEAN

Processes == {Process[c] : c \in Clients}

VARIABLES
  rows,        \* table sessions: db id -> row
  lastActive,  \* workspaces.last_active_session_id, 0 if NULL
  leases,      \* leases[p]: WsServerState.active_sessions
  conn,        \* conn[c]: where a client is, and its WireSessionFacts
  kid,         \* kid[k]: where a subagent is
  latest       \* history: the id of the session that a user finished last with events

vars == <<rows, lastActive, leases, conn, kid, latest>>

NoConn == [phase |-> "off", name |-> None, row |-> 0, new |-> FALSE, turn |-> FALSE,
           turned |-> FALSE, empty |-> TRUE]
NoKid  == [phase |-> "off", owner |-> None, process |-> None, row |-> 0]

-----------------------------------------------------------------------------
(* Transactions. events holds, for each stream, the session ids in whose   *)
(* name something was appended.                                            *)

HasEvents(row) == row.context \cup row.wire # {}

\* INTEGER PRIMARY KEY without AUTOINCREMENT: one more than the largest id in use.
NextId == IF DOMAIN rows = {} THEN 1 ELSE Max(DOMAIN rows) + 1

RowsNamed(name) == {r \in DOMAIN rows : rows[r].name = name}

\* A session without a parent is its own root. The parent is looked up by its id.
NewRow(name, parent) ==
  [name |-> name, parent |-> parent, empty |-> TRUE,
   root |-> IF parent = 0 THEN NextId ELSE rows[parent].root,
   context |-> {}, wire |-> {}]

Insert(name, parent) ==
  /\ NextId <= MaxRow
  /\ rows' = [r \in DOMAIN rows \cup {NextId} |->
                IF r = NextId THEN NewRow(name, parent) ELSE rows[r]]

\* ON DELETE RESTRICT keeps a row that others name as parent or root; events go
\* with their session, and last_active_session_id becomes NULL.
Deletable(r) == \A q \in DOMAIN rows \ {r} : r \notin {rows[q].parent, rows[q].root}

Delete(r) ==
  IF r \in DOMAIN rows /\ Deletable(r)
  THEN /\ rows' = [q \in DOMAIN rows \ {r} |-> rows[q]]
       /\ lastActive' = IF lastActive = r THEN 0 ELSE lastActive
  ELSE UNCHANGED <<rows, lastActive>>

Stored(r, row) == r \in DOMAIN rows /\ rows' = [rows EXCEPT ![r] = row]

AppendContext(r, name) ==
  Stored(r, [rows[r] EXCEPT !.context = @ \cup {name}, !.empty = FALSE])

AppendWire(r, name) ==
  Stored(r, [rows[r] EXCEPT !.wire = @ \cup {name}, !.empty = FALSE])

\* Faulty variant: a cleared context is an empty session.
X_ClearContext(r) == Stored(r, [rows[r] EXCEPT !.context = {}, !.empty = TRUE])

ClearContext(r) == Stored(r, [rows[r] EXCEPT !.context = {}, !.empty = (rows[r].wire = {})])

\* session_is_empty: a session that is gone has no events.
IsEmpty(r) == r \notin DOMAIN rows \/ ~HasEvents(rows[r])

\* Faulty variant: any session that ends is the last active one.
X_Finish(r, row) ==
  IF r \notin DOMAIN rows THEN UNCHANGED <<rows, lastActive>>
  ELSE /\ Stored(r, row)
       /\ lastActive' = IF ~row.empty THEN r ELSE IF lastActive = r THEN 0 ELSE lastActive

\* finish_session: only a session without a parent is one to continue.
Finish(r, row) ==
  IF r \notin DOMAIN rows THEN UNCHANGED <<rows, lastActive>>
  ELSE /\ Stored(r, row)
       /\ lastActive' = IF row.parent # 0 THEN lastActive
                        ELSE IF ~row.empty THEN r
                        ELSE IF lastActive = r THEN 0 ELSE lastActive

-----------------------------------------------------------------------------
(* A client's session: found or created, started, served, finalized.       *)

Init ==
  /\ rows = <<>> /\ lastActive = 0 /\ latest = None
  /\ leases = [p \in Processes |-> {}]
  /\ conn = [c \in Clients |-> NoConn]
  /\ kid = [k \in Kids |-> NoKid]

\* Nothing in the program keeps a process from a session that another one serves;
\* SessionRows.cfg shows what comes of it.
Free(c, name) ==
  Apart => \A d \in Clients : Process[d] # Process[c] => conn[d].name # name

Become(c, client) == conn' = [conn EXCEPT ![c] = client]

Release(c) ==
  /\ leases' = [leases EXCEPT ![Process[c]] = @ \ {conn[c].name}]
  /\ conn' = [conn EXCEPT ![c] = NoConn]

\* Faulty variant: nobody asks whether the session has a client.
X_Connect(c, name) ==
  /\ conn[c].phase = "off" /\ c \notin Continues /\ Free(c, name)
  /\ leases' = [leases EXCEPT ![Process[c]] = @ \cup {name}]
  /\ Become(c, [conn[c] EXCEPT !.phase = "finding", !.name = name])
  /\ UNCHANGED <<rows, lastActive, kid, latest>>

\* A client whose session has one already is turned away. (A stdio process has one
\* client, so the lease is always free there.)
Connect(c, name) ==
  /\ conn[c].phase = "off" /\ c \notin Continues /\ Free(c, name)
  /\ name \notin leases[Process[c]]
  /\ leases' = [leases EXCEPT ![Process[c]] = @ \cup {name}]
  /\ Become(c, [conn[c] EXCEPT !.phase = "finding", !.name = name])
  /\ UNCHANGED <<rows, lastActive, kid, latest>>

Find(c) ==
  /\ conn[c].phase = "finding"
  /\ \/ /\ RowsNamed(conn[c].name) = {}
        /\ Become(c, [conn[c] EXCEPT !.phase = "creating"])
     \/ \E r \in RowsNamed(conn[c].name) :
          Become(c, [conn[c] EXCEPT !.phase = "starting", !.row = r])
  /\ UNCHANGED <<rows, lastActive, leases, kid, latest>>

\* The id is unique: whoever comes second fails, and its connection with it.
Create(c) ==
  /\ conn[c].phase = "creating"
  /\ IF RowsNamed(conn[c].name) = {}
     THEN /\ Insert(conn[c].name, 0)
          /\ Become(c, [conn[c] EXCEPT !.phase = "starting", !.row = NextId, !.new = TRUE])
          /\ UNCHANGED leases
     ELSE Release(c) /\ UNCHANGED rows
  /\ UNCHANGED <<lastActive, kid, latest>>

\* continue_session: the row that last_active_session_id points to, if it does.
LastActive == DOMAIN rows \cap {lastActive}

Continue(c) ==
  /\ conn[c].phase = "off" /\ c \in Continues
  /\ \E r \in LastActive :
       /\ Free(c, rows[r].name)
       /\ Become(c, [conn[c] EXCEPT !.phase = "starting", !.name = rows[r].name, !.row = r])
  /\ UNCHANGED <<rows, lastActive, leases, kid, latest>>

\* KimiCLI::create fails: a session made for it is deleted again.
StartFails(c) ==
  /\ conn[c].phase = "starting"
  /\ IF conn[c].new THEN Delete(conn[c].row) ELSE UNCHANGED <<rows, lastActive>>
  /\ Release(c)
  /\ UNCHANGED <<kid, latest>>

Starts(c) ==
  /\ conn[c].phase = "starting"
  /\ Become(c, [conn[c] EXCEPT !.phase = "serving"])
  /\ UNCHANGED <<rows, lastActive, leases, kid, latest>>

\* A turn: the soul runs, or the turn is cancelled before it ran at all.
Prompt(c) ==
  /\ conn[c].phase = "serving" /\ ~conn[c].turn
  /\ \/ Become(c, [conn[c] EXCEPT !.turn = TRUE])
     \/ Become(c, [conn[c] EXCEPT !.turned = TRUE])
  /\ UNCHANGED <<rows, lastActive, leases, kid, latest>>

\* In a turn, the soul appends to the context and the recorder to the wire.
Writes(c) ==
  /\ conn[c].turn
  /\ \/ AppendContext(conn[c].row, conn[c].name)
     \/ AppendWire(conn[c].row, conn[c].name)
     \/ ClearContext(conn[c].row)
  /\ UNCHANGED <<lastActive, leases, conn, kid, latest>>

\* A turn that is cancelled or fails leaves its subagents running: their run has a
\* token of its own. An /init agent runs inside the turn and is dropped with it.
KidsOf(name, p) ==
  {k \in Kids : kid[k].phase # "off" /\ kid[k].owner = name /\ kid[k].process = p}

WithoutInit(c) ==
  [k \in Kids |-> IF k \in KidsOf(conn[c].name, Process[c]) \cap Inits THEN NoKid ELSE kid[k]]

\* Before a turn is over, the recorder has written what was sent to it, if it can.
Flush(r, name) == IF r \in DOMAIN rows THEN AppendWire(r, name) ELSE UNCHANGED rows

TurnEnds(c) ==
  /\ conn[c].turn
  /\ Become(c, [conn[c] EXCEPT !.turn = FALSE, !.turned = TRUE])
  /\ kid' = WithoutInit(c)
  /\ Flush(conn[c].row, conn[c].name)
  /\ UNCHANGED <<lastActive, leases, latest>>

\* Faulty variant: a new session is deleted whatever was done in it.
X_Finalize(c) ==
  /\ conn[c].phase = "serving" /\ ~conn[c].turn
  /\ \/ /\ ~conn[c].new /\ conn[c].turned
        /\ Become(c, [conn[c] EXCEPT !.phase = "closing", !.empty = IsEmpty(conn[c].row)])
        /\ UNCHANGED <<rows, lastActive, leases>>
     \/ /\ conn[c].new
        /\ Delete(conn[c].row) /\ Release(c)
     \/ /\ ~conn[c].new /\ ~conn[c].turned
        /\ Release(c) /\ UNCHANGED <<rows, lastActive>>
  /\ UNCHANGED <<kid, latest>>

\* The client is gone and its turn, if one ran, was cancelled. A session that saw
\* a turn is kept; a new one that did not is deleted; an old one stays as it was.
Finalize(c) ==
  /\ conn[c].phase = "serving" /\ ~conn[c].turn
  /\ \/ /\ conn[c].turned
        /\ Become(c, [conn[c] EXCEPT !.phase = "closing", !.empty = IsEmpty(conn[c].row)])
        /\ UNCHANGED <<rows, lastActive, leases>>
     \/ /\ ~conn[c].turned /\ conn[c].new
        /\ Delete(conn[c].row) /\ Release(c)
     \/ /\ ~conn[c].turned /\ ~conn[c].new
        /\ Release(c) /\ UNCHANGED <<rows, lastActive>>
  /\ UNCHANGED <<kid, latest>>

\* The second transaction of post_run stores what the first one read.
Persist(c) ==
  /\ conn[c].phase = "closing"
  /\ Finish(conn[c].row, [rows[conn[c].row] EXCEPT !.empty = conn[c].empty])
  /\ latest' = IF conn[c].row \notin DOMAIN rows THEN latest
               ELSE IF ~conn[c].empty THEN conn[c].name
               ELSE IF latest = conn[c].name THEN None ELSE latest
  /\ Release(c)
  /\ UNCHANGED kid

-----------------------------------------------------------------------------
(* Subagents: Task and /init.                                              *)

Change(k, agent) == kid' = [kid EXCEPT ![k] = agent]

\* The parent is looked up by its session id.
Spawn(k, owner, p) ==
  /\ kid[k].phase = "off" /\ RowsNamed(k) = {}
  /\ \E r \in RowsNamed(owner) : Insert(k, r)
  /\ Change(k, [phase |-> "starting", owner |-> owner, process |-> p, row |-> NextId])
  /\ UNCHANGED <<lastActive, leases, conn, latest>>

TurnSpawns(c, k) == conn[c].turn /\ Spawn(k, conn[c].name, Process[c])

\* A subagent that has the Task tool has subagents of its own.
KidSpawns(j, k) ==
  kid[j].phase = "running" /\ k \notin Inits /\ Spawn(k, j, kid[j].process)

\* Task deletes the session of an agent that could not be made; /init leaves it.
KidFails(k) ==
  /\ kid[k].phase = "starting"
  /\ IF k \in Inits THEN UNCHANGED <<rows, lastActive>> ELSE Delete(kid[k].row)
  /\ kid' = [kid EXCEPT ![k] = NoKid]
  /\ UNCHANGED <<leases, conn, latest>>

KidStarts(k) ==
  /\ kid[k].phase = "starting"
  /\ Change(k, [kid[k] EXCEPT !.phase = "running"])
  /\ UNCHANGED <<rows, lastActive, leases, conn, latest>>

\* Only Task records its agent's wire.
KidWrites(k) ==
  /\ kid[k].phase = "running"
  /\ AppendContext(kid[k].row, k) \/ (k \notin Inits /\ AppendWire(kid[k].row, k))
  /\ UNCHANGED <<lastActive, leases, conn, kid, latest>>

\* Its turns are over: one, or a second that asks for more than a brief answer.
\* Nobody else writes to its session while the wire is flushed and post_run reads
\* and stores whether it is empty.
KidEnds(k) ==
  /\ kid[k].phase = "running"
  /\ LET r    == kid[k].row
         wire == IF k \in Inits THEN {} ELSE {k}
     IN  Finish(r, [rows[r] EXCEPT !.wire  = @ \cup wire,
                                   !.empty = (rows[r].context \cup rows[r].wire \cup wire = {})])
  /\ kid' = [kid EXCEPT ![k] = NoKid]
  /\ UNCHANGED <<leases, conn, latest>>

-----------------------------------------------------------------------------
\* A process dies with all of its clients and their subagents.
Crash(p) ==
  /\ MayCrash
  /\ \/ \E c \in Clients : Process[c] = p /\ conn[c].phase # "off"
     \/ \E k \in Kids : kid[k].process = p
  /\ leases' = [leases EXCEPT ![p] = {}]
  /\ conn' = [c \in Clients |-> IF Process[c] = p THEN NoConn ELSE conn[c]]
  /\ kid' = [k \in Kids |-> IF kid[k].process = p THEN NoKid ELSE kid[k]]
  /\ UNCHANGED <<rows, lastActive, latest>>

Next ==
  \/ \E c \in Clients :
       \/ \E name \in Names : Connect(c, name)
       \/ Find(c) \/ Create(c) \/ Continue(c) \/ StartFails(c) \/ Starts(c)
       \/ Prompt(c) \/ Writes(c) \/ TurnEnds(c) \/ Finalize(c) \/ Persist(c)
       \/ \E k \in Kids : TurnSpawns(c, k)
  \/ \E k \in Kids :
       \/ \E j \in Kids : KidSpawns(j, k)
       \/ KidFails(k) \/ KidStarts(k) \/ KidWrites(k) \/ KidEnds(k)
  \/ \E p \in Processes : Crash(p)

Spec == Init /\ [][Next]_vars

-----------------------------------------------------------------------------
\* A session holds only what was said in it: no client and no subagent ever writes
\* into a row that has become another session's, whatever process gave its id out
\* again, as long as no session has clients of two processes (Apart).
EventsAreOwn ==
  \A r \in DOMAIN rows : rows[r].context \cup rows[r].wire \subseteq {rows[r].name}

\* The stored flag is_empty, by which sessions are listed and continued, tells the
\* truth, although it is read in one transaction and stored in another, and although
\* /clear, crashes, and processes with other sessions come in between.
EmptyIsTrue == \A r \in DOMAIN rows : rows[r].empty = ~HasEvents(rows[r])

\* --continue opens the session that the user last finished with something in it, in
\* whatever process: never a subagent's, never one that was finished empty or is
\* gone. (With Apart: two processes that finish one session store what each read.)
ContinuesLatest ==
  /\ lastActive = 0 <=> latest = None
  /\ lastActive # 0 =>
       /\ lastActive \in DOMAIN rows
       /\ rows[lastActive].name = latest
       /\ rows[lastActive].parent = 0

\* Every session has its parent, and the root that its parent has.
TreeIsWhole ==
  \A r \in DOMAIN rows :
    LET row == rows[r]
    IN  /\ row.parent = 0 => row.root = r
        /\ row.parent # 0 => row.parent \in DOMAIN rows /\ row.root = rows[row.parent].root

\* What a row says of its session and of its place in the tree is so, in a run
\* without two processes at one session (Apart): of two, the one that finishes may
\* store "empty" over events that the other has just appended.
\* (refresh_context_session_state, create_session and set_session_empty)
RowsAreTrue == EmptyIsTrue /\ TreeIsWhole

\* No step deletes a session with events: not a client that leaves, not a start that
\* fails, not a subagent that could not be made, although row ids are given out
\* again and other processes delete, too. Again without two processes at one session
\* (Apart): the one that created it deletes it when it leaves without a turn of its
\* own, whatever the other has written.
UsedIsKept ==
  [][\A r \in DOMAIN rows :
       HasEvents(rows[r]) => r \in DOMAIN rows' /\ rows'[r].name = rows[r].name]_vars
=============================================================================
