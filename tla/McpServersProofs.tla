-------------------------- MODULE McpServersProofs --------------------------
(* What the `mcp` commands keep for any number of processes, any servers and  *)
(* any commands: an edit of the list holds until a later one undoes it, and   *)
(* what a command reports is so as long as nobody else changes the tables.    *)
EXTENDS McpServers, TLAPS

-----------------------------------------------------------------------------
(* The inductive invariant.                                                   *)

PcPlaces == {"idle", "load", "loaded", "save", "clear", "keep", "discover", "register",
             "opening", "browser", "silent", "exchange", "authorized", "testing",
             "refresh", "ok", "failed"}

Authorizing == {"discover", "register", "opening", "browser", "silent", "exchange",
                "keep", "authorized"}

\* Where a process has done what it came for, or has given up.
Late == {"authorized", "ok", "failed"}

Types ==
  /\ servers \in [Names -> Rows] /\ list \in [Procs -> [Names -> Rows]]
  /\ cmd \in [Procs -> [op : Ops \cup {"none"}, name : Names \cup {None}, entry : Rows]]
  /\ pc \in [Procs -> PcPlaces]
  /\ page \in [Procs -> {"none", "complete", "failed"}]
  /\ marked \in [Procs -> SUBSET Names] /\ looked \in [Procs -> SUBSET Names]
  /\ log \in Seq(Procs)
  /\ loadedAt \in [Procs -> Nat] /\ savedAt \in [Procs -> Nat]

\* The log is ahead of what a process remembers of it, and only a process that
\* has changed a table is in it.
Times ==
  \A p \in Procs :
    /\ savedAt[p] <= Len(log) /\ loadedAt[p] <= Len(log)
    /\ pc[p] \notin Late => savedAt[p] = 0

Wanted(p) == IF cmd[p].op = "add" THEN cmd[p].entry ELSE None

\* What a process is at goes with its command.
Errand(p) ==
  /\ pc[p] # "idle" => cmd[p].op \in Ops /\ cmd[p].name \in Names
  /\ pc[p] = "save"    => cmd[p].op \in Editing /\ list[p][cmd[p].name] = Wanted(p)
  /\ pc[p] = "clear"   => cmd[p].op = "reset"
  /\ pc[p] = "refresh" => cmd[p].op = "agent"
  /\ pc[p] = "testing" => cmd[p].op = "test"
  /\ pc[p] \in Authorizing => cmd[p].op = "auth"
  /\ pc[p] \in {"exchange", "keep", "authorized"} \/ (pc[p] = "ok" /\ cmd[p].op = "auth")
       => page[p] = "complete"
  /\ pc[p] \in {"idle", "load"} \/ cmd[p].op # "list" => marked[p] = {} /\ looked[p] = {}

Errands == \A p \in Procs : Errand(p)

Edited(p) == pc[p] = "ok" /\ cmd[p].op \in Editing

Undone(p) ==
  \E q \in Procs \ {p} :
    /\ cmd[q].op \in Editing /\ savedAt[q] > savedAt[p]
    /\ cmd[q].name = cmd[p].name \/ loadedAt[q] < savedAt[p]

\* A list that was loaded after an edit has it, or is about to undo it.
Knows(q, p) ==
  pc[q] \in {"loaded", "save"} /\ cmd[q].op \in Editing /\ savedAt[p] <= loadedAt[q] =>
    \/ list[q][cmd[p].name] = Wanted(p)
    \/ pc[q] = "save" /\ cmd[q].name = cmd[p].name
    \/ Undone(p)

ListKnows == \A p \in Procs : \A q \in Procs \ {p} : Edited(p) => Knows(q, p)

\* A command that edits nothing has the list as it is, and the tokens are as it
\* left them and as it saw them, if nobody else changed a table.
Sees(p) ==
  cmd[p].op \notin Editing /\ pc[p] \notin {"idle", "load", "failed"} =>
    /\ list[p] = servers
    /\ cmd[p].op = "auth" /\ pc[p] \in {"authorized", "ok"} => Url(p) \in tokens
    /\ cmd[p].op = "reset" /\ pc[p] = "ok" => Url(p) \notin tokens
    /\ cmd[p].op = "list" =>
         /\ looked[p] \subseteq {n \in Names : list[p][n] # None /\ list[p][n].oauth}
         /\ marked[p] = {n \in looked[p] : list[p][n].url \notin tokens}
         /\ pc[p] = "ok" => ToMark(p) = {}

SeesAlone == \A p \in Procs : Alone(p) => Sees(p)

IInv == Types /\ Times /\ Errands /\ ListKnows /\ EditsHold /\ SeesAlone

-----------------------------------------------------------------------------
(* What a step of one process leaves of the others.                           *)

\* Nothing of what a process knows changes.
Same(q) ==
  /\ pc'[q] = pc[q] /\ cmd'[q] = cmd[q] /\ list'[q] = list[q] /\ page'[q] = page[q]
  /\ marked'[q] = marked[q] /\ looked'[q] = looked[q]
  /\ loadedAt'[q] = loadedAt[q] /\ savedAt'[q] = savedAt[q]

\* Only p moves, and it is not done; if it changes a table it logs that.
Moves(p) ==
  /\ pc[p] \notin {"ok", "failed"}
  /\ \A q \in Procs \ {p} : Same(q)
  /\ \/ UNCHANGED tables
     \/ log' = Append(log, p) /\ savedAt'[p] = Len(log) + 1

LEMMA Logging ==
  ASSUME Types, NEW p \in Procs, log' = Append(log, p)
  PROVE  /\ log' \in Seq(Procs) /\ Len(log') = Len(log) + 1 /\ log'[Len(log) + 1] = p
         /\ \A i \in 1 .. Len(log) : log'[i] = log[i]
         /\ Len(log) \in Nat
BY DEF Types

LEMMA TimesKept ==
  ASSUME Types, Types', Times, NEW p \in Procs, Moves(p), loadedAt'[p] <= Len(log),
         pc'[p] \in Late \/ (UNCHANGED savedAt /\ savedAt[p] = 0)
  PROVE  Times'
<1>1. Len(log) \in Nat /\ (UNCHANGED log \/ Len(log') = Len(log) + 1)
  BY Logging DEF Moves, Types, tables
<1>2. \A q \in Procs : savedAt[q] \in Nat /\ loadedAt[q] \in Nat
                       /\ savedAt'[q] \in Nat /\ loadedAt'[q] \in Nat
  BY DEF Types
<1>3. ASSUME NEW q \in Procs \ {p}
      PROVE  savedAt'[q] <= Len(log') /\ loadedAt'[q] <= Len(log')
             /\ (pc'[q] \notin Late => savedAt'[q] = 0)
  <2>1. Same(q) /\ savedAt[q] <= Len(log) /\ loadedAt[q] <= Len(log)
        /\ (pc[q] \notin Late => savedAt[q] = 0)
    BY DEF Moves, Times
  <2>2. QED
    BY <1>1, <1>2, <2>1 DEF Same
<1>4. savedAt'[p] <= Len(log') /\ loadedAt'[p] <= Len(log')
      /\ (pc'[p] \notin Late => savedAt'[p] = 0)
  <2>1. savedAt[p] <= Len(log)
    BY DEF Times
  <2>2. CASE UNCHANGED tables
    BY <1>1, <1>2, <2>1, <2>2 DEF tables
  <2>3. CASE log' = Append(log, p) /\ savedAt'[p] = Len(log) + 1
    <3>1. Len(log') = Len(log) + 1
      BY <2>3, Logging
    <3>2. pc'[p] \in Late
      <4>1. ~(UNCHANGED savedAt /\ savedAt[p] = 0)
        BY <1>1, <2>3
      <4>2. QED
        BY <4>1
    <3>3. QED
      BY <1>1, <1>2, <2>3, <3>1, <3>2
  <2>4. QED
    BY <2>2, <2>3 DEF Moves
<1>5. QED
  BY <1>3, <1>4 DEF Times

\* A process that is alone has seen nobody else's step, and was alone before.
LEMMA AloneBefore ==
  ASSUME Types, Times, NEW p \in Procs, Moves(p), NEW q \in Procs,
         loadedAt'[q] = loadedAt[q], Alone(q)'
  PROVE  Alone(q) /\ (q # p => UNCHANGED tables)
<1>1. CASE UNCHANGED tables
  BY <1>1 DEF Alone, tables
<1>2. CASE log' = Append(log, p)
  <2>1. /\ Len(log') = Len(log) + 1 /\ log'[Len(log) + 1] = p
        /\ \A i \in 1 .. Len(log) : log'[i] = log[i]
        /\ Len(log) \in Nat
    BY <1>2, Logging
  <2>2. loadedAt[q] \in Nat /\ loadedAt[q] <= Len(log)
    BY DEF Types, Times
  <2>3. \A i \in loadedAt[q] + 1 .. Len(log') : log'[i] = q
    BY DEF Alone
  <2>4. q = p
    BY <2>1, <2>2, <2>3
  <2>5. \A i \in loadedAt[q] + 1 .. Len(log) : i \in loadedAt[q] + 1 .. Len(log') /\ i \in 1 .. Len(log)
    BY <2>1, <2>2
  <2>6. Alone(q)
    BY <2>1, <2>3, <2>5 DEF Alone
  <2>7. QED
    BY <2>4, <2>6
<1>3. QED
  BY <1>1, <1>2 DEF Moves

LEMMA SeesKept ==
  ASSUME Types, Times, SeesAlone, NEW p \in Procs, Moves(p), Alone(p)' => Sees(p)'
  PROVE  SeesAlone'
<1>1. ASSUME NEW q \in Procs, q # p, Alone(q)' PROVE Sees(q)'
  <2>1. Same(q)
    BY <1>1 DEF Moves
  <2>2. Alone(q) /\ UNCHANGED tables
    BY <1>1, <2>1, AloneBefore DEF Same
  <2>3. Sees(q)
    BY <2>2 DEF SeesAlone
  <2>4. QED
    BY <2>1, <2>2, <2>3 DEF Sees, Same, Url, Entry, ToMark, tables
<1>2. \A q \in Procs : Alone(q)' => Sees(q)'
  BY <1>1
<1>3. QED
  BY <1>2 DEF SeesAlone

LEMMA ErrandsKept ==
  ASSUME Errands, NEW p \in Procs, Moves(p), Errand(p)'
  PROVE  Errands'
<1> SUFFICES ASSUME NEW q \in Procs \ {p} PROVE Errand(q)'
  BY DEF Errands
<1>1. Same(q) /\ Errand(q)
  BY DEF Moves, Errands
<1>2. QED
  BY <1>1 DEF Same, Errand, Authorizing, Wanted

\* What has undone an edit was done before p moves.
LEMMA UndoneKept ==
  ASSUME Types, Times, Errands, NEW p \in Procs, Moves(p), NEW r \in Procs \ {p}, Undone(r)
  PROVE  Undone(r)'
<1>1. PICK q \in Procs \ {r} :
        /\ cmd[q].op \in Editing /\ savedAt[q] > savedAt[r]
        /\ cmd[q].name = cmd[r].name \/ loadedAt[q] < savedAt[r]
  BY DEF Undone
<1>2. savedAt[q] # 0
  BY <1>1 DEF Types
<1>3. pc[q] \in {"ok", "failed"}
  <2>1. pc[q] \in Late
    BY <1>2 DEF Times
  <2>2. pc[q] # "authorized"
    BY <1>1 DEF Errands, Errand, Authorizing, Editing
  <2>3. QED
    BY <2>1, <2>2 DEF Late
<1>4. q # p /\ Same(q) /\ Same(r)
  BY <1>3 DEF Moves
<1>5. QED
  BY <1>1, <1>4 DEF Undone, Same

\* As long as p edits nothing, all that was edited holds if it held in what p
\* stores, or in what p has loaded.
LEMMA EditsKept ==
  ASSUME Types, Times, Errands, ListKnows, EditsHold, NEW p \in Procs, Moves(p),
         UNCHANGED servers, ~Edited(p)',
         \A r \in Procs \ {p} : Edited(r) => Knows(p, r)'
  PROVE  ListKnows' /\ EditsHold'
<1>1. \A r \in Procs \ {p} : (Edited(r)' <=> Edited(r)) /\ Wanted(r)' = Wanted(r)
  BY DEF Moves, Same, Edited, Wanted
<1>2. ListKnows'
  <2> SUFFICES ASSUME NEW r \in Procs, NEW q \in Procs \ {r}, Edited(r)' PROVE Knows(q, r)'
    BY DEF ListKnows
  <2>1. r # p
    OBVIOUS
  <2>2. CASE q = p
    BY <1>1, <2>1, <2>2
  <2>3. CASE q # p
    <3>1. Same(q) /\ Same(r)
      BY <2>1, <2>3 DEF Moves
    <3>2. Knows(q, r)
      BY <1>1, <2>1 DEF ListKnows
    <3>3. Undone(r) => Undone(r)'
      BY <2>1, UndoneKept
    <3>4. QED
      BY <1>1, <2>1, <3>1, <3>2, <3>3 DEF Knows, Same
  <2>4. QED
    BY <2>2, <2>3
<1>3. EditsHold'
  <2> SUFFICES ASSUME NEW r \in Procs, Edited(r)'
               PROVE  servers'[cmd'[r].name] = Wanted(r)' \/ Undone(r)'
    BY DEF EditsHold, Edited, Wanted, Undone
  <2>1. r # p
    OBVIOUS
  <2>2. servers[cmd[r].name] = Wanted(r) \/ Undone(r)
    BY <1>1, <2>1 DEF EditsHold, Edited, Wanted, Undone
  <2>3. QED
    BY <1>1, <2>1, <2>2, UndoneKept DEF Moves, Same
<1>4. QED
  BY <1>2, <1>3

-----------------------------------------------------------------------------
(* The steps: most only move their process, by its command.                   *)

GoesOn(p, where) ==
  /\ Goto(p, where)
  /\ UNCHANGED <<tables, cmd, list, page, marked, looked, loadedAt>>
  /\ pc[p] \notin {"idle", "ok", "failed"}
  /\ \/ where = "failed"
     \/ where = "clear"   /\ pc[p] = "loaded" /\ cmd[p].op = "reset"
     \/ where = "discover" /\ pc[p] = "loaded" /\ cmd[p].op = "auth"
     \/ where = "register" /\ pc[p] = "discover"
     \/ where = "opening" /\ pc[p] = "register"
     \/ where = "browser" /\ pc[p] = "opening"
     \/ where = "silent"  /\ pc[p] = "browser"
     \/ where = "keep"    /\ pc[p] = "exchange"
     \/ where = "ok"      /\ pc[p] = "authorized"
     \/ where = "testing" /\ pc[p] = "loaded" /\ cmd[p].op = "test"
     \/ where = "ok"      /\ pc[p] = "testing"
     \/ where = "ok"      /\ pc[p] = "loaded" /\ cmd[p].op = "agent"
     \/ where = "ok"      /\ pc[p] = "loaded" /\ cmd[p].op = "list" /\ ToMark(p) = {}

LEMMA ProcessGoesOn ==
  ASSUME NEW p \in Procs,
         \/ StorageFails(p) \/ Refuse(p) \/ ResetAuth(p) \/ MarkFails(p) \/ Listed(p)
         \/ Authorize(p) \/ GiveUp(p) \/ Exchange(p) \/ ShowTools(p) \/ Test(p)
         \/ AgentEnds(p) \/ Preconnect(p) \/ Discovered(p) \/ Registered(p) \/ Opened(p)
         \/ Tested(p)
  PROVE  \E where \in PcPlaces : GoesOn(p, where)
<1> USE DEF PcPlaces
<1>1. CASE StorageFails(p) \/ Refuse(p) \/ MarkFails(p) \/ GiveUp(p)
  <2>1. GoesOn(p, "failed")
    BY <1>1 DEF StorageFails, Refuse, MarkFails, GiveUp, Begins, GoesOn
  <2>2. QED
    BY <2>1
<1>2. CASE ResetAuth(p)
  <2>1. GoesOn(p, "clear")
    BY <1>2 DEF ResetAuth, Begins, GoesOn
  <2>2. QED
    BY <2>1
<1>3. CASE Listed(p) \/ AgentEnds(p)
  <2>1. GoesOn(p, "ok")
    BY <1>3 DEF Listed, AgentEnds, Begins, GoesOn
  <2>2. QED
    BY <2>1
<1>4. CASE Authorize(p)
  <2>1. GoesOn(p, "discover") \/ GoesOn(p, "failed")
    BY <1>4 DEF Authorize, Begins, GoesOn
  <2>2. QED
    BY <2>1
<1>5. CASE Exchange(p)
  <2>1. GoesOn(p, "keep") \/ GoesOn(p, "failed")
    BY <1>5 DEF Exchange, GoesOn
  <2>2. QED
    BY <2>1
<1>6. CASE ShowTools(p)
  <2>1. GoesOn(p, "ok") \/ GoesOn(p, "failed")
    BY <1>6 DEF ShowTools, GoesOn
  <2>2. QED
    BY <2>1
<1>7. CASE Test(p)
  <2>1. GoesOn(p, "testing") \/ GoesOn(p, "failed")
    BY <1>7 DEF Test, Begins, GoesOn
  <2>2. QED
    BY <2>1
<1>8. CASE Preconnect(p)
  <2>1. GoesOn(p, "silent")
    BY <1>8 DEF Preconnect, GoesOn
  <2>2. QED
    BY <2>1
<1>9. CASE Discovered(p)
  <2>1. GoesOn(p, "register") \/ GoesOn(p, "failed")
    BY <1>9 DEF Discovered, GoesOn
  <2>2. QED
    BY <2>1
<1>10. CASE Registered(p)
  <2>1. GoesOn(p, "opening") \/ GoesOn(p, "failed")
    BY <1>10 DEF Registered, GoesOn
  <2>2. QED
    BY <2>1
<1>11. CASE Opened(p)
  <2>1. GoesOn(p, "browser")
    BY <1>11 DEF Opened, GoesOn
  <2>2. QED
    BY <2>1
<1>12. CASE Tested(p)
  <2>1. GoesOn(p, "ok") \/ GoesOn(p, "failed")
    BY <1>12 DEF Tested, GoesOn
  <2>2. QED
    BY <2>1
<1>13. QED
  BY <1>1, <1>2, <1>3, <1>4, <1>5, <1>6, <1>7, <1>8, <1>9, <1>10, <1>11, <1>12

\* A step that changes one entry of a table of processes.
LEMMA OneProcess ==
  ASSUME NEW S, NEW f \in [Procs -> S], NEW p \in Procs, NEW v \in S, NEW g,
         g = [f EXCEPT ![p] = v]
  PROVE  g \in [Procs -> S] /\ g[p] = v /\ \A q \in Procs \ {p} : g[q] = f[q]
OBVIOUS

LEMMA PcMoves ==
  ASSUME Types, NEW p \in Procs, NEW where \in PcPlaces, Goto(p, where)
  PROVE  pc' \in [Procs -> PcPlaces] /\ pc'[p] = where /\ \A q \in Procs \ {p} : pc'[q] = pc[q]
BY DEF Types, Goto

LEMMA InvGoesOn ==
  ASSUME IInv, NEW p \in Procs, NEW where \in PcPlaces, GoesOn(p, where)
  PROVE  IInv'
<1>1. /\ pc' \in [Procs -> PcPlaces] /\ pc'[p] = where /\ \A q \in Procs \ {p} : pc'[q] = pc[q]
      /\ UNCHANGED <<tables, cmd, list, page, marked, looked, loadedAt>>
      /\ pc[p] \notin {"idle", "ok", "failed"}
  BY PcMoves DEF GoesOn, IInv
<1>2. Moves(p)
  BY <1>1 DEF Moves, Same, tables
<1>3. Types'
  BY <1>1 DEF IInv, Types, tables
<1>4. Times'
  <2>1. pc'[p] \in Late \/ savedAt[p] = 0
    BY <1>1 DEF GoesOn, IInv, Times, Late
  <2>2. loadedAt'[p] <= Len(log)
    BY <1>1 DEF IInv, Times
  <2>3. QED
    BY <1>1, <1>2, <1>3, <2>1, <2>2, TimesKept DEF IInv, tables
<1>5. Errand(p)
  BY DEF IInv, Errands
<1>6. Errand(p)'
  BY <1>1, <1>5 DEF Errand, Authorizing, Wanted, GoesOn, Editing
<1>7. Errands'
  BY <1>2, <1>6, ErrandsKept DEF IInv
<1>8. ListKnows' /\ EditsHold'
  <2>1. ~Edited(p)'
    BY <1>1, <1>5 DEF Edited, GoesOn, Editing, Errand, Authorizing
  <2>2. \A r \in Procs \ {p} : Edited(r) => Knows(p, r)'
    BY <1>1 DEF Knows, GoesOn
  <2>3. QED
    BY <1>1, <1>2, <2>1, <2>2, EditsKept DEF IInv, tables
<1>9. Alone(p)' => Sees(p)'
  <2>1. Alone(p)' => Sees(p)
    BY <1>1, <1>2, AloneBefore DEF IInv, SeesAlone
  <2>2. Sees(p) => Sees(p)'
    BY <1>1, <1>5 DEF Sees, GoesOn, Url, Entry, ToMark, Errand, Authorizing, tables
  <2>3. QED
    BY <2>1, <2>2
<1>10. SeesAlone'
  BY <1>2, <1>9, SeesKept DEF IInv
<1>11. QED
  BY <1>3, <1>4, <1>7, <1>8, <1>10 DEF IInv

LEMMA InvStart ==
  ASSUME IInv, NEW p \in Procs, Start(p)
  PROVE  IInv'
<1>1. PICK c \in Commands : cmd' = [cmd EXCEPT ![p] = c]
  BY DEF Start
<1>2. c \in [op : Ops, name : Names, entry : Rows]
  BY McpServersAssumption DEF McpServersAssumption
<1>3. c \in [op : Ops \cup {"none"}, name : Names \cup {None}, entry : Rows]
  BY <1>2
<1>4. /\ cmd' \in [Procs -> [op : Ops \cup {"none"}, name : Names \cup {None}, entry : Rows]]
      /\ cmd'[p] = c /\ \A q \in Procs \ {p} : cmd'[q] = cmd[q]
  BY <1>1, <1>3, OneProcess DEF IInv, Types
<1>5. /\ pc' \in [Procs -> PcPlaces] /\ pc'[p] = "load" /\ \A q \in Procs \ {p} : pc'[q] = pc[q]
      /\ UNCHANGED <<tables, list, page, marked, looked, loadedAt>>
      /\ pc[p] = "idle"
  <2>1. "load" \in PcPlaces /\ Goto(p, "load")
    BY DEF Start, PcPlaces
  <2>2. QED
    BY <2>1, PcMoves DEF Start, IInv
<1>6. Moves(p)
  BY <1>4, <1>5 DEF Moves, Same, tables
<1>7. Types'
  BY <1>4, <1>5 DEF IInv, Types, tables
<1>8. Times'
  <2>1. savedAt[p] = 0
    BY <1>5 DEF IInv, Times, Late
  <2>2. loadedAt'[p] <= Len(log)
    BY <1>5 DEF IInv, Times
  <2>3. QED
    BY <1>5, <1>6, <1>7, <2>1, <2>2, TimesKept DEF IInv, tables
<1>9. Errands'
  <2>1. Errand(p)
    BY DEF IInv, Errands
  <2>2. Errand(p)'
    BY <1>2, <1>4, <1>5, <2>1 DEF Errand, Authorizing
  <2>3. QED
    BY <1>6, <2>2, ErrandsKept DEF IInv
<1>10. ListKnows' /\ EditsHold'
  <2>1. ~Edited(p)' /\ \A r \in Procs \ {p} : Edited(r) => Knows(p, r)'
    BY <1>5 DEF Edited, Knows
  <2>2. QED
    BY <1>5, <1>6, <2>1, EditsKept DEF IInv, tables
<1>11. SeesAlone'
  <2>1. Sees(p)'
    BY <1>5 DEF Sees
  <2>2. QED
    BY <1>6, <2>1, SeesKept DEF IInv
<1>12. QED
  BY <1>7, <1>8, <1>9, <1>10, <1>11 DEF IInv

LEMMA InvLoad ==
  ASSUME IInv, NEW p \in Procs, Load(p)
  PROVE  IInv'
<1>1. /\ pc' \in [Procs -> PcPlaces] /\ pc'[p] = "loaded" /\ \A q \in Procs \ {p} : pc'[q] = pc[q]
      /\ UNCHANGED <<tables, cmd, page, marked, looked>>
      /\ pc[p] = "load"
  <2>1. "loaded" \in PcPlaces /\ Goto(p, "loaded")
    BY DEF Load, PcPlaces
  <2>2. QED
    BY <2>1, PcMoves DEF Load, IInv
<1>2. /\ list' \in [Procs -> [Names -> Rows]] /\ list'[p] = servers
      /\ \A q \in Procs \ {p} : list'[q] = list[q]
  BY OneProcess DEF Load, IInv, Types
<1>3. /\ loadedAt' \in [Procs -> Nat] /\ loadedAt'[p] = Len(log)
      /\ \A q \in Procs \ {p} : loadedAt'[q] = loadedAt[q]
  <2>1. Len(log) \in Nat
    BY DEF IInv, Types
  <2>2. QED
    BY <2>1, OneProcess DEF Load, IInv, Types
<1>4. Moves(p)
  BY <1>1, <1>2, <1>3 DEF Moves, Same, tables
<1>5. Types'
  BY <1>1, <1>2, <1>3 DEF IInv, Types, tables
<1>6. Times'
  <2>1. savedAt[p] = 0
    BY <1>1 DEF IInv, Times, Late
  <2>2. loadedAt'[p] <= Len(log)
    BY <1>3, <1>5 DEF Types
  <2>3. QED
    BY <1>1, <1>4, <1>5, <2>1, <2>2, TimesKept DEF IInv, tables
<1>7. Errand(p)
  BY DEF IInv, Errands
<1>8. Errands'
  <2>1. Errand(p)'
    BY <1>1, <1>7 DEF Errand, Authorizing
  <2>2. QED
    BY <1>4, <2>1, ErrandsKept DEF IInv
<1>9. ListKnows' /\ EditsHold'
  <2>1. ~Edited(p)'
    BY <1>1 DEF Edited
  <2>2. ASSUME NEW r \in Procs \ {p}, Edited(r) PROVE Knows(p, r)'
    <3>1. servers[cmd[r].name] = Wanted(r) \/ Undone(r)
      BY <2>2 DEF IInv, EditsHold, Edited, Wanted, Undone
    <3>2. Undone(r) => Undone(r)'
      BY <1>4, UndoneKept DEF IInv
    <3>3. Wanted(r)' = Wanted(r)
      BY <1>1 DEF Wanted
    <3>4. QED
      BY <1>1, <1>2, <3>1, <3>2, <3>3 DEF Knows
  <2>3. QED
    BY <1>1, <1>4, <2>1, <2>2, EditsKept DEF IInv, tables
<1>10. SeesAlone'
  <2>1. marked'[p] = {} /\ looked'[p] = {}
    BY <1>1, <1>7 DEF Errand, Authorizing
  <2>2. Sees(p)'
    BY <1>1, <1>2, <2>1 DEF Sees, tables
  <2>3. QED
    BY <1>4, <2>2, SeesKept DEF IInv
<1>11. QED
  BY <1>5, <1>6, <1>8, <1>9, <1>10 DEF IInv

LEMMA InvEdits ==
  ASSUME IInv, NEW p \in Procs, Add(p) \/ Remove(p)
  PROVE  IInv'
<1>1. /\ pc' \in [Procs -> PcPlaces] /\ pc'[p] = "save" /\ \A q \in Procs \ {p} : pc'[q] = pc[q]
      /\ UNCHANGED <<tables, cmd, page, marked, looked, loadedAt>>
      /\ pc[p] = "loaded" /\ cmd[p].op \in Editing
  <2>1. "save" \in PcPlaces /\ Goto(p, "save")
    BY DEF Add, Remove, PcPlaces
  <2>2. QED
    BY <2>1, PcMoves DEF Add, Remove, Begins, IInv, Editing
<1>2. cmd[p].name \in Names /\ Wanted(p) \in Rows
  <2>1. cmd[p].name \in Names
    BY <1>1 DEF IInv, Errands, Errand, Authorizing
  <2>2. cmd[p].entry \in Rows /\ None \in Rows
    BY DEF IInv, Types, Rows
  <2>3. QED
    BY <2>1, <2>2 DEF Wanted
<1>3. list' = [list EXCEPT ![p] = [list[p] EXCEPT ![cmd[p].name] = Wanted(p)]]
  BY DEF Add, Remove, Begins, Wanted
<1>4. list[p] \in [Names -> Rows]
  BY DEF IInv, Types
<1>5. [list[p] EXCEPT ![cmd[p].name] = Wanted(p)] \in [Names -> Rows]
  BY <1>2, <1>4
<1>6. /\ list' \in [Procs -> [Names -> Rows]]
      /\ list'[p] = [list[p] EXCEPT ![cmd[p].name] = Wanted(p)]
      /\ \A q \in Procs \ {p} : list'[q] = list[q]
  BY <1>3, <1>5, OneProcess DEF IInv, Types
<1>7. /\ list'[p][cmd[p].name] = Wanted(p)
      /\ \A n \in Names : n # cmd[p].name => list'[p][n] = list[p][n]
  BY <1>2, <1>4, <1>6
<1>8. Moves(p)
  BY <1>1, <1>6 DEF Moves, Same, tables
<1>9. Types'
  BY <1>1, <1>6 DEF IInv, Types, tables
<1>10. Times'
  <2>1. savedAt[p] = 0
    BY <1>1 DEF IInv, Times, Late
  <2>2. loadedAt'[p] <= Len(log)
    BY <1>1 DEF IInv, Times
  <2>3. QED
    BY <1>1, <1>8, <1>9, <2>1, <2>2, TimesKept DEF IInv, tables
<1>11. Errands'
  <2>1. Errand(p) /\ Wanted(p)' = Wanted(p)
    BY <1>1 DEF IInv, Errands, Wanted
  <2>2. Errand(p)'
    BY <1>1, <1>7, <2>1 DEF Errand, Authorizing
  <2>3. QED
    BY <1>8, <2>2, ErrandsKept DEF IInv
<1>12. ListKnows' /\ EditsHold'
  <2>1. ~Edited(p)'
    BY <1>1 DEF Edited
  <2>2. ASSUME NEW r \in Procs \ {p}, Edited(r) PROVE Knows(p, r)'
    <3>1. Knows(p, r)
      BY <2>2 DEF IInv, ListKnows
    <3>2. Undone(r) => Undone(r)'
      BY <1>8, UndoneKept DEF IInv
    <3>3. Wanted(r)' = Wanted(r) /\ cmd'[r] = cmd[r] /\ cmd[r].name \in Names
      BY <1>1, <2>2 DEF Wanted, Edited, IInv, Errands, Errand, Authorizing
    <3>4. savedAt' = savedAt /\ loadedAt' = loadedAt /\ cmd' = cmd
      BY <1>1 DEF tables
    <3>5. QED
      BY <1>1, <1>7, <3>1, <3>2, <3>3, <3>4 DEF Knows
  <2>3. QED
    BY <1>1, <1>8, <2>1, <2>2, EditsKept DEF IInv, tables
<1>13. SeesAlone'
  <2>1. Sees(p)'
    BY <1>1 DEF Sees
  <2>2. QED
    BY <1>8, <2>1, SeesKept DEF IInv
<1>14. QED
  BY <1>9, <1>10, <1>11, <1>12, <1>13 DEF IInv

LEMMA InvMark ==
  ASSUME IInv, NEW p \in Procs, NEW n \in Names, Mark(p, n)
  PROVE  IInv'
<1> DEFINE found == IF HasTokens(list[p][n].url) THEN marked[p] ELSE marked[p] \cup {n}
<1>1. /\ UNCHANGED <<tables, cmd, pc, list, page, loadedAt>>
      /\ pc[p] = "loaded" /\ cmd[p].op = "list" /\ n \in ToMark(p)
      /\ marked' = [marked EXCEPT ![p] = found]
      /\ looked' = [looked EXCEPT ![p] = looked[p] \cup {n}]
  BY DEF Mark, Begins
<1>2. found \in SUBSET Names /\ looked[p] \cup {n} \in SUBSET Names
  BY DEF IInv, Types
<1>3. /\ marked' \in [Procs -> SUBSET Names] /\ marked'[p] = found
      /\ \A q \in Procs \ {p} : marked'[q] = marked[q]
  BY <1>1, <1>2, OneProcess DEF IInv, Types
<1>4. /\ looked' \in [Procs -> SUBSET Names] /\ looked'[p] = looked[p] \cup {n}
      /\ \A q \in Procs \ {p} : looked'[q] = looked[q]
  BY <1>1, <1>2, OneProcess DEF IInv, Types
<1>5. Moves(p)
  BY <1>1, <1>3, <1>4 DEF Moves, Same, tables
<1>6. Types'
  BY <1>1, <1>3, <1>4 DEF IInv, Types, tables
<1>7. Times'
  <2>1. savedAt[p] = 0
    BY <1>1 DEF IInv, Times, Late
  <2>2. loadedAt'[p] <= Len(log)
    BY <1>1 DEF IInv, Times
  <2>3. QED
    BY <1>1, <1>5, <1>6, <2>1, <2>2, TimesKept DEF IInv, tables
<1>8. Errands'
  <2>1. Errand(p)
    BY DEF IInv, Errands
  <2>2. Errand(p)'
    BY <1>1, <2>1 DEF Errand, Authorizing
  <2>3. QED
    BY <1>5, <2>2, ErrandsKept DEF IInv
<1>9. ListKnows' /\ EditsHold'
  <2>1. ~Edited(p)' /\ \A r \in Procs \ {p} : Edited(r) => Knows(p, r)'
    BY <1>1 DEF Edited, Knows, Editing
  <2>2. QED
    BY <1>1, <1>5, <2>1, EditsKept DEF IInv, tables
<1>10. SeesAlone'
  <2>1. Alone(p)' => Sees(p)
    BY <1>1, <1>5, AloneBefore DEF IInv, SeesAlone
  <2>2. ASSUME Sees(p) PROVE Sees(p)'
    <3>1. /\ list[p] = servers
          /\ looked[p] \subseteq {m \in Names : list[p][m] # None /\ list[p][m].oauth}
          /\ marked[p] = {m \in looked[p] : list[p][m].url \notin tokens}
      BY <1>1, <2>2 DEF Sees, Editing
    <3>2. list[p][n] # None /\ list[p][n].oauth /\ n \notin looked[p]
      BY <1>1 DEF ToMark
    <3>3. looked'[p] \subseteq {m \in Names : list[p][m] # None /\ list[p][m].oauth}
      BY <1>4, <3>1, <3>2
    <3>4. marked'[p] = {m \in looked'[p] : list[p][m].url \notin tokens}
      BY <1>3, <1>4, <3>1, <3>2 DEF HasTokens
    <3>5. pc'[p] # "ok" /\ cmd'[p] = cmd[p] /\ list' = list /\ tokens' = tokens /\ servers' = servers
      BY <1>1 DEF tables
    <3>6. QED
      BY <1>1, <3>1, <3>3, <3>4, <3>5 DEF Sees
  <2>3. QED
    BY <1>5, <2>1, <2>2, SeesKept DEF IInv
<1>11. QED
  BY <1>6, <1>7, <1>8, <1>9, <1>10 DEF IInv

LEMMA InvCallback ==
  ASSUME IInv, NEW p \in Procs, Callback(p)
  PROVE  IInv'
<1>1. PICK said \in {"complete", "failed", "none"}, where \in {"exchange", "failed"} :
        /\ page' = [page EXCEPT ![p] = said] /\ Goto(p, where)
        /\ where = "exchange" => said = "complete"
  BY DEF Callback
<1>2. UNCHANGED <<tables, cmd, list, marked, looked, loadedAt>> /\ pc[p] = "browser"
  BY DEF Callback
<1>3. pc' \in [Procs -> PcPlaces] /\ pc'[p] = where /\ \A q \in Procs \ {p} : pc'[q] = pc[q]
  <2>1. where \in PcPlaces
    BY DEF PcPlaces
  <2>2. QED
    BY <1>1, <2>1, PcMoves DEF IInv
<1>4. /\ page' \in [Procs -> {"none", "complete", "failed"}] /\ page'[p] = said
      /\ \A q \in Procs \ {p} : page'[q] = page[q]
  <2>1. said \in {"none", "complete", "failed"}
    OBVIOUS
  <2>2. QED
    BY <1>1, <2>1, OneProcess DEF IInv, Types
<1>5. Moves(p)
  BY <1>2, <1>3, <1>4 DEF Moves, Same, tables
<1>6. Types'
  BY <1>2, <1>3, <1>4 DEF IInv, Types, tables
<1>7. Times'
  <2>1. savedAt[p] = 0
    BY <1>2 DEF IInv, Times, Late
  <2>2. loadedAt'[p] <= Len(log)
    BY <1>2 DEF IInv, Times
  <2>3. QED
    BY <1>2, <1>5, <1>6, <2>1, <2>2, TimesKept DEF IInv, tables
<1>8. Errand(p)
  BY DEF IInv, Errands
<1>9. Errands'
  <2>1. Errand(p)'
    BY <1>1, <1>2, <1>3, <1>4, <1>8 DEF Errand, Authorizing
  <2>2. QED
    BY <1>5, <2>1, ErrandsKept DEF IInv
<1>10. ListKnows' /\ EditsHold'
  <2>1. ~Edited(p)' /\ \A r \in Procs \ {p} : Edited(r) => Knows(p, r)'
    BY <1>3 DEF Edited, Knows
  <2>2. QED
    BY <1>2, <1>5, <2>1, EditsKept DEF IInv, tables
<1>11. SeesAlone'
  <2>1. Alone(p)' => Sees(p)
    BY <1>2, <1>5, AloneBefore DEF IInv, SeesAlone
  <2>2. Sees(p) => Sees(p)'
    BY <1>2, <1>3, <1>8 DEF Sees, Errand, Authorizing, tables
  <2>3. QED
    BY <1>5, <2>1, <2>2, SeesKept DEF IInv
<1>12. QED
  BY <1>6, <1>7, <1>9, <1>10, <1>11 DEF IInv

LEMMA InvRefreshes ==
  ASSUME IInv, NEW p \in Procs, BeginRefresh(p)
  PROVE  IInv'
<1>1. PICK n \in Names : cmd' = [cmd EXCEPT ![p] = [cmd[p] EXCEPT !.name = n]]
  BY DEF BeginRefresh, Connected
<1>2. /\ cmd' \in [Procs -> [op : Ops \cup {"none"}, name : Names \cup {None}, entry : Rows]]
      /\ cmd'[p] = [cmd[p] EXCEPT !.name = n]
      /\ \A q \in Procs \ {p} : cmd'[q] = cmd[q]
  <2>1. [cmd[p] EXCEPT !.name = n] \in [op : Ops \cup {"none"}, name : Names \cup {None}, entry : Rows]
    <3>1. cmd[p] \in [op : Ops \cup {"none"}, name : Names \cup {None}, entry : Rows]
      BY DEF IInv, Types
    <3>2. n \in Names \cup {None}
      OBVIOUS
    <3>3. QED
      BY <3>1, <3>2
  <2>2. QED
    BY <1>1, <2>1, OneProcess DEF IInv, Types
<1>3. cmd'[p].op = "agent" /\ cmd'[p].name = n /\ cmd[p].op = "agent"
  <2>1. cmd[p] \in [op : Ops \cup {"none"}, name : Names \cup {None}, entry : Rows]
    BY DEF IInv, Types
  <2>2. QED
    BY <1>2, <2>1 DEF BeginRefresh, Begins
<1>4. /\ pc' \in [Procs -> PcPlaces] /\ pc'[p] = "refresh" /\ \A q \in Procs \ {p} : pc'[q] = pc[q]
      /\ UNCHANGED <<tables, list, page, marked, looked, loadedAt>>
      /\ pc[p] = "loaded"
  <2>1. "refresh" \in PcPlaces /\ Goto(p, "refresh")
    BY DEF BeginRefresh, PcPlaces
  <2>2. QED
    BY <2>1, PcMoves DEF BeginRefresh, Begins, IInv
<1>5. Moves(p)
  BY <1>2, <1>4 DEF Moves, Same, tables
<1>6. Types'
  BY <1>2, <1>4 DEF IInv, Types, tables
<1>7. Times'
  <2>1. savedAt[p] = 0
    BY <1>4 DEF IInv, Times, Late
  <2>2. loadedAt'[p] <= Len(log)
    BY <1>4 DEF IInv, Times
  <2>3. QED
    BY <1>4, <1>5, <1>6, <2>1, <2>2, TimesKept DEF IInv, tables
<1>8. Errands'
  <2>1. Errand(p)
    BY DEF IInv, Errands
  <2>2. Errand(p)'
    BY <1>3, <1>4, <2>1 DEF Errand, Authorizing, Ops
  <2>3. QED
    BY <1>5, <2>2, ErrandsKept DEF IInv
<1>9. ListKnows' /\ EditsHold'
  <2>1. ~Edited(p)' /\ \A r \in Procs \ {p} : Edited(r) => Knows(p, r)'
    BY <1>4 DEF Edited, Knows
  <2>2. QED
    BY <1>4, <1>5, <2>1, EditsKept DEF IInv, tables
<1>10. SeesAlone'
  <2>1. Alone(p)' => Sees(p)
    BY <1>4, <1>5, AloneBefore DEF IInv, SeesAlone
  <2>2. Sees(p) => Sees(p)'
    BY <1>3, <1>4 DEF Sees, tables, Editing
  <2>3. QED
    BY <1>5, <2>1, <2>2, SeesKept DEF IInv
<1>11. QED
  BY <1>6, <1>7, <1>8, <1>9, <1>10 DEF IInv

\* The tokens of a server are kept or forgotten.
LEMMA InvTokens ==
  ASSUME IInv, NEW p \in Procs,
         \/ Clear(p) \/ Keep(p)
         \/ (Refresh(p) /\ SaveTokens(p, Url(p)) /\ Goto(p, "ok"))
  PROVE  IInv'
<1>1. PICK where \in {"ok", "authorized"} :
        /\ Goto(p, where) /\ pc[p] \in {"clear", "keep", "refresh"}
        /\ where = "authorized" <=> pc[p] = "keep"
        /\ Logged(p) /\ UNCHANGED <<servers, cmd, list, page, marked, looked, loadedAt>>
        /\ pc[p] = "clear" => tokens' = tokens \ {Url(p)}
        /\ pc[p] = "keep" => tokens' = tokens \cup {Url(p)}
  <2>1. CASE Clear(p)
    BY <2>1 DEF Clear, ClearTokens
  <2>2. CASE Keep(p)
    BY <2>2 DEF Keep, SaveTokens
  <2>3. CASE Refresh(p) /\ SaveTokens(p, Url(p)) /\ Goto(p, "ok")
    BY <2>3 DEF Refresh, SaveTokens
  <2>4. QED
    BY <2>1, <2>2, <2>3
<1>2. pc' \in [Procs -> PcPlaces] /\ pc'[p] = where /\ \A q \in Procs \ {p} : pc'[q] = pc[q]
  <2>1. where \in PcPlaces
    BY DEF PcPlaces
  <2>2. QED
    BY <1>1, <2>1, PcMoves DEF IInv
<1>3. /\ log' = Append(log, p) /\ log' \in Seq(Procs)
      /\ savedAt' \in [Procs -> Nat] /\ savedAt'[p] = Len(log) + 1
      /\ \A q \in Procs \ {p} : savedAt'[q] = savedAt[q]
  <2>1. Len(log) + 1 \in Nat
    BY DEF IInv, Types
  <2>2. QED
    BY <1>1, <2>1, OneProcess, Logging DEF Logged, IInv, Types
<1>4. Moves(p)
  BY <1>1, <1>2, <1>3 DEF Moves, Same
<1>5. Types'
  BY <1>1, <1>2, <1>3 DEF IInv, Types
<1>6. Times'
  <2>1. loadedAt'[p] <= Len(log)
    BY <1>1 DEF IInv, Times
  <2>2. pc'[p] \in Late
    BY <1>2 DEF Late
  <2>3. QED
    BY <1>4, <1>5, <2>1, <2>2, TimesKept DEF IInv
<1>7. Errand(p)
  BY DEF IInv, Errands
<1>8. /\ pc[p] = "clear" => cmd[p].op = "reset" /\ pc'[p] = "ok"
      /\ pc[p] = "keep" => cmd[p].op = "auth" /\ pc'[p] = "authorized" /\ page[p] = "complete"
      /\ pc[p] = "refresh" => cmd[p].op = "agent" /\ pc'[p] = "ok"
  BY <1>1, <1>2, <1>7 DEF Errand, Authorizing
<1>9. Errands'
  <2>1. Errand(p)'
    BY <1>1, <1>2, <1>7, <1>8 DEF Errand, Authorizing
  <2>2. QED
    BY <1>4, <2>1, ErrandsKept DEF IInv
<1>10. ListKnows' /\ EditsHold'
  <2>1. ~Edited(p)' /\ \A r \in Procs \ {p} : Edited(r) => Knows(p, r)'
    BY <1>1, <1>2, <1>8 DEF Edited, Knows, Editing
  <2>2. QED
    BY <1>1, <1>4, <2>1, EditsKept DEF IInv
<1>11. SeesAlone'
  <2>1. Alone(p)' => Sees(p)
    BY <1>1, <1>4, AloneBefore DEF IInv, SeesAlone
  <2>2. Url(p)' = Url(p)
    BY <1>1 DEF Url, Entry
  <2>3. Sees(p) => Sees(p)'
    BY <1>1, <1>2, <1>8, <2>2 DEF Sees, Editing
  <2>4. QED
    BY <1>4, <2>1, <2>3, SeesKept DEF IInv
<1>12. QED
  BY <1>5, <1>6, <1>9, <1>10, <1>11 DEF IInv

\* The step that the others are about: a list takes the place of the stored one,
\* and what it does not know was edited after it was loaded.
LEMMA InvSave ==
  ASSUME IInv, NEW p \in Procs, Save(p)
  PROVE  IInv'
<1>1. /\ servers' = list[p] /\ Logged(p) /\ Goto(p, "ok") /\ pc[p] = "save"
      /\ UNCHANGED <<tokens, cmd, list, page, marked, looked, loadedAt>>
  BY DEF Save, ReplaceServers
<1>2. pc' \in [Procs -> PcPlaces] /\ pc'[p] = "ok" /\ \A q \in Procs \ {p} : pc'[q] = pc[q]
  <2>1. "ok" \in PcPlaces
    BY DEF PcPlaces
  <2>2. QED
    BY <1>1, <2>1, PcMoves DEF IInv
<1>3. /\ log' = Append(log, p) /\ log' \in Seq(Procs)
      /\ savedAt' \in [Procs -> Nat] /\ savedAt'[p] = Len(log) + 1
      /\ \A q \in Procs \ {p} : savedAt'[q] = savedAt[q]
  <2>1. Len(log) + 1 \in Nat
    BY DEF IInv, Types
  <2>2. QED
    BY <1>1, <2>1, OneProcess, Logging DEF Logged, IInv, Types
<1>4. Moves(p)
  BY <1>1, <1>2, <1>3 DEF Moves, Same
<1>5. Types'
  BY <1>1, <1>2, <1>3 DEF IInv, Types
<1>6. Times'
  <2>1. loadedAt'[p] <= Len(log)
    BY <1>1 DEF IInv, Times
  <2>2. pc'[p] \in Late
    BY <1>2 DEF Late
  <2>3. QED
    BY <1>4, <1>5, <2>1, <2>2, TimesKept DEF IInv
<1>7. Errand(p) /\ cmd[p].op \in Editing /\ list[p][cmd[p].name] = Wanted(p)
  BY <1>1 DEF IInv, Errands, Errand, Authorizing
<1>8. Errands'
  <2>1. Errand(p)'
    BY <1>1, <1>2, <1>7 DEF Errand, Authorizing, Editing
  <2>2. QED
    BY <1>4, <2>1, ErrandsKept DEF IInv
<1>9. \A r \in Procs : Wanted(r)' = Wanted(r)
  BY <1>1 DEF Wanted
<1>10. \A r \in Procs : savedAt[r] \in Nat /\ loadedAt[r] \in Nat /\ Len(log) \in Nat
                        /\ savedAt[r] <= Len(log) /\ loadedAt[r] <= Len(log)
  BY DEF IInv, Types, Times
<1>11. ListKnows'
  <2> SUFFICES ASSUME NEW r \in Procs, NEW q \in Procs \ {r}, Edited(r)' PROVE Knows(q, r)'
    BY DEF ListKnows
  <2>1. CASE q = p
    BY <1>2, <2>1 DEF Knows
  <2>2. CASE q # p /\ r = p
    BY <1>1, <1>3, <1>10, <2>2 DEF Knows
  <2>3. CASE q # p /\ r # p
    <3>1. Same(q) /\ Same(r)
      BY <2>3, <1>4 DEF Moves
    <3>2. Edited(r)
      BY <3>1 DEF Edited, Same
    <3>3. Knows(q, r)
      BY <3>2 DEF IInv, ListKnows
    <3>4. Undone(r) => Undone(r)'
      BY <1>4, <2>3, UndoneKept DEF IInv
    <3>5. QED
      BY <1>9, <3>1, <3>3, <3>4 DEF Knows, Same
  <2>4. QED
    BY <2>1, <2>2, <2>3
<1>12. EditsHold'
  <2> SUFFICES ASSUME NEW r \in Procs, Edited(r)'
               PROVE  servers'[cmd'[r].name] = Wanted(r)' \/ Undone(r)'
    BY DEF EditsHold, Edited, Wanted, Undone
  <2>1. CASE r = p
    BY <1>1, <1>7, <1>9, <2>1
  <2>2. CASE r # p
    <3>1. Edited(r) /\ Same(r)
      BY <1>4, <2>2 DEF Moves, Edited, Same
    <3>2. savedAt'[p] > savedAt'[r] /\ cmd'[p].op \in Editing /\ p \in Procs \ {r}
      BY <1>1, <1>3, <1>7, <1>10, <2>2
    <3>3. CASE loadedAt[p] < savedAt[r] \/ cmd[p].name = cmd[r].name
      <4>1. loadedAt'[p] < savedAt'[r] \/ cmd'[p].name = cmd'[r].name
        BY <1>1, <1>3, <2>2, <3>3
      <4>2. QED
        BY <3>2, <4>1 DEF Undone
    <3>4. CASE savedAt[r] <= loadedAt[p] /\ cmd[p].name # cmd[r].name
      <4>1. Knows(p, r)
        BY <2>2, <3>1 DEF IInv, ListKnows
      <4>2. list[p][cmd[r].name] = Wanted(r) \/ Undone(r)
        BY <1>1, <1>7, <3>4, <4>1 DEF Knows
      <4>3. Undone(r) => Undone(r)'
        BY <1>4, <2>2, UndoneKept DEF IInv
      <4>4. QED
        BY <1>1, <1>9, <4>2, <4>3
    <3>5. QED
      BY <1>10, <2>2, <3>3, <3>4
  <2>3. QED
    BY <2>1, <2>2
<1>13. SeesAlone'
  <2>1. Sees(p)'
    BY <1>1, <1>7 DEF Sees
  <2>2. QED
    BY <1>4, <2>1, SeesKept DEF IInv
<1>14. QED
  BY <1>5, <1>6, <1>8, <1>11, <1>12, <1>13 DEF IInv

-----------------------------------------------------------------------------
(* What follows.                                                              *)

LEMMA InvInit == Init => IInv
<1> SUFFICES ASSUME Init PROVE IInv
  OBVIOUS
<1>1. servers \in [Names -> Rows]
  BY McpServersAssumption DEF Init, McpServersAssumption
<1>2. Types
  <2>1. [op |-> "none", name |-> None, entry |-> None]
          \in [op : Ops \cup {"none"}, name : Names \cup {None}, entry : Rows]
    BY DEF Rows
  <2>2. log \in Seq(Procs)
    BY DEF Init
  <2>3. QED
    BY <1>1, <2>1, <2>2 DEF Init, Types, PcPlaces
<1>3. \A p \in Procs : pc[p] = "idle" /\ savedAt[p] = 0 /\ loadedAt[p] = 0 /\ Len(log) = 0
                       /\ marked[p] = {} /\ looked[p] = {}
  BY DEF Init
<1>4. Times
  BY <1>3 DEF Times
<1>5. Errands
  BY <1>3 DEF Errands, Errand, Authorizing
<1>6. ListKnows /\ EditsHold /\ SeesAlone
  BY <1>3 DEF ListKnows, Edited, EditsHold, SeesAlone, Sees
<1>7. QED
  BY <1>2, <1>4, <1>5, <1>6 DEF IInv

LEMMA InvStep == IInv /\ [Next]_vars => IInv'
<1> SUFFICES ASSUME IInv, [Next]_vars PROVE IInv'
  OBVIOUS
<1>1. CASE UNCHANGED vars
  <2>1. UNCHANGED <<servers, tokens, cmd, pc, list, page, marked, looked, log, loadedAt, savedAt>>
    BY <1>1 DEF vars
  <2>2. Types' /\ Times'
    BY <2>1 DEF IInv, Types, Times
  <2>3. Errands'
    BY <2>1 DEF IInv, Errands, Errand, Authorizing, Wanted
  <2>4. ListKnows' /\ EditsHold'
    BY <2>1 DEF IInv, ListKnows, Knows, Edited, Undone, Wanted, EditsHold
  <2>5. SeesAlone'
    BY <2>1 DEF IInv, SeesAlone, Sees, Alone, Url, Entry, ToMark
  <2>6. QED
    BY <2>2, <2>3, <2>4, <2>5 DEF IInv
<1>2. ASSUME NEW p \in Procs, Refresh(p) PROVE IInv'
  <2>1. CASE SaveTokens(p, Url(p)) /\ Goto(p, "ok")
    BY <1>2, <2>1, InvTokens
  <2>2. CASE UNCHANGED tables /\ Goto(p, "failed")
    <3>1. GoesOn(p, "failed") /\ "failed" \in PcPlaces
      BY <1>2, <2>2 DEF Refresh, GoesOn, PcPlaces
    <3>2. QED
      BY <3>1, InvGoesOn
  <2>3. QED
    BY <1>2, <2>1, <2>2 DEF Refresh
<1>3. ASSUME NEW p \in Procs, Own(p) PROVE IInv'
  BY <1>3, ProcessGoesOn, InvGoesOn, InvLoad, InvEdits, InvSave, InvTokens, InvMark DEF Own
<1>4. ASSUME NEW p \in Procs, WithOthers(p) PROVE IInv'
  BY <1>2, <1>4, ProcessGoesOn, InvGoesOn, InvStart, InvCallback, InvRefreshes DEF WithOthers
<1>5. QED
  BY <1>1, <1>3, <1>4 DEF Next

\* An edit of the list that was reported as made holds, until a later command
\* edits the same server or stores a list that it had loaded before, whatever any
\* number of commands do at the same time. (mcp_add, mcp_remove and
\* replace_mcp_servers, cli/mcp.rs:138-224, storage/mcp.rs:76-120)
THEOREM EditsAreKept == Spec => []EditsHold
BY InvInit, InvStep, PTL DEF Spec, IInv

LEMMA ReportsFollow == IInv => ReportsHold
<1> SUFFICES ASSUME IInv, NEW p \in Procs, pc[p] = "ok", Alone(p)
             PROVE  CASE cmd[p].op = "auth"  -> page[p] = "complete" /\ HasTokens(servers[cmd[p].name].url)
                      [] cmd[p].op = "reset" -> ~HasTokens(servers[cmd[p].name].url)
                      [] cmd[p].op = "list"  ->
                           marked[p] = {n \in Names : /\ servers[n] # None /\ servers[n].oauth
                                                      /\ ~HasTokens(servers[n].url)}
                      [] OTHER -> TRUE
  BY DEF ReportsHold
<1>1. Sees(p) /\ Errand(p)
  BY DEF IInv, SeesAlone, Errands
<1>2. CASE cmd[p].op = "auth"
  BY <1>1, <1>2 DEF Sees, Errand, Authorizing, HasTokens, Url, Entry, Editing
<1>3. CASE cmd[p].op = "reset"
  BY <1>1, <1>3 DEF Sees, HasTokens, Url, Entry, Editing
<1>4. CASE cmd[p].op = "list"
  <2>1. /\ list[p] = servers /\ ToMark(p) = {}
        /\ looked[p] \subseteq {n \in Names : list[p][n] # None /\ list[p][n].oauth}
        /\ marked[p] = {n \in looked[p] : list[p][n].url \notin tokens}
    BY <1>1, <1>4 DEF Sees, Editing
  <2>2. looked[p] = {n \in Names : servers[n] # None /\ servers[n].oauth}
    BY <2>1 DEF ToMark
  <2>3. marked[p] = {n \in Names : /\ servers[n] # None /\ servers[n].oauth
                                   /\ ~HasTokens(servers[n].url)}
    BY <2>1, <2>2 DEF HasTokens
  <2>4. QED
    BY <1>4, <2>3
<1>5. CASE cmd[p].op \notin {"auth", "reset", "list"}
  BY <1>5
<1>6. QED
  BY <1>2, <1>3, <1>4, <1>5

\* What a command tells its user is so when nobody else changed the list or the
\* tokens since it read them. (cli/mcp.rs:226-373, has_oauth_tokens, mcp.rs:123)
THEOREM ReportsAreTrue == Spec => []ReportsHold
BY InvInit, InvStep, ReportsFollow, PTL DEF Spec
=============================================================================
