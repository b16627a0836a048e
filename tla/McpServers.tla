----------------------------- MODULE McpServers -----------------------------
(* The MCP servers a user has configured, and the tokens for them: the `mcp`
   commands (cli/mcp.rs) and the agents that start with what is stored, all
   processes over one database (storage/mcp.rs).

   A command that edits the list loads it whole in one transaction, and
   stores it whole in another. Tokens are kept by the address of a server, so
   that they belong to no row of the list. `mcp auth` asks the provider where
   to go, opens a browser, waits for it on a port of its own, answers the one
   connection that it accepts, and only then asks for the tokens. Of these
   waits only the one on the port has a timeout.                            *)
EXTENDS Naturals, Sequences

CONSTANTS
  N,          \* how many processes run
  Names,      \* names of servers
  Urls,       \* addresses of remote servers
  Lists,      \* what may be stored at first
  Commands,   \* what may be run: [op, name, entry] with entry for "add"
  None

Procs == 1 .. N
Local == [url |-> None, oauth |-> FALSE]
Entries == {Local} \cup [url : Urls, oauth : BOOLEAN]
Rows    == Entries \cup {None}    \* what a name has, or None
Ops     == {"add", "remove", "reset", "list", "auth", "test", "agent"}
Editing == {"add", "remove"}

ASSUME McpServersAssumption ==
  /\ Lists \subseteq [Names -> Rows]
  /\ Commands \subseteq [op : Ops, name : Names, entry : Rows]

VARIABLES
  servers,    \* table mcp_servers: name -> entry
  tokens,     \* table mcp_credentials: the addresses that tokens are kept for
  cmd, pc, list,
  page,       \* what the browser was told by `mcp auth`
  marked,     \* the names that `mcp list` marks with [authorization required]
  looked,     \* the servers that `mcp list` is done with
  log,        \* history: who changed a table
  loadedAt,   \* history: how long the log was when the process loaded the list
  savedAt     \* history: which entry of the log was its change

tables == <<servers, tokens, log, savedAt>>
vars == <<servers, tokens, cmd, pc, list, page, marked, looked, log, loadedAt, savedAt>>

Init ==
  /\ servers \in Lists
  /\ tokens \in SUBSET Urls
  /\ cmd \in [Procs -> {[op |-> "none", name |-> None, entry |-> None]}]
  /\ pc = [p \in Procs |-> "idle"]
  /\ list = [p \in Procs |-> servers]
  /\ page = [p \in Procs |-> "none"]
  /\ marked = [p \in Procs |-> {}]
  /\ looked = [p \in Procs |-> {}]
  /\ log = <<>>
  /\ loadedAt = [p \in Procs |-> 0] /\ savedAt = [p \in Procs |-> 0]

Goto(p, where) == pc' = [pc EXCEPT ![p] = where]
Entry(p) == list[p][cmd[p].name]
Url(p) == Entry(p).url

Logged(p) ==
  /\ log' = Append(log, p)
  /\ savedAt' = [savedAt EXCEPT ![p] = Len(log) + 1]

-----------------------------------------------------------------------------
(* The statements on the database, each in a transaction of its own.        *)

\* Faulty variant: the rows that are stored are taken for those to keep.
ReplaceServers_Own(p, rows) ==
  /\ servers' = [n \in Names |-> IF n = cmd[p].name THEN rows[n] ELSE None]
  /\ Logged(p)
  /\ UNCHANGED tokens

\* Storage::replace_mcp_servers deletes every row and inserts these.
ReplaceServers(p, rows) ==
  /\ servers' = rows
  /\ Logged(p)
  /\ UNCHANGED tokens

SaveTokens(p, url) ==
  /\ tokens' = tokens \cup {url}
  /\ Logged(p)
  /\ UNCHANGED servers

ClearTokens(p, url) ==
  /\ tokens' = tokens \ {url}
  /\ Logged(p)
  /\ UNCHANGED servers

HasTokens(url) == url \in tokens

-----------------------------------------------------------------------------
(* What all commands have in common.                                        *)

\* Processes are numbered in the order in which they start.
Start(p) ==
  /\ pc[p] = "idle" /\ \A q \in Procs : q < p => pc[q] # "idle"
  /\ cmd' \in {[cmd EXCEPT ![p] = c] : c \in Commands}
  /\ Goto(p, "load")
  /\ UNCHANGED <<tables, list, page, marked, looked, loadedAt>>

\* load_mcp_config_for_edit, and load_mcp_configs of an agent that is given no
\* file. The legacy file is only warned about.
Load(p) ==
  /\ pc[p] = "load"
  /\ list' = [list EXCEPT ![p] = servers]
  /\ loadedAt' = [loadedAt EXCEPT ![p] = Len(log)]
  /\ Goto(p, "loaded")
  /\ UNCHANGED <<tables, cmd, page, marked, looked>>

\* The database is busy, or the disk is full, at any statement.
StorageFails(p) ==
  /\ pc[p] \in {"load", "save", "clear", "keep"}
  /\ Goto(p, "failed")
  /\ UNCHANGED <<tables, cmd, list, page, marked, looked, loadedAt>>

\* The command names a server that is not there, or that it is not for.
Applies(p) ==
  CASE cmd[p].op \in {"add", "list", "agent"} -> TRUE
    [] cmd[p].op \in {"remove", "test"} -> Entry(p) # None
    [] cmd[p].op = "reset" -> Entry(p) # None /\ Entry(p).url # None
    [] cmd[p].op = "auth"  -> Entry(p) # None /\ Entry(p).url # None /\ Entry(p).oauth

Refuse(p) ==
  /\ pc[p] = "loaded" /\ ~Applies(p)
  /\ Goto(p, "failed")
  /\ UNCHANGED <<tables, cmd, list, page, marked, looked, loadedAt>>

Begins(p, op) == pc[p] = "loaded" /\ cmd[p].op = op /\ Applies(p)

-----------------------------------------------------------------------------
(* mcp add, mcp remove, mcp reset-auth.                                     *)

Add(p) ==
  /\ Begins(p, "add")
  /\ list' = [list EXCEPT ![p][cmd[p].name] = cmd[p].entry]
  /\ Goto(p, "save")
  /\ UNCHANGED <<tables, cmd, page, marked, looked, loadedAt>>

Remove(p) ==
  /\ Begins(p, "remove")
  /\ list' = [list EXCEPT ![p][cmd[p].name] = None]
  /\ Goto(p, "save")
  /\ UNCHANGED <<tables, cmd, page, marked, looked, loadedAt>>

Save(p) ==
  /\ pc[p] = "save"
  /\ ReplaceServers(p, list[p])
  /\ Goto(p, "ok")
  /\ UNCHANGED <<cmd, list, page, marked, looked, loadedAt>>

ResetAuth(p) ==
  /\ Begins(p, "reset")
  /\ Goto(p, "clear")
  /\ UNCHANGED <<tables, cmd, list, page, marked, looked, loadedAt>>

\* Faulty variant: the tokens of other servers are cleared.
Clear_Others(p) ==
  /\ pc[p] = "clear"
  /\ tokens' = tokens \cap {Url(p)}
  /\ Logged(p)
  /\ Goto(p, "ok")
  /\ UNCHANGED <<servers, cmd, list, page, marked, looked, loadedAt>>

Clear(p) ==
  /\ pc[p] = "clear"
  /\ ClearTokens(p, Url(p))
  /\ Goto(p, "ok")
  /\ UNCHANGED <<cmd, list, page, marked, looked, loadedAt>>

-----------------------------------------------------------------------------
(* mcp list: the tokens are looked up one server after another.             *)

ToMark(p) ==
  {n \in Names \ looked[p] : list[p][n] # None /\ list[p][n].oauth}

\* has_oauth_tokens. The rows are ordered by name, which no property needs.
Mark(p, n) ==
  /\ Begins(p, "list") /\ n \in ToMark(p)
  /\ marked' = [marked EXCEPT ![p] = IF HasTokens(list[p][n].url) THEN @ ELSE @ \cup {n}]
  /\ looked' = [looked EXCEPT ![p] = @ \cup {n}]
  /\ UNCHANGED <<tables, cmd, pc, list, page, loadedAt>>

MarkFails(p) ==
  /\ Begins(p, "list") /\ ToMark(p) # {}
  /\ Goto(p, "failed")
  /\ UNCHANGED <<tables, cmd, list, page, marked, looked, loadedAt>>

Listed(p) ==
  /\ Begins(p, "list") /\ ToMark(p) = {}
  /\ Goto(p, "ok")
  /\ UNCHANGED <<tables, cmd, list, page, marked, looked, loadedAt>>

-----------------------------------------------------------------------------
(* mcp auth.                                                                *)

\* The port for the answer is opened, which may fail.
Authorize(p) ==
  /\ Begins(p, "auth")
  /\ \E where \in {"discover", "failed"} : Goto(p, where)
  /\ UNCHANGED <<tables, cmd, list, page, marked, looked, loadedAt>>

\* The provider names its endpoints, or does not.
Discovered(p) ==
  /\ pc[p] = "discover"
  /\ \E where \in {"register", "failed"} : Goto(p, where)
  /\ UNCHANGED <<tables, cmd, list, page, marked, looked, loadedAt>>

\* It knows the client from now on, or does not.
Registered(p) ==
  /\ pc[p] = "register"
  /\ \E where \in {"opening", "failed"} : Goto(p, where)
  /\ UNCHANGED <<tables, cmd, list, page, marked, looked, loadedAt>>

\* open_browser comes back. With $BROWSER it does so when that command ends,
\* which may itself be waiting for the answer on the port. An error is printed
\* with the address, and the user may open it.
Opened(p) ==
  /\ pc[p] = "opening"
  /\ Goto(p, "browser")
  /\ UNCHANGED <<tables, cmd, list, page, marked, looked, loadedAt>>

\* wait_for_oauth_callback takes one connection. It is answered as complete
\* as soon as it brings a code and a state. What is no request has no answer.
Callback(p) ==
  /\ pc[p] = "browser"
  /\ \E said \in {"complete", "failed", "none"} :
       /\ page' = [page EXCEPT ![p] = said]
       /\ Goto(p, IF said = "complete" THEN "exchange" ELSE "failed")
  /\ UNCHANGED <<tables, cmd, list, marked, looked, loadedAt>>

\* A browser may connect before it has anything to send, and that connection
\* is the one that is read.
Preconnect(p) ==
  /\ pc[p] = "browser"
  /\ Goto(p, "silent")
  /\ UNCHANGED <<tables, cmd, list, page, marked, looked, loadedAt>>

\* Faulty variant: only a listener without a connection is given up.
GiveUp_Idle(p) ==
  /\ pc[p] = "browser"
  /\ Goto(p, "failed")
  /\ UNCHANGED <<tables, cmd, list, page, marked, looked, loadedAt>>

\* The 300 seconds cover the connection and what is read from it.
GiveUp(p) ==
  /\ pc[p] \in {"browser", "silent"}
  /\ Goto(p, "failed")
  /\ UNCHANGED <<tables, cmd, list, page, marked, looked, loadedAt>>

\* The state is looked up and forgotten, the code is sent for the tokens.
Exchange(p) ==
  /\ pc[p] = "exchange"
  /\ \E where \in {"keep", "failed"} : Goto(p, where)
  /\ UNCHANGED <<tables, cmd, list, page, marked, looked, loadedAt>>

Keep(p) ==
  /\ pc[p] = "keep"
  /\ SaveTokens(p, Url(p))
  /\ Goto(p, "authorized")
  /\ UNCHANGED <<cmd, list, page, marked, looked, loadedAt>>

\* The tools are listed to show that it works; when that fails the command
\* fails, after it said that it was authorized.
ShowTools(p) ==
  /\ pc[p] = "authorized"
  /\ \E where \in {"ok", "failed"} : Goto(p, where)
  /\ UNCHANGED <<tables, cmd, list, page, marked, looked, loadedAt>>

-----------------------------------------------------------------------------
(* mcp test, and an agent: both connect with the tokens that are stored.    *)

\* A server without tokens is not connected to.
Test(p) ==
  /\ Begins(p, "test")
  /\ \/ Goto(p, "failed")
     \/ /\ Entry(p).oauth => HasTokens(Url(p))
        /\ Goto(p, "testing")
  /\ UNCHANGED <<tables, cmd, list, page, marked, looked, loadedAt>>

\* The server tells its tools, or fails.
Tested(p) ==
  /\ pc[p] = "testing"
  /\ \E where \in {"ok", "failed"} : Goto(p, where)
  /\ UNCHANGED <<tables, cmd, list, page, marked, looked, loadedAt>>

Connected(p) == {n \in Names : list[p][n] # None /\ list[p][n].oauth
                               /\ HasTokens(list[p][n].url)}

\* An agent works with the list it loaded as long as it runs.
BeginRefresh(p) ==
  /\ Begins(p, "agent") /\ Connected(p) # {}
  /\ cmd' \in {[cmd EXCEPT ![p].name = n] : n \in Connected(p)}
  /\ Goto(p, "refresh")
  /\ UNCHANGED <<tables, list, page, marked, looked, loadedAt>>

\* The client library renews tokens that expire, and saves the new ones.
Refresh(p) ==
  /\ pc[p] = "refresh"
  /\ \/ SaveTokens(p, Url(p)) /\ Goto(p, "ok")
     \/ UNCHANGED tables /\ Goto(p, "failed")
  /\ UNCHANGED <<cmd, list, page, marked, looked, loadedAt>>

AgentEnds(p) ==
  /\ Begins(p, "agent")
  /\ Goto(p, "ok")
  /\ UNCHANGED <<tables, cmd, list, page, marked, looked, loadedAt>>

-----------------------------------------------------------------------------
\* What a process does on its own, timers included.
Own(p) ==
  \/ Load(p) \/ StorageFails(p) \/ Refuse(p)
  \/ Add(p) \/ Remove(p) \/ Save(p) \/ ResetAuth(p) \/ Clear(p)
  \/ (\E n \in Names : Mark(p, n)) \/ MarkFails(p) \/ Listed(p)
  \/ Authorize(p) \/ GiveUp(p) \/ Keep(p) \/ Test(p)

\* What it needs others for: the user, the browser, the provider, the server.
WithOthers(p) ==
  \/ Start(p) \/ Discovered(p) \/ Registered(p) \/ Opened(p)
  \/ Callback(p) \/ Preconnect(p) \/ Exchange(p) \/ ShowTools(p) \/ Tested(p)
  \/ BeginRefresh(p) \/ Refresh(p) \/ AgentEnds(p)

Next == \E p \in Procs : Own(p) \/ WithOthers(p)

Spec == Init /\ [][Next]_vars

\* A process goes on and its timers run out. Nobody else need do anything.
FairSpec == Spec /\ \A p \in Procs : WF_vars(Own(p))

-----------------------------------------------------------------------------
Ended(p) == pc[p] \in {"ok", "failed"}

\* An edit of the list that was reported as made holds, until a later command
\* edits the same server or stores a list that it had loaded before: no other
\* command, and no number of them, undoes it. (mcp_add, mcp_remove and
\* replace_mcp_servers, cli/mcp.rs:138-224, storage/mcp.rs:76-120)
EditsHold ==
  \A p \in Procs : pc[p] = "ok" /\ cmd[p].op \in Editing =>
    \/ servers[cmd[p].name] = IF cmd[p].op = "add" THEN cmd[p].entry ELSE None
    \/ \E q \in Procs \ {p} :
         /\ cmd[q].op \in Editing /\ savedAt[q] > savedAt[p]
         /\ cmd[q].name = cmd[p].name \/ loadedAt[q] < savedAt[p]

\* Nobody else has changed a table since the process loaded the list.
Alone(p) == \A i \in loadedAt[p] + 1 .. Len(log) : log[i] = p

\* What a command tells its user is so, when no other process has changed the
\* list or the tokens meanwhile: the server that was authorized has tokens, the
\* one that was reset has none, and the list marks exactly the servers that
\* ask for an authorization. (cli/mcp.rs:226-373, has_oauth_tokens, mcp.rs:123)
ReportsHold ==
  \A p \in Procs : pc[p] = "ok" /\ Alone(p) =>
    CASE cmd[p].op = "auth"  -> page[p] = "complete" /\ HasTokens(servers[cmd[p].name].url)
      [] cmd[p].op = "reset" -> ~HasTokens(servers[cmd[p].name].url)
      [] cmd[p].op = "list"  ->
           marked[p] = {n \in Names : /\ servers[n] # None /\ servers[n].oauth
                                      /\ ~HasTokens(servers[n].url)}
      [] OTHER -> TRUE

\* Where a command waits for others without a timeout: for answers of the
\* provider or the server, and for the browser command to come back.
Untimed == {"discover", "register", "opening", "exchange", "authorized", "testing"}

\* Every command ends if it never waits for ever where the code sets no time:
\* then no behaviour of the browser keeps it, be it that nothing connects, that
\* a connection brings no request, or a refusal. Agents run as long as their
\* users want. (the timeout of mcp_auth, cli/mcp.rs:303-305)
CommandEnds ==
  \A p \in Procs :
    []<>(pc[p] \notin Untimed) => (pc[p] = "load" /\ cmd[p].op # "agent" ~> Ended(p))

=============================================================================
