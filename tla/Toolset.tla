------------------------------ MODULE Toolset ------------------------------
(* The toolset of one agent, KimiToolset (soul/toolset.rs), behind its one    *)
(* tokio mutex: the names the model may call and who serves them, the MCP     *)
(* servers with their statuses, and the tasks that connect the servers in the *)
(* background.  Three kinds of actors share it:                               *)
(*                                                                            *)
(*   - the owner: instantiate_with_overlay (soul/agent.rs), then the soul's   *)
(*     runs (soul/kimisoul.rs), one after another, and its shutdown;          *)
(*   - the loading tasks of load_mcp_tools, each with a batch of servers,     *)
(*     which need the lock for every look at the toolset;                     *)
(*   - the wire's `initialize`, which registers the client's tools.           *)
(*                                                                            *)
(* The lock is not a variable: the owner holds it across awaits exactly while *)
(* it loads, generates a step or cleans up, and everyone else takes it for    *)
(* one stretch without awaits, which is one action.                           *)
EXTENDS Naturals, FiniteSets

CONSTANTS
  Servers,        \* MCP servers, by (scoped) name
  Names,          \* tool names
  Builtins,       \* the names that load_tools added before any server
  Overlays,       \* what external tools a parent may hand down
  Offers,         \* what each server lists
  StartServers,   \* the servers of the agent's own MCP configs
  Skills,         \* for each skill with servers, the servers it requires
  OAuth,          \* the servers that need stored tokens
  MaxRuns         \* bound: skill runs that load servers

ASSUME ToolsetAssumption ==
  /\ Builtins \subseteq Names /\ Overlays \subseteq SUBSET Names
  /\ Offers \in [Servers -> SUBSET Names]
  /\ StartServers \subseteq Servers /\ OAuth \subseteq Servers
  /\ Skills \subseteq SUBSET Servers
  /\ MaxRuns \in Nat
  /\ Servers \cap {"none", "builtin", "external"} = {}

Tasks == 0..MaxRuns     \* 0 is the task of the start, k that of skill run k

VARIABLES
  pc,        \* where the owner is
  runs,      \* skill runs so far
  needed,    \* the servers that the skill being run requires
  left,      \* servers that the load in progress has still to look at
  batch,     \* servers_to_connect
  pool,      \* mcp_loading_tasks
  awaited,   \* the tasks the owner has taken and waits for
  detached,  \* tasks whose handles a cancelled wait has dropped
  cut,       \* servers an interrupted load left Pending, in nobody's batch
  tools,     \* who serves each name: "builtin", "external", a server or "none"
  external,  \* keys of external_tools
  owner,     \* mcp_tool_owners
  status,    \* mcp_servers: the status of each server, "none" for no entry
  listed,    \* info.tools of each server
  at,        \* where each loading task is
  todo,      \* the servers still in each task's batch
  now        \* the server each task is connecting

ownerVars == <<pc, runs, needed, left, batch, pool, awaited, detached, cut>>
toolVars  == <<tools, external, owner, listed>>
taskVars  == <<at, todo, now>>
vars      == <<ownerVars, toolVars, status, taskVars>>

Resting == {"Failed", "Unauthorized", "none"}    \* what a load takes up again

\* Faulty variant: a skill waits for its servers with the lock held.
LockFree_NorWhileReadying ==
  pc \notin {"starting", "loading", "readying", "step", "aborting"}

\* The owner's guard is alive across its awaits only here: the load inside
\* load_mcp_tools, kosong_step under `let toolset = ...`, and cleanup.
LockFree == pc \notin {"starting", "loading", "step", "aborting"}

Live(t) == at[t] \notin {"unborn", "done"}

Init ==
  /\ pc = "starting" /\ runs = 0
  /\ needed = {} /\ left = StartServers /\ batch = {}
  /\ pool = {} /\ awaited = {} /\ detached = {} /\ cut = {}
  /\ tools = [n \in Names |-> IF n \in Builtins THEN "builtin" ELSE "none"]
  /\ external = {}
  /\ owner = [n \in Names |-> "none"]
  /\ status = [s \in Servers |-> "none"]
  /\ listed = [s \in Servers |-> {}]
  /\ at = [t \in Tasks |-> "unborn"]
  /\ todo = [t \in Tasks |-> {}]
  /\ now = [t \in Tasks |-> "none"]

-----------------------------------------------------------------------------
(* Loading: load_mcp_tools, called with the lock held, looks at the servers   *)
(* of its configs in the order of a hash map and gathers those to connect.    *)

\* Faulty variant: a server that is being connected is taken up again.
LoadServer_WhileConnecting(s) ==
  /\ pc \in {"starting", "loading"} /\ s \in left
  /\ left' = left \ {s}
  /\ \/ /\ status[s] \in {"Pending", "Connected"}
        /\ UNCHANGED <<status, batch>>
     \/ /\ status[s] \in Resting \cup {"Connecting"}
        /\ status' = [status EXCEPT ![s] = "Pending"]
        /\ batch' = batch \cup {s}
  /\ UNCHANGED <<pc, runs, needed, pool, awaited, detached, cut, toolVars, taskVars>>

\* The next server gets its entry, or is left alone if it is connected or on
\* its way; one that needs tokens and has none is Unauthorized at once.
LoadServer(s) ==
  /\ pc \in {"starting", "loading"} /\ s \in left
  /\ left' = left \ {s}
  /\ \/ /\ status[s] \notin Resting
        /\ UNCHANGED <<status, batch>>
     \/ /\ status[s] \in Resting
        /\ status' = [status EXCEPT ![s] = "Pending"]
        /\ batch' = batch \cup {s}
     \/ /\ status[s] \in Resting /\ s \in OAuth
        /\ status' = [status EXCEPT ![s] = "Unauthorized"]
        /\ UNCHANGED batch
  /\ UNCHANGED <<pc, runs, needed, pool, awaited, detached, cut, toolVars, taskVars>>

\* The batch goes to a task of its own, if there is anything to connect.
Spawned == IF batch = {} THEN {} ELSE {runs}

Spawn ==
  /\ left = {}
  /\ at' = [t \in Tasks |-> IF t \in Spawned THEN "next" ELSE at[t]]
  /\ todo' = [t \in Tasks |-> IF t \in Spawned THEN batch ELSE todo[t]]
  /\ batch' = {}
  /\ UNCHANGED <<runs, needed, left, cut, status, now, owner, listed>>

\* The agent starts: the new task goes to the pool, the parent's external
\* tools are registered, and the lock is released.
Started(overlay) ==
  /\ pc = "starting" /\ overlay \cap Builtins = {}
  /\ Spawn
  /\ pc' = "idle"
  /\ pool' = pool \cup Spawned
  /\ external' = overlay
  /\ tools' = [n \in Names |-> IF n \in overlay THEN "external" ELSE tools[n]]
  /\ UNCHANGED <<awaited, detached>>

\* It does not: an external tool has the name of a builtin one.  There is no
\* agent then, but the task was spawned, has the toolset and goes on.
OverlayFails(overlay) ==
  /\ pc = "starting" /\ overlay \cap Builtins # {}
  /\ Spawn
  /\ pc' = "failed"
  /\ pool' = pool \cup Spawned
  /\ \E applied \in SUBSET (overlay \ Builtins) :   \* those before the conflict
       /\ external' = applied
       /\ tools' = [n \in Names |-> IF n \in applied THEN "external" ELSE tools[n]]
  /\ UNCHANGED <<awaited, detached>>

\* A skill's load takes every loading task along, its own and those of the
\* start, and waits for them outside the lock.
SkillLoaded ==
  /\ pc = "loading"
  /\ Spawn
  /\ pc' = "readying"
  /\ awaited' = pool \cup Spawned
  /\ pool' = {}
  /\ UNCHANGED <<detached, tools, external>>

\* The load stops before its end: the tokens of a server cannot be read, or
\* the run is cancelled in one of the awaits there are for a server that is
\* not skipped.  What the load has put to Pending stays so.
Interrupted(server, next) ==
  /\ server \in left /\ status[server] \in Resting
  /\ pc' = next
  /\ cut' = cut \cup batch
  /\ needed' = {} /\ left' = {} /\ batch' = {}
  /\ UNCHANGED <<runs, pool, awaited, detached, toolVars, status, taskVars>>

\* At the start that is the end of the agent; two configs that disagree about
\* a server end it too.
StartFails(s) == pc = "starting" /\ Interrupted(s, "failed")

LoadFails(s) == pc = "loading" /\ s \in OAuth /\ Interrupted(s, "idle")

CancelLoad(s) == pc = "loading" /\ Interrupted(s, "idle")
-----------------------------------------------------------------------------
(* The runs of the soul.                                                      *)

\* A run of a skill that needs servers: ensure_skill_mcp_ready locks and loads.
RunSkill(skill) ==
  /\ pc = "idle" /\ runs < MaxRuns
  /\ pc' = "loading" /\ runs' = runs + 1
  /\ needed' = skill /\ left' = skill
  /\ UNCHANGED <<batch, pool, awaited, detached, cut, toolVars, status, taskVars>>

\* Any other run reaches the agent loop with nothing to wait for but the pool.
RunPrompt ==
  /\ pc = "idle"
  /\ pc' = "ready"
  /\ UNCHANGED <<runs, needed, left, batch, pool, awaited, detached, cut,
                 toolVars, status, taskVars>>

\* The tasks the skill waited for have ended, however they did; the skill runs
\* only if each of its servers is connected, else its run ends with a message.
SkillChecked ==
  /\ pc = "readying" /\ \A t \in awaited : at[t] = "done"
  /\ pc' = IF \A s \in needed : status[s] = "Connected" THEN "ready" ELSE "idle"
  /\ needed' = {} /\ awaited' = {}
  /\ UNCHANGED <<runs, left, batch, pool, detached, cut, toolVars, status, taskVars>>

\* Faulty variant: the tasks are taken and not awaited.
TakeTasks_NoWait ==
  /\ pc = "ready"
  /\ pc' = "turn"
  /\ pool' = {}
  /\ UNCHANGED <<runs, needed, left, batch, awaited, detached, cut,
                 toolVars, status, taskVars>>

\* agent_loop takes the tasks of the pool and waits for them before any step.
TakeTasks ==
  /\ pc = "ready"
  /\ pc' = IF pool = {} THEN "turn" ELSE "waiting"
  /\ awaited' = pool /\ pool' = {}
  /\ UNCHANGED <<runs, needed, left, batch, detached, cut, toolVars, status, taskVars>>

ToolsReady ==
  /\ pc = "waiting" /\ \A t \in awaited : at[t] = "done"
  /\ pc' = "turn" /\ awaited' = {}
  /\ UNCHANGED <<runs, needed, left, batch, pool, detached, cut,
                 toolVars, status, taskVars>>

\* A step locks the toolset, tells the model of its tools and keeps the lock
\* until the answer is complete and its calls have been handed to the tools.
BeginStep ==
  /\ pc = "turn"
  /\ pc' = "step"
  /\ UNCHANGED <<runs, needed, left, batch, pool, awaited, detached, cut,
                 toolVars, status, taskVars>>

StepEnds ==
  /\ pc = "step"
  /\ pc' = "turn"
  /\ UNCHANGED <<runs, needed, left, batch, pool, awaited, detached, cut,
                 toolVars, status, taskVars>>

\* The run ends: there is no further step, or an error has left one.
RunEnds ==
  /\ pc \in {"ready", "turn", "step"}
  /\ pc' = "idle"
  /\ UNCHANGED <<runs, needed, left, batch, pool, awaited, detached, cut,
                 toolVars, status, taskVars>>

\* A cancel drops the run's future, with the handles of the tasks it waits for.
Cancel ==
  /\ pc \in {"readying", "ready", "waiting", "turn", "step"}
  /\ pc' = "idle"
  /\ detached' = detached \cup awaited
  /\ needed' = {} /\ awaited' = {}
  /\ UNCHANGED <<runs, left, batch, pool, cut, toolVars, status, taskVars>>

-----------------------------------------------------------------------------
(* The client's tools.                                                        *)

\* Faulty variant: only builtin names are refused.
RegisterExternal_OverMcp(n) ==
  /\ pc = "idle"
  /\ tools[n] # "builtin"
  /\ tools' = [tools EXCEPT ![n] = "external"]
  /\ external' = external \cup {n}
  /\ UNCHANGED <<ownerVars, owner, listed, status, taskVars>>

\* register_external_tool: no builtin or MCP tool may have the name.
FreeForClient(n) == tools[n] = "none" \/ n \in external

\* `initialize` registers the client's tools; the server takes it only between runs.
RegisterExternal(n) ==
  /\ pc = "idle"
  /\ FreeForClient(n)
  /\ tools' = [tools EXCEPT ![n] = "external"]
  /\ external' = external \cup {n}
  /\ UNCHANGED <<ownerVars, owner, listed, status, taskVars>>

-----------------------------------------------------------------------------
(* A loading task: connect_mcp_server for each server of its batch.  Its      *)
(* errors are gathered for whoever awaits it, and both waiters ignore them.   *)

Back(t) == at' = [at EXCEPT ![t] = "next"] /\ now' = [now EXCEPT ![t] = "none"]

\* The next server is connected if it is there and Pending.
NextServer(t, s) ==
  /\ at[t] = "next" /\ s \in todo[t] /\ LockFree
  /\ todo' = [todo EXCEPT ![t] = @ \ {s}]
  /\ \/ /\ status[s] = "Pending"
        /\ status' = [status EXCEPT ![s] = "Connecting"]
        /\ at' = [at EXCEPT ![t] = "connect"]
        /\ now' = [now EXCEPT ![t] = s]
     \/ /\ status[s] # "Pending"
        /\ UNCHANGED <<status, at, now>>
  /\ UNCHANGED <<ownerVars, toolVars>>

TaskEnds(t) ==
  /\ at[t] = "next" /\ todo[t] = {}
  /\ at' = [at EXCEPT ![t] = "done"]
  /\ UNCHANGED <<ownerVars, toolVars, status, todo, now>>

\* The connection stands and the server is asked for its tools, outside the lock.
Connects(t) ==
  /\ at[t] = "connect"
  /\ at' = [at EXCEPT ![t] = "list"]
  /\ UNCHANGED <<ownerVars, toolVars, status, todo, now>>

\* What became of the server is written down, if it still has an entry.
Mark(t, outcome) ==
  /\ LockFree
  /\ status' = [status EXCEPT ![now[t]] = IF @ = "none" THEN @ ELSE outcome]
  /\ Back(t)
  /\ UNCHANGED <<ownerVars, toolVars, todo>>

Unauthorized(t) == at[t] = "connect" /\ now[t] \in OAuth /\ Mark(t, "Unauthorized")

Fails(t) == at[t] \in {"connect", "list"} /\ Mark(t, "Failed")

\* Faulty variant: whoever has the name, it is taken.
Registrable_Any(s) == Offers[s]

\* register_mcp_tool: a name that is someone's and not an MCP tool is refused,
\* another server's is taken over.
Registrable(s) == {n \in Offers[s] : owner[n] # "none" \/ tools[n] = "none"}

\* The server is connected: its tools are registered, and those of an earlier
\* connection that it no longer lists go.
Enter(s) ==
  LET taken == Registrable(s)
      gone  == {n \in listed[s] \ taken : owner[n] = s}
      By(n, other) == IF n \in taken THEN s ELSE IF n \in gone THEN "none" ELSE other
  IN /\ status' = [status EXCEPT ![s] = "Connected"]
     /\ listed' = [listed EXCEPT ![s] = taken]
     /\ tools' = [n \in Names |-> By(n, tools[n])]
     /\ owner' = [n \in Names |-> By(n, owner[n])]
     /\ UNCHANGED external

\* Faulty variant: a server that has no entry gets one.
Registers_Inserting(t) ==
  /\ at[t] = "list" /\ LockFree
  /\ Enter(now[t])
  /\ Back(t)
  /\ UNCHANGED <<ownerVars, todo>>

\* The tools are known, and under one guard the server is entered; without an
\* entry for it the connection is dropped.
Registers(t) ==
  /\ at[t] = "list" /\ LockFree
  /\ \/ status[now[t]] = "none" /\ UNCHANGED <<status, toolVars>>
     \/ status[now[t]] # "none" /\ Enter(now[t])
  /\ Back(t)
  /\ UNCHANGED <<ownerVars, todo>>

-----------------------------------------------------------------------------
(* The shutdown: cleanup takes the lock and the pool.                         *)

Shutdown ==
  /\ pc = "idle"
  /\ pc' = "aborting"
  /\ awaited' = pool /\ pool' = {}
  /\ UNCHANGED <<runs, needed, left, batch, detached, cut, toolVars, status, taskVars>>

\* Each task is aborted, in whichever await it is: for the lock, the server.
Abort(t) ==
  /\ pc = "aborting" /\ t \in awaited /\ Live(t)
  /\ at' = [at EXCEPT ![t] = "done"]
  /\ todo' = [todo EXCEPT ![t] = {}]
  /\ now' = [now EXCEPT ![t] = "none"]
  /\ UNCHANGED <<ownerVars, toolVars, status>>

\* Then the servers go, with their connections and the tools they own.
CleanedUp ==
  /\ pc = "aborting" /\ \A t \in awaited : at[t] = "done"
  /\ pc' = "closed" /\ awaited' = {}
  /\ status' = [s \in Servers |-> "none"]
  /\ listed' = [s \in Servers |-> {}]
  /\ tools' = [n \in Names |-> IF owner[n] # "none" THEN "none" ELSE tools[n]]
  /\ owner' = [n \in Names |-> "none"]
  /\ UNCHANGED <<runs, needed, left, batch, pool, detached, cut, external, taskVars>>

-----------------------------------------------------------------------------
Load ==
  \/ \E s \in Servers : LoadServer(s)
  \/ \E overlay \in Overlays : Started(overlay) \/ OverlayFails(overlay)
  \/ SkillLoaded

Working(t) ==
  \/ \E s \in Servers : NextServer(t, s)
  \/ TaskEnds(t) \/ Connects(t) \/ Unauthorized(t) \/ Fails(t) \/ Registers(t)

Closing == (\E t \in Tasks : Abort(t)) \/ CleanedUp

Next ==
  \/ Load
  \/ \E s \in Servers : StartFails(s) \/ LoadFails(s) \/ CancelLoad(s)
  \/ \E skill \in Skills : RunSkill(skill)
  \/ RunPrompt \/ SkillChecked \/ TakeTasks \/ ToolsReady
  \/ BeginStep \/ StepEnds \/ RunEnds \/ Cancel
  \/ \E n \in Names : RegisterExternal(n)
  \/ \E t \in Tasks : Working(t)
  \/ Shutdown \/ Closing

Spec == Init /\ [][Next]_vars

\* Tokio polls every task, and a server that is being connected answers or
\* fails in the end: the loads, the tasks, the waits and the cleanup go on
\* whenever they can.  Nobody has to run a skill, prompt, cancel or shut down.
FairSpec ==
  /\ Spec
  /\ WF_vars(Load)
  /\ \A t \in Tasks : WF_vars(Working(t))
  /\ WF_vars(SkillChecked) /\ WF_vars(ToolsReady) /\ WF_vars(Closing)

-----------------------------------------------------------------------------
(* Properties                                                                 *)

Statuses == {"none", "Pending", "Connecting", "Connected", "Failed", "Unauthorized"}

\* Every variable has its type.
TypeOK ==
  /\ pc \in {"starting", "failed", "idle", "loading", "readying", "ready", "waiting",
             "turn", "step", "aborting", "closed"}
  /\ runs \in 0..MaxRuns
  /\ needed \in SUBSET Servers /\ left \in SUBSET Servers /\ batch \in SUBSET Servers
  /\ pool \in SUBSET Tasks /\ awaited \in SUBSET Tasks /\ detached \in SUBSET Tasks
  /\ cut \in SUBSET Servers
  /\ tools \in [Names -> Servers \cup {"none", "builtin", "external"}]
  /\ external \in SUBSET Names
  /\ owner \in [Names -> Servers \cup {"none"}]
  /\ status \in [Servers -> Statuses]
  /\ listed \in [Servers -> SUBSET Names]
  /\ at \in [Tasks -> {"unborn", "next", "connect", "list", "done"}]
  /\ todo \in [Tasks -> SUBSET Servers]
  /\ now \in [Tasks -> Servers \cup {"none"}]

\* The maps of the toolset agree about every name: what external_tools has is
\* an external tool, and an MCP tool is owned by the server that answers its
\* calls, which is connected and lists it, however the loads of several servers
\* and the client's registrations interleave.
ToolsHaveOneSource ==
  \A n \in Names :
    /\ n \in external <=> tools[n] = "external"
    /\ owner[n] = IF tools[n] \in Servers THEN tools[n] ELSE "none"
    /\ owner[n] \in Servers => status[owner[n]] = "Connected" /\ n \in listed[owner[n]]

\* A builtin tool is never replaced and an external one never lost: neither to
\* a server that offers the name, whichever came first, nor to the cleanup
\* (register_mcp_tool, register_external_tool).  And within a step nothing
\* changes, so that the model's calls are handled by the tools it was told of
\* (kosong_step under the guard of kimisoul.rs:638).
ToolsStay ==
  [][\A n \in Names :
       tools[n] \in {"builtin", "external"} \/ pc = "step" => tools'[n] = tools[n]]_vars

\* A server is connected by one task at a time, although a run may load it
\* while a task of an earlier, cancelled run is still at it; and while a task
\* is, its entry says so until the cleanup.
OneConnection ==
  /\ \A t, u \in Tasks : t # u /\ now[t] # "none" => now[t] # now[u]
  /\ \A t \in Tasks : now[t] # "none" /\ pc # "closed" => status[now[t]] = "Connecting"

\* Once cleaned up, the toolset stays so: a detached task that connects its
\* server afterwards finds no entry for it and leaves no tool behind.
CleanStaysClean ==
  pc = "closed" =>
    /\ \A n \in Names : tools[n] \in {"none", "builtin", "external"} /\ owner[n] = "none"
    /\ \A s \in Servers : status[s] = "none"

\* The agent loop goes into its steps with every server settled, unless a
\* cancelled wait left a task behind that is still at the server or has it
\* before it, or an interrupted load left it in nobody's batch (from where no
\* later load takes it up, for it is Pending).
StepsAreCovered ==
  pc \in {"turn", "step"} =>
    \A s \in Servers :
      status[s] \in {"Pending", "Connecting"} =>
        s \in cut \/ \E t \in detached : Live(t) /\ s \in todo[t] \cup {now[t]}

\* Nobody waits for ever: a run that waits for servers goes on, because their
\* tasks get the lock; and the cleanup ends, although it holds the lock that the
\* tasks it ends may be waiting for.
WaitsEnd ==
  /\ pc \in {"readying", "waiting"} ~> pc \notin {"readying", "waiting"}
  /\ pc = "aborting" ~> pc = "closed"

=============================================================================
