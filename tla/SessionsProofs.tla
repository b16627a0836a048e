---------------------------- MODULE SessionsProofs ----------------------------
(***************************************************************************)
(* Theorems about the sessions of one workspace, for any clients, names,   *)
(* subagents and crashes, and any number of processes over one database,   *)
(* as long as no session has clients of two of them at a time:             *)
(*   OwnEvents    a session holds only what was said in it;                *)
(*   TrueRows     what a row says of its session is so;                    *)
(*   LatestFound  --continue opens the session that was finished last;     *)
(*   UsedKept     no step deletes a session with events.                   *)
(***************************************************************************)
EXTENDS Sessions, TLAPS, WellFoundedInduction

-----------------------------------------------------------------------------
(* The inductive invariant.                                                *)

Served == {"starting", "serving", "closing"}

Row == [name : Names \cup Kids, parent : Nat, empty : BOOLEAN, root : Nat,
        context : SUBSET (Names \cup Kids), wire : SUBSET (Names \cup Kids)]

Client == [phase : {"off", "finding", "creating"} \cup Served, name : Names \cup {None},
           row : Nat, new : BOOLEAN, turn : BOOLEAN, turned : BOOLEAN, empty : BOOLEAN]

Agent == [phase : {"off", "starting", "running"}, owner : Names \cup Kids \cup {None},
          process : Processes \cup {None}, row : Nat]

\* What the variables are made of.
RowsForm ==
  /\ DOMAIN rows \in SUBSET (1 .. MaxRow)
  /\ \A r \in DOMAIN rows : rows[r] \in Row

Form ==
  /\ conn \in [Clients -> Client] /\ kid \in [Kids -> Agent]
  /\ leases \in [Processes -> SUBSET Names]

\* A row tells the truth about its session; one name is one session, and those
\* without a parent are the clients'.
Truthful(r) ==
  /\ rows[r].parent = 0 <=> rows[r].name \in Names
  /\ rows[r].context \cup rows[r].wire \subseteq {rows[r].name}
  /\ rows[r].empty = ~HasEvents(rows[r])
  /\ rows[r].parent = 0 => rows[r].root = r
  /\ rows[r].parent # 0 =>
       rows[r].parent \in DOMAIN rows /\ rows[r].root = rows[rows[r].parent].root

RowsInv ==
  /\ RowsForm
  /\ \A q, r \in DOMAIN rows : rows[q].name = rows[r].name => q = r
  /\ \A r \in DOMAIN rows : Truthful(r)

\* A client that is served has its session's row to itself. A new session that saw
\* no turn has no events and is nobody's last; what was read of one that is being
\* finished is still so.
Placed(c) ==
  LET client == conn[c]
      row    == rows[client.row]
  IN  /\ client.phase # "off" => client.name \in Names
      /\ client.phase \in Served => client.row \in DOMAIN rows /\ row.name = client.name
      /\ client.new => client.phase \in Served /\ lastActive # client.row
      /\ client.turned => client.phase \in {"serving", "closing"}
      /\ client.turn => client.phase = "serving"
      /\ client.new /\ ~client.turn /\ ~client.turned => ~HasEvents(row)
      /\ client.phase = "closing" => client.empty = ~HasEvents(row)

\* Clients at work have sessions of their own.
Distinct ==
  /\ \A c, d \in Clients : conn[c].phase # "off" /\ conn[d].phase # "off" =>
       (conn[c].name = conn[d].name => c = d)
  /\ \A c \in Clients \ Continues :
       conn[c].phase # "off" => conn[c].name \in leases[Process[c]]

\* A subagent has its session's row to itself, too.
Housed(k) ==
  /\ kid[k].phase # "off" => kid[k].row \in DOMAIN rows /\ rows[kid[k].row].name = k
  /\ kid[k].phase = "starting" => ~HasEvents(rows[kid[k].row])

SessionsInv ==
  /\ Form /\ RowsInv /\ Distinct /\ ContinuesLatest
  /\ \A c \in Clients : Placed(c)
  /\ \A k \in Kids : Housed(k)

\* What a step does to sessions with events (UsedIsKept).
Kept ==
  \A r \in DOMAIN rows :
    HasEvents(rows[r]) => r \in DOMAIN rows' /\ rows'[r].name = rows[r].name


\* What the theorems assume: two processes do not serve one session. The program
\* does not see to it, and SessionRows.cfg shows a row deleted under its user.
SessionsApart == Apart = TRUE

-----------------------------------------------------------------------------
(* Transactions.                                                           *)

\* A set of naturals that is not empty has a least element.
LEMMA LeastIs ==
  ASSUME NEW T \in SUBSET Nat, T # {}
  PROVE  \E x \in T : \A y \in T : x <= y
<1> DEFINE R == {p \in Nat \X Nat : p[1] < p[2]}
<1>1. IsWellFoundedOn(R, Nat)
  BY NatLessThanWellFounded DEF OpToRel
<1>2. PICK x \in T : \A y \in T : ~ (<<y, x>> \in R)
  <2> HIDE DEF R
  <2> QED
    BY <1>1, WFMin, Zenon
<1>3. ASSUME NEW y \in T PROVE x <= y
  <2>1. <<y, x>> \notin R /\ <<y, x>> \in Nat \X Nat
    BY <1>2
  <2>2. ~ (y < x)
    BY <2>1
  <2>3. QED
    BY <2>2
<1>4. QED
  BY <1>3

\* The id of the next row is that of no row.
LEMMA NextIdIsNew == ASSUME RowsForm PROVE NextId \in Nat \ {0} /\ NextId \notin DOMAIN rows
<1> DEFINE D == DOMAIN rows
<1>1. MaxRow \in Nat /\ \A r \in D : r \in 1 .. MaxRow
  BY SessionsAssumption DEF RowsForm
<1> HIDE DEF D
<1>2. CASE D = {}
  BY <1>2 DEF NextId, D
<1>3. CASE D # {}
  <2> DEFINE T == {MaxRow - r : r \in D}
  <2>1. T \in SUBSET Nat /\ T # {}
    <3>1. \A r \in D : MaxRow - r \in Nat
      BY <1>1
    <3>2. QED
      BY <1>3, <3>1
  <2>2. PICK t \in T : \A y \in T : t <= y
    <3> HIDE DEF T
    <3>1. QED
      BY <2>1, LeastIs
  <2>3. PICK m \in D : t = MaxRow - m
    OBVIOUS
  <2>4. \A r \in D : m >= r
    <3>1. ASSUME NEW r \in D PROVE m >= r
      <4>1. t <= MaxRow - r
        BY <2>2
      <4>2. QED
        BY <1>1, <2>3, <4>1
    <3>2. QED
      BY <3>1
  <2>5. Max(D) \in D /\ \A r \in D : Max(D) >= r
    BY <2>4 DEF Max
  <2>6. PICK n \in D : n = Max(D) /\ \A r \in D : n >= r
    BY <2>5
  <2>7. NextId = n + 1
    BY <1>3, <2>6 DEF NextId, D
  <2>8. n + 1 \notin D
    <3>1. ASSUME n + 1 \in D PROVE FALSE
      <4>1. n >= n + 1
        BY <2>6, <3>1
      <4>2. QED
        BY <1>1, <4>1
    <3>2. QED
      BY <3>1
  <2>9. QED
    BY <1>1, <2>7, <2>8 DEF D
<1>4. QED
  BY <1>2, <1>3

\* The rows but x stay as they are.
Spares(x) == \A q \in DOMAIN rows \ {x} : q \in DOMAIN rows' /\ rows'[q] = rows[q]

\* A session is stored: a client's, or a subagent's under its parent.
LEMMA RowInserted ==
  ASSUME RowsInv, NEW name, NEW parent, Insert(name, parent), RowsNamed(name) = {},
         \/ name \in Names /\ parent = 0
         \/ name \in Kids /\ parent \in DOMAIN rows
  PROVE  /\ RowsInv' /\ Spares(NextId) /\ NextId \notin DOMAIN rows /\ NextId \in Nat \ {0}
         /\ NextId \in DOMAIN rows' /\ rows'[NextId].name = name /\ ~HasEvents(rows'[NextId])
         /\ rows'[NextId].parent = parent
<1>1. PICK n : n = NextId /\ n \in Nat \ {0} /\ n \notin DOMAIN rows
  BY NextIdIsNew DEF RowsInv
<1>2. PICK row : row = NewRow(name, parent)
  OBVIOUS
<1>3. n <= MaxRow /\ rows' = [r \in DOMAIN rows \cup {n} |-> IF r = n THEN row ELSE rows[r]]
  BY <1>1, <1>2 DEF Insert
<1>4. /\ DOMAIN rows' = DOMAIN rows \cup {n} /\ rows'[n] = row
      /\ \A q \in DOMAIN rows : rows'[q] = rows[q]
  BY <1>1, <1>3
<1>5. /\ row.name = name /\ row.parent = parent /\ row.empty = TRUE
      /\ row.context = {} /\ row.wire = {}
      /\ parent = 0 => row.root = n
      /\ parent # 0 => row.root = rows[parent].root
  BY <1>1, <1>2 DEF NewRow
<1>6. MaxRow \in Nat /\ \A r \in DOMAIN rows : r \in 1 .. MaxRow /\ rows[r] \in Row
  BY SessionsAssumption DEF RowsInv, RowsForm
<1>7. parent \in Nat /\ (parent # 0 => parent \in DOMAIN rows) /\ name \in Names \cup Kids
  BY <1>6
<1>8. row.root \in Nat
  BY <1>1, <1>5, <1>6, <1>7 DEF Row
<1>9. row \in Row
  BY <1>1, <1>2, <1>5, <1>7, <1>8 DEF NewRow, Row
<1>10. RowsForm'
  BY <1>1, <1>3, <1>4, <1>6, <1>9 DEF RowsForm
<1>11. \A q, r \in DOMAIN rows' : rows'[q].name = rows'[r].name => q = r
  <2>1. \A q \in DOMAIN rows : rows[q].name # name
    BY DEF RowsNamed
  <2>2. \A q, r \in DOMAIN rows : rows[q].name = rows[r].name => q = r
    BY DEF RowsInv
  <2>3. QED
    BY <1>4, <1>5, <2>1, <2>2
<1>12. ASSUME NEW r \in DOMAIN rows' PROVE Truthful(r)'
  <2>1. CASE r = n
    <3>1. rows'[r].parent = 0 <=> rows'[r].name \in Names
      <4>1. name \in Kids => name \notin Names
        BY SessionsAssumption
      <4>2. 0 \notin DOMAIN rows
        BY <1>6
      <4>3. QED
        BY <1>4, <1>5, <2>1, <4>1, <4>2
    <3>2. rows'[r].empty = ~HasEvents(rows'[r])
      BY <1>4, <1>5, <2>1 DEF HasEvents
    <3>3. rows'[r].parent # 0 =>
            rows'[r].parent \in DOMAIN rows' /\ rows'[r].root = rows'[rows'[r].parent].root
      BY <1>4, <1>5, <1>7, <2>1
    <3>4. QED
      BY <1>4, <1>5, <2>1, <3>1, <3>2, <3>3 DEF Truthful
  <2>2. CASE r # n
    <3>1. r \in DOMAIN rows /\ Truthful(r) /\ rows'[r] = rows[r]
      BY <1>4, <2>2 DEF RowsInv
    <3>2. rows[r].parent # 0 =>
            rows[r].parent \in DOMAIN rows' /\ rows[r].root = rows'[rows[r].parent].root
      BY <1>4, <3>1 DEF Truthful
    <3>3. QED
      BY <3>1, <3>2 DEF Truthful
  <2>3. QED
    BY <2>1, <2>2
<1>13. QED
  BY <1>1, <1>4, <1>5, <1>10, <1>11, <1>12 DEF RowsInv, Spares, HasEvents

\* A row changes, but not its name or its place in the tree.
LEMMA RowStored ==
  ASSUME RowsInv, NEW r, NEW row, Stored(r, row), row \in Row,
         row.name = rows[r].name, row.parent = rows[r].parent, row.root = rows[r].root,
         row.context \cup row.wire \subseteq {row.name}, row.empty = ~HasEvents(row)
  PROVE  /\ RowsInv' /\ Spares(r) /\ r \in DOMAIN rows /\ r \in DOMAIN rows' /\ rows'[r] = row
         /\ \A q \in DOMAIN rows : /\ q \in DOMAIN rows' /\ rows'[q].name = rows[q].name
                                   /\ rows'[q].parent = rows[q].parent
<1>1. /\ r \in DOMAIN rows /\ DOMAIN rows' = DOMAIN rows /\ rows'[r] = row
      /\ \A q \in DOMAIN rows \ {r} : rows'[q] = rows[q]
  BY DEF Stored
<1>2. \A q \in DOMAIN rows : /\ rows'[q].name = rows[q].name
                             /\ rows'[q].parent = rows[q].parent
                             /\ rows'[q].root = rows[q].root
  BY <1>1
<1>3. RowsForm'
  BY <1>1 DEF RowsInv, RowsForm
<1>4. \A p, q \in DOMAIN rows' : rows'[p].name = rows'[q].name => p = q
  BY <1>1, <1>2 DEF RowsInv
<1>5. ASSUME NEW q \in DOMAIN rows' PROVE Truthful(q)'
  <2>1. q \in DOMAIN rows /\ Truthful(q)
    BY <1>1 DEF RowsInv
  <2>2. rows'[q].empty = ~HasEvents(rows'[q])
        /\ rows'[q].context \cup rows'[q].wire \subseteq {rows'[q].name}
    <3>1. CASE q = r
      BY <1>1, <3>1
    <3>2. CASE q # r
      BY <1>1, <2>1, <3>2 DEF Truthful
    <3>3. QED
      BY <3>1, <3>2
  <2>3. /\ rows'[q].parent = 0 <=> rows'[q].name \in Names
        /\ rows'[q].parent = 0 => rows'[q].root = q
    BY <1>2, <2>1 DEF Truthful
  <2>4. rows'[q].parent # 0 =>
          rows'[q].parent \in DOMAIN rows' /\ rows'[q].root = rows'[rows'[q].parent].root
    BY <1>1, <1>2, <2>1 DEF Truthful
  <2>5. QED
    BY <2>2, <2>3, <2>4 DEF Truthful
<1>6. QED
  BY <1>1, <1>2, <1>3, <1>4, <1>5 DEF RowsInv, Spares

\* A row that no other names goes.
LEMMA RowDeleted ==
  ASSUME RowsInv, NEW r, Delete(r)
  PROVE  /\ RowsInv' /\ Spares(r)
         /\ lastActive # r => lastActive' = lastActive
<1>1. CASE r \in DOMAIN rows /\ Deletable(r)
  <2>1. /\ DOMAIN rows' = DOMAIN rows \ {r}
        /\ \A q \in DOMAIN rows \ {r} : rows'[q] = rows[q]
        /\ lastActive' = IF lastActive = r THEN 0 ELSE lastActive
    BY <1>1 DEF Delete
  <2>2. RowsForm'
    BY <2>1 DEF RowsInv, RowsForm
  <2>3. \A p, q \in DOMAIN rows' : rows'[p].name = rows'[q].name => p = q
    BY <2>1 DEF RowsInv
  <2>4. ASSUME NEW q \in DOMAIN rows' PROVE Truthful(q)'
    <3>1. q \in DOMAIN rows \ {r} /\ rows'[q] = rows[q] /\ Truthful(q)
      BY <2>1 DEF RowsInv
    <3>2. rows[q].parent # r
      BY <1>1, <3>1 DEF Deletable
    <3>3. rows[q].parent # 0 =>
            rows[q].parent \in DOMAIN rows' /\ rows[q].root = rows'[rows[q].parent].root
      BY <2>1, <3>1, <3>2 DEF Truthful
    <3>4. QED
      BY <3>1, <3>3 DEF Truthful
  <2>5. QED
    BY <2>1, <2>2, <2>3, <2>4 DEF RowsInv, Spares
<1>2. CASE ~ (r \in DOMAIN rows /\ Deletable(r))
  <2>1. UNCHANGED <<rows, lastActive>>
    BY <1>2 DEF Delete
  <2>2. QED
    BY <2>1 DEF RowsInv, RowsForm, Truthful, Spares
<1>3. QED
  BY <1>1, <1>2

-----------------------------------------------------------------------------
(* What the steps leave alone.                                             *)

\* A client keeps its place when another row changes, goes or comes.
LEMMA StaysPlaced ==
  ASSUME NEW d, Placed(d), conn'[d] = conn[d], NEW x, Spares(x),
         conn[d].phase \in Served => conn[d].row # x,
         lastActive' \in {lastActive, x, 0}, conn[d].phase \in Served => conn[d].row # 0
  PROVE  Placed(d)'
<1>1. CASE conn[d].phase \in Served
  <2>1. /\ conn[d].row \in DOMAIN rows /\ conn[d].row # x
        /\ conn[d].row \in DOMAIN rows' /\ rows'[conn[d].row] = rows[conn[d].row]
    BY <1>1 DEF Placed, Spares
  <2>2. lastActive # conn[d].row => lastActive' # conn[d].row
    BY <1>1, <2>1
  <2>3. QED
    BY <1>1, <2>1, <2>2 DEF Placed
<1>2. CASE conn[d].phase \notin Served
  BY <1>2 DEF Placed, Served
<1>3. QED
  BY <1>1, <1>2

LEMMA StaysHoused ==
  ASSUME NEW k, Housed(k), kid'[k] = kid[k], NEW x, Spares(x),
         kid[k].phase # "off" => kid[k].row # x
  PROVE  Housed(k)'
BY DEF Housed, Spares

\* Subagents are dropped, or go on.
AgentsStay ==
  kid' \in [Kids -> Agent] /\ \A k \in Kids : kid'[k] = kid[k] \/ kid'[k] = NoKid

\* Client c is the only one that changes, and x is its row, a new one or nobody's.
OnlyClient(c, client, x) ==
  /\ conn' = [conn EXCEPT ![c] = client] /\ client \in Client
  /\ Spares(x) /\ RowsInv' /\ lastActive' \in {lastActive, x, 0}
  /\ \A d \in Clients \ {c} : conn[d].phase \in Served => conn[d].row # x
  /\ \A k \in Kids : kid[k].phase # "off" => kid[k].row # x
  /\ AgentsStay

LEMMA ClientSteps ==
  ASSUME SessionsInv, NEW c \in Clients, NEW client, NEW x, OnlyClient(c, client, x),
         Placed(c)', Distinct', ContinuesLatest', leases' \in [Processes -> SUBSET Names]
  PROVE  SessionsInv'
<1>1. conn' \in [Clients -> Client] /\ \A d \in Clients \ {c} : conn'[d] = conn[d]
  BY DEF OnlyClient, SessionsInv, Form
<1>2. ASSUME NEW d \in Clients PROVE Placed(d)'
  <2>1. CASE d # c
    <3>1. Placed(d) /\ conn'[d] = conn[d] /\ Spares(x) /\ lastActive' \in {lastActive, x, 0}
          /\ (conn[d].phase \in Served => conn[d].row # x)
      BY <1>1, <2>1 DEF OnlyClient, SessionsInv
    <3>2. conn[d].phase \in Served => conn[d].row # 0
      BY <3>1 DEF Placed, SessionsInv, RowsInv, RowsForm
    <3>3. QED
      BY <3>1, <3>2, StaysPlaced
  <2>2. QED
    BY <2>1
<1>3. ASSUME NEW k \in Kids PROVE Housed(k)'
  <2>1. CASE kid'[k] = kid[k]
    BY <2>1, StaysHoused DEF OnlyClient, SessionsInv
  <2>2. CASE kid'[k] = NoKid
    BY <2>2 DEF Housed, NoKid
  <2>3. QED
    BY <2>1, <2>2 DEF OnlyClient, AgentsStay
<1>4. QED
  BY <1>1, <1>2, <1>3 DEF OnlyClient, AgentsStay, SessionsInv, Form

\* What the rows keep of themselves is enough for the last active session.
LEMMA StaysLatest ==
  ASSUME ContinuesLatest, UNCHANGED <<lastActive, latest>>,
         \A q \in DOMAIN rows : lastActive = q =>
           q \in DOMAIN rows' /\ rows'[q].name = rows[q].name /\ rows'[q].parent = rows[q].parent
  PROVE  ContinuesLatest'
BY DEF ContinuesLatest

\* A client at work changes, but not its name, or leaves.
LEMMA StaysDistinct ==
  ASSUME SessionsInv, NEW c \in Clients, NEW client, conn' = [conn EXCEPT ![c] = client],
         conn[c].phase # "off",
         \/ client.name = conn[c].name /\ UNCHANGED leases
         \/ /\ client = NoConn
            /\ leases' = [leases EXCEPT ![Process[c]] = @ \ {conn[c].name}]
  PROVE  Distinct' /\ leases' \in [Processes -> SUBSET Names]
<1>1. /\ conn'[c] = client /\ \A d \in Clients \ {c} : conn'[d] = conn[d]
      /\ \A d \in Clients : Process[d] \in Processes
      /\ leases \in [Processes -> SUBSET Names] /\ Distinct
  BY DEF SessionsInv, Form, Processes
<1>2. CASE client.name = conn[c].name /\ UNCHANGED leases
  <2>1. \A d \in Clients : conn'[d].name = conn[d].name
                           /\ (conn'[d].phase # "off" => conn[d].phase # "off")
    BY <1>1, <1>2
  <2>2. QED
    BY <1>1, <1>2, <2>1 DEF Distinct
<1>3. CASE client = NoConn /\ leases' = [leases EXCEPT ![Process[c]] = @ \ {conn[c].name}]
  <2>1. \A d \in Clients : conn'[d].phase # "off" => d # c /\ conn'[d] = conn[d]
    BY <1>1, <1>3 DEF NoConn
  <2>2. leases' \in [Processes -> SUBSET Names]
    BY <1>1, <1>3
  <2>3. ASSUME NEW d \in Clients \ Continues, conn'[d].phase # "off"
        PROVE  conn'[d].name \in leases'[Process[d]]
    <3>1. conn[d].name # conn[c].name /\ conn[d].name \in leases[Process[d]]
      BY <1>1, <2>1, <2>3 DEF Distinct
    <3>2. QED
      BY <1>1, <1>3, <2>1, <2>3, <3>1
  <2>4. \A a, d \in Clients : conn'[a].phase # "off" /\ conn'[d].phase # "off" =>
          (conn'[a].name = conn'[d].name => a = d)
    BY <1>1, <2>1 DEF Distinct
  <2>5. QED
    BY <2>2, <2>3, <2>4 DEF Distinct
<1>4. QED
  BY <1>2, <1>3

\* Nobody else is where a served client is.
LEMMA OwnRow ==
  ASSUME SessionsInv, NEW c \in Clients, conn[c].phase \in Served
  PROVE  LET x == conn[c].row
         IN  /\ x \in DOMAIN rows /\ rows[x].name = conn[c].name /\ x \in Nat \ {0}
             /\ conn[c].name \in Names /\ rows[x].parent = 0 /\ rows[x] \in Row /\ Truthful(x)
             /\ \A d \in Clients \ {c} : conn[d].phase \in Served => conn[d].row # x
             /\ \A k \in Kids : kid[k].phase # "off" => kid[k].row # x
<1> DEFINE x == conn[c].row
<1>1. x \in DOMAIN rows /\ rows[x].name = conn[c].name /\ conn[c].name \in Names
  BY DEF SessionsInv, Placed, Served
<1>2. /\ rows[x] \in Row /\ Truthful(x) /\ x \in Nat \ {0}
  BY <1>1 DEF SessionsInv, RowsInv, RowsForm
<1>3. rows[x].parent = 0
  BY <1>1, <1>2 DEF Truthful
<1> HIDE DEF x
<1>4. ASSUME NEW d \in Clients \ {c}, conn[d].phase \in Served PROVE conn[d].row # x
  <2>1. rows[conn[d].row].name = conn[d].name
    BY <1>4 DEF SessionsInv, Placed
  <2>2. conn[d].name # conn[c].name
    BY <1>4 DEF SessionsInv, Distinct, Served
  <2>3. QED
    BY <1>1, <2>1, <2>2
<1>5. ASSUME NEW k \in Kids, kid[k].phase # "off" PROVE kid[k].row # x
  <2>1. rows[kid[k].row].name = k
    BY <1>5 DEF SessionsInv, Housed
  <2>2. k \notin Names
    BY SessionsAssumption
  <2>3. QED
    BY <1>1, <2>1, <2>2
<1>6. QED
  BY <1>1, <1>2, <1>3, <1>4, <1>5 DEF x

\* No row has the id 0, and none has a new one.
LEMMA NobodysRow ==
  ASSUME SessionsInv, NEW x, x \notin DOMAIN rows
  PROVE  /\ \A d \in Clients : conn[d].phase \in Served => conn[d].row # x
         /\ \A k \in Kids : kid[k].phase # "off" => kid[k].row # x
BY DEF SessionsInv, Placed, Housed

LEMMA SameRows ==
  ASSUME SessionsInv, UNCHANGED rows
  PROVE  RowsInv' /\ Kept /\ 0 \notin DOMAIN rows /\ \A x : Spares(x)
BY DEF SessionsInv, RowsInv, RowsForm, Truthful, Spares, Kept

LEMMA SameAgents == ASSUME SessionsInv, UNCHANGED kid PROVE AgentsStay
BY DEF SessionsInv, Form, AgentsStay

-----------------------------------------------------------------------------
(* Clients.                                                                *)

LEMMA ConnectKeeps ==
  ASSUME SessionsInv, SessionsApart, NEW c \in Clients, NEW name \in Names, Connect(c, name)
  PROVE  SessionsInv' /\ Kept
<1>1. PICK client : client = [conn[c] EXCEPT !.phase = "finding", !.name = name]
  OBVIOUS
<1>2. /\ conn[c].phase = "off" /\ c \notin Continues /\ Free(c, name) /\ name \notin leases[Process[c]]
      /\ leases' = [leases EXCEPT ![Process[c]] = @ \cup {name}]
      /\ conn' = [conn EXCEPT ![c] = client]
      /\ UNCHANGED <<rows, lastActive, kid, latest>>
  BY <1>1 DEF Connect, Become
<1>3. /\ conn[c] \in Client /\ Placed(c) /\ Distinct /\ ContinuesLatest
      /\ conn \in [Clients -> Client] /\ leases \in [Processes -> SUBSET Names]
      /\ \A d \in Clients : Process[d] \in Processes
  BY DEF SessionsInv, Form, Processes
<1>4. /\ client \in Client /\ client.phase = "finding" /\ client.name = name
      /\ ~client.new /\ ~client.turn /\ ~client.turned
  BY <1>1, <1>2, <1>3 DEF Client, Placed, Served
<1>5. OnlyClient(c, client, 0)
  BY <1>2, <1>4, SameRows, SameAgents, NobodysRow DEF OnlyClient
<1>6. conn'[c] = client /\ \A d \in Clients \ {c} : conn'[d] = conn[d]
  BY <1>2, <1>3
<1>7. Placed(c)'
  BY <1>4, <1>6 DEF Placed, Served
\* Another client is of another process, whose sessions are others, or has leased
\* its own.
<1>8. ASSUME NEW d \in Clients \ {c}, conn[d].phase # "off" PROVE conn[d].name # name
  <2>1. CASE Process[d] # Process[c]
    BY <1>2, <2>1 DEF Free, SessionsApart
  <2>2. CASE Process[d] = Process[c]
    <3>1. d \notin Continues
      BY <1>8, <2>2, SessionsAssumption
    <3>2. conn[d].name \in leases[Process[c]]
      BY <1>3, <1>8, <2>2, <3>1 DEF Distinct
    <3>3. QED
      BY <1>2, <3>2
  <2>3. QED
    BY <2>1, <2>2
<1>9. \A p \in Processes : leases[p] \subseteq leases'[p]
  BY <1>2, <1>3
<1>10. leases' \in [Processes -> SUBSET Names] /\ name \in leases'[Process[c]]
  BY <1>2, <1>3
<1>11. \A d \in Clients \ Continues :
         conn'[d].phase # "off" => conn'[d].name \in leases'[Process[d]]
  BY <1>3, <1>4, <1>6, <1>9, <1>10 DEF Distinct
<1>12. \A a, d \in Clients : conn'[a].phase # "off" /\ conn'[d].phase # "off" =>
         (conn'[a].name = conn'[d].name => a = d)
  BY <1>3, <1>4, <1>6, <1>8 DEF Distinct
<1>13. Distinct'
  BY <1>11, <1>12 DEF Distinct
<1>14. ContinuesLatest'
  BY <1>2, <1>3, StaysLatest
<1>15. QED
  BY <1>2, <1>5, <1>7, <1>10, <1>13, <1>14, ClientSteps, SameRows

LEMMA ContinueKeeps ==
  ASSUME SessionsInv, SessionsApart, NEW c \in Clients, Continue(c)
  PROVE  SessionsInv' /\ Kept
<1>1. PICK r \in LastActive :
        /\ Free(c, rows[r].name)
        /\ Become(c, [conn[c] EXCEPT !.phase = "starting", !.name = rows[r].name, !.row = r])
  BY DEF Continue
<1>2. PICK client :
        client = [conn[c] EXCEPT !.phase = "starting", !.name = rows[r].name, !.row = r]
  OBVIOUS
<1>3. /\ conn[c].phase = "off" /\ c \in Continues
      /\ conn' = [conn EXCEPT ![c] = client]
      /\ UNCHANGED <<rows, lastActive, leases, kid, latest>>
  BY <1>1, <1>2 DEF Continue, Become
<1>4. /\ conn[c] \in Client /\ Placed(c) /\ Distinct /\ ContinuesLatest
      /\ conn \in [Clients -> Client] /\ leases \in [Processes -> SUBSET Names]
  BY DEF SessionsInv, Form
<1>5. /\ r \in DOMAIN rows /\ r = lastActive /\ r \in Nat /\ rows[r] \in Row /\ Truthful(r)
      /\ rows[r].parent = 0 /\ rows[r].name \in Names
  <2>1. r \in DOMAIN rows /\ r = lastActive
    BY DEF LastActive
  <2>2. r \in Nat /\ r # 0 /\ rows[r] \in Row /\ Truthful(r)
    BY <2>1 DEF SessionsInv, RowsInv, RowsForm
  <2>3. QED
    BY <1>4, <2>1, <2>2 DEF ContinuesLatest, Truthful
<1>6. /\ client \in Client /\ client.phase = "starting" /\ client.name = rows[r].name
      /\ client.row = r /\ ~client.new /\ ~client.turn /\ ~client.turned
  BY <1>2, <1>3, <1>4, <1>5 DEF Client, Placed, Served
<1>7. OnlyClient(c, client, 0)
  BY <1>3, <1>6, SameRows, SameAgents, NobodysRow DEF OnlyClient
<1>8. conn'[c] = client /\ \A d \in Clients \ {c} : conn'[d] = conn[d]
  BY <1>3, <1>4
<1>9. Placed(c)'
  BY <1>3, <1>5, <1>6, <1>8 DEF Placed, Served
<1>10. ASSUME NEW d \in Clients \ {c} PROVE Process[d] # Process[c] /\ conn[d].name # rows[r].name
  <2>1. Process[d] # Process[c]
    BY <1>3, SessionsAssumption
  <2>2. QED
    BY <1>1, <2>1 DEF Free, SessionsApart
<1>11. Distinct'
  BY <1>3, <1>4, <1>6, <1>8, <1>10 DEF Distinct
<1>12. ContinuesLatest'
  BY <1>3, <1>4, StaysLatest
<1>13. QED
  BY <1>3, <1>4, <1>7, <1>9, <1>11, <1>12, ClientSteps, SameRows

\* Neither rows nor leases change.
LEMMA QuietKeeps ==
  ASSUME SessionsInv, NEW c \in Clients,
         Find(c) \/ Starts(c) \/ Prompt(c) \/ (Finalize(c) /\ conn[c].turned)
  PROVE  SessionsInv' /\ Kept
<1>1. PICK client : conn' = [conn EXCEPT ![c] = client]
  BY DEF Find, Starts, Prompt, Finalize, Become
<1>2. UNCHANGED <<rows, lastActive, leases, kid, latest>> /\ conn[c].phase # "off"
  BY DEF Find, Starts, Prompt, Finalize
<1>3. /\ conn[c] \in Client /\ Placed(c) /\ conn \in [Clients -> Client] /\ ContinuesLatest
  BY DEF SessionsInv, Form
<1>4. conn'[c] = client
  BY <1>1, <1>3
<1>5. client \in Client /\ client.name = conn[c].name /\ Placed(c)'
  <2>1. CASE Find(c)
    <3>1. CASE conn' = [conn EXCEPT ![c] = [conn[c] EXCEPT !.phase = "creating"]]
      <4>1. client = [conn[c] EXCEPT !.phase = "creating"]
        BY <1>3, <1>4, <3>1
      <4>2. /\ client \in Client /\ client.phase = "creating" /\ client.name = conn[c].name
            /\ client.new = conn[c].new /\ client.turn = conn[c].turn
            /\ client.turned = conn[c].turned
        BY <1>3, <4>1 DEF Client
      <4>3. conn[c].phase = "finding"
        BY <2>1 DEF Find
      <4>4. QED
        BY <1>2, <1>3, <1>4, <4>2, <4>3 DEF Placed, Served
    <3>2. CASE \E r \in RowsNamed(conn[c].name) :
                 conn' = [conn EXCEPT ![c] = [conn[c] EXCEPT !.phase = "starting", !.row = r]]
      <4>1. PICK r \in RowsNamed(conn[c].name) :
              conn' = [conn EXCEPT ![c] = [conn[c] EXCEPT !.phase = "starting", !.row = r]]
        BY <3>2
      <4>2. client = [conn[c] EXCEPT !.phase = "starting", !.row = r]
        BY <1>3, <1>4, <4>1
      <4>3. r \in Nat /\ r \in DOMAIN rows /\ rows[r].name = conn[c].name
        BY DEF RowsNamed, SessionsInv, RowsInv, RowsForm
      <4>4. /\ client \in Client /\ client.phase = "starting" /\ client.name = conn[c].name
            /\ client.row = r /\ client.new = conn[c].new /\ client.turn = conn[c].turn
            /\ client.turned = conn[c].turned
        BY <1>3, <4>2, <4>3 DEF Client, Served
      <4>5. conn[c].phase = "finding"
        BY <2>1 DEF Find
      <4>6. QED
        BY <1>2, <1>3, <1>4, <4>3, <4>4, <4>5 DEF Placed, Served
    <3>3. QED
      BY <2>1, <3>1, <3>2 DEF Find, Become
  <2>2. CASE Starts(c)
    <3>1. client = [conn[c] EXCEPT !.phase = "serving"] /\ conn[c].phase = "starting"
      BY <1>3, <1>4, <2>2 DEF Starts, Become
    <3>2. /\ client \in Client /\ client.phase = "serving" /\ client.name = conn[c].name
          /\ client.row = conn[c].row /\ client.new = conn[c].new
          /\ client.turn = conn[c].turn /\ client.turned = conn[c].turned
      BY <1>3, <3>1 DEF Client, Served
    <3>3. QED
      BY <1>2, <1>3, <1>4, <3>1, <3>2 DEF Placed, Served
  <2>3. CASE Prompt(c)
    <3>1. /\ conn[c].phase = "serving"
          /\ \/ client = [conn[c] EXCEPT !.turn = TRUE]
             \/ client = [conn[c] EXCEPT !.turned = TRUE]
      BY <1>3, <1>4, <2>3 DEF Prompt, Become
    <3>2. /\ client \in Client /\ client.phase = "serving" /\ client.name = conn[c].name
          /\ client.row = conn[c].row /\ client.new = conn[c].new
          /\ client.turn \/ client.turned
      BY <1>3, <3>1 DEF Client
    <3>3. QED
      BY <1>2, <1>3, <1>4, <3>1, <3>2 DEF Placed, Served
  <2>4. CASE Finalize(c) /\ conn[c].turned
    <3>1. PICK e : e = IsEmpty(conn[c].row) /\ e \in BOOLEAN
      BY DEF IsEmpty
    <3>2. /\ conn[c].phase = "serving" /\ ~conn[c].turn
          /\ client = [conn[c] EXCEPT !.phase = "closing", !.empty = e]
      BY <1>3, <1>4, <2>4, <3>1 DEF Finalize, Become
    <3>3. e = ~HasEvents(rows[conn[c].row])
      BY <1>3, <3>1, <3>2 DEF Placed, Served, IsEmpty
    <3>4. /\ client \in Client /\ client.phase = "closing" /\ client.name = conn[c].name
          /\ client.row = conn[c].row /\ client.new = conn[c].new /\ client.empty = e
          /\ client.turn = conn[c].turn /\ client.turned = conn[c].turned
      BY <1>3, <3>1, <3>2 DEF Client, Served
    <3>5. QED
      BY <1>2, <1>3, <1>4, <2>4, <3>2, <3>3, <3>4 DEF Placed, Served
  <2>5. QED
    BY <2>1, <2>2, <2>3, <2>4
<1>6. OnlyClient(c, client, 0)
  BY <1>1, <1>2, <1>5, SameRows, SameAgents, NobodysRow DEF OnlyClient
<1>7. Distinct' /\ leases' \in [Processes -> SUBSET Names]
  BY <1>1, <1>2, <1>5, StaysDistinct
<1>8. ContinuesLatest'
  BY <1>2, <1>3, StaysLatest
<1>9. QED
  BY <1>2, <1>5, <1>6, <1>7, <1>8, ClientSteps, SameRows

\* A client creates its session, or finds that another was faster.
LEMMA CreateKeeps ==
  ASSUME SessionsInv, NEW c \in Clients, Create(c)
  PROVE  SessionsInv' /\ Kept
<1>1. /\ conn[c].phase = "creating" /\ UNCHANGED <<lastActive, kid, latest>>
  BY DEF Create
<1>2. /\ conn[c] \in Client /\ Placed(c) /\ conn \in [Clients -> Client] /\ ContinuesLatest
      /\ conn[c].name \in Names /\ ~conn[c].turn /\ ~conn[c].turned
  BY <1>1 DEF SessionsInv, Form, Placed, Served
<1>3. CASE RowsNamed(conn[c].name) = {}
  <2>1. PICK x : x = NextId
    OBVIOUS
  <2>2. PICK client :
          client = [conn[c] EXCEPT !.phase = "starting", !.row = x, !.new = TRUE]
    OBVIOUS
  <2>3. /\ Insert(conn[c].name, 0) /\ UNCHANGED leases
        /\ conn' = [conn EXCEPT ![c] = client]
    BY <1>3, <2>1, <2>2 DEF Create, Become
  <2>4. /\ RowsInv' /\ Spares(x) /\ x \notin DOMAIN rows /\ x \in Nat \ {0}
        /\ x \in DOMAIN rows' /\ rows'[x].name = conn[c].name /\ ~HasEvents(rows'[x])
    BY <1>2, <1>3, <2>1, <2>3, RowInserted DEF SessionsInv
  <2>5. /\ client \in Client /\ client.phase = "starting" /\ client.name = conn[c].name
        /\ client.row = x /\ client.new /\ ~client.turn /\ ~client.turned
    BY <1>2, <2>2, <2>4 DEF Client, Served
  <2>6. conn'[c] = client
    BY <1>2, <2>3
  <2>7. lastActive' # x
    BY <1>1, <1>2, <2>4 DEF ContinuesLatest
  <2>8. Placed(c)'
    BY <1>2, <2>4, <2>5, <2>6, <2>7 DEF Placed, Served
  <2>9. OnlyClient(c, client, x)
    BY <1>1, <2>3, <2>4, <2>5, SameAgents, NobodysRow DEF OnlyClient
  <2>10. Distinct' /\ leases' \in [Processes -> SUBSET Names]
    BY <1>1, <2>3, <2>5, StaysDistinct
  <2>11. ContinuesLatest' /\ Kept
    <3>1. \A q \in DOMAIN rows : q \in DOMAIN rows' /\ rows'[q] = rows[q]
      BY <2>4 DEF Spares
    <3>2. Kept
      BY <3>1 DEF Kept
    <3>3. QED
      BY <1>1, <1>2, <3>1, <3>2, StaysLatest
  <2>12. QED
    BY <2>8, <2>9, <2>10, <2>11, ClientSteps
<1>4. CASE RowsNamed(conn[c].name) # {}
  <2>1. /\ leases' = [leases EXCEPT ![Process[c]] = @ \ {conn[c].name}]
        /\ conn' = [conn EXCEPT ![c] = NoConn] /\ UNCHANGED rows
    BY <1>4 DEF Create, Release
  <2>2. NoConn \in Client
    BY DEF NoConn, Client
  <2>3. OnlyClient(c, NoConn, 0)
    BY <1>1, <2>1, <2>2, SameRows, SameAgents, NobodysRow DEF OnlyClient
  <2>4. Placed(c)'
    BY <1>2, <2>1 DEF Placed, Served, NoConn
  <2>5. Distinct' /\ leases' \in [Processes -> SUBSET Names]
    BY <1>1, <2>1, StaysDistinct
  <2>6. ContinuesLatest'
    BY <1>1, <1>2, <2>1, StaysLatest
  <2>7. QED
    BY <2>1, <2>3, <2>4, <2>5, <2>6, ClientSteps, SameRows
<1>5. QED
  BY <1>3, <1>4

\* A client leaves, and its session is deleted if it was new and saw no turn.
LEMMA LeaveKeeps ==
  ASSUME SessionsInv, NEW c \in Clients,
         conn[c].phase \in Served, Release(c), UNCHANGED <<kid, latest>>,
         \/ UNCHANGED <<rows, lastActive>>
         \/ conn[c].new /\ ~conn[c].turn /\ ~conn[c].turned /\ Delete(conn[c].row)
  PROVE  SessionsInv' /\ Kept
<1>1. PICK x : x = conn[c].row
  OBVIOUS
<1>2. /\ conn[c] \in Client /\ Placed(c) /\ conn \in [Clients -> Client] /\ ContinuesLatest
      /\ conn[c].phase # "off" /\ RowsInv
  BY DEF SessionsInv, Form, Served
<1>3. /\ leases' = [leases EXCEPT ![Process[c]] = @ \ {conn[c].name}]
      /\ conn' = [conn EXCEPT ![c] = NoConn]
  BY DEF Release
<1>4. NoConn \in Client
  BY DEF NoConn, Client
<1>5. /\ \A d \in Clients \ {c} : conn[d].phase \in Served => conn[d].row # x
      /\ \A k \in Kids : kid[k].phase # "off" => kid[k].row # x
  BY <1>1, OwnRow
<1>6. Placed(c)'
  BY <1>2, <1>3 DEF Placed, Served, NoConn
<1>7. Distinct' /\ leases' \in [Processes -> SUBSET Names]
  BY <1>2, <1>3, StaysDistinct
<1>8. RowsInv' /\ Spares(x) /\ lastActive' = lastActive /\ ContinuesLatest' /\ Kept
  <2>1. CASE UNCHANGED <<rows, lastActive>>
    BY <1>2, <2>1, SameRows, StaysLatest
  <2>2. CASE conn[c].new /\ ~conn[c].turn /\ ~conn[c].turned /\ Delete(conn[c].row)
    <3>1. lastActive # x
      BY <1>1, <1>2, <2>2 DEF Placed
    <3>2. RowsInv' /\ Spares(x) /\ lastActive' = lastActive
      BY <1>1, <1>2, <2>2, <3>1, RowDeleted
    <3>3. \A q \in DOMAIN rows : lastActive = q => q \in DOMAIN rows' /\ rows'[q] = rows[q]
      BY <3>1, <3>2 DEF Spares
    <3>4. ~HasEvents(rows[x])
      BY <1>1, <1>2, <2>2 DEF Placed
    <3>5. Kept
      BY <3>2, <3>4 DEF Kept, Spares
    <3>6. QED
      BY <1>2, <3>2, <3>3, <3>5, StaysLatest
  <2>3. QED
    BY <2>1, <2>2
<1>9. OnlyClient(c, NoConn, x)
  BY <1>3, <1>4, <1>5, <1>8, SameAgents DEF OnlyClient
<1>10. QED
  BY <1>6, <1>7, <1>8, <1>9, ClientSteps

\* The transactions that change a row in the name of its own session.
LEMMA AppendStored ==
  ASSUME RowsInv, NEW r, r \in DOMAIN rows => rows[r] \in Row /\ Truthful(r),
         NEW name \in Names \cup Kids, r \in DOMAIN rows => rows[r].name = name,
         AppendContext(r, name) \/ AppendWire(r, name) \/ ClearContext(r)
  PROVE  /\ RowsInv' /\ Spares(r) /\ r \in DOMAIN rows /\ r \in DOMAIN rows'
         /\ rows'[r].name = name
         /\ \A q \in DOMAIN rows : /\ q \in DOMAIN rows' /\ rows'[q].name = rows[q].name
                                   /\ rows'[q].parent = rows[q].parent
<1>1. r \in DOMAIN rows /\ rows[r] \in Row /\ Truthful(r) /\ rows[r].name = name
  BY DEF AppendContext, AppendWire, ClearContext, Stored
<1>2. CASE AppendContext(r, name)
  <2>1. PICK row : row = [rows[r] EXCEPT !.context = @ \cup {name}, !.empty = FALSE]
    OBVIOUS
  <2>2. /\ row \in Row /\ row.name = rows[r].name /\ row.parent = rows[r].parent
        /\ row.root = rows[r].root /\ row.context = rows[r].context \cup {name}
        /\ row.wire = rows[r].wire /\ row.empty = FALSE
    BY <1>1, <2>1 DEF Row
  <2>3. row.empty = ~HasEvents(row) /\ row.context \cup row.wire \subseteq {row.name}
    BY <1>1, <2>2 DEF HasEvents, Truthful
  <2>4. Stored(r, row)
    BY <1>2, <2>1 DEF AppendContext
  <2>5. QED
    BY <1>1, <2>2, <2>3, <2>4, RowStored
<1>3. CASE AppendWire(r, name)
  <2>1. PICK row : row = [rows[r] EXCEPT !.wire = @ \cup {name}, !.empty = FALSE]
    OBVIOUS
  <2>2. /\ row \in Row /\ row.name = rows[r].name /\ row.parent = rows[r].parent
        /\ row.root = rows[r].root /\ row.context = rows[r].context
        /\ row.wire = rows[r].wire \cup {name} /\ row.empty = FALSE
    BY <1>1, <2>1 DEF Row
  <2>3. row.empty = ~HasEvents(row) /\ row.context \cup row.wire \subseteq {row.name}
    BY <1>1, <2>2 DEF HasEvents, Truthful
  <2>4. Stored(r, row)
    BY <1>3, <2>1 DEF AppendWire
  <2>5. QED
    BY <1>1, <2>2, <2>3, <2>4, RowStored
<1>4. CASE ClearContext(r)
  <2>1. PICK row : row = [rows[r] EXCEPT !.context = {}, !.empty = (rows[r].wire = {})]
    OBVIOUS
  <2>2. /\ row \in Row /\ row.name = rows[r].name /\ row.parent = rows[r].parent
        /\ row.root = rows[r].root /\ row.context = {}
        /\ row.wire = rows[r].wire /\ row.empty = (rows[r].wire = {})
    BY <1>1, <2>1 DEF Row
  <2>3. row.empty = ~HasEvents(row) /\ row.context \cup row.wire \subseteq {row.name}
    BY <1>1, <2>2 DEF HasEvents, Truthful
  <2>4. Stored(r, row)
    BY <1>4, <2>1 DEF ClearContext
  <2>5. QED
    BY <1>1, <2>2, <2>3, <2>4, RowStored
<1>5. QED
  BY <1>2, <1>3, <1>4

\* In a turn and at its end, a client writes to its session.
LEMMA WorkKeeps ==
  ASSUME SessionsInv, NEW c \in Clients, Writes(c) \/ TurnEnds(c)
  PROVE  SessionsInv' /\ Kept
<1>1. PICK x : x = conn[c].row
  OBVIOUS
<1>2. /\ conn[c] \in Client /\ Placed(c) /\ conn \in [Clients -> Client] /\ ContinuesLatest
      /\ conn[c].turn /\ RowsInv /\ kid \in [Kids -> Agent]
      /\ UNCHANGED <<lastActive, leases, latest>>
  BY DEF SessionsInv, Form, Writes, TurnEnds
<1>3. conn[c].phase = "serving" /\ conn[c].phase \in Served
  BY <1>2 DEF Placed, Served
<1>4. PICK client :
        /\ conn' = [conn EXCEPT ![c] = client]
        /\ client = conn[c] \/ client = [conn[c] EXCEPT !.turn = FALSE, !.turned = TRUE]
  <2>1. CASE Writes(c)
    BY <1>2, <2>1 DEF Writes
  <2>2. CASE TurnEnds(c)
    BY <2>2 DEF TurnEnds, Become
  <2>3. QED
    BY <2>1, <2>2
<1>5. /\ client \in Client /\ client.phase = "serving" /\ client.name = conn[c].name
      /\ client.row = x /\ client.new = conn[c].new
      /\ client.turn \/ client.turned
  BY <1>1, <1>2, <1>3, <1>4 DEF Client
<1>6. /\ x \in DOMAIN rows /\ rows[x].name = conn[c].name /\ conn[c].name \in Names
      /\ rows[x] \in Row /\ Truthful(x)
      /\ \A d \in Clients \ {c} : conn[d].phase \in Served => conn[d].row # x
      /\ \A k \in Kids : kid[k].phase # "off" => kid[k].row # x
  BY <1>1, <1>3, OwnRow
<1>7. PICK name \in Names : name = conn[c].name
  BY <1>6
<1>8. AppendContext(x, name) \/ AppendWire(x, name) \/ ClearContext(x)
  BY <1>1, <1>6, <1>7 DEF Writes, TurnEnds, Flush
<1>9. /\ RowsInv' /\ Spares(x) /\ x \in DOMAIN rows' /\ rows'[x].name = name
      /\ \A q \in DOMAIN rows : /\ q \in DOMAIN rows' /\ rows'[q].name = rows[q].name
                                /\ rows'[q].parent = rows[q].parent
  BY <1>2, <1>6, <1>7, <1>8, AppendStored
<1>10. AgentsStay
  <2>1. CASE UNCHANGED kid
    BY <1>2, <2>1 DEF AgentsStay
  <2>2. CASE kid' = WithoutInit(c)
    <3>1. NoKid \in Agent
      BY DEF NoKid, Agent
    <3>2. QED
      BY <1>2, <2>2, <3>1 DEF AgentsStay, WithoutInit
  <2>3. QED
    BY <2>1, <2>2 DEF Writes, TurnEnds
<1>11. OnlyClient(c, client, x)
  BY <1>2, <1>4, <1>5, <1>6, <1>9, <1>10 DEF OnlyClient
<1>12. Placed(c)'
  <2>1. conn'[c] = client
    BY <1>2, <1>4
  <2>2. conn[c].new => lastActive # x
    BY <1>1, <1>2 DEF Placed
  <2>3. client.new => lastActive' # x
    BY <1>2, <1>5, <2>2
  <2>4. client.name \in Names /\ rows'[client.row].name = client.name
    BY <1>5, <1>7, <1>9
  <2>5. QED
    BY <1>5, <1>9, <2>1, <2>3, <2>4 DEF Placed, Served
<1>13. Distinct' /\ leases' \in [Processes -> SUBSET Names]
  BY <1>2, <1>3, <1>4, <1>5, StaysDistinct
<1>14. ContinuesLatest'
  BY <1>2, <1>9, StaysLatest
<1>15. Kept
  BY <1>9 DEF Kept
<1>16. QED
  BY <1>11, <1>12, <1>13, <1>14, <1>15, ClientSteps

\* The client that is done stores what it read, and its session is the last, or not.
LEMMA PersistKeeps ==
  ASSUME SessionsInv, NEW c \in Clients, Persist(c)
  PROVE  SessionsInv' /\ Kept
<1>1. PICK x : x = conn[c].row
  OBVIOUS
<1>2. PICK row : row = [rows[x] EXCEPT !.empty = conn[c].empty]
  OBVIOUS
<1>3. PICK name : name = conn[c].name
  OBVIOUS
<1>4. /\ conn[c] \in Client /\ Placed(c) /\ conn \in [Clients -> Client] /\ ContinuesLatest
      /\ conn[c].phase = "closing" /\ conn[c].phase \in Served /\ RowsInv /\ UNCHANGED kid
      /\ conn[c].empty \in BOOLEAN
  BY DEF SessionsInv, Form, Persist, Served, Client
<1>5. /\ x \in DOMAIN rows /\ rows[x].name = name /\ name \in Names /\ x \in Nat \ {0}
      /\ rows[x].parent = 0 /\ rows[x] \in Row /\ Truthful(x)
      /\ \A d \in Clients \ {c} : conn[d].phase \in Served => conn[d].row # x
      /\ \A k \in Kids : kid[k].phase # "off" => kid[k].row # x
  BY <1>1, <1>3, <1>4, OwnRow
<1>6. /\ leases' = [leases EXCEPT ![Process[c]] = @ \ {conn[c].name}]
      /\ conn' = [conn EXCEPT ![c] = NoConn]
      /\ Finish(x, row)
      /\ latest' = IF ~conn[c].empty THEN name ELSE IF latest = name THEN None ELSE latest
  BY <1>1, <1>2, <1>3, <1>5 DEF Persist, Release
<1>7. /\ row \in Row /\ row.name = rows[x].name /\ row.parent = rows[x].parent
      /\ row.root = rows[x].root /\ row.context = rows[x].context /\ row.wire = rows[x].wire
      /\ row.empty = conn[c].empty
  BY <1>2, <1>4, <1>5 DEF Row
<1>8. row.empty = ~HasEvents(row) /\ row.context \cup row.wire \subseteq {row.name}
  <2>1. row.empty = ~HasEvents(rows[x])
    BY <1>1, <1>4, <1>7 DEF Placed
  <2>2. QED
    BY <1>5, <1>7, <2>1 DEF HasEvents, Truthful
<1>9. /\ Stored(x, row)
      /\ lastActive' = IF ~row.empty THEN x ELSE IF lastActive = x THEN 0 ELSE lastActive
  BY <1>5, <1>6, <1>7 DEF Finish
<1>10. /\ RowsInv' /\ Spares(x) /\ x \in DOMAIN rows'
       /\ \A q \in DOMAIN rows : /\ q \in DOMAIN rows' /\ rows'[q].name = rows[q].name
                                 /\ rows'[q].parent = rows[q].parent
  BY <1>4, <1>7, <1>8, <1>9, RowStored
<1>11. NoConn \in Client
  BY DEF NoConn, Client
<1>12. lastActive' \in {lastActive, x, 0}
  BY <1>9
<1>13. OnlyClient(c, NoConn, x)
  BY <1>4, <1>5, <1>6, <1>10, <1>11, <1>12, SameAgents DEF OnlyClient
<1>14. Placed(c)'
  BY <1>4, <1>6 DEF Placed, Served, NoConn
<1>15. Distinct' /\ leases' \in [Processes -> SUBSET Names]
  BY <1>4, <1>6, StaysDistinct DEF Served
<1>16. ContinuesLatest'
  <2>1. name # None
    BY <1>5, SessionsAssumption
  <2>2. CASE ~row.empty
    <3>1. lastActive' = x /\ latest' = name
      BY <1>6, <1>7, <1>9, <2>2
    <3>2. QED
      BY <1>5, <1>10, <2>1, <3>1 DEF ContinuesLatest
  <2>3. CASE row.empty /\ lastActive = x
    <3>1. latest = name
      BY <1>4, <1>5, <2>3 DEF ContinuesLatest
    <3>2. lastActive' = 0 /\ latest' = None
      BY <1>6, <1>7, <1>9, <2>3, <3>1
    <3>3. QED
      BY <3>2 DEF ContinuesLatest
  <2>4. CASE row.empty /\ lastActive # x
    <3>1. latest # name
      <4>1. CASE lastActive = 0
        BY <1>4, <2>1, <4>1 DEF ContinuesLatest
      <4>2. CASE lastActive # 0
        <5>1. lastActive \in DOMAIN rows /\ rows[lastActive].name = latest
          BY <1>4, <4>2 DEF ContinuesLatest
        <5>2. QED
          BY <1>4, <1>5, <2>4, <5>1 DEF RowsInv
      <4>3. QED
        BY <4>1, <4>2
    <3>2. UNCHANGED <<lastActive, latest>>
      BY <1>6, <1>7, <1>9, <2>4, <3>1
    <3>3. QED
      BY <1>4, <1>10, <3>2, StaysLatest
  <2>5. QED
    BY <2>2, <2>3, <2>4, <1>7, <1>4
<1>17. Kept
  BY <1>10 DEF Kept
<1>18. QED
  BY <1>13, <1>14, <1>15, <1>16, <1>17, ClientSteps

-----------------------------------------------------------------------------
(* Subagents.                                                              *)

\* Subagent k is the only one that changes, and x is its row, a new one or nobody's.
OnlyKid(k, agent, x) ==
  /\ kid' = [kid EXCEPT ![k] = agent] /\ agent \in Agent
  /\ Spares(x) /\ RowsInv' /\ UNCHANGED <<lastActive, leases, conn>>
  /\ \A d \in Clients : conn[d].phase \in Served => conn[d].row # x
  /\ \A j \in Kids \ {k} : kid[j].phase # "off" => kid[j].row # x

LEMMA KidSteps ==
  ASSUME SessionsInv, NEW k \in Kids, NEW agent, NEW x, OnlyKid(k, agent, x),
         Housed(k)', ContinuesLatest'
  PROVE  SessionsInv'
<1>1. kid' \in [Kids -> Agent] /\ \A j \in Kids \ {k} : kid'[j] = kid[j]
  BY DEF OnlyKid, SessionsInv, Form
<1>2. ASSUME NEW d \in Clients PROVE Placed(d)'
  <2>1. /\ Placed(d) /\ conn'[d] = conn[d] /\ Spares(x) /\ lastActive' \in {lastActive, x, 0}
        /\ (conn[d].phase \in Served => conn[d].row # x)
    BY DEF OnlyKid, SessionsInv
  <2>2. conn[d].phase \in Served => conn[d].row # 0
    BY <2>1 DEF Placed, SessionsInv, RowsInv, RowsForm
  <2>3. QED
    BY <2>1, <2>2, StaysPlaced
<1>3. ASSUME NEW j \in Kids PROVE Housed(j)'
  <2>1. CASE j # k
    <3>1. Housed(j) /\ kid'[j] = kid[j] /\ Spares(x) /\ (kid[j].phase # "off" => kid[j].row # x)
      BY <1>1, <2>1 DEF OnlyKid, SessionsInv
    <3>2. QED
      BY <3>1, StaysHoused
  <2>2. QED
    BY <2>1
<1>4. Distinct'
  BY DEF OnlyKid, SessionsInv, Distinct
<1>5. QED
  BY <1>1, <1>2, <1>3, <1>4 DEF OnlyKid, SessionsInv, Form

\* Nobody else is where a subagent is, and its session is never the last.
LEMMA KidsRow ==
  ASSUME SessionsInv, NEW k \in Kids, kid[k].phase # "off"
  PROVE  LET x == kid[k].row
         IN  /\ x \in DOMAIN rows /\ rows[x].name = k /\ x \in Nat \ {0} /\ lastActive # x
             /\ rows[x].parent # 0 /\ rows[x] \in Row /\ Truthful(x)
             /\ \A d \in Clients : conn[d].phase \in Served => conn[d].row # x
             /\ \A j \in Kids \ {k} : kid[j].phase # "off" => kid[j].row # x
<1> DEFINE x == kid[k].row
<1>1. x \in DOMAIN rows /\ rows[x].name = k /\ k \notin Names
  BY SessionsAssumption DEF SessionsInv, Housed
<1>2. /\ rows[x] \in Row /\ Truthful(x) /\ x \in Nat \ {0}
  BY <1>1 DEF SessionsInv, RowsInv, RowsForm
<1>3. rows[x].parent # 0
  BY <1>1, <1>2 DEF Truthful
<1>4. lastActive # x
  BY <1>2, <1>3 DEF SessionsInv, ContinuesLatest
<1> HIDE DEF x
<1>5. ASSUME NEW d \in Clients, conn[d].phase \in Served PROVE conn[d].row # x
  <2>1. rows[conn[d].row].name = conn[d].name /\ conn[d].name \in Names
    BY <1>5 DEF SessionsInv, Placed, Served
  <2>2. QED
    BY <1>1, <2>1
<1>6. ASSUME NEW j \in Kids \ {k}, kid[j].phase # "off" PROVE kid[j].row # x
  <2>1. rows[kid[j].row].name = j
    BY <1>6 DEF SessionsInv, Housed
  <2>2. QED
    BY <1>1, <2>1
<1>7. QED
  BY <1>1, <1>2, <1>3, <1>4, <1>5, <1>6 DEF x

\* A subagent's session is stored under that of the one who starts it.
LEMMA SpawnKeeps ==
  ASSUME SessionsInv, NEW k \in Kids, NEW owner \in Names \cup Kids,
         NEW p \in Processes \cup {None}, Spawn(k, owner, p)
  PROVE  SessionsInv' /\ Kept
<1>1. PICK x : x = NextId
  OBVIOUS
<1>2. PICK agent : agent = [phase |-> "starting", owner |-> owner, process |-> p, row |-> x]
  OBVIOUS
<1>3. /\ RowsNamed(k) = {} /\ kid' = [kid EXCEPT ![k] = agent]
      /\ UNCHANGED <<lastActive, leases, conn, latest>>
  BY <1>1, <1>2 DEF Spawn, Change
<1>4. PICK parent \in DOMAIN rows : Insert(k, parent)
  BY DEF Spawn, RowsNamed
<1>5. RowsInv /\ ContinuesLatest /\ kid \in [Kids -> Agent]
  BY DEF SessionsInv, Form
<1>6. /\ RowsInv' /\ Spares(x) /\ x \notin DOMAIN rows /\ x \in Nat \ {0}
      /\ x \in DOMAIN rows' /\ rows'[x].name = k /\ ~HasEvents(rows'[x])
  BY <1>1, <1>3, <1>4, <1>5, RowInserted
<1>7. agent \in Agent /\ agent.phase = "starting" /\ agent.row = x
  BY <1>2, <1>6 DEF Agent
<1>8. OnlyKid(k, agent, x)
  BY <1>3, <1>6, <1>7, NobodysRow DEF OnlyKid
<1>9. Housed(k)'
  <2>1. kid'[k] = agent
    BY <1>3, <1>5
  <2>2. QED
    BY <1>6, <1>7, <2>1 DEF Housed
<1>10. \A q \in DOMAIN rows : q \in DOMAIN rows' /\ rows'[q] = rows[q]
  BY <1>6 DEF Spares
<1>11. ContinuesLatest'
  BY <1>3, <1>5, <1>10, StaysLatest
<1>12. Kept
  BY <1>10 DEF Kept
<1>13. QED
  BY <1>8, <1>9, <1>11, <1>12, KidSteps

LEMMA KidFailsKeeps ==
  ASSUME SessionsInv, NEW k \in Kids, KidFails(k)
  PROVE  SessionsInv' /\ Kept
<1>1. PICK x : x = kid[k].row
  OBVIOUS
<1>2. /\ kid[k].phase = "starting" /\ kid' = [kid EXCEPT ![k] = NoKid]
      /\ UNCHANGED <<leases, conn, latest>>
      /\ UNCHANGED <<rows, lastActive>> \/ Delete(x)
  BY <1>1 DEF KidFails
<1>3. RowsInv /\ ContinuesLatest /\ kid \in [Kids -> Agent] /\ ~HasEvents(rows[x])
  BY <1>1, <1>2 DEF SessionsInv, Form, Housed
<1>4. /\ x \in DOMAIN rows /\ lastActive # x
      /\ \A d \in Clients : conn[d].phase \in Served => conn[d].row # x
      /\ \A j \in Kids \ {k} : kid[j].phase # "off" => kid[j].row # x
  BY <1>1, <1>2, KidsRow
<1>5. RowsInv' /\ Spares(x) /\ lastActive' = lastActive
  <2>1. CASE UNCHANGED <<rows, lastActive>>
    BY <2>1, SameRows
  <2>2. CASE Delete(x)
    BY <1>3, <1>4, <2>2, RowDeleted
  <2>3. QED
    BY <1>2, <2>1, <2>2
<1>6. NoKid \in Agent
  BY DEF NoKid, Agent
<1>7. OnlyKid(k, NoKid, x)
  BY <1>2, <1>4, <1>5, <1>6 DEF OnlyKid
<1>8. Housed(k)'
  BY <1>2, <1>3 DEF Housed, NoKid
<1>9. ContinuesLatest'
  <2>1. \A q \in DOMAIN rows : lastActive = q => q \in DOMAIN rows' /\ rows'[q] = rows[q]
    BY <1>4, <1>5 DEF Spares
  <2>2. QED
    BY <1>2, <1>3, <1>5, <2>1, StaysLatest
<1>10. Kept
  BY <1>3, <1>5 DEF Kept, Spares
<1>11. QED
  BY <1>7, <1>8, <1>9, <1>10, KidSteps

LEMMA KidStartsKeeps ==
  ASSUME SessionsInv, NEW k \in Kids, KidStarts(k)
  PROVE  SessionsInv' /\ Kept
<1>1. PICK agent : agent = [kid[k] EXCEPT !.phase = "running"]
  OBVIOUS
<1>2. /\ kid[k].phase = "starting" /\ kid' = [kid EXCEPT ![k] = agent]
      /\ UNCHANGED <<rows, lastActive, leases, conn, latest>>
  BY <1>1 DEF KidStarts, Change
<1>3. kid[k] \in Agent /\ kid \in [Kids -> Agent] /\ Housed(k) /\ ContinuesLatest
  BY DEF SessionsInv, Form
<1>4. agent \in Agent /\ agent.phase = "running" /\ agent.row = kid[k].row
  BY <1>1, <1>3 DEF Agent
<1>5. OnlyKid(k, agent, 0)
  BY <1>2, <1>4, SameRows, NobodysRow DEF OnlyKid
<1>6. kid'[k] = agent
  BY <1>2, <1>3
<1>7. Housed(k)'
  BY <1>2, <1>3, <1>4, <1>6 DEF Housed
<1>8. ContinuesLatest'
  BY <1>2, <1>3, StaysLatest
<1>9. QED
  BY <1>2, <1>5, <1>7, <1>8, KidSteps, SameRows

LEMMA KidWritesKeeps ==
  ASSUME SessionsInv, NEW k \in Kids, KidWrites(k)
  PROVE  SessionsInv' /\ Kept
<1>1. PICK x : x = kid[k].row
  OBVIOUS
<1>2. /\ kid[k].phase = "running" /\ UNCHANGED <<lastActive, leases, conn, kid, latest>>
      /\ AppendContext(x, k) \/ AppendWire(x, k)
  BY <1>1 DEF KidWrites
<1>3. kid[k] \in Agent /\ kid \in [Kids -> Agent] /\ RowsInv /\ ContinuesLatest
  BY DEF SessionsInv, Form
<1>4. /\ rows[x] \in Row /\ Truthful(x) /\ rows[x].name = k
      /\ \A d \in Clients : conn[d].phase \in Served => conn[d].row # x
      /\ \A j \in Kids \ {k} : kid[j].phase # "off" => kid[j].row # x
  BY <1>1, <1>2, KidsRow
<1>5. k \in Names \cup Kids
  OBVIOUS
<1>6. /\ RowsInv' /\ Spares(x) /\ x \in DOMAIN rows' /\ rows'[x].name = k
      /\ \A q \in DOMAIN rows : /\ q \in DOMAIN rows' /\ rows'[q].name = rows[q].name
                                /\ rows'[q].parent = rows[q].parent
  BY <1>2, <1>3, <1>4, <1>5, AppendStored
<1>7. OnlyKid(k, kid[k], x)
  BY <1>2, <1>3, <1>4, <1>6 DEF OnlyKid
<1>8. Housed(k)'
  BY <1>1, <1>2, <1>6 DEF Housed
<1>9. ContinuesLatest'
  BY <1>2, <1>3, <1>6, StaysLatest
<1>10. Kept
  BY <1>6 DEF Kept
<1>11. QED
  BY <1>7, <1>8, <1>9, <1>10, KidSteps

LEMMA KidEndsKeeps ==
  ASSUME SessionsInv, NEW k \in Kids, KidEnds(k)
  PROVE  SessionsInv' /\ Kept
<1>1. PICK x : x = kid[k].row
  OBVIOUS
<1>2. PICK wire : wire = IF k \in Inits THEN {} ELSE {k}
  OBVIOUS
<1>3. PICK row : row = [rows[x] EXCEPT !.wire  = @ \cup wire,
                                       !.empty = (rows[x].context \cup rows[x].wire \cup wire = {})]
  OBVIOUS
<1>4. /\ kid[k].phase = "running" /\ kid' = [kid EXCEPT ![k] = NoKid]
      /\ UNCHANGED <<leases, conn, latest>> /\ Finish(x, row)
  BY <1>1, <1>2, <1>3 DEF KidEnds
<1>5. kid \in [Kids -> Agent] /\ RowsInv /\ ContinuesLatest
  BY DEF SessionsInv, Form
<1>6. /\ x \in DOMAIN rows /\ rows[x].name = k /\ rows[x].parent # 0
      /\ rows[x] \in Row /\ Truthful(x)
      /\ \A d \in Clients : conn[d].phase \in Served => conn[d].row # x
      /\ \A j \in Kids \ {k} : kid[j].phase # "off" => kid[j].row # x
  BY <1>1, <1>4, KidsRow
<1>7. wire \subseteq {k}
  BY <1>2
<1>8. /\ row \in Row /\ row.name = rows[x].name /\ row.parent = rows[x].parent
      /\ row.root = rows[x].root /\ row.context = rows[x].context
      /\ row.wire = rows[x].wire \cup wire
      /\ row.empty = (rows[x].context \cup rows[x].wire \cup wire = {})
  BY <1>3, <1>6, <1>7 DEF Row
<1>9. row.empty = ~HasEvents(row) /\ row.context \cup row.wire \subseteq {row.name}
  BY <1>6, <1>7, <1>8 DEF HasEvents, Truthful
<1>10. Stored(x, row) /\ UNCHANGED lastActive
  BY <1>4, <1>6, <1>8 DEF Finish
<1>11. /\ RowsInv' /\ Spares(x)
       /\ \A q \in DOMAIN rows : /\ q \in DOMAIN rows' /\ rows'[q].name = rows[q].name
                                 /\ rows'[q].parent = rows[q].parent
  BY <1>5, <1>8, <1>9, <1>10, RowStored
<1>12. NoKid \in Agent
  BY DEF NoKid, Agent
<1>13. OnlyKid(k, NoKid, x)
  BY <1>4, <1>6, <1>10, <1>11, <1>12 DEF OnlyKid
<1>14. Housed(k)'
  BY <1>4, <1>5 DEF Housed, NoKid
<1>15. ContinuesLatest'
  BY <1>4, <1>5, <1>10, <1>11, StaysLatest
<1>16. Kept
  BY <1>11 DEF Kept
<1>17. QED
  BY <1>13, <1>14, <1>15, <1>16, KidSteps

-----------------------------------------------------------------------------
(* A process dies; every step; the theorems.                               *)

LEMMA CrashKeeps ==
  ASSUME SessionsInv, NEW p \in Processes, Crash(p)
  PROVE  SessionsInv' /\ Kept
<1>1. /\ leases' = [leases EXCEPT ![p] = {}]
      /\ conn' = [c \in Clients |-> IF Process[c] = p THEN NoConn ELSE conn[c]]
      /\ kid' = [k \in Kids |-> IF kid[k].process = p THEN NoKid ELSE kid[k]]
      /\ UNCHANGED <<rows, lastActive, latest>>
  BY DEF Crash
<1>2. /\ conn \in [Clients -> Client] /\ kid \in [Kids -> Agent]
      /\ leases \in [Processes -> SUBSET Names] /\ Distinct /\ ContinuesLatest
      /\ \A c \in Clients : Process[c] \in Processes
  BY DEF SessionsInv, Form, Processes
<1>3. NoConn \in Client /\ NoKid \in Agent
  BY DEF NoConn, NoKid, Client, Agent
<1>4. Form'
  BY <1>1, <1>2, <1>3 DEF Form
<1>5. RowsInv' /\ Kept /\ 0 \notin DOMAIN rows /\ Spares(0)
  BY <1>1, SameRows
<1>6. ASSUME NEW c \in Clients PROVE Placed(c)'
  <2>1. CASE Process[c] = p
    <3>1. conn'[c] = NoConn
      BY <1>1, <2>1
    <3>2. QED
      BY <3>1 DEF Placed, Served, NoConn
  <2>2. CASE Process[c] # p
    <3>1. Placed(c) /\ conn'[c] = conn[c] /\ lastActive' \in {lastActive, 0}
      BY <1>1, <2>2 DEF SessionsInv
    <3>2. conn[c].phase \in Served => conn[c].row # 0
      BY <1>5, NobodysRow
    <3>3. QED
      BY <1>5, <3>1, <3>2, StaysPlaced
  <2>3. QED
    BY <2>1, <2>2
<1>7. ASSUME NEW k \in Kids PROVE Housed(k)'
  <2>1. CASE kid'[k] = NoKid
    BY <2>1 DEF Housed, NoKid
  <2>2. CASE kid'[k] = kid[k]
    BY <1>1, <2>2 DEF Housed, SessionsInv
  <2>3. QED
    BY <1>1, <2>1, <2>2
<1>8. Distinct'
  <2>1. \A c \in Clients : conn'[c].phase # "off" => Process[c] # p /\ conn'[c] = conn[c]
    BY <1>1 DEF NoConn
  <2>2. \A c \in Clients : Process[c] # p => leases'[Process[c]] = leases[Process[c]]
    BY <1>1, <1>2
  <2>3. \A c, d \in Clients : conn'[c].phase # "off" /\ conn'[d].phase # "off" =>
          (conn'[c].name = conn'[d].name => c = d)
    BY <1>2, <2>1 DEF Distinct
  <2>4. \A c \in Clients \ Continues :
          conn'[c].phase # "off" => conn'[c].name \in leases'[Process[c]]
    BY <1>2, <2>1, <2>2 DEF Distinct
  <2>5. QED
    BY <2>3, <2>4 DEF Distinct
<1>9. ContinuesLatest'
  BY <1>1, <1>2, StaysLatest
<1>10. QED
  BY <1>4, <1>5, <1>6, <1>7, <1>8, <1>9 DEF SessionsInv

LEMMA NextKeeps == ASSUME SessionsInv, SessionsApart, Next PROVE SessionsInv' /\ Kept
<1>1. ASSUME NEW c \in Clients, NEW name \in Names, Connect(c, name) PROVE SessionsInv' /\ Kept
  BY <1>1, ConnectKeeps
<1>2. ASSUME NEW c \in Clients, Find(c) \/ Starts(c) \/ Prompt(c) PROVE SessionsInv' /\ Kept
  BY <1>2, QuietKeeps
<1>3. ASSUME NEW c \in Clients, Create(c) PROVE SessionsInv' /\ Kept
  BY <1>3, CreateKeeps
<1>4. ASSUME NEW c \in Clients, Continue(c) PROVE SessionsInv' /\ Kept
  BY <1>4, ContinueKeeps
<1>5. ASSUME NEW c \in Clients, StartFails(c) PROVE SessionsInv' /\ Kept
  <2>1. /\ conn[c].phase = "starting" /\ Release(c) /\ UNCHANGED <<kid, latest>>
        /\ UNCHANGED <<rows, lastActive>> \/ (conn[c].new /\ Delete(conn[c].row))
    BY <1>5 DEF StartFails
  <2>2. conn[c].phase \in Served /\ ~conn[c].turn /\ ~conn[c].turned
    BY <2>1 DEF SessionsInv, Placed, Served
  <2>3. QED
    BY <2>1, <2>2, LeaveKeeps
<1>6. ASSUME NEW c \in Clients, Writes(c) \/ TurnEnds(c) PROVE SessionsInv' /\ Kept
  BY <1>6, WorkKeeps
<1>7. ASSUME NEW c \in Clients, Finalize(c) PROVE SessionsInv' /\ Kept
  <2>1. CASE conn[c].turned
    BY <1>7, <2>1, QuietKeeps
  <2>2. CASE ~conn[c].turned
    <3>1. /\ conn[c].phase = "serving" /\ ~conn[c].turn /\ Release(c) /\ UNCHANGED <<kid, latest>>
          /\ UNCHANGED <<rows, lastActive>> \/ (conn[c].new /\ Delete(conn[c].row))
      BY <1>7, <2>2 DEF Finalize
    <3>2. conn[c].phase \in Served
      BY <3>1 DEF Served
    <3>3. QED
      BY <2>2, <3>1, <3>2, LeaveKeeps
  <2>3. QED
    BY <2>1, <2>2
<1>8. ASSUME NEW c \in Clients, Persist(c) PROVE SessionsInv' /\ Kept
  BY <1>8, PersistKeeps
<1>9. ASSUME NEW c \in Clients, NEW k \in Kids, TurnSpawns(c, k) PROVE SessionsInv' /\ Kept
  <2>1. conn[c].turn /\ Spawn(k, conn[c].name, Process[c])
    BY <1>9 DEF TurnSpawns
  <2>2. conn[c].name \in Names /\ Process[c] \in Processes
    BY <2>1 DEF SessionsInv, Placed, Processes
  <2>3. QED
    BY <2>1, <2>2, SpawnKeeps
<1>10. ASSUME NEW j \in Kids, NEW k \in Kids, KidSpawns(j, k) PROVE SessionsInv' /\ Kept
  <2>1. Spawn(k, j, kid[j].process)
    BY <1>10 DEF KidSpawns
  <2>2. kid[j].process \in Processes \cup {None}
    BY DEF SessionsInv, Form, Agent
  <2>3. QED
    BY <2>1, <2>2, SpawnKeeps
<1>11. ASSUME NEW k \in Kids, KidFails(k) PROVE SessionsInv' /\ Kept
  BY <1>11, KidFailsKeeps
<1>12. ASSUME NEW k \in Kids, KidStarts(k) PROVE SessionsInv' /\ Kept
  BY <1>12, KidStartsKeeps
<1>13. ASSUME NEW k \in Kids, KidWrites(k) PROVE SessionsInv' /\ Kept
  BY <1>13, KidWritesKeeps
<1>14. ASSUME NEW k \in Kids, KidEnds(k) PROVE SessionsInv' /\ Kept
  BY <1>14, KidEndsKeeps
<1>15. ASSUME NEW p \in Processes, Crash(p) PROVE SessionsInv' /\ Kept
  BY <1>15, CrashKeeps
<1>16. QED
  BY <1>1, <1>2, <1>3, <1>4, <1>5, <1>6, <1>7, <1>8, <1>9, <1>10, <1>11, <1>12, <1>13, <1>14,
     <1>15 DEF Next

LEMMA InitHolds == ASSUME Init PROVE SessionsInv
<1>1. DOMAIN rows = {} /\ lastActive = 0 /\ latest = None
  BY DEF Init
<1>2. NoConn \in Client /\ NoKid \in Agent
  BY DEF NoConn, NoKid, Client, Agent
<1>3. Form
  BY <1>2 DEF Init, Form
<1>4. RowsInv /\ ContinuesLatest
  BY <1>1 DEF RowsInv, RowsForm, ContinuesLatest
<1>5. \A c \in Clients : Placed(c)
  BY DEF Init, Placed, Served, NoConn
<1>6. (\A k \in Kids : Housed(k)) /\ Distinct
  BY DEF Init, Housed, NoKid, Distinct, NoConn
<1>7. QED
  BY <1>3, <1>4, <1>5, <1>6 DEF SessionsInv

\* The rows, and who is where, for every step: the inductive invariant.
THEOREM SessionsHold == ASSUME SessionsApart PROVE Spec => []SessionsInv
<1>1. Init => SessionsInv
  BY InitHolds
<1>2. ASSUME SessionsInv, [Next]_vars PROVE SessionsInv'
  <2>1. CASE Next
    BY <1>2, <2>1, NextKeeps
  <2>2. CASE UNCHANGED vars
    BY <1>2, <2>2 DEF vars, SessionsInv, Form, RowsInv, RowsForm, Truthful, Placed, Distinct,
                      Housed, ContinuesLatest, Served
  <2>3. QED
    BY <1>2, <2>1, <2>2
<1>3. QED
  BY <1>1, <1>2, PTL DEF Spec

\* While no session has clients of two processes, a session holds only what was said
\* in it: no client and no subagent ever writes into a row that has become another
\* session's, although any process may give its row id out again. (append_context_record,
\* append_wire_record, delete_session_if_exists)
THEOREM OwnEvents == ASSUME SessionsApart PROVE Spec => []EventsAreOwn
<1>1. SessionsInv => EventsAreOwn
  BY DEF SessionsInv, RowsInv, Truthful, EventsAreOwn
<1>2. QED
  BY <1>1, SessionsHold, PTL

\* While no session has clients of two processes, the flag is_empty tells the truth
\* in every row although it is read in one transaction and stored in another, and
\* each row is where its parent's tree has it, whatever other processes do meanwhile
\* with other sessions of the workspace.
\* (refresh_context_session_state, create_session, set_session_empty)
THEOREM TrueRows == ASSUME SessionsApart PROVE Spec => []RowsAreTrue
<1>1. SessionsInv => RowsAreTrue
  BY DEF SessionsInv, RowsInv, Truthful, RowsAreTrue, EmptyIsTrue, TreeIsWhole
<1>2. QED
  BY <1>1, SessionsHold, PTL

\* While no session has clients of two processes, --continue opens the session that
\* the user last finished with something in it, in whatever process.
\* (finish_session, continue_session)
THEOREM LatestFound == ASSUME SessionsApart PROVE Spec => []ContinuesLatest
<1>1. SessionsInv => ContinuesLatest
  BY DEF SessionsInv
<1>2. QED
  BY <1>1, SessionsHold, PTL

\* While no session has clients of two processes, no step of any process deletes a
\* session with events: not a client that leaves, not a start that fails, not a
\* subagent that could not be made. (delete_session_if_exists)
THEOREM UsedKept == ASSUME SessionsApart PROVE Spec => UsedIsKept
<1> DEFINE Keeps == \A r \in DOMAIN rows :
             HasEvents(rows[r]) => r \in DOMAIN rows' /\ rows'[r].name = rows[r].name
<1>1. SessionsInv /\ [Next]_vars => [Keeps]_vars
  <2>1. SessionsInv /\ Next => Keeps
    BY NextKeeps DEF Kept
  <2>2. QED
    BY <2>1
<1>2. Spec => [][Keeps]_vars
  <2> HIDE DEF Keeps
  <2>1. QED
    BY <1>1, SessionsHold, PTL DEF Spec
<1>3. QED
  BY <1>2 DEF UsedIsKept
=============================================================================
