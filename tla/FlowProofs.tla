----------------------------- MODULE FlowProofs -----------------------------
(***************************************************************************)
(* What holds of flows for every drawing, every limit and every word: the  *)
(* walk knows its way on (WaysAreClear), its limit is exact                *)
(* (MovesAreLimited), and its turns are closed (TurnsAreClosed).           *)
(***************************************************************************)
EXTENDS Flow, TLAPS

USE FlowAssumption DEF FlowAssumption

Edge == [dst : Ids, label : Label]

-----------------------------------------------------------------------------
(* The counters.                                                           *)

\* How many turns are open, and how far moves and visits are apart, at each
\* point of a run.
CountInv ==
  /\ pc \in {"idle", "walk", "turn", "single", "init", "done"}
  /\ moves \in Nat /\ visits \in Nat
  /\ pc # "done" => result = None
  /\ skill = "drawing" => pc = "idle"
  /\ outer \in 0 .. 1
  /\ pc = "idle" => open = 0 /\ outer = 0
  /\ pc \in {"walk", "single"} => open = outer + 1
  /\ pc = "turn" => open = outer + 2
  /\ pc = "init" => open = 1 /\ outer = 1
  /\ pc = "idle" => moves = 0 /\ visits = 0
  /\ flow.max \in Int
  /\ flow.limited =>
       /\ flow.max \in Nat
       /\ pc = "walk" => visits = moves /\ moves <= flow.max
       /\ pc = "turn" => visits = moves + 1 /\ moves < flow.max
  /\ MovesAreLimited /\ TurnsAreClosed

\* What Returns says, for a run that has nested turns open.
LEMMA ReturnsCounts ==
  ASSUME NEW how \in {"ok", "failed", "limit"}, NEW nested \in 0 .. 1,
         Returns(how, nested), outer \in 0 .. 1, open = outer + nested + 1,
         how = "limit" => nested = 0
  PROVE  \/ pc' = "init" /\ how = "ok" /\ outer = 1 /\ open' = 1 /\ UNCHANGED result
         \/ /\ pc' = "done" /\ result' = how
            /\ how = "ok" => open' = 0
            /\ how = "limit" => open' = outer + 1
            /\ how = "failed" => open' \in 1 .. outer + 2
BY DEF Returns, Ends

LEMMA CountInit == Init => CountInv
<1>1. NoFlow.max = 0
  BY DEF NoFlow
<1>2. QED
  BY <1>1 DEF Init, CountInv, MovesAreLimited, TurnsAreClosed, None

LEMMA CountStep ==
  ASSUME CountInv, [Next]_vars
  PROVE  CountInv'
<1>1. CASE UNCHANGED vars
  BY <1>1 DEF vars, CountInv, MovesAreLimited, TurnsAreClosed
<1>2. ASSUME NEW s \in Statements, DrawNode(s) \/ DrawEdge(s) \/ DrawConflict(s)
      PROVE  CountInv'
  <2>1. /\ UNCHANGED <<flow, pc, current, moves, again, result, open, outer, visits>>
        /\ skill' \in {skill, "standard"}
    BY <1>2 DEF DrawNode, DrawEdge, DrawConflict, Reads
  <2>2. QED
    BY <2>1 DEF CountInv, MovesAreLimited, TurnsAreClosed, None
<1>3. CASE Load
  <2>1. /\ UNCHANGED <<pc, moves, result, open, outer, visits>>
        /\ pc = "idle" /\ result = None
    BY <1>3 DEF Load, CountInv
  <2>2. UNCHANGED flow \/ (flow'.max = MaxMoves /\ flow'.limited)
    BY <1>3 DEF Load
  <2>3. flow'.max \in Int /\ (flow'.limited => flow'.max \in Nat)
    BY <2>2 DEF CountInv
  <2>4. QED
    BY <2>1, <2>3 DEF CountInv, MovesAreLimited, TurnsAreClosed, None
<1>4. ASSUME NEW where \in {"walk", "single"}, NEW at, NEW runner, NEW around \in 0 .. 1,
             Begin(where, at, runner, around), runner.max \in Int,
             runner.limited => runner.max \in Nat
      PROVE  CountInv'
  <2>1. /\ pc = "idle" /\ pc' = where /\ outer' = around /\ open' = around + 1 /\ skill # "drawing"
        /\ UNCHANGED <<skill, moves, visits, result>> /\ flow' = runner
    BY <1>4 DEF Begin, drawing
  <2>2. moves = 0 /\ visits = 0 /\ result = None
    BY <2>1 DEF CountInv
  <2>3. QED
    BY <1>4, <2>1, <2>2 DEF CountInv, MovesAreLimited, TurnsAreClosed, None
<1>5. CASE RunFlow
  BY <1>4, <1>5 DEF RunFlow, CountInv
<1>6. ASSUME NEW n \in Iterations, NEW around \in 0 .. 1, RunRalph(n, around)
      PROVE  CountInv'
  <2>1. RalphLoop(n).max = n + 1 /\ (RalphLoop(n).limited <=> n >= 0)
    BY DEF RalphLoop
  <2>2. QED
    BY <1>4, <1>6, <2>1 DEF RunRalph
<1>7. ASSUME NEW around \in 0 .. 1, RunSingle(around) PROVE CountInv'
  BY <1>4, <1>7 DEF RunSingle, CountInv
<1>8. CASE RunWithoutTurn
  BY <1>8 DEF RunWithoutTurn, Ends, drawing, CountInv, MovesAreLimited, TurnsAreClosed
\* A step that ends the run.
<1>9. ASSUME NEW how \in {"ok", "failed", "limit"}, NEW nested \in 0 .. 1,
             Returns(how, nested), open = outer + nested + 1, how = "limit" => nested = 0,
             how = "limit" => visits = flow.max, pc # "done", skill # "drawing",
             UNCHANGED <<skill, flow, moves, outer, visits>>
      PROVE  CountInv'
  <2>1. \/ pc' = "init" /\ how = "ok" /\ outer = 1 /\ open' = 1 /\ UNCHANGED result
        \/ /\ pc' = "done" /\ result' = how
           /\ how = "ok" => open' = 0
           /\ how = "limit" => open' = outer + 1
           /\ how = "failed" => open' \in 1 .. outer + 2
    BY <1>9, ReturnsCounts DEF CountInv
  <2>2. QED
    BY <1>9, <2>1 DEF CountInv, MovesAreLimited, TurnsAreClosed, None
<1>10. CASE SingleTurn
  BY <1>9, <1>10 DEF SingleTurn, drawing, CountInv
<1>11. CASE Walk
  <2>1. /\ pc = "walk" /\ open = outer + 1 /\ skill # "drawing"
        /\ outer \in 0 .. 1 /\ open = outer + 0 + 1 /\ UNCHANGED <<skill, flow, outer>>
    BY <1>11 DEF Walk, ReachEnd, LeaveBegin, HitLimit, StopAtSink, Visit, drawing, CountInv
  <2>2. CASE ReachEnd \/ StopAtSink
    BY <1>9, <2>1, <2>2 DEF ReachEnd, StopAtSink
  <2>3. CASE HitLimit
    <3>1. visits = flow.max
      BY <2>1, <2>3 DEF HitLimit, AtLimit, CountInv
    <3>2. QED
      BY <1>9, <2>1, <2>3, <3>1 DEF HitLimit
  <2>4. CASE LeaveBegin
    BY <2>1, <2>4 DEF LeaveBegin, CountInv, MovesAreLimited, TurnsAreClosed
  <2>5. CASE Visit
    <3>1. /\ pc' = "turn" /\ open' = outer + 2 /\ UNCHANGED <<moves, result>>
          /\ visits' = IF flow.limited THEN visits + 1 ELSE visits
          /\ flow.limited => moves < flow.max
      BY <2>1, <2>5 DEF Visit, AtLimit, CountInv
    <3>2. QED
      BY <2>1, <3>1 DEF CountInv, MovesAreLimited, TurnsAreClosed, None
  <2>6. QED
    BY <1>11, <2>2, <2>3, <2>4, <2>5 DEF Walk
<1>12. CASE Turn
  <2>1. /\ pc = "turn" /\ open = outer + 2 /\ skill # "drawing"
        /\ outer \in 0 .. 1 /\ open = outer + 1 + 1 /\ UNCHANGED <<skill, flow, outer>>
    BY <1>12 DEF Turn, FailTurn, RejectTool, FinishTask, Choose, Follow, AskAgain, drawing, CountInv
  <2>2. CASE FailTurn \/ RejectTool
    BY <1>9, <2>1, <2>2 DEF FailTurn, RejectTool
  <2>3. ASSUME NEW e, Follow(e) PROVE CountInv'
    <3>1. /\ pc' = "walk" /\ open' = outer + 1 /\ UNCHANGED <<visits, result>>
          /\ moves' = IF flow.limited THEN moves + 1 ELSE moves
      BY <2>1, <2>3 DEF Follow
    <3>2. QED
      BY <2>1, <3>1 DEF CountInv, MovesAreLimited, TurnsAreClosed, None
  <2>4. ASSUME NEW w, AskAgain(w) PROVE CountInv'
    BY <2>1, <2>4 DEF AskAgain, CountInv, MovesAreLimited, TurnsAreClosed
  <2>5. QED
    BY <1>12, <2>2, <2>3, <2>4 DEF Turn, FinishTask, Choose
<1>13. CASE FinishInit
  BY <1>13 DEF FinishInit, Ends, drawing, CountInv, MovesAreLimited, TurnsAreClosed, None
<1>14. QED
  BY <1>1, <1>2, <1>3, <1>5, <1>6, <1>7, <1>8, <1>10, <1>11, <1>12, <1>13 DEF Next, RunInit

\* The limit of moves is exact: a flow never visits more nodes, and is stopped
\* by the limit only after as many.
THEOREM LimitIsExact == Spec => []MovesAreLimited
<1>1. Init => CountInv
  BY CountInit
<1>2. CountInv => MovesAreLimited
  BY DEF CountInv
<1>3. QED
  BY <1>1, <1>2, CountStep, PTL DEF Spec

\* A run that returns without an error has ended every turn it began, and that of
\* the soul inside /init; one that fails leaves at least its own open, and never
\* more than the turns that were nested when it failed.
THEOREM TurnsClosed == Spec => []TurnsAreClosed
<1>1. Init => CountInv
  BY CountInit
<1>2. CountInv => TurnsAreClosed
  BY DEF CountInv
<1>3. QED
  BY <1>1, <1>2, CountStep, PTL DEF Spec

-----------------------------------------------------------------------------
(* The ways.                                                               *)

\* What the parsers keep: edges lead to nodes.
DrawInv ==
  /\ outgoing \in [Ids -> Seq(Edge)]
  /\ DOMAIN nodes \subseteq Ids
  /\ \A i \in Ids : \A e \in 1 .. Len(outgoing[i]) : outgoing[i][e].dst \in DOMAIN nodes

\* A set of nodes that f does not leave, where there is a way on.
Clear(f, S) ==
  /\ Closed(S, f.out)
  /\ \A i \in S :
       /\ Len(f.out[i]) \in Nat /\ (Len(f.out[i]) = 0 => f.out[i] = <<>>)
       /\ f.kind[i] = "task" => Len(f.out[i]) <= 1
       /\ f.kind[i] = "decision" => LabelsTellApart(f.out[i])

WayInv ==
  /\ DrawInv
  /\ skill = "drawing" => pc = "idle"
  /\ skill = "flow" /\ pc = "idle" =>
       \E S \in SUBSET DOMAIN flow.kind : flow.begin \in S /\ Clear(flow, S)
  /\ pc \in {"walk", "turn"} =>
       \E S \in SUBSET DOMAIN flow.kind : current \in S /\ Clear(flow, S)
  /\ pc = "turn" => KindNow \in {"task", "decision"} /\ Edges # <<>>

LEMMA WayIsClear == WayInv => WaysAreClear
<1>1. SUFFICES ASSUME WayInv, pc = "turn"
               PROVE  IF KindNow = "task" THEN Len(Edges) = 1 ELSE LabelsTellApart(Edges)
  BY DEF WaysAreClear
<1>2. PICK S \in SUBSET DOMAIN flow.kind : current \in S /\ Clear(flow, S)
  BY <1>1 DEF WayInv
<1>3. /\ Len(Edges) \in Nat /\ (Len(Edges) = 0 => Edges = <<>>)
      /\ KindNow = "task" => Len(Edges) <= 1
      /\ KindNow = "decision" => LabelsTellApart(Edges)
  BY <1>2 DEF Clear, KindNow, Edges
<1>4. KindNow \in {"task", "decision"} /\ Edges # <<>>
  BY <1>1 DEF WayInv
<1>5. CASE KindNow = "task"
  <2>1. Len(Edges) \in Nat /\ Len(Edges) <= 1 /\ Len(Edges) # 0
    BY <1>3, <1>4, <1>5
  <2>2. Len(Edges) = 1
    BY <2>1
  <2>3. QED
    BY <1>5, <2>2
<1>6. CASE KindNow # "task"
  BY <1>3, <1>4, <1>6
<1>7. QED
  BY <1>5, <1>6

\* Only ids of nodes are added, and no node is lost.
LEMMA AddNodeKeeps ==
  ASSUME NEW defs, NEW id, NEW text
  PROVE  DOMAIN AddNode(defs, id, text) = DOMAIN defs \cup {id}
BY DEF AddNode

LEMMA DrawStep ==
  ASSUME DrawInv, NEW s \in Statements, DrawNode(s) \/ DrawEdge(s) \/ DrawConflict(s)
  PROVE  DrawInv'
<1>1. s.src \in Ids /\ s.dst \in Ids \cup {None} /\ s.label \in Label
  OBVIOUS
<1>2. CASE DrawNode(s)
  <2>1. DOMAIN nodes' = DOMAIN nodes \cup {s.src} /\ UNCHANGED outgoing
    BY <1>2, AddNodeKeeps DEF DrawNode
  <2>2. QED
    BY <1>1, <2>1 DEF DrawInv
<1>3. CASE DrawEdge(s)
  <2> DEFINE new == [dst |-> s.dst, label |-> s.label]
  <2>1. DOMAIN nodes' = DOMAIN nodes \cup {s.src, s.dst}
    <3> DEFINE first == AddNode(nodes, s.src, s.srcText)
    <3>1. nodes' = AddNode(first, s.dst, s.dstText)
      BY <1>3 DEF DrawEdge
    <3>2. DOMAIN first = DOMAIN nodes \cup {s.src}
      BY AddNodeKeeps
    <3>3. DOMAIN AddNode(first, s.dst, s.dstText) = DOMAIN first \cup {s.dst}
      BY AddNodeKeeps
    <3>4. QED
      BY <3>1, <3>2, <3>3
  <2>2. s.dst \in Ids /\ new \in Edge
    BY <1>1, <1>3 DEF DrawEdge, Edge
  <2>3. outgoing' = [outgoing EXCEPT ![s.src] = Append(outgoing[s.src], new)]
    BY <1>3 DEF DrawEdge
  <2>4. /\ outgoing[s.src] \in Seq(Edge)
        /\ Append(outgoing[s.src], new) \in Seq(Edge)
        /\ Len(Append(outgoing[s.src], new)) = Len(outgoing[s.src]) + 1
        /\ Append(outgoing[s.src], new)[Len(outgoing[s.src]) + 1] = new
        /\ \A e \in 1 .. Len(outgoing[s.src]) :
             Append(outgoing[s.src], new)[e] = outgoing[s.src][e]
    BY <1>1, <2>2 DEF DrawInv
  <2>5. outgoing' \in [Ids -> Seq(Edge)]
    BY <2>3, <2>4 DEF DrawInv
  <2>6. DOMAIN nodes' \subseteq Ids
    BY <1>1, <2>1, <2>2 DEF DrawInv
  <2>7. ASSUME NEW i \in Ids, NEW e \in 1 .. Len(outgoing'[i])
        PROVE  outgoing'[i][e].dst \in DOMAIN nodes'
    <3>1. CASE i # s.src
      BY <2>1, <2>3, <2>7, <3>1 DEF DrawInv
    <3>2. CASE i = s.src
      <4>1. outgoing'[i] = Append(outgoing[s.src], new)
        BY <1>1, <2>3, <3>2 DEF DrawInv
      <4>2. e \in 1 .. Len(outgoing[s.src]) \/ e = Len(outgoing[s.src]) + 1
        BY <2>4, <2>7, <4>1
      <4>3. CASE e \in 1 .. Len(outgoing[s.src])
        BY <1>1, <2>1, <2>4, <4>1, <4>3 DEF DrawInv
      <4>4. CASE e = Len(outgoing[s.src]) + 1
        BY <2>1, <2>4, <4>1, <4>4
      <4>5. QED
        BY <4>2, <4>3, <4>4
    <3>3. QED
      BY <3>1, <3>2
  <2>8. QED
    BY <2>5, <2>6, <2>7 DEF DrawInv
<1>4. CASE DrawConflict(s)
  BY <1>4 DEF DrawConflict, DrawingDone, DrawInv
<1>5. QED
  BY <1>2, <1>3, <1>4

\* Validation hands the runner a set of nodes with ways on: the nodes it can
\* reach. Every set that is closed and has the first node contains them.
LEMMA LoadedIsClear ==
  ASSUME DrawInv, Load, skill' = "flow"
  PROVE  \E S \in SUBSET DOMAIN flow'.kind : flow'.begin \in S /\ Clear(flow', S)
<1>1. PICK begin \in DOMAIN nodes, end \in DOMAIN nodes :
        /\ Valid(outgoing, begin, end)
        /\ flow' = [kind |-> Kinds, out |-> outgoing, begin |-> begin,
                    max |-> MaxMoves, limited |-> TRUE]
  BY DEF Load
<1> DEFINE S == Reachable(outgoing, begin)
<1>2. flow'.kind = Kinds /\ flow'.out = outgoing /\ flow'.begin = begin
  BY <1>1
<1>3. S \subseteq DOMAIN nodes
  <2>1. DOMAIN nodes \in SUBSET Ids /\ Closed(DOMAIN nodes, outgoing)
    BY DEF DrawInv, Closed
  <2>2. QED
    BY <1>1, <2>1 DEF Reachable
<1>4. begin \in S
  BY <1>1 DEF Reachable, DrawInv
<1>5. Closed(S, outgoing)
  <2>1. SUFFICES ASSUME NEW i \in S, NEW e \in 1 .. Len(outgoing[i])
                 PROVE  outgoing[i][e].dst \in S
    BY DEF Closed
  <2>2. outgoing[i][e].dst \in Ids
    BY <1>3, <2>1 DEF DrawInv
  <2>3. ASSUME NEW T \in SUBSET Ids, begin \in T, Closed(T, outgoing)
        PROVE  outgoing[i][e].dst \in T
    <3>1. i \in T
      BY <2>1, <2>3 DEF Reachable
    <3>2. QED
      BY <2>1, <2>3, <3>1 DEF Closed
  <2>4. QED
    BY <2>2, <2>3 DEF Reachable
<1>6. ASSUME NEW i \in S
      PROVE  /\ Len(outgoing[i]) \in Nat /\ (Len(outgoing[i]) = 0 => outgoing[i] = <<>>)
             /\ Kinds[i] = "task" => Len(outgoing[i]) <= 1
             /\ Kinds[i] = "decision" => LabelsTellApart(outgoing[i])
  <2>1. i \in DOMAIN nodes /\ outgoing[i] \in Seq(Edge)
    BY <1>3, <1>6 DEF DrawInv
  <2>2. /\ Kinds[i] = "task" => ~(Len(outgoing[i]) > 1)
        /\ Kinds[i] = "decision" => Len(outgoing[i]) > 1
    BY <2>1 DEF Kinds, KindOf
  <2>3. Len(outgoing[i]) > 1 => LabelsTellApart(outgoing[i])
    BY <1>1, <1>6 DEF Valid
  <2>4. Len(outgoing[i]) \in Nat /\ (Len(outgoing[i]) = 0 => outgoing[i] = <<>>)
    BY <2>1
  <2>5. QED
    BY <2>2, <2>3, <2>4
<1>7. DOMAIN Kinds = DOMAIN nodes
  BY DEF Kinds
<1>8. Clear(flow', S)
  BY <1>2, <1>5, <1>6 DEF Clear
<1>9. QED
  BY <1>2, <1>3, <1>4, <1>7, <1>8

LEMMA RalphIsClear ==
  ASSUME NEW n \in Int, NEW f, f = RalphLoop(n)
  PROVE  "BEGIN" \in DOMAIN f.kind /\ f.begin = "BEGIN" /\ Clear(f, DOMAIN f.kind)
<1> DEFINE To(dst, word) == [dst |-> dst, label |-> [word |-> word, padded |-> FALSE]]
           begin == <<To("R1", None)>>
           r1 == <<To("R2", None)>>
           r2 == <<To("R2", "CONTINUE"), To("END", "STOP")>>
<1>1. /\ f.kind = [BEGIN |-> "begin", END |-> "end", R1 |-> "task", R2 |-> "decision"]
      /\ f.out = [BEGIN |-> begin, END |-> <<>>, R1 |-> r1, R2 |-> r2]
      /\ f.begin = "BEGIN"
  BY DEF RalphLoop
<1>2. DOMAIN f.kind = {"BEGIN", "END", "R1", "R2"}
  BY <1>1
<1> HIDE DEF begin, r1, r2
<1>3. /\ f.out["BEGIN"] = begin /\ f.out["END"] = <<>>
      /\ f.out["R1"] = r1 /\ f.out["R2"] = r2
  BY <1>1
<1>4. /\ f.kind["BEGIN"] = "begin" /\ f.kind["END"] = "end"
      /\ f.kind["R1"] = "task" /\ f.kind["R2"] = "decision"
  BY <1>1
<1>5. /\ Len(begin) = 1 /\ begin[1].dst = "R1" /\ Len(r1) = 1 /\ r1[1].dst = "R2"
      /\ Len(r2) = 2 /\ r2[1].dst = "R2" /\ r2[2].dst = "END"
      /\ r2[1].label.word = "CONTINUE" /\ r2[2].label.word = "STOP"
  BY DEF begin, r1, r2
<1>6. LabelsTellApart(r2)
  BY <1>5 DEF LabelsTellApart, None
<1>7. Closed(DOMAIN f.kind, f.out)
  BY <1>2, <1>3, <1>5 DEF Closed
<1>8. Clear(f, DOMAIN f.kind)
  <2>1. ASSUME NEW i \in {"BEGIN", "END", "R1", "R2"}
        PROVE  /\ Len(f.out[i]) \in Nat /\ (Len(f.out[i]) = 0 => f.out[i] = <<>>)
               /\ f.kind[i] = "task" => Len(f.out[i]) <= 1
               /\ f.kind[i] = "decision" => LabelsTellApart(f.out[i])
    <3>1. CASE i = "BEGIN"
      <4>1. Len(f.out[i]) = 1 /\ f.kind[i] = "begin"
        BY <1>3, <1>4, <1>5, <3>1
      <4>2. QED
        BY <4>1
    <3>2. CASE i = "END"
      <4>1. f.out[i] = <<>> /\ f.kind[i] = "end"
        BY <1>3, <1>4, <3>2
      <4>2. QED
        BY <4>1
    <3>3. CASE i = "R1"
      <4>1. Len(f.out[i]) = 1 /\ f.kind[i] = "task"
        BY <1>3, <1>4, <1>5, <3>3
      <4>2. QED
        BY <4>1
    <3>4. CASE i = "R2"
      <4>1. Len(f.out[i]) = 2 /\ f.kind[i] = "decision" /\ f.out[i] = r2
        BY <1>3, <1>4, <1>5, <3>4
      <4>2. QED
        BY <1>6, <4>1
    <3>5. QED
      BY <3>1, <3>2, <3>3, <3>4
  <2>2. QED
    BY <1>2, <1>7, <2>1 DEF Clear
<1>9. QED
  BY <1>1, <1>2, <1>8

LEMMA WayStep ==
  ASSUME WayInv, [Next]_vars
  PROVE  WayInv'
<1>1. CASE UNCHANGED vars
  BY <1>1 DEF vars, WayInv, DrawInv, KindNow, Edges
<1>2. ASSUME NEW s \in Statements, DrawNode(s) \/ DrawEdge(s) \/ DrawConflict(s)
      PROVE  WayInv'
  <2>1. /\ UNCHANGED <<flow, pc, current>> /\ skill = "drawing" /\ pc = "idle"
        /\ skill' \in {"drawing", "standard"}
    BY <1>2 DEF DrawNode, DrawEdge, DrawConflict, Reads, WayInv
  <2>2. DrawInv'
    BY <1>2, DrawStep DEF WayInv
  <2>3. QED
    BY <2>1, <2>2 DEF WayInv
<1>3. CASE Load
  <2>1. pc = "idle" /\ pc' = "idle" /\ skill' \in {"flow", "standard"}
    BY <1>3 DEF Load, WayInv
  <2>2. DrawInv'
    BY <1>3 DEF Load, DrawingDone, DrawInv
  <2>3. skill' = "flow" =>
          \E S \in SUBSET DOMAIN flow'.kind : flow'.begin \in S /\ Clear(flow', S)
    BY <1>3, LoadedIsClear DEF WayInv
  <2>4. QED
    BY <2>1, <2>2, <2>3 DEF WayInv
\* A step of a run leaves the drawing alone, and does not lead back to "idle".
<1>4. ASSUME UNCHANGED drawing, skill # "drawing", pc' # "idle",
             pc' \in {"walk", "turn"} =>
               \E S \in SUBSET DOMAIN flow'.kind : current' \in S /\ Clear(flow', S),
             pc' = "turn" => KindNow' \in {"task", "decision"} /\ Edges' # <<>>
      PROVE  WayInv'
  <2>1. DrawInv' /\ skill' # "drawing"
    BY <1>4 DEF WayInv, DrawInv, drawing
  <2>2. QED
    BY <1>4, <2>1 DEF WayInv
<1>5. CASE RunFlow
  <2>1. /\ UNCHANGED drawing /\ skill # "drawing" /\ pc' = "walk" /\ UNCHANGED flow
        /\ current' = flow.begin /\ skill = "flow" /\ pc = "idle"
    BY <1>5 DEF RunFlow, Begin
  <2>2. \E S \in SUBSET DOMAIN flow'.kind : current' \in S /\ Clear(flow', S)
    BY <2>1 DEF WayInv
  <2>3. QED
    BY <1>4, <2>1, <2>2
<1>6. ASSUME NEW n \in Iterations, NEW around, RunRalph(n, around) PROVE WayInv'
  <2>1. /\ UNCHANGED drawing /\ skill # "drawing" /\ pc' = "walk"
        /\ flow' = RalphLoop(n) /\ current' = "BEGIN"
    BY <1>6 DEF RunRalph, Begin
  <2>2. "BEGIN" \in DOMAIN flow'.kind /\ Clear(flow', DOMAIN flow'.kind)
    BY <2>1, RalphIsClear
  <2>3. QED
    BY <1>4, <2>1, <2>2
<1>7. ASSUME NEW around, RunSingle(around) \/ RunWithoutTurn \/ SingleTurn \/ FinishInit
      PROVE  WayInv'
  <2>1. /\ UNCHANGED drawing /\ skill # "drawing"
        /\ pc' \in {"single", "init", "done"}
    BY <1>7 DEF RunSingle, Begin, RunWithoutTurn, SingleTurn, FinishInit, Returns, Ends, WayInv
  <2>2. QED
    BY <1>4, <2>1
<1>8. ASSUME pc \in {"walk", "turn"}, UNCHANGED <<drawing, flow>>
      PROVE  /\ skill # "drawing"
             /\ \E S \in SUBSET DOMAIN flow'.kind : current \in S /\ Clear(flow', S)
  BY <1>8 DEF WayInv
<1>9. ASSUME NEW e \in 1 .. Len(Edges), pc \in {"walk", "turn"}, UNCHANGED <<drawing, flow>>,
             current' = Edges[e].dst, pc' = "walk"
      PROVE  WayInv'
  <2>1. PICK S \in SUBSET DOMAIN flow'.kind : current \in S /\ Clear(flow', S)
    BY <1>8, <1>9
  <2>2. current' \in S
    BY <1>9, <2>1 DEF Clear, Closed, Edges
  <2>3. QED
    BY <1>4, <1>8, <1>9, <2>1, <2>2
<1>10. ASSUME pc \in {"walk", "turn"}, UNCHANGED <<drawing, flow>>, pc' \in {"init", "done"}
       PROVE  WayInv'
  BY <1>4, <1>8, <1>10
<1>11. ASSUME pc \in {"walk", "turn"}, UNCHANGED <<drawing, flow, current>>, pc' = "turn",
              KindNow \in {"task", "decision"}, Edges # <<>>
       PROVE  WayInv'
  BY <1>4, <1>8, <1>11 DEF KindNow, Edges
<1>12. Edges # <<>> /\ pc \in {"walk", "turn"} => 1 \in 1 .. Len(Edges)
  BY DEF WayInv, Clear, Edges
<1>13. CASE Walk
  <2>1. CASE ReachEnd \/ HitLimit \/ StopAtSink
    BY <1>10, <2>1 DEF ReachEnd, HitLimit, StopAtSink, Returns, Ends
  <2>2. CASE LeaveBegin
    BY <1>9, <1>12, <2>2 DEF LeaveBegin
  <2>3. CASE Visit
    BY <1>11, <2>3 DEF Visit
  <2>4. QED
    BY <1>13, <2>1, <2>2, <2>3 DEF Walk
<1>14. CASE Turn
  <2>1. CASE FailTurn \/ RejectTool
    BY <1>10, <2>1 DEF FailTurn, RejectTool, Returns, Ends
  <2>2. CASE FinishTask
    <3>1. Edges # <<>> /\ pc = "turn"
      BY <2>2 DEF FinishTask, WayInv
    <3>2. QED
      BY <1>9, <1>12, <2>2, <3>1 DEF FinishTask, Follow
  <2>3. ASSUME NEW w \in Words, Choose(w) PROVE WayInv'
    <3>1. PICK e \in 1 .. Len(Edges) : Follow(e)
      BY <2>3 DEF Choose, Named
    <3>2. QED
      BY <1>9, <2>3, <3>1 DEF Choose, Follow
  <2>4. ASSUME NEW w \in Words \cup {None}, AskAgain(w) PROVE WayInv'
    <3>1. Edges # <<>> /\ KindNow \in {"task", "decision"} /\ pc = "turn"
      BY <2>4 DEF AskAgain, WayInv
    <3>2. QED
      BY <1>11, <2>4, <3>1 DEF AskAgain
  <2>5. QED
    BY <1>14, <2>1, <2>2, <2>3, <2>4 DEF Turn
<1>15. QED
  BY <1>1, <1>2, <1>3, <1>5, <1>6, <1>7, <1>13, <1>14 DEF Next, RunInit

\* Whatever was drawn, a runner that asks knows one way on for every answer:
\* validation and walk agree on what a decision is.
THEOREM WaysClear == Spec => []WaysAreClear
<1>1. Init => WayInv
  BY DEF Init, WayInv, DrawInv
<1>2. QED
  BY <1>1, WayStep, WayIsClear, PTL DEF Spec
=============================================================================
