-------------------------------- MODULE Flow --------------------------------
(***************************************************************************)
(* Flow skills and the ralph loop: a graph is drawn line by line, inferred *)
(* and validated when the skill is loaded (skill/flow/), and walked by     *)
(* FlowRunner (soul/kimisoul.rs), which runs one turn of the soul for each *)
(* node it visits and lets the model's answers choose the way.             *)
(*                                                                         *)
(* The model covers one run of the soul: what a run keeps is local to it.  *)
(* /init runs a temporary soul inside the run of the session's soul, on    *)
(* the same wire; the run modelled here is then the one of the temporary   *)
(* soul, with the turn of the other around it.                             *)
(* Node labels are texts, of which "BEGIN" and "END" name the kind; an     *)
(* edge label is a word that may be padded with blanks: mermaid labels and  *)
(* bare d2 labels are trimmed, quoted d2 labels are kept as written. d2    *)
(* lines that cannot be read end the parse as a conflict does.             *)
(***************************************************************************)
EXTENDS Integers, Sequences

CONSTANTS
  Ids,            \* ids of nodes; an id is also the label a node has by default
  Texts,          \* labels of nodes
  Words,          \* labels of edges, and the choices the model may name
  Statements,     \* the lines that an author may write
  Iterations,     \* values of max_ralph_iterations
  MaxMoves,       \* DEFAULT_MAX_FLOW_MOVES
  MaxStatements   \* bound: lines of a drawing

None == "none"
Label == [word : Words \cup {None}, padded : BOOLEAN]

ASSUME FlowAssumption ==
  /\ Ids \subseteq Texts /\ {"BEGIN", "END"} \subseteq Texts
  /\ None \notin Texts \cup Words
  /\ Statements \subseteq
       [src : Ids, srcText : Texts \cup {None}, dst : Ids \cup {None},
        dstText : Texts \cup {None}, label : Label]
  /\ Iterations \subseteq Int /\ MaxMoves \in Nat /\ MaxStatements \in Nat

VARIABLES
  drawn,      \* the lines written so far
  nodes,      \* HashMap<String, NodeDef>: [text, explicit]
  outgoing,   \* the edges of each node, in the order of their lines
  skill,      \* "drawing", then the resolved type: "flow" or "standard"
  flow,       \* the runner's graph: kind of each node, its edges, begin, max_moves
  pc,         \* "idle", "walk", "turn" (of a node), "single" (turn), "init", "done"
  current,    \* current_id
  moves,
  again,      \* the prompt of the node is the one that says: no valid choice
  result,     \* of KimiSoul::run
  open,       \* TurnBegins without a TurnEnd
  outer,      \* 1 while /init has a turn open around the run, else 0
  visits      \* history: nodes whose turn was started

drawing == <<drawn, nodes, outgoing, skill>>
vars == <<drawn, nodes, outgoing, skill, flow, pc, current, moves, again, result, open, outer, visits>>

-----------------------------------------------------------------------------
(* Drawing: the parsers of skill/flow/mermaid.rs and d2.rs.                *)

\* add_node: a label that is written wins over one that was only implied by
\* the id, whatever the order of the lines.
AddNode(defs, id, text) ==
  IF \/ id \notin DOMAIN defs
     \/ text # None /\ ~defs[id].explicit /\ defs[id].text # text
  THEN [i \in DOMAIN defs \cup {id} |->
          IF i = id THEN [text |-> IF text = None THEN id ELSE text,
                          explicit |-> text # None]
          ELSE defs[i]]
  ELSE defs

\* Two written labels that differ.
Conflict(defs, id, text) ==
  id \in DOMAIN defs /\ text # None /\ defs[id].explicit /\ defs[id].text # text

NoFlow ==
  [kind |-> [i \in {} |-> None], out |-> [i \in {} |-> <<>>], begin |-> None,
   max |-> 0, limited |-> TRUE]

Init ==
  /\ drawn = <<>> /\ nodes = [i \in {} |-> None] /\ outgoing = [i \in Ids |-> <<>>]
  /\ skill = "drawing" /\ flow = NoFlow
  /\ pc = "idle" /\ current = None /\ moves = 0 /\ again = FALSE
  /\ result = None /\ open = 0 /\ outer = 0 /\ visits = 0

\* What is drawn is local to the parsers, and gone when they return.
DrawingDone ==
  drawn' = <<>> /\ nodes' = [i \in {} |-> None] /\ outgoing' = [i \in Ids |-> <<>>]

Reads(s) ==
  /\ skill = "drawing" /\ Len(drawn) < MaxStatements
  /\ UNCHANGED <<flow, pc, current, moves, again, result, open, outer, visits>>

DrawNode(s) ==
  /\ Reads(s) /\ s.dst = None
  /\ ~Conflict(nodes, s.src, s.srcText)
  /\ drawn' = Append(drawn, s)
  /\ nodes' = AddNode(nodes, s.src, s.srcText)
  /\ UNCHANGED <<outgoing, skill>>

DrawEdge(s) ==
  LET first == AddNode(nodes, s.src, s.srcText)
  IN /\ Reads(s) /\ s.dst # None
     /\ ~Conflict(nodes, s.src, s.srcText) /\ ~Conflict(first, s.dst, s.dstText)
     /\ drawn' = Append(drawn, s)
     /\ nodes' = AddNode(first, s.dst, s.dstText)
     /\ outgoing' = [outgoing EXCEPT ![s.src] =
                       Append(@, [dst |-> s.dst, label |-> s.label])]
     /\ UNCHANGED skill

\* A drawing with a conflict makes the skill a standard one.
DrawConflict(s) ==
  /\ Reads(s)
  /\ \/ Conflict(nodes, s.src, s.srcText)
     \/ s.dst # None /\ Conflict(AddNode(nodes, s.src, s.srcText), s.dst, s.dstText)
  /\ skill' = "standard" /\ DrawingDone

KindOf(text) ==
  CASE text = "BEGIN" -> "begin" [] text = "END" -> "end" [] OTHER -> "task"

\* infer_decision_nodes
Kinds ==
  [i \in DOMAIN nodes |->
     IF KindOf(nodes[i].text) = "task" /\ Len(outgoing[i]) > 1
     THEN "decision" ELSE KindOf(nodes[i].text)]

OfKind(kinds, k) == {i \in DOMAIN kinds : kinds[i] = k}

Closed(S, out) == \A i \in S : \A e \in 1 .. Len(out[i]) : out[i][e].dst \in S

\* What the search of validate_flow finds: the least closed set with begin.
Reachable(out, begin) ==
  {i \in Ids : \A S \in SUBSET Ids : begin \in S /\ Closed(S, out) => i \in S}

\* Two edges are told apart by the words on them.
LabelsTellApart(edges) ==
  /\ \A e \in 1 .. Len(edges) : edges[e].label.word # None
  /\ \A e, f \in 1 .. Len(edges) : edges[e].label.word = edges[f].label.word => e = f

\* Faulty variant: the labels of a decision are not looked at.
Valid_Unlabelled(out, begin, end) == end \in Reachable(out, begin)

\* validate_flow, for the only nodes of kinds BEGIN and END
Valid(out, begin, end) ==
  /\ \A i \in Reachable(out, begin) : Len(out[i]) > 1 => LabelsTellApart(out[i])
  /\ end \in Reachable(out, begin)

Load ==
  /\ skill = "drawing"
  /\ \/ \E begin, end \in DOMAIN nodes :
          /\ OfKind(Kinds, "begin") = {begin} /\ OfKind(Kinds, "end") = {end}
          /\ Valid(outgoing, begin, end)
          /\ skill' = "flow"
          /\ flow' = [kind |-> Kinds, out |-> outgoing, begin |-> begin,
                      max |-> MaxMoves, limited |-> TRUE]
     \/ /\ \A begin, end \in DOMAIN nodes :
             OfKind(Kinds, "begin") = {begin} /\ OfKind(Kinds, "end") = {end}
               => ~Valid(outgoing, begin, end)
        /\ skill' = "standard" /\ UNCHANGED flow
  /\ DrawingDone
  /\ UNCHANGED <<pc, current, moves, again, result, open, outer, visits>>

-----------------------------------------------------------------------------
(* KimiSoul::run: a prompt or a slash command.                             *)

\* TurnBegin, then the session's title; then what the input asks for. around
\* is 1 for the run inside /init, which has sent a TurnBegin before.
Begin(where, at, runner, around) ==
  /\ pc = "idle" /\ skill # "drawing"
  /\ outer' = around /\ open' = around + 1
  /\ pc' = where /\ current' = at /\ flow' = runner
  /\ UNCHANGED <<drawing, moves, again, result, visits>>

RunFlow == skill = "flow" /\ Begin("walk", flow.begin, flow, 0)

\* The loop of two nodes: the prompt once, then the question whether to go on.
RalphLoop(n) ==
  LET Edge(dst, word) == [dst |-> dst, label |-> [word |-> word, padded |-> FALSE]]
      Kind == [BEGIN |-> "begin", END |-> "end", R1 |-> "task", R2 |-> "decision"]
      Out  == [BEGIN |-> <<Edge("R1", None)>>, END |-> <<>>, R1 |-> <<Edge("R2", None)>>,
               R2 |-> <<Edge("R2", "CONTINUE"), Edge("END", "STOP")>>]
  IN [kind |-> Kind, out |-> Out, begin |-> "BEGIN",
      max |-> n + 1, limited |-> n >= 0]   \* otherwise the limit is 10^15 moves

\* A prompt with ralph; around = 1: the prompt that /init gives to its soul.
RunRalph(n, around) == n # 0 /\ Begin("walk", "BEGIN", RalphLoop(n), around)

\* A prompt without ralph, or a skill whose text is the prompt of one turn.
RunSingle(around) == Begin("single", None, flow, around)

\* slash_init: its soul runs under the same settings, so with ralph it loops.
RunInit(n) ==
  \/ RunRalph(n, 1)
  \/ n = 0 /\ RunSingle(1)

Ends(how) == pc' = "done" /\ result' = how

\* The run returns: TurnEnd is sent only if no error came up. After the run
\* inside /init the outer one goes on, unless it has to pass on an error.
Returns(how, nested) ==
  /\ open' = IF how = "ok" THEN open - nested - 1 ELSE open
  /\ IF how = "ok" /\ outer = 1 THEN pc' = "init" /\ UNCHANGED result ELSE Ends(how)

\* The rest of slash_init: the note for the context of the outer soul, whose
\* storing may fail.
FinishInit ==
  /\ pc = "init"
  /\ \/ Ends("ok") /\ open' = open - 1
     \/ Ends("failed") /\ UNCHANGED open
  /\ UNCHANGED <<drawing, flow, current, moves, again, outer, visits>>

\* The other built-in and unknown commands, flows with arguments, skills whose
\* servers or text are missing; the title that cannot be stored; an /init that
\* cannot prepare its soul, or whose soul (around = 1) cannot store its title.
RunWithoutTurn ==
  /\ pc = "idle" /\ skill # "drawing"
  /\ \/ open' = 0 /\ UNCHANGED outer /\ Ends("ok")
     \/ \E around \in 0 .. 1 : outer' = around /\ open' = around + 1 /\ Ends("failed")
  /\ UNCHANGED <<drawing, flow, current, moves, again, visits>>

SingleTurn ==
  /\ pc = "single"
  /\ Returns("ok", 0) \/ Returns("failed", 0)
  /\ UNCHANGED <<drawing, flow, current, moves, again, outer, visits>>

-----------------------------------------------------------------------------
(* FlowRunner::run                                                         *)

Edges == flow.out[current]
KindNow == flow.kind[current]
\* Faulty variant: one move too many.
AtLimit_OffByOne ==
  KindNow \in {"task", "decision"} /\ flow.limited /\ moves > flow.max

AtLimit == KindNow \in {"task", "decision"} /\ flow.limited /\ moves >= flow.max

ReachEnd ==
  /\ pc = "walk" /\ KindNow = "end"
  /\ Returns("ok", 0)
  /\ UNCHANGED <<drawing, flow, current, moves, again, outer, visits>>

\* BEGIN has no turn and takes its first edge, whatever is written on it.
LeaveBegin ==
  /\ pc = "walk" /\ KindNow = "begin" /\ Edges # <<>>
  /\ current' = Edges[1].dst
  /\ UNCHANGED <<drawing, flow, pc, moves, again, result, open, outer, visits>>

HitLimit ==
  /\ pc = "walk" /\ AtLimit
  /\ Returns("limit", 0)
  /\ UNCHANGED <<drawing, flow, current, moves, again, outer, visits>>

\* Faulty variant: only BEGIN is looked at for its edges.
StopAtSink_Begin ==
  /\ pc = "walk" /\ KindNow = "begin" /\ Edges = <<>>
  /\ Returns("ok", 0)
  /\ UNCHANGED <<drawing, flow, current, moves, again, outer, visits>>

StopAtSink ==
  /\ pc = "walk" /\ KindNow # "end" /\ ~AtLimit /\ Edges = <<>>
  /\ Returns("ok", 0)
  /\ UNCHANGED <<drawing, flow, current, moves, again, outer, visits>>

\* execute_flow_node asks the model for the first time.
Visit ==
  /\ pc = "walk" /\ KindNow \in {"task", "decision"} /\ ~AtLimit /\ Edges # <<>>
  /\ pc' = "turn" /\ open' = open + 1 /\ again' = FALSE
  /\ visits' = IF flow.limited THEN visits + 1 ELSE visits
  /\ UNCHANGED <<drawing, flow, current, moves, result, outer>>

\* flow_turn: the turn fails, and no TurnEnd follows.
FailTurn ==
  /\ pc = "turn"
  /\ Returns("failed", 1)
  /\ UNCHANGED <<drawing, flow, current, moves, again, outer, visits>>

\* Faulty variant: the turn of the node gets no TurnEnd.
RejectTool_Open ==
  /\ pc = "turn"
  /\ Returns("ok", 0)
  /\ UNCHANGED <<drawing, flow, current, moves, again, outer, visits>>

RejectTool ==
  /\ pc = "turn"
  /\ Returns("ok", 1)
  /\ UNCHANGED <<drawing, flow, current, moves, again, outer, visits>>

\* The turn ended and edge e is followed. Moves are not counted up to 10^15.
Follow(e) ==
  /\ pc' = "walk" /\ open' = open - 1
  /\ moves' = IF flow.limited THEN moves + 1 ELSE moves
  /\ current' = Edges[e].dst
  /\ UNCHANGED <<drawing, flow, again, result, outer, visits>>

FinishTask == pc = "turn" /\ KindNow = "task" /\ Follow(1)

\* A choice is stripped of blanks; the labels it is compared with are not.
Named(word) ==
  {e \in 1 .. Len(Edges) : Edges[e].label = [word |-> word, padded |-> FALSE]}

Choose(word) ==
  /\ pc = "turn" /\ KindNow = "decision"
  /\ \E e \in Named(word) : (\A f \in Named(word) : e <= f) /\ Follow(e)

\* No choice, or one that matches no edge: the question is put again in a turn
\* of its own, and no move is counted.
AskAgain(word) ==
  /\ pc = "turn" /\ KindNow = "decision" /\ Named(word) = {}
  /\ again' = TRUE
  /\ UNCHANGED <<drawing, flow, pc, current, moves, result, open, outer, visits>>

Turn ==
  \/ FailTurn \/ RejectTool \/ FinishTask
  \/ \E w \in Words : Choose(w)
  \/ \E w \in Words \cup {None} : AskAgain(w)

Walk == ReachEnd \/ LeaveBegin \/ HitLimit \/ StopAtSink \/ Visit

Next ==
  \/ \E s \in Statements : DrawNode(s) \/ DrawEdge(s) \/ DrawConflict(s)
  \/ Load \/ RunFlow \/ RunSingle(0) \/ RunWithoutTurn \/ SingleTurn \/ FinishInit
  \/ \E n \in Iterations : RunRalph(n, 0) \/ RunInit(n)
  \/ Walk \/ Turn

Spec == Init /\ [][Next]_vars

\* Turns end, the model does not answer for ever without a choice that the
\* node offers, and the outer run goes on when the one inside it returned.
FairSpec ==
  /\ Spec /\ WF_vars(Walk) /\ WF_vars(FinishInit)
  /\ WF_vars(FinishTask) /\ WF_vars(\E w \in Words : Choose(w))

-----------------------------------------------------------------------------
\* Types of the variables.
TypeOK ==
  /\ drawn \in Seq(Statements)
  /\ nodes \in UNION {[I -> [text : Texts, explicit : BOOLEAN]] : I \in SUBSET Ids}
  /\ outgoing \in [Ids -> Seq([dst : Ids, label : Label])]
  /\ skill \in {"drawing", "flow", "standard"}
  /\ pc \in {"idle", "walk", "turn", "single", "init", "done"}
  /\ moves \in Nat /\ visits \in Nat /\ open \in 0 .. 3 /\ outer \in 0 .. 1
  /\ again \in BOOLEAN
  /\ result \in {None, "ok", "limit", "failed"}

\* The parsers (add_node): whatever the order of the lines, a node has the
\* label that a line writes for it. Labels that repeat the id are not told
\* from implied ones.
WrittenLabelWins ==
  \A k \in 1 .. Len(drawn) :
    LET s == drawn[k] IN
      /\ s.srcText \notin {None, s.src} => nodes[s.src].text = s.srcText
      /\ s.dst # None /\ s.dstText \notin {None, s.dst} => nodes[s.dst].text = s.dstText

\* Validation and walk fit together: wherever a runner asks, it knows one way
\* on for every answer. A task has one edge, and the edges of a decision are
\* told apart by what is written on them.
WaysAreClear ==
  pc = "turn" =>
    IF KindNow = "task" THEN Len(Edges) = 1 ELSE LabelsTellApart(Edges)

\* A flow visits as many nodes as its limit allows, and one that is stopped
\* by the limit has visited exactly as many. (Repeated questions at one node
\* are not visits.)
MovesAreLimited ==
  /\ pc \in {"walk", "turn"} /\ flow.limited => visits <= flow.max
  /\ result = "limit" => visits = flow.max

\* Clients count TurnBegins and TurnEnds: a run that returns without an error
\* has closed all its turns, those of a flow's nodes and of the soul that /init
\* runs inside it included. One that fails leaves open its own, with /init that
\* of the soul inside, and no more than one of a node on top; a loop stopped by
\* its limit leaves none of a node.
TurnsAreClosed ==
  /\ result = "ok" => open = 0
  /\ result = "limit" => open = outer + 1
  /\ result = "failed" => open \in 1 .. outer + 2

\* A BEGIN node whose first edge comes back to it keeps the runner busy for
\* ever: such an edge counts no move.
Spins == flow.out[flow.begin][1].dst = flow.begin

\* Each decision has an edge that an answer can name.
Answerable ==
  \A i \in DOMAIN flow.kind : flow.kind[i] = "decision" =>
    \E e \in 1 .. Len(flow.out[i]) : ~flow.out[i][e].label.padded

\* Flows end, whatever loops were drawn: validation, the limit and the
\* fairness of the model leave only flows that spin at BEGIN or offer labels
\* that no choice can name.
FlowEnds ==
  (pc = "walk" /\ flow.limited /\ ~Spins /\ Answerable) ~> (pc = "done")
=============================================================================
