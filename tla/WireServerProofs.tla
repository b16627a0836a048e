-------------------------- MODULE WireServerProofs --------------------------
(* What the wire server keeps for any connections, prompts and requests: a    *)
(* session is taken exactly while a connection is served, every prompt has    *)
(* one reply, turns follow one another, and the server implements             *)
(* SessionLease.                                                              *)
EXTENDS WireServer, TLAPS

-----------------------------------------------------------------------------
(* The inductive invariant.                                                   *)

Places == Serving \cup {"away", "refused", "gone", "closed"}
Stages == {"none", "running", "closing", "returned", "replied", "kept", "ended"}
Words  == {"busy", "finished", "stopped"}

\* The stages of a prompt that has its reply, if it was handled at all.
Said == {"none", "replied", "kept", "ended"}

\* Where a connection may have a turn.
TurnPlaces == {"open", "reject", "stop", "join"}

Shape ==
  /\ active \in BOOLEAN
  /\ conn \in [Conns -> Places]
  /\ turns \in [Conns -> Nat] /\ slot \in [Conns -> Nat]
  /\ task \in [Conns -> [Prompts -> Stages]]
  /\ replied \in [Conns -> [Prompts -> {<<>>} \cup {<<w>> : w \in Words}]]

OneHolder ==
  /\ active <=> \E c \in Conns : Holds(c)
  /\ \A c, d \in Conns : Holds(c) /\ Holds(d) => c = d

\* The slot is the turn's place, and shutdown keeps it until the turn's task has
\* ended. A task may be over only while shutdown waits for it.
SlotIsPlace ==
  \A c \in Conns :
    /\ \A n \in Prompts : InPlace(c, n) => slot[c] = n /\ conn[c] \in TurnPlaces
    /\ slot[c] # 0 =>
         /\ conn[c] \in TurnPlaces /\ slot[c] \in Prompts
         /\ conn[c] # "join" => InPlace(c, slot[c])

RepliesFollow ==
  \A c \in Conns : \A n \in Prompts :
    /\ n > turns[c] => task[c][n] = "none" /\ replied[c][n] = <<>>
    /\ n <= turns[c] => (replied[c][n] # <<>> <=> task[c][n] \in Said)

IInv == Shape /\ OneHolder /\ SlotIsPlace /\ RepliesFollow

-----------------------------------------------------------------------------
(* Prompts and replies.                                                       *)

\* The numbers of prompts are positive, and the next prompt of a connection that
\* is not at its limit has one.
LEMMA PromptNumbers ==
  /\ \A n \in Prompts : n \in Nat /\ n # 0
  /\ \A c \in Conns : \A k \in Nat : k < Limit[c] => k + 1 \in Prompts
<1>1. \A n \in Prompts : n \in Nat /\ n # 0
  <2>1. TAKE n \in Prompts
  <2>2. PICK c \in Conns : n \in 1 .. Limit[c]
    BY DEF Prompts
  <2>3. QED
    BY <2>2, WireServerAssumption DEF WireServerAssumption
<1>2. ASSUME NEW c \in Conns, NEW k \in Nat, k < Limit[c] PROVE k + 1 \in Prompts
  <2>1. k + 1 \in 1 .. Limit[c]
    BY <1>2, WireServerAssumption DEF WireServerAssumption
  <2>2. QED
    BY <2>1 DEF Prompts
<1>3. QED
  BY <1>1, <1>2

\* The first reply to a prompt.
LEMMA FirstReply ==
  \A w : /\ Append(<<>>, w) = <<w>> /\ <<w>> # <<>>
         /\ Len(<<w>>) = 1 /\ <<w>>[1] = w /\ Len(<<>>) = 0
OBVIOUS

-----------------------------------------------------------------------------
(* The kinds of step that the invariant and the refinement tell apart.        *)

holding == <<active, conn, turns, slot, task, replied>>

\* A connection moves on, holding the session before and after or not at all.
Moves(c, place) ==
  /\ Goes(c, place) /\ place \in Places
  /\ UNCHANGED <<active, turns, slot, task, replied>>
  /\ conn[c] # "join"
  /\ conn[c] \in Serving \cup {"gone"} <=> place \in Serving \cup {"gone"}
  /\ place \in TurnPlaces \/ slot[c] = 0

\* A turn goes on, with its place and its reply as before.
GoesOn(c, n, stage) ==
  /\ TaskAt(c, n, stage) /\ stage \in Stages \ {"none", "ended"}
  /\ UNCHANGED <<active, conn, turns, slot, replied>>
  /\ InPlace(c, n)
  /\ task[c][n] \in Said <=> stage \in Said

\* Where the connection is told of, before the slot is asked about.
LEMMA ConnMoves ==
  ASSUME IInv, NEW c \in Conns,
         \/ FindOrCreate(c) \/ Prepare(c) \/ PrepareFails(c) \/ Upgrade(c) \/ DropHandler(c)
         \/ Disconnect(c) \/ Reject(c) \/ Stop(c) \/ Finalize(c) \/ (Connect(c) /\ active)
  PROVE  \E place \in Places : Moves(c, place)
<1>1. conn[c] \notin TurnPlaces => slot[c] = 0
  BY DEF IInv, SlotIsPlace
<1>2. CASE FindOrCreate(c)
  <2>1. Moves(c, "preparing")
    BY <1>1, <1>2 DEF FindOrCreate, Moves, At, TurnPlaces, Serving, Places, turnVars
  <2>2. QED
    BY <2>1 DEF Places, Serving
<1>3. CASE Prepare(c)
  <2>1. Moves(c, "prepared")
    BY <1>1, <1>3 DEF Prepare, Moves, At, TurnPlaces, Serving, Places, turnVars
  <2>2. QED
    BY <2>1 DEF Places, Serving
<1>4. CASE PrepareFails(c)
  <2>1. Moves(c, "release")
    BY <1>1, <1>4 DEF PrepareFails, Moves, At, TurnPlaces, Serving, Places, turnVars
  <2>2. QED
    BY <2>1 DEF Places, Serving
<1>5. CASE Upgrade(c)
  <2>1. Moves(c, "open") \/ Moves(c, "reject")
    BY <1>1, <1>5 DEF Upgrade, Moves, At, TurnPlaces, Serving, Places, turnVars
  <2>2. QED
    BY <2>1 DEF Places, Serving
<1>6. CASE DropHandler(c)
  <2>1. Moves(c, "gone")
    BY <1>1, <1>6 DEF DropHandler, Moves, At, TurnPlaces, Serving, Places, turnVars
  <2>2. QED
    BY <2>1 DEF Places, Serving
<1>7. CASE Disconnect(c)
  <2>1. Moves(c, "reject")
    BY <1>7 DEF Disconnect, Moves, At, TurnPlaces, Serving, Places, turnVars
  <2>2. QED
    BY <2>1 DEF Places, Serving
<1>8. CASE Reject(c)
  <2>1. Moves(c, "stop") \/ Moves(c, "finalize")
    BY <1>1, <1>8 DEF Reject, Moves, At, TurnPlaces, Serving, Places, turnVars
  <2>2. QED
    BY <2>1 DEF Places, Serving
<1>9. CASE Stop(c)
  <2>1. Moves(c, "reject again") \/ Moves(c, "join")
    BY <1>9 DEF Stop, Moves, At, TurnPlaces, Serving, Places
  <2>2. QED
    BY <2>1 DEF Places, Serving
<1>10. CASE Finalize(c)
  <2>1. Moves(c, "release")
    BY <1>1, <1>10 DEF Finalize, Moves, At, TurnPlaces, Serving, Places, turnVars
  <2>2. QED
    BY <2>1 DEF Places, Serving
<1>11. CASE Connect(c) /\ active
  <2>1. Moves(c, "refused")
    BY <1>1, <1>11 DEF Connect, Moves, At, TurnPlaces, Serving, Places, turnVars
  <2>2. QED
    BY <2>1 DEF Places, Serving
<1>12. QED
  BY <1>2, <1>3, <1>4, <1>5, <1>6, <1>7, <1>8, <1>9, <1>10, <1>11

LEMMA TurnGoesOn ==
  ASSUME NEW c \in Conns, NEW n \in Prompts,
         SoulEnds(c, n) \/ CancelSeen(c, n) \/ RunReturns(c, n) \/ KeepState(c, n)
  PROVE  \E stage \in Stages : GoesOn(c, n, stage)
<1> USE DEF GoesOn, InPlace, Said, Stages, connVars
<1>1. CASE SoulEnds(c, n) \/ CancelSeen(c, n)
  <2>1. GoesOn(c, n, "closing")
    BY <1>1 DEF SoulEnds, CancelSeen
  <2>2. QED
    BY <2>1
<1>2. CASE RunReturns(c, n)
  <2>1. GoesOn(c, n, "returned")
    BY <1>2 DEF RunReturns
  <2>2. QED
    BY <2>1
<1>3. CASE KeepState(c, n)
  <2>1. GoesOn(c, n, "kept")
    BY <1>3 DEF KeepState
  <2>2. QED
    BY <2>1
<1>4. QED
  BY <1>1, <1>2, <1>3

\* What a change of one task or one reply leaves of the others.
LEMMA OneTask ==
  ASSUME Shape, NEW c \in Conns, NEW n \in Prompts, NEW stage \in Stages, TaskAt(c, n, stage)
  PROVE  /\ task' \in [Conns -> [Prompts -> Stages]]
         /\ task'[c][n] = stage
         /\ \A d \in Conns : \A m \in Prompts : d # c \/ m # n => task'[d][m] = task[d][m]
<1>1. task' = [task EXCEPT ![c] = [task[c] EXCEPT ![n] = stage]]
  BY DEF TaskAt
<1>2. task[c] \in [Prompts -> Stages] /\ task \in [Conns -> [Prompts -> Stages]]
  BY DEF Shape
<1>3. [task[c] EXCEPT ![n] = stage] \in [Prompts -> Stages]
  BY <1>2
<1>4. QED
  BY <1>1, <1>2, <1>3

LEMMA OneReply ==
  ASSUME Shape, NEW c \in Conns, NEW n \in Prompts, NEW w \in Words,
         QueueOpen(c), replied[c][n] = <<>>, Reply(c, n, w)
  PROVE  /\ replied' \in [Conns -> [Prompts -> {<<>>} \cup {<<v>> : v \in Words}]]
         /\ replied'[c][n] = <<w>>
         /\ \A d \in Conns : \A m \in Prompts : d # c \/ m # n => replied'[d][m] = replied[d][m]
<1> DEFINE Given == {<<>>} \cup {<<v>> : v \in Words}
<1>1. replied' = [replied EXCEPT ![c] = [replied[c] EXCEPT ![n] = Append(replied[c][n], w)]]
  BY DEF Reply
<1>2. Append(replied[c][n], w) = <<w>>
  BY FirstReply
<1>3. replied[c] \in [Prompts -> Given] /\ replied \in [Conns -> [Prompts -> Given]]
  BY DEF Shape
<1>4. <<w>> \in Given
  OBVIOUS
<1> HIDE DEF Given
<1>5. replied' = [replied EXCEPT ![c] = [replied[c] EXCEPT ![n] = <<w>>]]
  BY <1>1, <1>2
<1>6. [replied[c] EXCEPT ![n] = <<w>>] \in [Prompts -> Given]
  BY <1>3, <1>4
<1>7. /\ replied' \in [Conns -> [Prompts -> Given]]
      /\ replied'[c][n] = <<w>>
      /\ \A d \in Conns : \A m \in Prompts : d # c \/ m # n => replied'[d][m] = replied[d][m]
  BY <1>3, <1>5, <1>6
<1>8. QED
  BY <1>7 DEF Given

-----------------------------------------------------------------------------
(* The invariant is kept by each kind of step.                                *)

LEMMA InvInit == Init => IInv
<1> SUFFICES ASSUME Init PROVE IInv
  OBVIOUS
<1>1. Shape
  BY DEF Init, Shape, Places, Serving, Stages
<1>2. OneHolder
  BY DEF Init, OneHolder, Holds, Serving
<1>3. SlotIsPlace
  BY DEF Init, SlotIsPlace, InPlace
<1>4. RepliesFollow
  BY PromptNumbers DEF Init, RepliesFollow, Said
<1>5. QED
  BY <1>1, <1>2, <1>3, <1>4 DEF IInv

LEMMA InvMoves ==
  ASSUME IInv, NEW c \in Conns, NEW place, Moves(c, place)
  PROVE  IInv' /\ UNCHANGED <<turns, slot, task, replied>> /\ (\A d \in Conns : Holds(d)' <=> Holds(d))
<1>1. /\ UNCHANGED <<active, turns, slot, task, replied>>
      /\ conn' = [conn EXCEPT ![c] = place] /\ conn \in [Conns -> Places] /\ place \in Places
  BY DEF Moves, Goes, IInv, Shape
<1>2. conn' \in [Conns -> Places] /\ conn'[c] = place /\ \A d \in Conns : d # c => conn'[d] = conn[d]
  BY <1>1
<1>3. \A d \in Conns : Holds(d)' <=> Holds(d)
  BY <1>2 DEF Moves, Holds
<1>4. \A d \in Conns : \A n \in Prompts : InPlace(d, n)' <=> InPlace(d, n)
  BY <1>1 DEF InPlace
<1>5. Shape'
  BY <1>1, <1>2 DEF IInv, Shape
<1>6. OneHolder'
  <2>1. OneHolder
    BY DEF IInv
  <2>2. QED
    BY <1>1, <1>3, <2>1 DEF OneHolder
<1>7. SlotIsPlace'
  <2> SUFFICES ASSUME NEW d \in Conns
               PROVE  /\ \A n \in Prompts : InPlace(d, n)' => slot'[d] = n /\ conn'[d] \in TurnPlaces
                      /\ slot'[d] # 0 =>
                           /\ conn'[d] \in TurnPlaces /\ slot'[d] \in Prompts
                           /\ conn'[d] # "join" => InPlace(d, slot[d])'
    BY <1>1 DEF SlotIsPlace
  <2>1. /\ \A n \in Prompts : InPlace(d, n) => slot[d] = n /\ conn[d] \in TurnPlaces
        /\ slot[d] # 0 =>
             /\ conn[d] \in TurnPlaces /\ slot[d] \in Prompts
             /\ conn[d] # "join" => InPlace(d, slot[d])
    BY DEF IInv, SlotIsPlace
  <2>2. CASE d # c
    BY <1>1, <1>2, <1>4, <2>1, <2>2
  <2>3. CASE d = c
    <3>1. conn[c] # "join" /\ (place \in TurnPlaces \/ slot[c] = 0)
      BY DEF Moves
    <3>2. QED
      BY <1>1, <1>2, <1>4, <2>1, <2>3, <3>1, PromptNumbers
  <2>4. QED
    BY <2>2, <2>3
<1>8. RepliesFollow'
  BY <1>1 DEF IInv, RepliesFollow
<1>9. QED
  BY <1>1, <1>3, <1>5, <1>6, <1>7, <1>8 DEF IInv

LEMMA InvGoesOn ==
  ASSUME IInv, NEW c \in Conns, NEW n \in Prompts, NEW stage \in Stages, GoesOn(c, n, stage)
  PROVE  /\ IInv' /\ UNCHANGED <<conn, replied>>
         /\ \A d \in Conns : \A m \in Prompts : InPlace(d, m)' <=> InPlace(d, m)
<1>1. /\ UNCHANGED <<active, conn, turns, slot, replied>> /\ InPlace(c, n)
      /\ stage \notin {"none", "ended"} /\ (task[c][n] \in Said <=> stage \in Said)
  BY DEF GoesOn
<1>2. /\ task' \in [Conns -> [Prompts -> Stages]]
      /\ task'[c][n] = stage
      /\ \A d \in Conns : \A m \in Prompts : d # c \/ m # n => task'[d][m] = task[d][m]
  BY OneTask DEF GoesOn, IInv
<1>3. \A d \in Conns : \A m \in Prompts : InPlace(d, m)' <=> InPlace(d, m)
  BY <1>1, <1>2 DEF InPlace
<1>4. Shape'
  BY <1>1, <1>2 DEF IInv, Shape
<1>5. OneHolder'
  BY <1>1 DEF IInv, OneHolder, Holds
<1>6. SlotIsPlace'
  BY <1>1, <1>3 DEF IInv, SlotIsPlace
<1>7. RepliesFollow'
  <2> SUFFICES ASSUME NEW d \in Conns, NEW m \in Prompts
               PROVE  /\ m > turns[d] => task'[d][m] = "none" /\ replied[d][m] = <<>>
                      /\ m <= turns[d] => (replied[d][m] # <<>> <=> task'[d][m] \in Said)
    BY <1>1 DEF RepliesFollow
  <2>1. /\ m > turns[d] => task[d][m] = "none" /\ replied[d][m] = <<>>
        /\ m <= turns[d] => (replied[d][m] # <<>> <=> task[d][m] \in Said)
    BY DEF IInv, RepliesFollow
  <2>2. CASE d = c /\ m = n
    BY <1>1, <1>2, <2>1, <2>2 DEF InPlace
  <2>3. CASE d # c \/ m # n
    BY <1>2, <2>1, <2>3
  <2>4. QED
    BY <2>2, <2>3
<1>8. QED
  BY <1>1, <1>3, <1>4, <1>5, <1>6, <1>7 DEF IInv

LEMMA InvTaken ==
  ASSUME IInv, NEW c \in Conns, Connect(c), ~active
  PROVE  /\ IInv' /\ UNCHANGED <<task, replied>>
         /\ (\A d \in Conns : ~Holds(d)) /\ Holds(c)'
<1>1. /\ conn' = [conn EXCEPT ![c] = "finding"] /\ active' = TRUE /\ conn[c] = "away"
      /\ UNCHANGED <<turns, slot, task, replied>>
  BY DEF Connect, Goes, At, turnVars
<1>2. conn' \in [Conns -> Places] /\ conn'[c] = "finding"
      /\ \A d \in Conns : d # c => conn'[d] = conn[d]
  BY <1>1 DEF IInv, Shape, Places, Serving
<1>3. \A d \in Conns : ~Holds(d)
  BY DEF IInv, OneHolder
<1>4. \A d \in Conns : Holds(d)' <=> d = c
  BY <1>2, <1>3 DEF Holds, Serving
<1>5. \A d \in Conns : conn[d] \notin TurnPlaces
  BY <1>3 DEF Holds, Serving, TurnPlaces
<1>6. \A d \in Conns : slot[d] = 0 /\ \A n \in Prompts : ~InPlace(d, n)
  BY <1>5 DEF IInv, SlotIsPlace
<1>7. Shape'
  BY <1>1, <1>2 DEF IInv, Shape
<1>8. OneHolder'
  BY <1>1, <1>4 DEF OneHolder
<1>9. SlotIsPlace'
  BY <1>1, <1>6 DEF SlotIsPlace, InPlace
<1>10. RepliesFollow'
  BY <1>1 DEF IInv, RepliesFollow
<1>11. QED
  BY <1>1, <1>3, <1>4, <1>7, <1>8, <1>9, <1>10 DEF IInv

LEMMA InvReleased ==
  ASSUME IInv, NEW c \in Conns, Release(c)
  PROVE  /\ IInv' /\ UNCHANGED <<task, replied>>
         /\ Holds(c) /\ (\A d \in Conns : ~Holds(d)')
         /\ \A d \in Conns : \A n \in Prompts : ~InPlace(d, n)
<1>1. /\ conn' = [conn EXCEPT ![c] = "closed"] /\ active' = FALSE /\ conn[c] = "release"
      /\ UNCHANGED <<turns, slot, task, replied>>
  BY DEF Release, Goes, At, turnVars
<1>2. conn' \in [Conns -> Places] /\ conn'[c] = "closed"
      /\ \A d \in Conns : d # c => conn'[d] = conn[d]
  BY <1>1 DEF IInv, Shape, Places
<1>3. Holds(c) /\ \A d \in Conns : Holds(d) => d = c
  BY <1>1 DEF IInv, OneHolder, Holds, Serving
<1>4. \A d \in Conns : ~Holds(d)'
  BY <1>2, <1>3 DEF Holds, Serving
<1>5. \A d \in Conns : conn[d] \notin TurnPlaces
  BY <1>1, <1>3 DEF Holds, Serving, TurnPlaces
<1>6. \A d \in Conns : slot[d] = 0 /\ \A n \in Prompts : ~InPlace(d, n)
  BY <1>5 DEF IInv, SlotIsPlace
<1>7. Shape'
  BY <1>1, <1>2 DEF IInv, Shape
<1>8. OneHolder'
  BY <1>1, <1>4 DEF OneHolder
<1>9. SlotIsPlace'
  BY <1>1, <1>6 DEF SlotIsPlace, InPlace
<1>10. RepliesFollow'
  BY <1>1 DEF IInv, RepliesFollow
<1>11. QED
  BY <1>1, <1>3, <1>4, <1>6, <1>7, <1>8, <1>9, <1>10 DEF IInv

LEMMA InvJoin ==
  ASSUME IInv, NEW c \in Conns, Join(c)
  PROVE  IInv' /\ UNCHANGED <<task, replied>> /\ (\A d \in Conns : Holds(d)' <=> Holds(d))
<1>1. /\ conn' = [conn EXCEPT ![c] = "reject again"] /\ slot' = [slot EXCEPT ![c] = 0]
      /\ conn[c] = "join" /\ task[c][slot[c]] = "ended"
      /\ UNCHANGED <<active, turns, task, replied>>
  BY DEF Join, Goes, At
<1>2. conn' \in [Conns -> Places] /\ conn'[c] = "reject again"
      /\ \A d \in Conns : d # c => conn'[d] = conn[d]
  BY <1>1 DEF IInv, Shape, Places, Serving
<1>3. slot' \in [Conns -> Nat] /\ slot'[c] = 0 /\ \A d \in Conns : d # c => slot'[d] = slot[d]
  BY <1>1 DEF IInv, Shape
<1>4. \A d \in Conns : Holds(d)' <=> Holds(d)
  BY <1>1, <1>2 DEF Holds, Serving
<1>5. \A n \in Prompts : ~InPlace(c, n)
  BY <1>1 DEF IInv, SlotIsPlace, InPlace
<1>6. \A d \in Conns : \A n \in Prompts : InPlace(d, n)' <=> InPlace(d, n)
  BY <1>1 DEF InPlace
<1>7. Shape'
  BY <1>1, <1>2, <1>3 DEF IInv, Shape
<1>8. OneHolder'
  BY <1>1, <1>4 DEF IInv, OneHolder
<1>9. SlotIsPlace'
  <2> SUFFICES ASSUME NEW d \in Conns
               PROVE  /\ \A n \in Prompts : InPlace(d, n)' => slot'[d] = n /\ conn'[d] \in TurnPlaces
                      /\ slot'[d] # 0 =>
                           /\ conn'[d] \in TurnPlaces /\ slot'[d] \in Prompts
                           /\ conn'[d] # "join" => InPlace(d, slot[d])'
    BY DEF SlotIsPlace
  <2>1. CASE d = c
    BY <1>3, <1>5, <1>6, <2>1
  <2>2. CASE d # c
    <3>1. slot'[d] = slot[d] /\ conn'[d] = conn[d]
      BY <1>2, <1>3, <2>2
    <3>2. /\ \A n \in Prompts : InPlace(d, n) => slot[d] = n /\ conn[d] \in TurnPlaces
          /\ slot[d] # 0 =>
               /\ conn[d] \in TurnPlaces /\ slot[d] \in Prompts
               /\ conn[d] # "join" => InPlace(d, slot[d])
      BY DEF IInv, SlotIsPlace
    <3>3. QED
      BY <1>6, <3>1, <3>2
  <2>3. QED
    BY <2>1, <2>2
<1>10. RepliesFollow'
  BY <1>1 DEF IInv, RepliesFollow
<1>11. QED
  BY <1>1, <1>4, <1>7, <1>8, <1>9, <1>10 DEF IInv

\* The next prompt of a connection has no task and no reply.
LEMMA NextPrompt ==
  ASSUME IInv, NEW c \in Conns, Prompt(c)
  PROVE  LET n == turns[c] + 1 IN
         /\ n \in Prompts /\ n \in Nat /\ n # 0 /\ task[c][n] = "none" /\ replied[c][n] = <<>>
         /\ turns' = [turns EXCEPT ![c] = n] /\ turns' \in [Conns -> Nat] /\ turns'[c] = n
         /\ \A d \in Conns : d # c => turns'[d] = turns[d]
         /\ UNCHANGED <<active, conn>> /\ conn[c] = "open"
<1> DEFINE n == turns[c] + 1
<1>1. turns[c] \in Nat /\ turns[c] < Limit[c] /\ turns' = [turns EXCEPT ![c] = n]
      /\ UNCHANGED <<active, conn>> /\ conn[c] = "open"
  BY DEF Prompt, At, connVars, IInv, Shape
<1>2. n \in Prompts
  BY <1>1, PromptNumbers
<1>3. task[c][n] = "none" /\ replied[c][n] = <<>>
  BY <1>1, <1>2 DEF IInv, RepliesFollow
<1>4. turns' \in [Conns -> Nat] /\ turns'[c] = n /\ \A d \in Conns : d # c => turns'[d] = turns[d]
  BY <1>1 DEF IInv, Shape
<1>5. QED
  BY <1>1, <1>2, <1>3, <1>4

LEMMA InvRefused ==
  ASSUME IInv, NEW c \in Conns, Prompt(c), slot[c] # 0
  PROVE  LET n == turns[c] + 1 IN
         /\ IInv' /\ UNCHANGED <<conn, task>> /\ n \in Prompts /\ slot[c] # n /\ replied[c][n] = <<>>
         /\ InPlace(c, slot[c]) /\ slot[c] \in Prompts /\ Holds(c)
         /\ replied'[c][n] = <<"busy">>
         /\ \A d \in Conns : \A m \in Prompts : d # c \/ m # n => replied'[d][m] = replied[d][m]
<1> DEFINE n == turns[c] + 1
<1>1. /\ n \in Prompts /\ n \in Nat /\ task[c][n] = "none" /\ replied[c][n] = <<>>
      /\ turns' \in [Conns -> Nat] /\ turns'[c] = n
      /\ \A d \in Conns : d # c => turns'[d] = turns[d]
      /\ UNCHANGED <<active, conn>> /\ conn[c] = "open"
  BY NextPrompt
<1>2. UNCHANGED <<slot, task>> /\ Reply(c, n, "busy")
  BY DEF Prompt
<1> HIDE DEF n
<1>3. /\ replied' \in [Conns -> [Prompts -> {<<>>} \cup {<<v>> : v \in Words}]]
      /\ replied'[c][n] = <<"busy">>
      /\ \A d \in Conns : \A m \in Prompts : d # c \/ m # n => replied'[d][m] = replied[d][m]
  BY <1>1, <1>2, OneReply DEF IInv, QueueOpen, Words
<1>4. InPlace(c, slot[c]) /\ slot[c] \in Prompts
  BY <1>1 DEF IInv, SlotIsPlace
<1>5. slot[c] # n
  BY <1>1, <1>4 DEF InPlace
<1>6. Holds(c)
  BY <1>1 DEF Holds, Serving
<1>7. Shape'
  BY <1>1, <1>2, <1>3 DEF IInv, Shape
<1>8. OneHolder' /\ SlotIsPlace'
  BY <1>1, <1>2 DEF IInv, OneHolder, SlotIsPlace, Holds, InPlace
<1>9. RepliesFollow'
  <2> SUFFICES ASSUME NEW d \in Conns, NEW m \in Prompts
               PROVE  /\ m > turns'[d] => task[d][m] = "none" /\ replied'[d][m] = <<>>
                      /\ m <= turns'[d] => (replied'[d][m] # <<>> <=> task[d][m] \in Said)
    BY <1>2 DEF RepliesFollow
  <2>1. /\ m > turns[d] => task[d][m] = "none" /\ replied[d][m] = <<>>
        /\ m <= turns[d] => (replied[d][m] # <<>> <=> task[d][m] \in Said)
    BY DEF IInv, RepliesFollow
  <2>2. m \in Nat /\ turns[d] \in Nat /\ turns[c] \in Nat
    BY PromptNumbers DEF IInv, Shape
  <2>3. CASE d = c /\ m = n
    <3>1. replied'[d][m] # <<>> /\ task[d][m] \in Said
      BY <1>1, <1>3, <2>3, FirstReply DEF Said
    <3>2. m <= turns'[d] /\ ~(m > turns'[d])
      BY <1>1, <2>3
    <3>3. QED
      BY <3>1, <3>2
  <2>4. CASE d = c /\ m # n
    <3>1. replied'[d][m] = replied[d][m] /\ turns'[d] = turns[d] + 1 /\ m # turns[d] + 1
      BY <1>1, <1>3, <2>4 DEF n
    <3>2. QED
      BY <2>1, <2>2, <3>1
  <2>5. CASE d # c
    BY <1>1, <1>3, <2>1, <2>5
  <2>6. QED
    BY <2>3, <2>4, <2>5
<1>10. QED
  BY <1>1, <1>2, <1>3, <1>4, <1>5, <1>6, <1>7, <1>8, <1>9 DEF IInv, n

LEMMA InvBegins ==
  ASSUME IInv, NEW c \in Conns, Prompt(c), slot[c] = 0
  PROVE  /\ IInv' /\ UNCHANGED <<conn, replied>> /\ Holds(c)
         /\ \E n \in Prompts : replied[c][n] = <<>> /\ InPlace(c, n)'
         /\ \A d \in Conns : \A m \in Prompts : ~InPlace(d, m)
<1> DEFINE n == turns[c] + 1
<1>1. /\ n \in Prompts /\ n \in Nat /\ n # 0 /\ task[c][n] = "none" /\ replied[c][n] = <<>>
      /\ turns' \in [Conns -> Nat] /\ turns'[c] = n
      /\ \A d \in Conns : d # c => turns'[d] = turns[d]
      /\ UNCHANGED <<active, conn>> /\ conn[c] = "open"
  BY NextPrompt
<1>2. slot' = [slot EXCEPT ![c] = n] /\ TaskAt(c, n, "running") /\ UNCHANGED replied
  BY DEF Prompt
<1> HIDE DEF n
<1>3. /\ task' \in [Conns -> [Prompts -> Stages]]
      /\ task'[c][n] = "running"
      /\ \A d \in Conns : \A m \in Prompts : d # c \/ m # n => task'[d][m] = task[d][m]
  BY <1>1, <1>2, OneTask DEF IInv, Stages
<1>4. slot' \in [Conns -> Nat] /\ slot'[c] = n /\ \A d \in Conns : d # c => slot'[d] = slot[d]
  BY <1>1, <1>2 DEF IInv, Shape
<1>5. Holds(c) /\ \A d \in Conns : Holds(d) => d = c
  BY <1>1 DEF IInv, OneHolder, Holds, Serving
<1>6. \A d \in Conns : d # c => conn[d] \notin TurnPlaces
  BY <1>5 DEF Holds, Serving, TurnPlaces
<1>7. \A d \in Conns : slot[d] = 0 /\ \A m \in Prompts : ~InPlace(d, m)
  BY <1>6, PromptNumbers DEF IInv, SlotIsPlace
<1>8. \A d \in Conns : \A m \in Prompts : InPlace(d, m)' <=> d = c /\ m = n
  BY <1>3, <1>7 DEF InPlace
<1>9. Shape'
  BY <1>1, <1>2, <1>3, <1>4 DEF IInv, Shape
<1>10. OneHolder'
  BY <1>1 DEF IInv, OneHolder, Holds
<1>11. SlotIsPlace'
  <2> SUFFICES ASSUME NEW d \in Conns
               PROVE  /\ \A m \in Prompts : InPlace(d, m)' => slot'[d] = m /\ conn'[d] \in TurnPlaces
                      /\ slot'[d] # 0 =>
                           /\ conn'[d] \in TurnPlaces /\ slot'[d] \in Prompts
                           /\ conn'[d] # "join" => InPlace(d, slot[d])'
    BY DEF SlotIsPlace
  <2>1. CASE d = c
    <3>1. conn'[d] \in TurnPlaces
      BY <1>1, <2>1 DEF TurnPlaces
    <3>2. InPlace(d, slot[d])'
      BY <1>3, <1>4, <2>1 DEF InPlace
    <3>3. QED
      BY <1>1, <1>4, <1>8, <2>1, <3>1, <3>2
  <2>2. CASE d # c
    BY <1>4, <1>7, <1>8, <2>2
  <2>3. QED
    BY <2>1, <2>2
<1>12. RepliesFollow'
  <2> SUFFICES ASSUME NEW d \in Conns, NEW m \in Prompts
               PROVE  /\ m > turns'[d] => task'[d][m] = "none" /\ replied[d][m] = <<>>
                      /\ m <= turns'[d] => (replied[d][m] # <<>> <=> task'[d][m] \in Said)
    BY <1>2 DEF RepliesFollow
  <2>1. /\ m > turns[d] => task[d][m] = "none" /\ replied[d][m] = <<>>
        /\ m <= turns[d] => (replied[d][m] # <<>> <=> task[d][m] \in Said)
    BY DEF IInv, RepliesFollow
  <2>2. m \in Nat /\ turns[d] \in Nat /\ turns[c] \in Nat
    BY PromptNumbers DEF IInv, Shape
  <2>3. CASE d = c /\ m = n
    <3>1. replied[d][m] = <<>> /\ task'[d][m] \notin Said
      BY <1>1, <1>3, <2>3 DEF Said
    <3>2. m <= turns'[d] /\ ~(m > turns'[d])
      BY <1>1, <2>3
    <3>3. QED
      BY <3>1, <3>2
  <2>4. CASE d = c /\ m # n
    <3>1. task'[d][m] = task[d][m] /\ turns'[d] = turns[d] + 1 /\ m # turns[d] + 1
      BY <1>1, <1>3, <2>4 DEF n
    <3>2. QED
      BY <2>1, <2>2, <3>1
  <2>5. CASE d # c
    BY <1>1, <1>3, <2>1, <2>5
  <2>6. QED
    BY <2>3, <2>4, <2>5
<1>13. QED
  BY <1>1, <1>2, <1>5, <1>7, <1>8, <1>9, <1>10, <1>11, <1>12 DEF IInv

LEMMA InvReplied ==
  ASSUME IInv, NEW c \in Conns, NEW n \in Prompts, SendReply(c, n)
  PROVE  /\ IInv' /\ UNCHANGED conn /\ Holds(c) /\ InPlace(c, n) /\ replied[c][n] = <<>>
         /\ \A d \in Conns : \A m \in Prompts : InPlace(d, m)' <=> InPlace(d, m)
         /\ \E w \in {"finished", "stopped"} : replied'[c][n] = <<w>>
         /\ \A d \in Conns : \A m \in Prompts : d # c \/ m # n => replied'[d][m] = replied[d][m]
<1> DEFINE w == IF n \in failing[c] THEN "stopped" ELSE "finished"
<1>1. task[c][n] = "returned" /\ TaskAt(c, n, "replied") /\ UNCHANGED <<active, conn, turns, slot>>
      /\ Reply(c, n, w) /\ w \in {"finished", "stopped"}
  BY DEF SendReply, connVars
<1> HIDE DEF w
<1>2. InPlace(c, n)
  BY <1>1 DEF InPlace
<1>3. conn[c] \in TurnPlaces
  BY <1>2 DEF IInv, SlotIsPlace
<1>4. QueueOpen(c) /\ Holds(c)
  BY <1>3 DEF QueueOpen, Holds, Serving, TurnPlaces
<1>5. n <= turns[c] /\ replied[c][n] = <<>>
  <2>1. n \in Nat /\ turns[c] \in Nat
    BY PromptNumbers DEF IInv, Shape
  <2>2. n > turns[c] => task[c][n] = "none"
    BY DEF IInv, RepliesFollow
  <2>3. n <= turns[c]
    BY <1>1, <2>1, <2>2
  <2>4. task[c][n] \notin Said
    BY <1>1 DEF Said
  <2>5. QED
    BY <2>3, <2>4 DEF IInv, RepliesFollow
<1>6. /\ task' \in [Conns -> [Prompts -> Stages]]
      /\ task'[c][n] = "replied"
      /\ \A d \in Conns : \A m \in Prompts : d # c \/ m # n => task'[d][m] = task[d][m]
  BY <1>1, OneTask DEF IInv, Stages
<1>7. /\ replied' \in [Conns -> [Prompts -> {<<>>} \cup {<<v>> : v \in Words}]]
      /\ replied'[c][n] = <<w>>
      /\ \A d \in Conns : \A m \in Prompts : d # c \/ m # n => replied'[d][m] = replied[d][m]
  BY <1>1, <1>4, <1>5, OneReply DEF IInv, Words
<1>8. \A d \in Conns : \A m \in Prompts : InPlace(d, m)' <=> InPlace(d, m)
  BY <1>2, <1>6 DEF InPlace
<1>9. Shape'
  BY <1>1, <1>6, <1>7 DEF IInv, Shape
<1>10. OneHolder'
  BY <1>1 DEF IInv, OneHolder, Holds
<1>11. SlotIsPlace'
  BY <1>1, <1>8 DEF IInv, SlotIsPlace
<1>12. RepliesFollow'
  <2> SUFFICES ASSUME NEW d \in Conns, NEW m \in Prompts
               PROVE  /\ m > turns[d] => task'[d][m] = "none" /\ replied'[d][m] = <<>>
                      /\ m <= turns[d] => (replied'[d][m] # <<>> <=> task'[d][m] \in Said)
    BY <1>1 DEF RepliesFollow
  <2>1. /\ m > turns[d] => task[d][m] = "none" /\ replied[d][m] = <<>>
        /\ m <= turns[d] => (replied[d][m] # <<>> <=> task[d][m] \in Said)
    BY DEF IInv, RepliesFollow
  <2>2. CASE d = c /\ m = n
    <3>1. ~(m > turns[d])
      BY <1>5, <2>2, PromptNumbers DEF IInv, Shape
    <3>2. replied'[d][m] # <<>> /\ task'[d][m] \in Said
      BY <1>6, <1>7, <2>2, FirstReply DEF Said
    <3>3. QED
      BY <3>1, <3>2
  <2>3. CASE d # c \/ m # n
    BY <1>6, <1>7, <2>1, <2>3
  <2>4. QED
    BY <2>2, <2>3
<1>13. QED
  BY <1>1, <1>2, <1>4, <1>5, <1>7, <1>8, <1>9, <1>10, <1>11, <1>12 DEF IInv

LEMMA InvCleared ==
  ASSUME IInv, NEW c \in Conns, NEW n \in Prompts, ClearSlot(c, n)
  PROVE  /\ IInv' /\ UNCHANGED <<conn, replied>> /\ Holds(c) /\ InPlace(c, n) /\ replied[c][n] # <<>>
         /\ \A d \in Conns : \A m \in Prompts : ~InPlace(d, m)'
<1>1. task[c][n] = "kept" /\ TaskAt(c, n, "ended") /\ UNCHANGED <<active, conn, turns, replied>>
      /\ slot' = IF slot[c] = n /\ conn[c] # "join" THEN [slot EXCEPT ![c] = 0] ELSE slot
  BY DEF ClearSlot, connVars, At
<1>2. InPlace(c, n)
  BY <1>1 DEF InPlace
<1>3. conn[c] \in TurnPlaces /\ slot[c] = n
  BY <1>2 DEF IInv, SlotIsPlace
<1>4. Holds(c) /\ \A d \in Conns : Holds(d) => d = c
  BY <1>3 DEF IInv, OneHolder, Holds, Serving, TurnPlaces
<1>5. \A d \in Conns : d # c => conn[d] \notin TurnPlaces
  BY <1>4 DEF Holds, Serving, TurnPlaces
<1>6. \A d \in Conns : \A m \in Prompts : InPlace(d, m) => d = c /\ m = n
  BY <1>3, <1>5 DEF IInv, SlotIsPlace
<1>7. n <= turns[c] /\ replied[c][n] # <<>>
  <2>1. n \in Nat /\ turns[c] \in Nat
    BY PromptNumbers DEF IInv, Shape
  <2>2. n > turns[c] => task[c][n] = "none"
    BY DEF IInv, RepliesFollow
  <2>3. n <= turns[c]
    BY <1>1, <2>1, <2>2
  <2>4. task[c][n] \in Said
    BY <1>1 DEF Said
  <2>5. QED
    BY <2>3, <2>4 DEF IInv, RepliesFollow
<1>8. /\ task' \in [Conns -> [Prompts -> Stages]]
      /\ task'[c][n] = "ended"
      /\ \A d \in Conns : \A m \in Prompts : d # c \/ m # n => task'[d][m] = task[d][m]
  BY <1>1, OneTask DEF IInv, Stages
<1>9. \A d \in Conns : \A m \in Prompts : ~InPlace(d, m)'
  BY <1>6, <1>8 DEF InPlace
<1>10. /\ slot' \in [Conns -> Nat] /\ \A d \in Conns : d # c => slot'[d] = slot[d]
       /\ conn[c] # "join" => slot'[c] = 0
       /\ conn[c] = "join" => slot'[c] = n
  BY <1>1, <1>3 DEF IInv, Shape
<1>11. Shape'
  BY <1>1, <1>8, <1>10 DEF IInv, Shape
<1>12. OneHolder'
  BY <1>1 DEF IInv, OneHolder, Holds
<1>13. SlotIsPlace'
  <2> SUFFICES ASSUME NEW d \in Conns, slot'[d] # 0
               PROVE  /\ conn'[d] \in TurnPlaces /\ slot'[d] \in Prompts
                      /\ conn'[d] # "join" => InPlace(d, slot[d])'
    BY <1>9 DEF SlotIsPlace
  <2>1. CASE d = c
    BY <1>1, <1>3, <1>10, <2>1
  <2>2. CASE d # c
    <3>1. slot[d] # 0
      BY <1>10, <2>2
    <3>2. QED
      BY <1>5, <2>2, <3>1 DEF IInv, SlotIsPlace
  <2>3. QED
    BY <2>1, <2>2
<1>14. RepliesFollow'
  <2> SUFFICES ASSUME NEW d \in Conns, NEW m \in Prompts
               PROVE  /\ m > turns[d] => task'[d][m] = "none" /\ replied[d][m] = <<>>
                      /\ m <= turns[d] => (replied[d][m] # <<>> <=> task'[d][m] \in Said)
    BY <1>1 DEF RepliesFollow
  <2>1. /\ m > turns[d] => task[d][m] = "none" /\ replied[d][m] = <<>>
        /\ m <= turns[d] => (replied[d][m] # <<>> <=> task[d][m] \in Said)
    BY DEF IInv, RepliesFollow
  <2>2. CASE d = c /\ m = n
    <3>1. ~(m > turns[d])
      BY <1>7, <2>2, PromptNumbers DEF IInv, Shape
    <3>2. replied[d][m] # <<>> /\ task'[d][m] \in Said
      BY <1>7, <1>8, <2>2 DEF Said
    <3>3. QED
      BY <3>1, <3>2
  <2>3. CASE d # c \/ m # n
    BY <1>8, <2>1, <2>3
  <2>4. QED
    BY <2>2, <2>3
<1>15. QED
  BY <1>1, <1>2, <1>4, <1>7, <1>9, <1>11, <1>12, <1>13, <1>14 DEF IInv

-----------------------------------------------------------------------------
(* The rest changes nothing of it.                                            *)

LEMMA InvStands ==
  ASSUME IInv, UNCHANGED holding
  PROVE  IInv'
<1> USE DEF holding
<1>1. Shape'
  BY DEF IInv, Shape
<1>2. OneHolder'
  BY DEF IInv, OneHolder, Holds
<1>3. SlotIsPlace'
  BY DEF IInv, SlotIsPlace, InPlace
<1>4. RepliesFollow'
  BY DEF IInv, RepliesFollow
<1>5. QED
  BY <1>1, <1>2, <1>3, <1>4 DEF IInv

\* The kinds of step are all there are.
LEMMA Kinds ==
  ASSUME IInv, [Next]_vars
  PROVE  \/ UNCHANGED holding
         \/ \E c \in Conns :
              \/ \E place \in Places : Moves(c, place)
              \/ (Connect(c) /\ ~active) \/ Release(c) \/ Join(c) \/ Prompt(c)
              \/ \E n \in Prompts :
                   \/ \E stage \in Stages : GoesOn(c, n, stage)
                   \/ SendReply(c, n) \/ ClearSlot(c, n)
<1>1. CASE UNCHANGED vars
  BY <1>1 DEF vars, connVars, turnVars, holding
<1>2. ASSUME NEW c \in Conns, Handler(c) \/ Client(c) \/ Shutdown(c)
      PROVE  \/ UNCHANGED holding
             \/ \E place \in Places : Moves(c, place)
             \/ (Connect(c) /\ ~active) \/ Release(c) \/ Join(c) \/ Prompt(c)
  <2>1. CASE CancelTurn(c)
    BY <2>1 DEF CancelTurn, connVars, holding
  <2>2. CASE Respond(c)
    BY <2>2 DEF Respond, connVars, turnVars, holding
  <2>3. QED
    BY <1>2, <2>1, <2>2, ConnMoves DEF Handler, Client, Shutdown
<1>3. ASSUME NEW c \in Conns, NEW n \in Prompts, Soul(c, n) \/ Turn(c, n) \/ UiLoop(c, n)
      PROVE  \/ UNCHANGED holding
             \/ \E stage \in Stages : GoesOn(c, n, stage)
             \/ SendReply(c, n) \/ ClearSlot(c, n)
  <2>1. CASE Write(c, n)
    BY <2>1 DEF Write, turnVars, holding
  <2>2. CASE Ask(c, n)
    BY <2>2 DEF Ask, connVars, holding
  <2>3. CASE UiLoop(c, n)
    BY <2>3 DEF UiLoop, UiTakes, UiWakes, UiEnds, connVars, turnVars, holding
  <2>4. QED
    BY <1>3, <2>1, <2>2, <2>3, TurnGoesOn DEF Soul, Turn
<1>4. QED
  BY <1>1, <1>2, <1>3 DEF Next

LEMMA InvStep ==
  ASSUME IInv, [Next]_vars
  PROVE  IInv'
BY Kinds, InvStands, InvMoves, InvTaken, InvReleased, InvJoin, InvRefused, InvBegins,
   InvGoesOn, InvReplied, InvCleared

THEOREM Invariant == Spec => []IInv
BY InvInit, InvStep, PTL DEF Spec

-----------------------------------------------------------------------------
(* What follows from it.                                                      *)

\* The session is marked as taken exactly while a connection is served, or the
\* one that went away while it was prepared still has it, for any number of
\* clients that connect, leave and fail to start. (ws_upgrade_handler,
\* server.rs:914-985)
THEOREM TakenCorrect == Spec => []TakenIsServed
<1>1. IInv => TakenIsServed
  BY DEF IInv, OneHolder, TakenIsServed, Holds
<1>2. QED
  BY <1>1, Invariant, PTL

\* Two turns are never at work together, nor is a turn while another client is
\* served, however many clients and prompts there are. (handle_prompt,
\* server.rs:278; shutdown and release_session, server.rs:610-854)
THEOREM TurnsCorrect == Spec => []OneTurnAtATime
<1>1. IInv => OneTurnAtATime
  <2> SUFFICES ASSUME IInv, NEW c \in Conns, NEW n \in Prompts, Working(c, n)
               PROVE  /\ \A m \in Prompts \ {n} : ~Working(c, m)
                      /\ \A d \in Conns \ {c} : conn[d] \notin Serving
    BY DEF OneTurnAtATime
  <2>1. \A m \in Prompts : Working(c, m) => slot[c] = m /\ conn[c] \in TurnPlaces
    BY DEF IInv, SlotIsPlace, InPlace, Working
  <2>2. Holds(c)
    BY <2>1 DEF Holds, Serving, TurnPlaces
  <2>3. \A d \in Conns : Holds(d) => d = c
    BY <2>2 DEF IInv, OneHolder
  <2>4. QED
    BY <2>1, <2>3 DEF Holds
<1>2. QED
  BY <1>1, Invariant, PTL

\* Every prompt has exactly one reply: the refused one at once, the other by the
\* time its turn's task is over, whatever fails, is cancelled or leaves.
\* (handle_prompt, server.rs:278-442)
THEOREM RepliesCorrect == Spec => []OneReplyPerPrompt
<1>1. IInv => OneReplyPerPrompt
  <2> SUFFICES ASSUME IInv, NEW c \in Conns, NEW n \in Prompts
               PROVE  Len(replied[c][n]) = IF n <= turns[c] /\ task[c][n] \in Said THEN 1 ELSE 0
    BY DEF OneReplyPerPrompt, Said
  <2>1. replied[c][n] = <<>> \/ \E w \in Words : replied[c][n] = <<w>>
    BY DEF IInv, Shape
  <2>2. replied[c][n] # <<>> => Len(replied[c][n]) = 1
    BY <2>1, FirstReply
  <2>3. replied[c][n] = <<>> => Len(replied[c][n]) = 0
    BY FirstReply
  <2>4. n \in Nat /\ turns[c] \in Nat
    BY PromptNumbers DEF IInv, Shape
  <2>5. /\ n > turns[c] => replied[c][n] = <<>>
        /\ n <= turns[c] => (replied[c][n] # <<>> <=> task[c][n] \in Said)
    BY DEF IInv, RepliesFollow
  <2>6. CASE n <= turns[c] /\ task[c][n] \in Said
    BY <2>2, <2>5, <2>6
  <2>7. CASE ~(n <= turns[c] /\ task[c][n] \in Said)
    <3>1. n > turns[c] \/ n <= turns[c]
      BY <2>4
    <3>2. replied[c][n] = <<>>
      BY <2>5, <2>7, <3>1, Zenon
    <3>3. QED
      BY <2>3, <2>7, <3>2, Zenon
  <2>8. QED
    BY <2>6, <2>7
<1>2. QED
  BY <1>1, Invariant, PTL

-----------------------------------------------------------------------------
(* The server implements SessionLease.                                        *)

Told == [c \in Conns |-> [n \in Prompts |-> ReplyTo(c, n)]]

\* Who has the session and whose turn it is can be read off the places.
Reading ==
  /\ \A c \in Conns : Holds(c) => Holder = c
  /\ (\A c \in Conns : ~Holds(c)) => Holder = Nobody
  /\ \A c \in Conns : \A n \in Prompts : InPlace(c, n) => InTurn = n
  /\ (\A c \in Conns : \A n \in Prompts : ~InPlace(c, n)) => InTurn = 0

LEMMA Read == IInv => Reading
<1> SUFFICES ASSUME IInv PROVE Reading
  OBVIOUS
<1>1. ASSUME NEW c \in Conns, Holds(c) PROVE Holder = c
  <2>1. \A d \in Conns : Holds(d) => d = c
    BY <1>1 DEF IInv, OneHolder
  <2>2. QED
    BY <1>1, <2>1 DEF Holder
<1>2. ASSUME \A c \in Conns : ~Holds(c) PROVE Holder = Nobody
  BY <1>2 DEF Holder
<1>3. ASSUME NEW c \in Conns, NEW n \in Prompts, InPlace(c, n) PROVE InTurn = n
  <2>1. ASSUME NEW d \in Conns, NEW m \in Prompts, InPlace(d, m) PROVE m = n
    <3>1. slot[d] = m /\ slot[c] = n /\ conn[d] \in TurnPlaces /\ conn[c] \in TurnPlaces
      BY <1>3, <2>1 DEF IInv, SlotIsPlace
    <3>2. d = c
      BY <3>1 DEF IInv, OneHolder, Holds, Serving, TurnPlaces
    <3>3. QED
      BY <3>1, <3>2
  <2>2. QED
    BY <1>3, <2>1 DEF InTurn
<1>4. ASSUME \A c \in Conns : \A n \in Prompts : ~InPlace(c, n) PROVE InTurn = 0
  BY <1>4 DEF InTurn
<1>5. QED
  BY <1>1, <1>2, <1>3, <1>4 DEF Reading

\* The new holder, turn and replies, read the same way.
LEMMA ReadNext == IInv' => Reading'
BY Read, PTL

\* Who holds the session is read off the connections, whose turn it is off the
\* tasks, and the replies are those of the write queue.
LEMMA SameHolder ==
  ASSUME \A c \in Conns : Holds(c)' <=> Holds(c)
  PROVE  Holder' = Holder
<1>1. (\E c \in Conns : Holds(c)') <=> (\E c \in Conns : Holds(c))
  OBVIOUS
<1>2. (CHOOSE c \in Conns : Holds(c)') = (CHOOSE c \in Conns : Holds(c))
  OBVIOUS
<1>3. QED
  BY <1>1, <1>2 DEF Holder

LEMMA SameTurn ==
  ASSUME \A c \in Conns : \A n \in Prompts : InPlace(c, n)' <=> InPlace(c, n)
  PROVE  InTurn' = InTurn
<1>1. (\E c \in Conns : \E n \in Prompts : InPlace(c, n)')
      <=> (\E c \in Conns : \E n \in Prompts : InPlace(c, n))
  OBVIOUS
<1>2. \A n \in Prompts : (\E c \in Conns : InPlace(c, n)') <=> (\E c \in Conns : InPlace(c, n))
  OBVIOUS
<1>3. (CHOOSE n \in Prompts : \E c \in Conns : InPlace(c, n)')
      = (CHOOSE n \in Prompts : \E c \in Conns : InPlace(c, n))
  BY <1>2
<1>4. QED
  BY <1>1, <1>3 DEF InTurn

LEMMA SameReplies ==
  ASSUME UNCHANGED replied
  PROVE  Told' = Told
BY DEF Told, ReplyTo

LEMMA NewReply ==
  ASSUME NEW c \in Conns, NEW n \in Prompts, NEW w, replied[c][n] = <<>>, replied'[c][n] = <<w>>,
         \A d \in Conns : \A m \in Prompts : d # c \/ m # n => replied'[d][m] = replied[d][m]
  PROVE  Told[c][n] = "none" /\ Told' = [Told EXCEPT ![c][n] = w]
<1>1. Told[c][n] = "none"
  BY DEF Told, ReplyTo
<1>2. ReplyTo(c, n)' = w
  BY FirstReply DEF ReplyTo
<1>3. \A d \in Conns : \A m \in Prompts : d # c \/ m # n => ReplyTo(d, m)' = ReplyTo(d, m)
  BY DEF ReplyTo
<1>4. Told' = [d \in Conns |-> [m \in Prompts |-> ReplyTo(d, m)']]
  BY DEF Told
<1>5. \A d \in Conns : [m \in Prompts |-> ReplyTo(d, m)'] =
        IF d = c THEN [[m \in Prompts |-> ReplyTo(d, m)] EXCEPT ![n] = w]
                 ELSE [m \in Prompts |-> ReplyTo(d, m)]
  BY <1>2, <1>3
<1>6. QED
  BY <1>1, <1>4, <1>5 DEF Told

LEMMA Given ==
  ASSUME NEW c \in Conns, NEW n \in Prompts
  PROVE  /\ replied[c][n] = <<>> => Told[c][n] = "none"
         /\ IInv /\ replied[c][n] # <<>> => Told[c][n] # "none"
<1>1. Told[c][n] = ReplyTo(c, n)
  BY DEF Told
<1>2. ASSUME IInv, replied[c][n] # <<>> PROVE ReplyTo(c, n) # "none"
  <2>1. PICK w \in Words : replied[c][n] = <<w>>
    BY <1>2 DEF IInv, Shape
  <2>2. ReplyTo(c, n) = w
    BY <2>1, FirstReply DEF ReplyTo
  <2>3. QED
    BY <2>2 DEF Words
<1>3. QED
  BY <1>1, <1>2 DEF ReplyTo

LEMMA LeaseStarts == Init => Lease!LeaseInit
<1> SUFFICES ASSUME Init PROVE Lease!LeaseInit
  OBVIOUS
<1>1. Reading
  BY InvInit, Read
<1>2. (\A c \in Conns : ~Holds(c)) /\ \A c \in Conns : \A n \in Prompts : ~InPlace(c, n)
  BY DEF Init, Holds, InPlace, Serving
<1>3. Holder = Nobody /\ InTurn = 0
  BY <1>1, <1>2 DEF Reading
<1>4. \A c \in Conns : \A n \in Prompts : ReplyTo(c, n) = "none"
  BY DEF Init, ReplyTo
<1>5. QED
  BY <1>3, <1>4 DEF Lease!LeaseInit

LEMMA LeaseStep ==
  ASSUME IInv, [Next]_vars
  PROVE  [Lease!LeaseNext]_(Lease!leaseVars)
<1> DEFINE Stutter == UNCHANGED <<Holder, InTurn, Told>>
<1>0. Stutter => UNCHANGED Lease!leaseVars
  BY DEF Lease!leaseVars, Told
<1> HIDE DEF Stutter
<1>1. IInv' /\ Reading /\ Reading'
  BY InvStep, Read, ReadNext
<1>2. CASE UNCHANGED holding
  <2>1. (\A c \in Conns : Holds(c)' <=> Holds(c)) /\ UNCHANGED replied
        /\ \A c \in Conns : \A n \in Prompts : InPlace(c, n)' <=> InPlace(c, n)
    BY <1>2 DEF holding, Holds, InPlace
  <2>2. QED
    BY <1>0, <2>1, SameHolder, SameTurn, SameReplies DEF Stutter
<1>3. ASSUME NEW c \in Conns, NEW place \in Places, Moves(c, place)
      PROVE  UNCHANGED Lease!leaseVars
  <2>1. (\A d \in Conns : Holds(d)' <=> Holds(d)) /\ UNCHANGED <<task, replied>>
    BY <1>3, InvMoves
  <2>2. \A d \in Conns : \A n \in Prompts : InPlace(d, n)' <=> InPlace(d, n)
    BY <2>1 DEF InPlace
  <2>3. QED
    BY <1>0, <2>1, <2>2, SameHolder, SameTurn, SameReplies DEF Stutter
<1>4. ASSUME NEW c \in Conns, Connect(c), ~active PROVE Lease!Take(c)
  <2>1. UNCHANGED <<task, replied>> /\ (\A d \in Conns : ~Holds(d)) /\ Holds(c)'
    BY <1>4, InvTaken
  <2>2. Holder = Nobody /\ Holder' = c
    BY <1>1, <2>1 DEF Reading
  <2>3. \A d \in Conns : \A n \in Prompts : InPlace(d, n)' <=> InPlace(d, n)
    BY <2>1 DEF InPlace
  <2>4. InTurn' = InTurn /\ Told' = Told
    BY <2>1, <2>3, SameTurn, SameReplies
  <2>5. QED
    BY <2>2, <2>4 DEF Lease!Take, Told
<1>5. ASSUME NEW c \in Conns, Release(c) PROVE Lease!GiveBack(c)
  <2>1. /\ UNCHANGED <<task, replied>> /\ Holds(c) /\ (\A d \in Conns : ~Holds(d)')
        /\ \A d \in Conns : \A n \in Prompts : ~InPlace(d, n)
    BY <1>5, InvReleased
  <2>2. Holder = c /\ Holder' = Nobody /\ InTurn = 0
    BY <1>1, <2>1 DEF Reading
  <2>3. \A d \in Conns : \A n \in Prompts : InPlace(d, n)' <=> InPlace(d, n)
    BY <2>1 DEF InPlace
  <2>4. InTurn' = InTurn /\ Told' = Told
    BY <2>1, <2>3, SameTurn, SameReplies
  <2>5. QED
    BY <2>2, <2>4 DEF Lease!GiveBack, Told
<1>6. ASSUME NEW c \in Conns, Join(c) PROVE UNCHANGED Lease!leaseVars
  <2>1. (\A d \in Conns : Holds(d)' <=> Holds(d)) /\ UNCHANGED <<task, replied>>
    BY <1>6, InvJoin
  <2>2. \A d \in Conns : \A n \in Prompts : InPlace(d, n)' <=> InPlace(d, n)
    BY <2>1 DEF InPlace
  <2>3. QED
    BY <1>0, <2>1, <2>2, SameHolder, SameTurn, SameReplies DEF Stutter
<1>7. ASSUME NEW c \in Conns, Prompt(c), slot[c] # 0 PROVE \E n \in Prompts : Lease!Refuse(c, n)
  <2>1. PICK n \in Prompts :
          /\ UNCHANGED <<conn, task>> /\ slot[c] # n /\ replied[c][n] = <<>>
          /\ InPlace(c, slot[c]) /\ slot[c] \in Prompts /\ Holds(c)
          /\ replied'[c][n] = <<"busy">>
          /\ \A d \in Conns : \A m \in Prompts : d # c \/ m # n => replied'[d][m] = replied[d][m]
    BY <1>7, InvRefused
  <2>2. Holder = c /\ InTurn = slot[c]
    BY <1>1, <2>1 DEF Reading
  <2>3. (\A d \in Conns : Holds(d)' <=> Holds(d))
        /\ \A d \in Conns : \A m \in Prompts : InPlace(d, m)' <=> InPlace(d, m)
    BY <2>1 DEF Holds, InPlace
  <2>4. UNCHANGED <<Holder, InTurn>>
    BY <2>3, SameHolder, SameTurn
  <2>5. Told[c][n] = "none" /\ Told' = [Told EXCEPT ![c][n] = "busy"]
    BY <2>1, NewReply
  <2>6. InTurn \notin {0, n}
    BY <1>7, <2>1, <2>2
  <2>7. Lease!Refuse(c, n)
    BY <2>2, <2>4, <2>5, <2>6 DEF Lease!Refuse, Lease!Says, Told
  <2>8. QED
    BY <2>7
<1>8. ASSUME NEW c \in Conns, Prompt(c), slot[c] = 0 PROVE \E n \in Prompts : Lease!Begin(c, n)
  <2>1. PICK n \in Prompts : replied[c][n] = <<>> /\ InPlace(c, n)'
    BY <1>8, InvBegins
  <2>2. /\ UNCHANGED <<conn, replied>> /\ Holds(c)
        /\ \A d \in Conns : \A m \in Prompts : ~InPlace(d, m)
    BY <1>8, InvBegins
  <2>3. Holder = c /\ InTurn = 0 /\ InTurn' = n
    BY <1>1, <2>1, <2>2 DEF Reading
  <2>4. \A d \in Conns : Holds(d)' <=> Holds(d)
    BY <2>2 DEF Holds
  <2>5. UNCHANGED <<Holder, Told>>
    BY <2>2, <2>4, SameHolder, SameReplies
  <2>6. Told[c][n] = "none"
    BY <2>1, Given
  <2>7. Lease!Begin(c, n)
    BY <2>3, <2>5, <2>6 DEF Lease!Begin, Told
  <2>8. QED
    BY <2>7
<1>9. ASSUME NEW c \in Conns, NEW n \in Prompts, NEW stage \in Stages, GoesOn(c, n, stage)
      PROVE  UNCHANGED Lease!leaseVars
  <2>1. /\ UNCHANGED <<conn, replied>>
        /\ \A d \in Conns : \A m \in Prompts : InPlace(d, m)' <=> InPlace(d, m)
    BY <1>9, InvGoesOn
  <2>2. \A d \in Conns : Holds(d)' <=> Holds(d)
    BY <2>1 DEF Holds
  <2>3. QED
    BY <1>0, <2>1, <2>2, SameHolder, SameTurn, SameReplies DEF Stutter
<1>10. ASSUME NEW c \in Conns, NEW n \in Prompts, SendReply(c, n) PROVE Lease!Answer(c, n)
  <2>1. /\ UNCHANGED conn /\ Holds(c) /\ InPlace(c, n) /\ replied[c][n] = <<>>
        /\ \A d \in Conns : \A m \in Prompts : InPlace(d, m)' <=> InPlace(d, m)
        /\ \E w \in {"finished", "stopped"} : replied'[c][n] = <<w>>
        /\ \A d \in Conns : \A m \in Prompts : d # c \/ m # n => replied'[d][m] = replied[d][m]
    BY <1>10, InvReplied
  <2>2. PICK w \in {"finished", "stopped"} : replied'[c][n] = <<w>>
    BY <2>1
  <2>3. Holder = c /\ InTurn = n
    BY <1>1, <2>1 DEF Reading
  <2>4. \A d \in Conns : Holds(d)' <=> Holds(d)
    BY <2>1 DEF Holds
  <2>5. UNCHANGED <<Holder, InTurn>>
    BY <2>1, <2>4, SameHolder, SameTurn
  <2>6. Told[c][n] = "none" /\ Told' = [Told EXCEPT ![c][n] = w]
    BY <2>1, <2>2, NewReply
  <2>7. QED
    BY <2>2, <2>3, <2>5, <2>6 DEF Lease!Answer, Lease!Says, Told
<1>11. ASSUME NEW c \in Conns, NEW n \in Prompts, ClearSlot(c, n) PROVE Lease!End(c, n)
  <2>1. /\ UNCHANGED <<conn, replied>> /\ Holds(c) /\ InPlace(c, n) /\ replied[c][n] # <<>>
        /\ \A d \in Conns : \A m \in Prompts : ~InPlace(d, m)'
    BY <1>11, InvCleared
  <2>2. Holder = c /\ InTurn = n /\ InTurn' = 0
    BY <1>1, <2>1 DEF Reading
  <2>3. \A d \in Conns : Holds(d)' <=> Holds(d)
    BY <2>1 DEF Holds
  <2>4. UNCHANGED <<Holder, Told>>
    BY <2>1, <2>3, SameHolder, SameReplies
  <2>5. Told[c][n] # "none"
    BY <2>1, Given
  <2>6. QED
    BY <2>2, <2>4, <2>5 DEF Lease!End, Told
<1>12. QED
  BY <1>2, <1>3, <1>4, <1>5, <1>6, <1>7, <1>8, <1>9, <1>10, <1>11, Kinds DEF Lease!LeaseNext

\* The wire server implements SessionLease: one client at a time has the session
\* and the turns in it, each with one reply while it is in its place, and nobody
\* gives it back in the middle of one. (server.rs:278-472, 588-665, 849-1059)
THEOREM LeaseKept == Spec => KeepsTheLease
<1>1. Spec => []IInv
  BY Invariant
<1>2. QED
  BY <1>1, LeaseStarts, LeaseStep, PTL DEF Spec, KeepsTheLease, Lease!LeaseSpec

-----------------------------------------------------------------------------
(* A session with recorded events is not deleted.                             *)

AtWork == {"running", "closing", "returned", "replied"}
Early  == {"away", "finding", "preparing", "prepared"}

\* A client whose session was created for it and has events since has had a turn,
\* which either is still at work or has set last_turn_state.
Recorded ==
  /\ created \in [Conns -> BOOLEAN] /\ lastTurn \in [Conns -> BOOLEAN]
  /\ \A c \in Conns :
       /\ conn[c] \in {"away", "finding"} => ~created[c]
       /\ lastTurn[c] => conn[c] \notin Early
       /\ \A n \in Prompts : task[c][n] = "kept" => lastTurn[c]
       /\ created[c] /\ row = "used" /\ conn[c] \in Serving \ {"release"} =>
            lastTurn[c] \/ \E n \in Prompts : task[c][n] \in AtWork

LEMMA RecordedInit == Init => Recorded
BY DEF Init, Recorded, Early, Serving

\* The connection moves and nothing is stored.
LEMMA RecordedMoves ==
  ASSUME IInv, Recorded, NEW c \in Conns, NEW place,
         Goes(c, place), UNCHANGED <<row, created, lastTurn, task>>,
         place \in Early => conn[c] \in Early,
         place \in {"away", "finding"} => conn[c] \in {"away", "finding"},
         place \in Serving \ {"release"} => conn[c] \in (Serving \ {"release"}) \cup {"away"}
  PROVE  Recorded'
<1>1. conn'[c] = place /\ \A d \in Conns : d # c => conn'[d] = conn[d]
  BY DEF Goes, IInv, Shape
<1>2. ASSUME NEW d \in Conns
      PROVE  /\ conn'[d] \in {"away", "finding"} => ~created[d]
             /\ lastTurn[d] => conn'[d] \notin Early
             /\ created[d] /\ row = "used" /\ conn'[d] \in Serving \ {"release"} =>
                  lastTurn[d] \/ \E n \in Prompts : task[d][n] \in AtWork
  <2>1. /\ conn[d] \in {"away", "finding"} => ~created[d]
        /\ lastTurn[d] => conn[d] \notin Early
        /\ created[d] /\ row = "used" /\ conn[d] \in Serving \ {"release"} =>
             lastTurn[d] \/ \E n \in Prompts : task[d][n] \in AtWork
    BY DEF Recorded
  <2>2. CASE d = c
    BY <1>1, <2>1, <2>2
  <2>3. CASE d # c
    BY <1>1, <2>1, <2>3
  <2>4. QED
    BY <2>2, <2>3
<1>3. QED
  BY <1>2 DEF Recorded

\* A turn goes on, and last_turn_state is set before it is over.
LEMMA RecordedTurn ==
  ASSUME IInv, Recorded, NEW c \in Conns, NEW n \in Prompts, NEW stage \in Stages,
         TaskAt(c, n, stage), UNCHANGED <<row, created, conn>>,
         \/ stage \in AtWork /\ UNCHANGED lastTurn
         \/ stage = "kept" /\ InPlace(c, n) /\ lastTurn' = [lastTurn EXCEPT ![c] = TRUE]
         \/ stage = "ended" /\ task[c][n] = "kept" /\ UNCHANGED lastTurn
  PROVE  Recorded'
<1>1. /\ task'[c][n] = stage
      /\ \A d \in Conns : \A m \in Prompts : d # c \/ m # n => task'[d][m] = task[d][m]
  BY OneTask DEF IInv
<1>2. /\ lastTurn' \in [Conns -> BOOLEAN]
      /\ \A d \in Conns : d # c => lastTurn'[d] = lastTurn[d]
      /\ lastTurn[c] => lastTurn'[c]
      /\ lastTurn'[c] => lastTurn[c] \/ (stage = "kept" /\ InPlace(c, n))
      /\ stage \in {"kept", "ended"} => lastTurn'[c]
  <2>1. lastTurn \in [Conns -> BOOLEAN] /\ (task[c][n] = "kept" => lastTurn[c])
    BY DEF Recorded
  <2>2. CASE stage = "kept" /\ InPlace(c, n) /\ lastTurn' = [lastTurn EXCEPT ![c] = TRUE]
    <3>1. /\ lastTurn' \in [Conns -> BOOLEAN] /\ lastTurn'[c] = TRUE
          /\ \A d \in Conns : d # c => lastTurn'[d] = lastTurn[d]
      BY <2>1, <2>2
    <3>2. QED
      BY <2>2, <3>1, Zenon
  <2>3. CASE stage \in AtWork /\ UNCHANGED lastTurn
    <3>1. stage \notin {"kept", "ended"}
      BY <2>3 DEF AtWork
    <3>2. QED
      BY <2>1, <2>3, <3>1, Zenon
  <2>4. CASE stage = "ended" /\ task[c][n] = "kept" /\ UNCHANGED lastTurn
    BY <2>1, <2>4
  <2>5. QED
    BY <2>2, <2>3, <2>4
<1>3. InPlace(c, n) => conn[c] \notin Early
  BY DEF IInv, SlotIsPlace, TurnPlaces, Early
<1>4. ASSUME NEW d \in Conns
      PROVE  /\ conn[d] \in {"away", "finding"} => ~created[d]
             /\ lastTurn'[d] => conn[d] \notin Early
             /\ \A m \in Prompts : task'[d][m] = "kept" => lastTurn'[d]
             /\ created[d] /\ row = "used" /\ conn[d] \in Serving \ {"release"} =>
                  lastTurn'[d] \/ \E m \in Prompts : task'[d][m] \in AtWork
  <2>1. /\ conn[d] \in {"away", "finding"} => ~created[d]
        /\ lastTurn[d] => conn[d] \notin Early
        /\ \A m \in Prompts : task[d][m] = "kept" => lastTurn[d]
        /\ created[d] /\ row = "used" /\ conn[d] \in Serving \ {"release"} =>
             lastTurn[d] \/ \E m \in Prompts : task[d][m] \in AtWork
    BY DEF Recorded
  <2>2. CASE d # c
    BY <1>1, <1>2, <2>1, <2>2
  <2>3. CASE d = c
    <3>1. lastTurn'[d] => conn[d] \notin Early
      BY <1>2, <1>3, <2>1, <2>3
    <3>2. \A m \in Prompts : task'[d][m] = "kept" => lastTurn'[d]
      BY <1>1, <1>2, <2>1, <2>3
    <3>3. lastTurn'[d] \/ task'[d][n] \in AtWork
      BY <1>1, <1>2, <2>3 DEF Stages, AtWork
    <3>4. QED
      BY <2>1, <3>1, <3>2, <3>3
  <2>4. QED
    BY <2>2, <2>3
<1>5. QED
  BY <1>2, <1>4 DEF Recorded

\* What a session loses on the way out was not recorded.
LEMMA RecordedOut ==
  ASSUME IInv, Recorded, NEW c \in Conns, PrepareFails(c) \/ Finalize(c)
  PROVE  Recorded' /\ (row = "used" => row' = "used")
<1>1. /\ Goes(c, "release") /\ UNCHANGED <<created, lastTurn, task>>
      /\ conn[c] \in {"finding", "preparing", "finalize"}
      /\ row' \in {row, IF created[c] /\ (conn[c] = "finalize" => ~lastTurn[c]) THEN "none" ELSE row}
  BY DEF PrepareFails, Finalize, At, turnVars
<1>2. conn'[c] = "release" /\ \A d \in Conns : d # c => conn'[d] = conn[d]
  BY <1>1 DEF Goes, IInv, Shape
<1>3. \A n \in Prompts : task[c][n] \notin AtWork
  BY <1>1 DEF IInv, SlotIsPlace, InPlace, TurnPlaces, AtWork
<1>4. row = "used" => row' = row
  BY <1>1, <1>3 DEF Recorded, Early, Serving
<1>5. row' = "used" => row = "used"
  BY <1>1
<1>6. ASSUME NEW d \in Conns
      PROVE  /\ conn'[d] \in {"away", "finding"} => ~created[d]
             /\ lastTurn[d] => conn'[d] \notin Early
             /\ created[d] /\ row' = "used" /\ conn'[d] \in Serving \ {"release"} =>
                  lastTurn[d] \/ \E n \in Prompts : task[d][n] \in AtWork
  <2>1. CASE d = c
    BY <1>2, <2>1 DEF Early
  <2>2. CASE d # c
    BY <1>2, <1>5, <2>2 DEF Recorded
  <2>3. QED
    BY <2>1, <2>2
<1>7. UNCHANGED <<created, lastTurn, task>>
  BY <1>1
<1>8. Recorded'
  BY <1>6, <1>7 DEF Recorded
<1>9. QED
  BY <1>4, <1>8

LEMMA RecordedStep ==
  ASSUME IInv, Recorded, [Next]_vars
  PROVE  Recorded' /\ (row = "used" => row' = "used")
<1>1. ASSUME UNCHANGED <<row, created, lastTurn, task, conn>>
      PROVE  Recorded' /\ (row = "used" => row' = "used")
  BY <1>1 DEF Recorded
<1>2. ASSUME NEW c \in Conns, Connect(c)
      PROVE  Recorded' /\ UNCHANGED row
  <2>1. /\ Goes(c, "refused") \/ Goes(c, "finding")
        /\ UNCHANGED <<row, created, lastTurn, task>> /\ conn[c] = "away"
    BY <1>2 DEF Connect, At, turnVars
  <2>2. QED
    BY <2>1, RecordedMoves DEF Early, Serving
<1>3. ASSUME NEW c \in Conns, FindOrCreate(c)
      PROVE  Recorded' /\ (row = "used" => row' = "used")
  <2>1. /\ conn' = [conn EXCEPT ![c] = "preparing"] /\ conn[c] = "finding"
        /\ created' = [created EXCEPT ![c] = row = "none"]
        /\ row' = IF row = "none" THEN "unused" ELSE row
        /\ UNCHANGED <<lastTurn, task>>
    BY <1>3 DEF FindOrCreate, Goes, At, turnVars
  <2>2. /\ conn'[c] = "preparing" /\ \A d \in Conns : d # c => conn'[d] = conn[d]
        /\ created' \in [Conns -> BOOLEAN] /\ (created'[c] <=> row = "none")
        /\ \A d \in Conns : d # c => created'[d] = created[d]
    BY <2>1 DEF IInv, Shape, Recorded
  <2>3. (row' = "used" <=> row = "used")
    BY <2>1
  <2>4. ASSUME NEW d \in Conns
        PROVE  /\ conn'[d] \in {"away", "finding"} => ~created'[d]
               /\ lastTurn[d] => conn'[d] \notin Early
               /\ created'[d] /\ row' = "used" /\ conn'[d] \in Serving \ {"release"} =>
                    lastTurn[d] \/ \E n \in Prompts : task[d][n] \in AtWork
    <3>1. CASE d = c
      BY <2>1, <2>2, <2>3, <3>1 DEF Recorded, Early
    <3>2. CASE d # c
      BY <2>2, <2>3, <3>2 DEF Recorded
    <3>3. QED
      BY <3>1, <3>2
  <2>5. UNCHANGED <<lastTurn, task>>
    BY <2>1
  <2>6. Recorded'
    BY <2>2, <2>4, <2>5 DEF Recorded
  <2>7. QED
    BY <2>3, <2>6
<1>4. ASSUME NEW c \in Conns, Prepare(c) \/ Upgrade(c) \/ DropHandler(c) \/ Disconnect(c)
      PROVE  Recorded' /\ UNCHANGED row
  <2>1. CASE Prepare(c)
    BY <2>1, RecordedMoves DEF Prepare, At, turnVars, Early, Serving
  <2>2. CASE Upgrade(c)
    <3>1. /\ Goes(c, "open") \/ Goes(c, "reject")
          /\ UNCHANGED <<row, created, lastTurn, task>> /\ conn[c] = "prepared"
      BY <2>2 DEF Upgrade, At, turnVars
    <3>2. QED
      BY <3>1, RecordedMoves DEF Early, Serving
  <2>3. CASE DropHandler(c)
    BY <2>3, RecordedMoves DEF DropHandler, turnVars, Early, Serving
  <2>4. CASE Disconnect(c)
    BY <2>4, RecordedMoves DEF Disconnect, At, turnVars, Early, Serving
  <2>5. QED
    BY <1>4, <2>1, <2>2, <2>3, <2>4
<1>5. ASSUME NEW c \in Conns, Reject(c) \/ Stop(c) \/ Join(c) \/ Release(c)
      PROVE  Recorded' /\ UNCHANGED row
  <2>1. CASE Reject(c)
    <3>1. /\ (conn[c] = "reject" /\ Goes(c, "stop")) \/ (conn[c] = "reject again" /\ Goes(c, "finalize"))
          /\ UNCHANGED <<row, created, lastTurn, task>>
      BY <2>1 DEF Reject, At, turnVars
    <3>2. QED
      BY <3>1, RecordedMoves DEF Early, Serving
  <2>2. CASE Stop(c)
    <3>1. /\ Goes(c, "reject again") \/ Goes(c, "join")
          /\ UNCHANGED <<row, created, lastTurn, task>> /\ conn[c] = "stop"
      BY <2>2 DEF Stop, At
    <3>2. QED
      BY <3>1, RecordedMoves DEF Early, Serving
  <2>3. CASE Join(c)
    BY <2>3, RecordedMoves DEF Join, At, Early, Serving
  <2>4. CASE Release(c)
    BY <2>4, RecordedMoves DEF Release, At, turnVars, Early, Serving
  <2>5. QED
    BY <1>5, <2>1, <2>2, <2>3, <2>4
<1>6. ASSUME NEW c \in Conns, Prompt(c) PROVE Recorded' /\ UNCHANGED row
  <2>1. turns[c] + 1 \in Prompts /\ UNCHANGED <<row, created, conn, lastTurn>>
    BY <1>6, NextPrompt DEF Prompt, connVars
  <2>2. CASE slot[c] # 0
    BY <1>1, <1>6, <2>1, <2>2 DEF Prompt
  <2>3. CASE slot[c] = 0
    <3>1. TaskAt(c, turns[c] + 1, "running")
      BY <1>6, <2>3 DEF Prompt
    <3>2. QED
      BY <2>1, <3>1, RecordedTurn DEF AtWork, Stages
  <2>4. QED
    BY <2>2, <2>3
<1>7. ASSUME NEW c \in Conns, CancelTurn(c) \/ Respond(c)
      PROVE  UNCHANGED <<row, created, lastTurn, task, conn>>
  BY <1>7 DEF CancelTurn, Respond, connVars, turnVars
<1>8. ASSUME NEW c \in Conns, NEW n \in Prompts, Write(c, n)
      PROVE  Recorded' /\ row' = "used"
  <2>1. /\ task[c][n] \in AtWork /\ row' = "used"
        /\ UNCHANGED <<created, lastTurn, task, conn>>
    BY <1>8 DEF Write, turnVars, AtWork
  <2>2. Holds(c) /\ \A d \in Conns : Holds(d) => d = c
    BY <2>1 DEF IInv, SlotIsPlace, OneHolder, InPlace, Holds, AtWork, Serving, TurnPlaces
  <2>3. \A d \in Conns : d # c => conn[d] \notin Serving
    BY <2>2 DEF Holds
  <2>4. QED
    BY <2>1, <2>3 DEF Recorded
<1>9. ASSUME NEW c \in Conns, NEW n \in Prompts, Turn(c, n) \/ SoulEnds(c, n)
      PROVE  Recorded' /\ UNCHANGED row
  <2>1. CASE SoulEnds(c, n) \/ CancelSeen(c, n) \/ RunReturns(c, n) \/ SendReply(c, n)
    <3>1. /\ \E stage \in AtWork : TaskAt(c, n, stage)
          /\ UNCHANGED <<row, created, lastTurn, conn>>
      BY <2>1 DEF SoulEnds, CancelSeen, RunReturns, SendReply, connVars, AtWork
    <3>2. QED
      BY <3>1, RecordedTurn DEF AtWork, Stages
  <2>2. CASE KeepState(c, n)
    BY <2>2, RecordedTurn DEF KeepState, connVars, Stages, InPlace
  <2>3. CASE ClearSlot(c, n)
    BY <2>3, RecordedTurn DEF ClearSlot, connVars, Stages
  <2>4. QED
    BY <1>9, <2>1, <2>2, <2>3 DEF Turn
<1>10. ASSUME NEW c \in Conns, NEW n \in Prompts, Ask(c, n) \/ UiLoop(c, n)
       PROVE  UNCHANGED <<row, created, lastTurn, task, conn>>
  BY <1>10 DEF Ask, UiLoop, UiTakes, UiWakes, UiEnds, connVars, turnVars
<1>11. CASE UNCHANGED vars
  BY <1>1, <1>11 DEF vars, connVars, turnVars
<1>12. QED
  BY <1>1, <1>2, <1>3, <1>4, <1>5, <1>6, <1>7, <1>8, <1>9, <1>10, <1>11, RecordedOut
     DEF Next, Handler, Client, Shutdown, Soul

\* A session with recorded events is never deleted, by a failed start or by the
\* last client to leave, for any clients and turns. (finalize_session and
\* create_rpc, server.rs:622-665, 849-911)
THEOREM UsedKept == Spec => UsedSessionIsKept
<1>1. IInv /\ Recorded /\ [Next]_vars => [row = "used" => row' = "used"]_row
  BY RecordedStep
<1>2. IInv /\ Recorded /\ [Next]_vars => Recorded'
  BY RecordedStep
<1>3. QED
  BY <1>1, <1>2, Invariant, RecordedInit, PTL DEF Spec, UsedSessionIsKept
-----------------------------------------------------------------------------
(* What the clients are asked.                                                *)

UiPlaces == {"none", "read", "asking", "done"}

AskShape ==
  /\ ui \in [Conns -> [Prompts -> UiPlaces]]
  /\ asked \in [Conns -> [Prompts -> 0 .. MaxAsks]]
  /\ taken \in [Conns -> [Prompts -> Nat]]
  /\ pending \in [Conns -> SUBSET Requests] /\ settled \in [Conns -> SUBSET Requests]

\* The UI loop takes the requests one by one, and only taken ones are settled, so
\* that the next one is not; a prompt that was not handled has no UI loop.
InTurnAsked ==
  \A c \in Conns :
    /\ \A n \in Prompts : taken[c][n] <= asked[c][n]
    /\ \A n \in Prompts : n > turns[c] => ui[c][n] = "none"
    /\ \A r \in settled[c] : r[2] <= taken[c][r[1]]

AskInv == AskShape /\ InTurnAsked /\ PendingIsAwaited

\* A request is the k-th of a turn.
LEMMA RequestIs ==
  /\ \A r \in Requests : r[1] \in Prompts /\ r[2] \in 1 .. MaxAsks /\ r = <<r[1], r[2]>>
  /\ \A n \in Prompts : \A k \in 1 .. MaxAsks : <<n, k>> \in Requests
BY DEF Requests

\* A change of one entry of a table of tables, or of one set of a table.
LEMMA OneEntry ==
  ASSUME NEW S, NEW f \in [Conns -> [Prompts -> S]], NEW c \in Conns, NEW n \in Prompts,
         NEW v \in S, NEW g, g = [f EXCEPT ![c][n] = v]
  PROVE  /\ g \in [Conns -> [Prompts -> S]] /\ g[c][n] = v
         /\ \A d \in Conns : \A m \in Prompts : d # c \/ m # n => g[d][m] = f[d][m]
<1>1. g = [f EXCEPT ![c] = [f[c] EXCEPT ![n] = v]]
  OBVIOUS
<1>2. [f[c] EXCEPT ![n] = v] \in [Prompts -> S]
  OBVIOUS
<1>3. QED
  BY <1>1, <1>2

LEMMA OneSet ==
  ASSUME NEW f \in [Conns -> SUBSET Requests], NEW c \in Conns, NEW v \in SUBSET Requests,
         NEW g, g = [f EXCEPT ![c] = v]
  PROVE  /\ g \in [Conns -> SUBSET Requests] /\ g[c] = v
         /\ \A d \in Conns : d # c => g[d] = f[d]
OBVIOUS

LEMMA AskStands ==
  ASSUME AskInv, UNCHANGED <<askVars, turns, asked>> PROVE AskInv'
BY DEF AskInv, AskShape, InTurnAsked, PendingIsAwaited, askVars

\* A step of one connection says nothing of the others.
LEMMA AskOthers ==
  ASSUME AskInv, NEW c \in Conns,
         \A d \in Conns : d # c =>
           /\ ui'[d] = ui[d] /\ asked'[d] = asked[d] /\ taken'[d] = taken[d]
           /\ pending'[d] = pending[d] /\ settled'[d] = settled[d] /\ turns'[d] = turns[d],
         AskShape',
         \A n \in Prompts : taken'[c][n] <= asked'[c][n],
         \A n \in Prompts : n > turns'[c] => ui'[c][n] = "none",
         \A r \in settled'[c] : r[2] <= taken'[c][r[1]],
         \A r \in Requests :
           r \in pending'[c] <=>
             ui'[c][r[1]] = "asking" /\ taken'[c][r[1]] = r[2] /\ r \notin settled'[c]
  PROVE  AskInv'
<1>1. InTurnAsked'
  BY DEF AskInv, InTurnAsked
<1>2. PendingIsAwaited'
  BY DEF AskInv, PendingIsAwaited
<1>3. QED
  BY <1>1, <1>2 DEF AskInv

LEMMA AskInit == Init => AskInv
<1> SUFFICES ASSUME Init PROVE AskInv
  OBVIOUS
<1>1. AskShape
  BY WireServerAssumption DEF Init, AskShape, UiPlaces, WireServerAssumption
<1>2. InTurnAsked
  <2>1. \A c \in Conns : settled[c] = {} /\ \A n \in Prompts :
          taken[c][n] = 0 /\ asked[c][n] = 0 /\ ui[c][n] = "none"
    BY DEF Init
  <2>2. \A c \in Conns : \A n \in Prompts : taken[c][n] <= asked[c][n]
    BY <2>1
  <2>3. QED
    BY <2>1, <2>2, Zenon DEF InTurnAsked
<1>3. PendingIsAwaited
  BY RequestIs DEF Init, PendingIsAwaited
<1>4. QED
  BY <1>1, <1>2, <1>3 DEF AskInv

LEMMA AskPrompt ==
  ASSUME Shape, AskInv, NEW c \in Conns, Prompt(c) PROVE AskInv'
<1> DEFINE n == turns[c] + 1
<1>1. /\ turns' = [turns EXCEPT ![c] = n] /\ turns[c] < Limit[c]
      /\ UNCHANGED <<asked, taken, pending, settled>>
      /\ ui' = ui \/ ui' = [ui EXCEPT ![c][n] = "read"]
  BY DEF Prompt
<1>2. turns \in [Conns -> Nat] /\ n \in Prompts
  BY <1>1, PromptNumbers DEF Shape
<1>3. n \in Nat /\ n > turns[c]
  BY <1>2
<1>4. turns'[c] = n /\ \A d \in Conns : d # c => turns'[d] = turns[d]
  BY <1>1, <1>2
<1> HIDE DEF n
<1>5. /\ ui' \in [Conns -> [Prompts -> UiPlaces]] /\ ui'[c][n] # "asking"
      /\ \A d \in Conns : \A m \in Prompts : d # c \/ m # n => ui'[d][m] = ui[d][m]
  <2>1. ui \in [Conns -> [Prompts -> UiPlaces]] /\ ui[c][n] = "none" /\ "read" \in UiPlaces
    BY <1>2, <1>3 DEF AskInv, AskShape, InTurnAsked, UiPlaces
  <2>2. CASE ui' = ui
    BY <2>1, <2>2
  <2>3. CASE ui' = [ui EXCEPT ![c][n] = "read"]
    BY <1>2, <2>1, <2>3, OneEntry
  <2>4. QED
    BY <1>1, <2>2, <2>3
<1>6. AskShape'
  BY <1>1, <1>5 DEF AskInv, AskShape
<1>7. InTurnAsked'
  <2> SUFFICES ASSUME NEW d \in Conns, NEW m \in Prompts, m > turns'[d]
               PROVE  ui'[d][m] = "none"
    BY <1>1 DEF AskInv, InTurnAsked
  <2>1. m \in Nat /\ m > turns[d] /\ (d # c \/ m # n)
    BY <1>2, <1>3, <1>4, PromptNumbers
  <2>2. QED
    BY <1>5, <2>1 DEF AskInv, InTurnAsked
<1>8. PendingIsAwaited'
  <2> SUFFICES ASSUME NEW d \in Conns, NEW r \in Requests
               PROVE  ui'[d][r[1]] = "asking" <=> ui[d][r[1]] = "asking"
    BY <1>1 DEF AskInv, PendingIsAwaited
  <2>1. r[1] \in Prompts
    BY RequestIs
  <2>2. ui[c][n] = "none"
    BY <1>2, <1>3 DEF AskInv, InTurnAsked
  <2>3. CASE d = c /\ r[1] = n
    BY <1>5, <2>2, <2>3
  <2>4. CASE d # c \/ r[1] # n
    BY <1>5, <2>1, <2>4
  <2>5. QED
    BY <2>3, <2>4
<1>9. QED
  BY <1>6, <1>7, <1>8 DEF AskInv

\* What a client answers, or shutdown rejects, was pending.
LEMMA AskSettled ==
  ASSUME AskInv, NEW c \in Conns, NEW R \in SUBSET pending[c],
         pending' = [pending EXCEPT ![c] = pending[c] \ R],
         settled' = [settled EXCEPT ![c] = settled[c] \cup R],
         UNCHANGED <<ui, asked, taken, turns>>
  PROVE  AskInv'
<1>1. pending \in [Conns -> SUBSET Requests] /\ settled \in [Conns -> SUBSET Requests]
  BY DEF AskInv, AskShape
<1>2. /\ pending' \in [Conns -> SUBSET Requests] /\ pending'[c] = pending[c] \ R
      /\ \A d \in Conns : d # c => pending'[d] = pending[d]
  BY <1>1, OneSet
<1>3. /\ settled' \in [Conns -> SUBSET Requests] /\ settled'[c] = settled[c] \cup R
      /\ \A d \in Conns : d # c => settled'[d] = settled[d]
  BY <1>1, OneSet
<1>4. AskShape'
  BY <1>2, <1>3 DEF AskInv, AskShape
<1>5. \A r \in pending[c] : r \in Requests /\ r[2] = taken[c][r[1]] /\ ui[c][r[1]] = "asking"
  BY <1>1 DEF AskInv, PendingIsAwaited
<1>6. \A r \in settled'[c] : r[2] <= taken'[c][r[1]]
  <2> SUFFICES ASSUME NEW r \in settled'[c] PROVE r[2] <= taken[c][r[1]]
    OBVIOUS
  <2>1. CASE r \in settled[c]
    BY <2>1 DEF AskInv, InTurnAsked
  <2>2. CASE r \in R
    <3>1. r[2] = taken[c][r[1]] /\ r[2] \in 1 .. MaxAsks
      BY <1>5, <2>2, RequestIs
    <3>2. QED
      BY <3>1
  <2>3. QED
    BY <1>3, <2>1, <2>2
<1>7. \A r \in Requests :
        r \in pending'[c] <=>
          ui'[c][r[1]] = "asking" /\ taken'[c][r[1]] = r[2] /\ r \notin settled'[c]
  BY <1>2, <1>3 DEF AskInv, PendingIsAwaited
<1>8. /\ \A n \in Prompts : taken'[c][n] <= asked'[c][n]
      /\ \A n \in Prompts : n > turns'[c] => ui'[c][n] = "none"
  BY DEF AskInv, InTurnAsked
<1>9. QED
  BY <1>2, <1>3, <1>4, <1>6, <1>7, <1>8, AskOthers

LEMMA AskAsks ==
  ASSUME AskInv, NEW c \in Conns, NEW n \in Prompts, Ask(c, n) PROVE AskInv'
<1>1. /\ asked' = [asked EXCEPT ![c][n] = asked[c][n] + 1] /\ asked[c][n] < MaxAsks
      /\ UNCHANGED <<ui, taken, pending, settled, turns>>
  BY DEF Ask, askVars
<1>2. asked \in [Conns -> [Prompts -> 0 .. MaxAsks]] /\ asked[c][n] + 1 \in 0 .. MaxAsks
  BY <1>1, WireServerAssumption DEF AskInv, AskShape, WireServerAssumption
<1>3. /\ asked' \in [Conns -> [Prompts -> 0 .. MaxAsks]] /\ asked'[c][n] = asked[c][n] + 1
      /\ \A d \in Conns : \A m \in Prompts : d # c \/ m # n => asked'[d][m] = asked[d][m]
  BY <1>1, <1>2, OneEntry
<1>4. AskShape'
  BY <1>1, <1>3 DEF AskInv, AskShape
<1>5. InTurnAsked'
  <2> SUFFICES ASSUME NEW d \in Conns, NEW m \in Prompts PROVE taken[d][m] <= asked'[d][m]
    BY <1>1 DEF AskInv, InTurnAsked
  <2>1. taken[d][m] <= asked[d][m] /\ taken[d][m] \in Nat /\ asked[d][m] \in 0 .. MaxAsks
    BY DEF AskInv, AskShape, InTurnAsked
  <2>2. QED
    BY <1>3, <2>1
<1>6. QED
  BY <1>1, <1>4, <1>5 DEF AskInv, PendingIsAwaited

LEMMA AskTakes ==
  ASSUME Shape, AskInv, NEW c \in Conns, NEW n \in Prompts, UiTakes(c, n) PROVE AskInv'
<1> DEFINE k == taken[c][n] + 1
<1>1. /\ ui[c][n] = "read" /\ taken[c][n] < asked[c][n]
      /\ taken' = [taken EXCEPT ![c][n] = k]
      /\ pending' = [pending EXCEPT ![c] = pending[c] \cup {<<n, k>>}]
      /\ ui' = [ui EXCEPT ![c][n] = "asking"]
      /\ UNCHANGED <<asked, settled, turns>>
  BY DEF UiTakes, turnVars
<1>2. taken[c][n] \in Nat /\ asked[c][n] \in 0 .. MaxAsks /\ MaxAsks \in Nat
  BY WireServerAssumption DEF AskInv, AskShape, WireServerAssumption
<1>3. k \in 1 .. MaxAsks /\ k \in Nat /\ k <= asked[c][n] /\ ~(k <= taken[c][n]) /\ taken[c][n] <= k
  BY <1>1, <1>2
<1> HIDE DEF k
<1>4. <<n, k>> \in Requests
  BY <1>3, RequestIs
<1>5. /\ taken' \in [Conns -> [Prompts -> Nat]] /\ taken'[c][n] = k
      /\ \A d \in Conns : \A m \in Prompts : d # c \/ m # n => taken'[d][m] = taken[d][m]
  BY <1>1, <1>3, OneEntry DEF AskInv, AskShape
<1>6. /\ ui' \in [Conns -> [Prompts -> UiPlaces]] /\ ui'[c][n] = "asking"
      /\ \A d \in Conns : \A m \in Prompts : d # c \/ m # n => ui'[d][m] = ui[d][m]
  <2>1. ui \in [Conns -> [Prompts -> UiPlaces]] /\ "asking" \in UiPlaces
    BY DEF AskInv, AskShape, UiPlaces
  <2>2. QED
    BY <1>1, <2>1, OneEntry
<1>7. /\ pending' \in [Conns -> SUBSET Requests] /\ pending'[c] = pending[c] \cup {<<n, k>>}
      /\ \A d \in Conns : d # c => pending'[d] = pending[d]
  <2>1. pending \in [Conns -> SUBSET Requests] /\ pending[c] \cup {<<n, k>>} \in SUBSET Requests
    BY <1>4 DEF AskInv, AskShape
  <2>2. QED
    BY <1>1, <2>1, OneSet
<1>8. AskShape'
  BY <1>1, <1>5, <1>6, <1>7 DEF AskInv, AskShape
<1>9. n <= turns[c]
  <2>1. ~(n > turns[c])
    BY <1>1 DEF AskInv, InTurnAsked
  <2>2. QED
    BY <2>1, PromptNumbers DEF Shape
<1>10. InTurnAsked'
  <2>1. ASSUME NEW d \in Conns, NEW m \in Prompts PROVE taken'[d][m] <= asked'[d][m]
    BY <1>1, <1>3, <1>5 DEF AskInv, InTurnAsked
  <2>2. ASSUME NEW d \in Conns, NEW m \in Prompts, m > turns'[d] PROVE ui'[d][m] = "none"
    BY <1>1, <1>6, <2>2 DEF AskInv, InTurnAsked
  <2>3. ASSUME NEW d \in Conns, NEW r \in settled'[d] PROVE r[2] <= taken'[d][r[1]]
    <3>1. r \in Requests /\ r[2] <= taken[d][r[1]]
      BY <1>1 DEF AskInv, AskShape, InTurnAsked
    <3>2. r[1] \in Prompts /\ r[2] \in Nat /\ taken[d][r[1]] \in Nat
      BY <3>1, RequestIs DEF AskInv, AskShape
    <3>3. CASE d = c /\ r[1] = n
      BY <1>2, <1>3, <1>5, <3>1, <3>2, <3>3
    <3>4. CASE d # c \/ r[1] # n
      BY <1>5, <3>1, <3>2, <3>4
    <3>5. QED
      BY <3>3, <3>4
  <2>4. QED
    BY <2>1, <2>2, <2>3 DEF InTurnAsked
<1>11. PendingIsAwaited'
  <2> SUFFICES ASSUME NEW d \in Conns, NEW r \in Requests
               PROVE  r \in pending'[d] <=>
                        ui'[d][r[1]] = "asking" /\ taken'[d][r[1]] = r[2] /\ r \notin settled[d]
    BY <1>1 DEF PendingIsAwaited
  <2>1. r[1] \in Prompts /\ r[2] \in Nat /\ r = <<r[1], r[2]>>
    BY RequestIs
  <2>2. r \in pending[d] <=>
          ui[d][r[1]] = "asking" /\ taken[d][r[1]] = r[2] /\ r \notin settled[d]
    BY DEF AskInv, PendingIsAwaited
  <2>3. CASE d = c /\ r[1] = n
    <3>1. r \notin pending[c]
      BY <1>1, <2>2, <2>3
    <3>2. r \in pending'[c] <=> r[2] = k
      BY <1>7, <2>1, <2>3, <3>1
    <3>3. r[2] = k => r \notin settled[c]
      BY <1>3, <2>3 DEF AskInv, InTurnAsked
    <3>4. QED
      BY <1>5, <1>6, <2>3, <3>2, <3>3
  <2>4. CASE d = c /\ r[1] # n
    <3>1. r \in pending'[c] <=> r \in pending[c]
      BY <1>7, <2>1, <2>4
    <3>2. QED
      BY <1>5, <1>6, <2>1, <2>2, <2>4, <3>1
  <2>5. CASE d # c
    BY <1>5, <1>6, <1>7, <2>1, <2>2, <2>5
  <2>6. QED
    BY <2>3, <2>4, <2>5
<1>12. QED
  BY <1>8, <1>10, <1>11 DEF AskInv

LEMMA AskRests ==
  ASSUME AskInv, NEW c \in Conns, NEW n \in Prompts, UiWakes(c, n) \/ UiEnds(c, n) PROVE AskInv'
<1>1. PICK place \in {"read", "done"} : ui' = [ui EXCEPT ![c][n] = place]
  BY DEF UiWakes, UiEnds
<1>2. /\ UNCHANGED <<asked, taken, pending, settled, turns>>
      /\ ui[c][n] # "none" /\ (ui[c][n] = "asking" => <<n, taken[c][n]>> \in settled[c])
  BY DEF UiWakes, UiEnds, turnVars
<1>3. /\ ui' \in [Conns -> [Prompts -> UiPlaces]] /\ ui'[c][n] = place
      /\ \A d \in Conns : \A m \in Prompts : d # c \/ m # n => ui'[d][m] = ui[d][m]
  <2>1. ui \in [Conns -> [Prompts -> UiPlaces]] /\ place \in UiPlaces
    BY DEF AskInv, AskShape, UiPlaces
  <2>2. QED
    BY <1>1, <2>1, OneEntry
<1>4. AskShape'
  BY <1>2, <1>3 DEF AskInv, AskShape
<1>5. InTurnAsked'
  <2> SUFFICES ASSUME NEW d \in Conns, NEW m \in Prompts, m > turns[d] PROVE ui'[d][m] = "none"
    BY <1>2 DEF AskInv, InTurnAsked
  <2>1. ui[d][m] = "none"
    BY DEF AskInv, InTurnAsked
  <2>2. QED
    BY <1>2, <1>3, <2>1
<1>6. PendingIsAwaited'
  <2> SUFFICES ASSUME NEW d \in Conns, NEW r \in Requests
               PROVE  r \in pending[d] <=>
                        ui'[d][r[1]] = "asking" /\ taken[d][r[1]] = r[2] /\ r \notin settled[d]
    BY <1>2 DEF PendingIsAwaited
  <2>1. r[1] \in Prompts /\ r = <<r[1], r[2]>>
    BY RequestIs
  <2>2. r \in pending[d] <=>
          ui[d][r[1]] = "asking" /\ taken[d][r[1]] = r[2] /\ r \notin settled[d]
    BY DEF AskInv, PendingIsAwaited
  <2>3. CASE d = c /\ r[1] = n
    BY <1>2, <1>3, <2>1, <2>2, <2>3
  <2>4. CASE d # c \/ r[1] # n
    BY <1>3, <2>1, <2>2, <2>4
  <2>5. QED
    BY <2>3, <2>4
<1>7. QED
  BY <1>4, <1>5, <1>6 DEF AskInv

LEMMA AskStep == Shape /\ AskInv /\ [Next]_vars => AskInv'
<1> SUFFICES ASSUME Shape, AskInv, [Next]_vars PROVE AskInv'
  OBVIOUS
<1>1. CASE UNCHANGED <<askVars, turns, asked>>
  BY <1>1, AskStands
<1>2. ASSUME NEW c \in Conns, Handler(c) PROVE AskInv'
  BY <1>1, <1>2 DEF Handler, FindOrCreate, Prepare, PrepareFails, Upgrade, turnVars
<1>3. ASSUME NEW c \in Conns, Client(c) PROVE AskInv'
  <2>1. CASE Prompt(c)
    BY <2>1, AskPrompt
  <2>2. CASE Respond(c)
    <3>1. PICK r \in pending[c] :
            /\ pending' = [pending EXCEPT ![c] = pending[c] \ {r}]
            /\ settled' = [settled EXCEPT ![c] = settled[c] \cup {r}]
            /\ UNCHANGED <<ui, asked, taken, turns>>
      BY <2>2 DEF Respond, turnVars
    <3>2. {r} \in SUBSET pending[c]
      OBVIOUS
    <3>3. QED
      BY <3>1, <3>2, AskSettled
  <2>3. QED
    BY <1>1, <1>3, <2>1, <2>2 DEF Client, Connect, DropHandler, CancelTurn, Disconnect, turnVars
<1>4. ASSUME NEW c \in Conns, Shutdown(c) PROVE AskInv'
  <2>1. CASE Reject(c)
    <3>1. /\ settled' = [settled EXCEPT ![c] = settled[c] \cup pending[c]]
          /\ pending' = [pending EXCEPT ![c] = pending[c] \ pending[c]]
          /\ UNCHANGED <<ui, asked, taken, turns>>
      BY <2>1 DEF Reject, turnVars
    <3>2. QED
      BY <3>1, AskSettled
  <2>2. QED
    BY <1>1, <1>4, <2>1 DEF Shutdown, Stop, Join, Finalize, Release, turnVars
<1>5. ASSUME NEW c \in Conns, NEW n \in Prompts, Soul(c, n) PROVE AskInv'
  <2>1. CASE Ask(c, n)
    BY <2>1, AskAsks
  <2>2. QED
    BY <1>1, <1>5, <2>1 DEF Soul, Write, SoulEnds, turnVars
<1>6. ASSUME NEW c \in Conns, NEW n \in Prompts, Turn(c, n) PROVE AskInv'
  BY <1>1, <1>6 DEF Turn, CancelSeen, RunReturns, SendReply, KeepState, ClearSlot
<1>7. ASSUME NEW c \in Conns, NEW n \in Prompts, UiLoop(c, n) PROVE AskInv'
  BY <1>7, AskTakes, AskRests DEF UiLoop
<1>8. CASE UNCHANGED vars
  BY <1>1, <1>8 DEF vars, turnVars
<1>9. QED
  BY <1>2, <1>3, <1>4, <1>5, <1>6, <1>7, <1>8 DEF Next

\* No answer of a client goes nowhere, and no UI loop waits for an answer that
\* cannot come: the pending requests are those that are waited for.
THEOREM AwaitedIsPending == Spec => []PendingIsAwaited
<1>1. IInv => Shape
  BY DEF IInv
<1>2. QED
  BY <1>1, Invariant, AskInit, AskStep, PTL DEF Spec, AskInv
=============================================================================
