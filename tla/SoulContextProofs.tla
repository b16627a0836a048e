-------------------------- MODULE SoulContextProofs --------------------------
(***************************************************************************)
(* Theorems about the conversation of one soul, for every bound, every     *)
(* number of tools and the faults that each theorem allows:                *)
(*   CheckpointsOrdered  checkpoint ids grow in the order of the events;   *)
(*   MemoryRestorable    memory is what the stored events restore;         *)
(*   CallsStayAnswered   the model is sent calls with their results;       *)
(*   DmailsStayInStep    a D-Mail does not outlive the step that sent it;  *)
(*   DmailsLand          an accepted D-Mail arrives at its checkpoint.     *)
(***************************************************************************)
EXTENDS SoulContext, TLAPS, FiniteSetTheorems, WellFoundedInduction

IsSeq(s) == \E S : s \in Seq(S)

Ids(s) == Where("checkpoint", s)

Ordered(s) ==
  /\ IsSeq(s)
  /\ \A i \in Ids(s) : s[i].body \in Nat
  /\ \A i, j \in Ids(s) : i < j => s[i].body < s[j].body

Below(s, n) == \A i \in Ids(s) : s[i].body < n

-----------------------------------------------------------------------------
(* Sequences and the greatest index of a set of indices.                   *)

LEMMA ConcatParts ==
  ASSUME NEW s, NEW t, IsSeq(s), IsSeq(t)
  PROVE  /\ IsSeq(s \o t) /\ Len(s) \in Nat /\ Len(t) \in Nat
         /\ Len(s \o t) = Len(s) + Len(t)
         /\ \A i \in 1 .. Len(s) : (s \o t)[i] = s[i]
         /\ \A i \in 1 .. Len(t) : (s \o t)[Len(s) + i] = t[i]
<1>1. PICK S : s \in Seq(S)
  BY DEF IsSeq
<1>2. PICK T : t \in Seq(T)
  BY DEF IsSeq
<1>3. s \in Seq(S \cup T) /\ t \in Seq(S \cup T)
  BY <1>1, <1>2
<1>4. s \o t \in Seq(S \cup T)
  BY <1>3
<1>5. QED
  BY <1>3, <1>4 DEF IsSeq

LEMMA AppendOne ==
  ASSUME NEW s, IsSeq(s), NEW x
  PROVE  LET t == s \o <<x>>
         IN  /\ IsSeq(t) /\ Len(s) \in Nat /\ Len(t) = Len(s) + 1
             /\ \A i \in 1 .. Len(s) : t[i] = s[i]
             /\ t[Len(s) + 1] = x
<1>1. PICK S : s \in Seq(S)
  BY DEF IsSeq
<1>2. s \in Seq(S \cup {x}) /\ <<x>> \in Seq(S \cup {x})
  BY <1>1
<1>3. s \o <<x>> \in Seq(S \cup {x})
  BY <1>2
<1>4. QED
  BY <1>2, <1>3 DEF IsSeq

LEMMA SubSeqParts ==
  ASSUME NEW s, IsSeq(s), NEW n \in Nat, n <= Len(s)
  PROVE  /\ IsSeq(SubSeq(s, 1, n)) /\ Len(SubSeq(s, 1, n)) = n
         /\ \A i \in 1 .. n : SubSeq(s, 1, n)[i] = s[i]
<1>1. PICK S : s \in Seq(S)
  BY DEF IsSeq
<1>2. SubSeq(s, 1, n) \in Seq(S)
  BY <1>1
<1>3. QED
  BY <1>1, <1>2 DEF IsSeq

LEMMA OneIsSeq == ASSUME NEW x PROVE IsSeq(<<x>>) /\ IsSeq(<<>>)
<1>1. <<x>> \in Seq({x}) /\ <<>> \in Seq({x})
  OBVIOUS
<1>2. QED
  BY <1>1 DEF IsSeq

\* A set of naturals that is not empty has a least element ...
LEMMA LeastExists ==
  ASSUME NEW T \in SUBSET Nat, T # {}
  PROVE  \E x \in T : \A y \in T : x <= y
<1> DEFINE R == {ss \in Nat \X Nat : ss[1] < ss[2]}
<1>1. IsWellFoundedOn(R, Nat)
  BY NatLessThanWellFounded DEF OpToRel
<1>2. PICK x \in T : \A y \in T : ~ (<<y, x>> \in R)
  <2> HIDE DEF R
  <2> QED
    BY <1>1, WFMin, Zenon
<1>3. ASSUME NEW y \in T PROVE x <= y
  <2>1. <<y, x>> \notin R /\ <<y, x>> \in Nat \X Nat
    BY <1>2
  <2>2. ~ (y < x)
    BY <2>1
  <2>3. QED
    BY <2>2
<1>4. QED
  BY <1>3

\* ... so a set of indices has a greatest one.
LEMMA GreatestIs ==
  ASSUME NEW n \in Nat, NEW I \in SUBSET (1 .. n), I # {}
  PROVE  Greatest(I) \in I /\ \A j \in I : j <= Greatest(I)
<1> DEFINE T == {n - i : i \in I}
<1>1. T \in SUBSET Nat /\ T # {}
  <2>1. \A i \in I : n - i \in Nat
    OBVIOUS
  <2>2. QED
    BY <2>1
<1>2. PICK x \in T : \A y \in T : x <= y
  BY <1>1, LeastExists
<1>3. PICK k \in I : x = n - k
  BY <1>2
<1>4. \A j \in I : j <= k
  <2>1. \A j \in I : n - k <= n - j
    BY <1>2, <1>3
  <2>2. QED
    BY <2>1
<1> HIDE DEF T
<1>5. \E i \in I : \A j \in I : j <= i
  BY <1>4
<1>6. QED
  BY <1>5, Zenon DEF Greatest

-----------------------------------------------------------------------------
(* What transactions do to the stored checkpoints.                         *)

\* Events that are not checkpoints leave the ids as they are.
LEMMA AppendOthers ==
  ASSUME NEW s, NEW t, Ordered(s), IsSeq(t), Ids(t) = {}
  PROVE  Ordered(s \o t) /\ \A n \in Nat : Below(s, n) => Below(s \o t, n)
<1>1. \A i \in Ids(s \o t) : i \in Ids(s) /\ (s \o t)[i] = s[i]
  BY ConcatParts DEF Ordered, Ids, Where
<1>2. IsSeq(s \o t)
  BY ConcatParts DEF Ordered
<1>3. QED
  BY <1>1, <1>2 DEF Ordered, Below

\* A checkpoint above all others keeps the order.
LEMMA AppendCheckpoint ==
  ASSUME NEW s, Ordered(s), NEW n \in Nat, Below(s, n)
  PROVE  LET t == s \o <<Row("checkpoint", n)>> IN Ordered(t) /\ Below(t, n + 1)
<1> DEFINE t == s \o <<Row("checkpoint", n)>>
<1>2. /\ IsSeq(t) /\ Len(s) \in Nat /\ Len(t) = Len(s) + 1
      /\ \A i \in 1 .. Len(s) : t[i] = s[i]
      /\ t[Len(s) + 1] = Row("checkpoint", n)
  BY AppendOne DEF Ordered
<1> HIDE DEF t
<1>3. \A i \in Ids(t) : (i \in Ids(s) /\ t[i] = s[i]) \/ (i = Len(s) + 1 /\ t[i].body = n)
  BY <1>2 DEF Ids, Where, Row
<1>4. \A i \in Ids(t) : t[i].body \in Nat /\ t[i].body < n + 1
  BY <1>3 DEF Ordered, Below
<1>5. \A i, j \in Ids(t) : i < j => t[i].body < t[j].body
  <2> SUFFICES ASSUME NEW i \in Ids(t), NEW j \in Ids(t), i < j PROVE t[i].body < t[j].body
    OBVIOUS
  <2>1. i \in Ids(s) /\ t[i] = s[i]
    BY <1>2, <1>3 DEF Ids, Where
  <2>2. QED
    BY <1>3, <2>1 DEF Ordered, Below
<1>6. QED
  BY <1>2, <1>4, <1>5 DEF Ordered, Below, t

\* So does cutting events off.
LEMMA CutOff ==
  ASSUME NEW s, Ordered(s), NEW n \in Nat, n <= Len(s)
  PROVE  /\ Ordered(SubSeq(s, 1, n))
         /\ \A m \in Nat : Below(s, m) => Below(SubSeq(s, 1, n), m)
<1> DEFINE t == SubSeq(s, 1, n)
<1>1. IsSeq(t) /\ Len(t) = n /\ \A i \in 1 .. n : t[i] = s[i]
  BY SubSeqParts DEF Ordered
<1>2. Len(s) \in Nat
  BY DEF Ordered, IsSeq
<1> HIDE DEF t
<1>3. \A i \in Ids(t) : i \in Ids(s) /\ t[i] = s[i]
  BY <1>1, <1>2 DEF Ids, Where
<1>4. Ordered(t) /\ \A m \in Nat : Below(s, m) => Below(t, m)
  BY <1>1, <1>3 DEF Ordered, Below
<1>5. QED
  BY <1>4 DEF t

\* Context::restore takes the last id, and it is the highest.
LEMMA RestoredIdIsNew ==
  ASSUME NEW s, Ordered(s)
  PROVE  Checkpoints(s) \in Nat /\ Below(s, Checkpoints(s))
<1>1. Len(s) \in Nat
  BY DEF Ordered, IsSeq
<1>2. CASE Ids(s) = {}
  BY <1>2 DEF Checkpoints, Ids, Below
<1>3. CASE Ids(s) # {}
  <2> DEFINE last == Greatest(Ids(s))
  <2>1. last \in Ids(s) /\ \A j \in Ids(s) : j <= last
    BY <1>1, <1>3, GreatestIs DEF Ids, Where
  <2>2. Checkpoints(s) = s[last].body + 1
    BY <1>3 DEF Checkpoints, Ids, LastOf
  <2> HIDE DEF last
  <2>3. s[last].body \in Nat
    BY <2>1 DEF Ordered
  <2>4. \A j \in Ids(s) : j \in Nat /\ s[j].body \in Nat
    BY <1>1 DEF Ids, Where, Ordered
  <2>5. \A j \in Ids(s) : j < last \/ j = last
    BY <2>1, <2>4
  <2>6. \A j \in Ids(s) : s[j].body <= s[last].body
    BY <2>1, <2>3, <2>4, <2>5 DEF Ordered
  <2>7. QED
    BY <2>2, <2>3, <2>4, <2>6 DEF Below
<1>4. QED
  BY <1>2, <1>3

-----------------------------------------------------------------------------
(* The inductive invariant.                                                *)

\* The memory is made of sequences, labels and counts.
Shape ==
  /\ IsSeq(history) /\ IsSeq(compacted)
  /\ nextId \in Nat /\ cut \in Nat /\ answer.calls \in Nat
  /\ pc \in Labels /\ ret \in {"user", "model", "summary", "dmail", "idle"}
  /\ pc = "checkpoint" => nextId > 0

\* The ids taken so far: the one of a checkpoint on its way is not stored yet.
Taken == nextId - (IF pc = "checkpoint" THEN 1 ELSE 0)

StoredInv == Ordered(stored) /\ (~Rebuilding => Below(stored, Taken))

\* A transaction that commits without a new id, or with one above all others.
Harmless(op) ==
  \/ op.keep \in Nat
  \/ op.keep = None /\ IsSeq(op.put) /\ Ids(op.put) = {}
  \/ /\ op.keep = None
     /\ \E n \in Nat : op.put = <<Row("checkpoint", n)>> /\ Below(stored, n) /\ n < nextId

LateInv == late = {} \/ (pc = "idle" /\ \E op : late = {op} /\ Harmless(op))

IdsInv == Shape /\ StoredInv /\ LateInv

NoInterruptedRewind == "restore" \notin FailAt \cup CancelAt /\ MaySlow = FALSE

USE SoulContextAssumption DEF SoulContextAssumption, Rebuilding

\* A harmless transaction keeps the stored ids in order, below the bounds.
LEMMA CommitHarmless ==
  ASSUME Ordered(stored), nextId \in Nat, NEW op, Harmless(op)
  PROVE  /\ Ordered(Committed(op, stored))
         /\ Below(stored, nextId) => Below(Committed(op, stored), nextId)
         /\ op.keep \in Nat \/ op.keep = None
<1>1. CASE op.keep \in Nat
  <2> DEFINE n == IF op.keep < Len(stored) THEN op.keep ELSE Len(stored)
  <2>1. Len(stored) \in Nat
    BY DEF Ordered, IsSeq
  <2>2. n \in Nat /\ n <= Len(stored) /\ op.keep # None
    BY <1>1, <2>1
  <2>3. Committed(op, stored) = SubSeq(stored, 1, n)
    BY <2>2 DEF Committed
  <2> HIDE DEF n
  <2>4. QED
    BY <1>1, <2>2, <2>3, CutOff
<1>2. CASE op.keep = None /\ IsSeq(op.put) /\ Ids(op.put) = {}
  BY <1>2, AppendOthers DEF Committed
<1>3. CASE op.keep = None /\ \E n \in Nat :
             op.put = <<Row("checkpoint", n)>> /\ Below(stored, n) /\ n < nextId
  <2>1. PICK n \in Nat : op.put = <<Row("checkpoint", n)>> /\ Below(stored, n) /\ n < nextId
    BY <1>3
  <2>2. Committed(op, stored) = stored \o <<Row("checkpoint", n)>>
    BY <1>3, <2>1 DEF Committed
  <2>3. Ordered(Committed(op, stored)) /\ Below(Committed(op, stored), n + 1)
    BY <2>1, <2>2, AppendCheckpoint
  <2>4. \A i \in Ids(Committed(op, stored)) : Committed(op, stored)[i].body \in Nat
    BY <2>3 DEF Ordered
  <2>5. Below(Committed(op, stored), nextId)
    BY <2>1, <2>3, <2>4 DEF Below
  <2>6. QED
    BY <1>3, <2>3, <2>5
<1>4. QED
  BY <1>1, <1>2, <1>3 DEF Harmless

LEMMA RowsAreMessages ==
  ASSUME NEW m, IsSeq(m)
  PROVE  IsSeq(Rows(m)) /\ Ids(Rows(m)) = {}
<1>1. Len(m) \in Nat
  BY DEF IsSeq
<1>2. Rows(m) \in Seq({Row("message", m[i]) : i \in 1 .. Len(m)})
  BY <1>1 DEF Rows
<1>3. Len(Rows(m)) = Len(m) /\ \A i \in 1 .. Len(m) : Rows(m)[i].kind = "message"
  BY <1>1 DEF Rows, Row
<1>4. QED
  BY <1>2, <1>3 DEF IsSeq, Ids, Where

\* What the soul speaks is a sequence of messages.
LEMMA SpokenAre == ASSUME answer.calls \in Nat, IsSeq(compacted) PROVE IsSeq(Spoken)
<1>1. ASSUME NEW n \in Nat, NEW x PROVE IsSeq([i \in 1 .. n |-> x])
  <2>1. [i \in 1 .. n |-> x] \in Seq({x})
    BY <1>1
  <2>2. QED
    BY <2>1 DEF IsSeq
<1>2. IsSeq([i \in 1 .. answer.calls |-> Text("tool", 0)])
  BY <1>1
<1>3. QED
  BY <1>2, OneIsSeq DEF Spoken

LEMMA SpokenIsSeq == ASSUME Shape PROVE IsSeq(Spoken)
BY SpokenAre DEF Shape

\* Whatever pc names is harmless.
LEMMA IssuedHarmless ==
  ASSUME Shape, StoredInv, ~Rebuilding
  PROVE  Harmless(Issued)
<1>1. CASE pc = "clear" \/ pc = "truncate"
  BY <1>1 DEF Harmless, Issued, Shape
<1>2. CASE pc = "checkpoint"
  <2>1. Issued.keep = None /\ Issued.put = <<Row("checkpoint", nextId - 1)>>
    BY <1>2 DEF Issued
  <2>2. nextId - 1 \in Nat /\ nextId - 1 < nextId /\ Below(stored, nextId - 1)
    BY <1>2 DEF Shape, StoredInv, Taken
  <2>3. QED
    BY <2>1, <2>2 DEF Harmless
<1>3. CASE pc = "usageIn" \/ pc = "usageTotal"
  <2>1. PICK x : Issued.keep = None /\ Issued.put = <<Row("usage", x)>>
    BY <1>3 DEF Issued
  <2>2. IsSeq(Issued.put) /\ Ids(Issued.put) = {}
    BY <2>1, OneIsSeq DEF Ids, Where, Row
  <2>3. QED
    BY <2>1, <2>2 DEF Harmless
<1>4. CASE pc \notin {"clear", "truncate", "checkpoint", "usageIn", "usageTotal"}
  <2>1. Issued.keep = None /\ Issued.put = Rows(Spoken)
    BY <1>4 DEF Issued
  <2>2. QED
    BY <2>1, SpokenIsSeq, RowsAreMessages DEF Harmless
<1>5. QED
  BY <1>1, <1>2, <1>3, <1>4

-----------------------------------------------------------------------------
(* What memory takes over is a sequence again.                             *)

LEMMA MessagesIsSeq == ASSUME NEW s, IsSeq(s) PROVE IsSeq(Messages(s))
<1> DEFINE W == Where("message", s)
           B == {s[Nth(W, k)].body : k \in 1 .. Cardinality(W)}
<1>1. Len(s) \in Nat
  BY DEF IsSeq
<1>2. Cardinality(W) \in Nat
  <2>1. IsFiniteSet(1 .. Len(s)) /\ W \subseteq 1 .. Len(s)
    BY <1>1, FS_Interval DEF Where
  <2>2. QED
    BY <2>1, FS_Subset, FS_CardinalityType
<1> HIDE DEF W
<1>3. [k \in 1 .. Cardinality(W) |-> s[Nth(W, k)].body] \in Seq(B)
  BY <1>2
<1>4. QED
  BY <1>3 DEF Messages, IsSeq, W

LEMMA CompactionIsSeq == ASSUME NEW s, IsSeq(s) PROVE IsSeq(Compaction(s))
<1> DEFINE others == Speaking(s) \ {Greatest(Speaking(s))}
           m == Greatest(others)
<1>1. PICK S : s \in Seq(S)
  BY DEF IsSeq
<1>2. CASE Speaking(s) = {} \/ others = {} \/ m = 1
  BY <1>2 DEF Compaction
<1>3. CASE ~ (Speaking(s) = {} \/ others = {} \/ m = 1)
  <2>1. others \subseteq 1 .. Len(s) /\ Len(s) \in Nat
    BY <1>1 DEF Speaking
  <2>2. m \in 1 .. Len(s)
    <3> HIDE DEF others
    <3> QED
      BY <1>3, <2>1, GreatestIs
  <2>3. Compaction(s) = <<Text("summary", 0)>> \o SubSeq(s, m, Len(s))
    BY <1>3 DEF Compaction
  <2> HIDE DEF m
  <2>4. SubSeq(s, m, Len(s)) \in Seq(S)
    BY <1>1, <2>1, <2>2
  <2>5. IsSeq(SubSeq(s, m, Len(s)))
    BY <2>4 DEF IsSeq
  <2>6. IsSeq(<<Text("summary", 0)>> \o SubSeq(s, m, Len(s)))
    BY <2>5, OneIsSeq, ConcatParts
  <2>7. QED
    BY <2>3, <2>6
<1>4. QED
  BY <1>2, <1>3

-----------------------------------------------------------------------------
(* The invariant is inductive.                                             *)

LEMMA BelowMore ==
  ASSUME NEW s, Ordered(s), NEW m \in Nat, NEW n \in Nat, m <= n, Below(s, m)
  PROVE  Below(s, n)
<1>1. \A i \in Ids(s) : s[i].body \in Nat /\ s[i].body < m
  BY DEF Ordered, Below
<1>2. QED
  BY <1>1 DEF Below

LEMMA OneLess ==
  ASSUME NEW n \in Nat, NEW p, p = "checkpoint" => n > 0
  PROVE  n - (IF p = "checkpoint" THEN 1 ELSE 0) \in Nat
OBVIOUS

LEMMA TakenIsNat == ASSUME Shape PROVE Taken \in Nat /\ Taken <= nextId
BY DEF Shape, Taken

\* A turn goes on without storing anything; no id is given back.
LEMMA Stayed ==
  ASSUME IdsInv, ~Rebuilding, Shape', stored' = stored, Taken <= Taken', late = {}, late' = {}
  PROVE  StoredInv' /\ LateInv'
<1>1. Taken \in Nat /\ Taken' \in Nat
  <2>1. Taken \in Nat
    BY TakenIsNat DEF IdsInv
  <2>2. Taken' \in Nat
    <3>1. nextId' \in Nat /\ (pc' = "checkpoint" => nextId' > 0)
      BY DEF Shape
    <3>2. QED
      BY <3>1, OneLess, Zenon DEF Taken
  <2>3. QED
    BY <2>1, <2>2
<1>2. Ordered(stored) /\ Below(stored, Taken)
  BY DEF IdsInv, StoredInv
<1>3. Below(stored, Taken')
  BY <1>1, <1>2, BelowMore
<1>4. QED
  BY <1>2, <1>3 DEF StoredInv, LateInv

\* A transaction of the turn commits.
LEMMA Wrote ==
  ASSUME IdsInv, ~Rebuilding, pc # "idle", Commit, late' = late, Taken' = nextId
  PROVE  StoredInv' /\ LateInv'
<1>1. Harmless(Issued)
  BY IssuedHarmless DEF IdsInv
<1>2. Ordered(stored) /\ Below(stored, nextId) /\ nextId \in Nat
  <2>1. Ordered(stored) /\ Below(stored, Taken) /\ nextId \in Nat
    BY DEF IdsInv, StoredInv, Shape
  <2>2. QED
    BY <2>1, TakenIsNat, BelowMore DEF IdsInv
<1>3. PICK op : op = Issued
  OBVIOUS
<1>4. Ordered(Committed(op, stored)) /\ Below(Committed(op, stored), nextId)
  BY <1>1, <1>2, <1>3, CommitHarmless
<1>5. stored' = Committed(op, stored)
  BY <1>3 DEF Commit
<1>6. Ordered(stored') /\ Below(stored', Taken')
  BY <1>4, <1>5
<1>7. QED
  BY <1>6 DEF StoredInv, IdsInv, LateInv

\* A step that changes nothing the invariant speaks of.
LEMMA Same ==
  ASSUME IdsInv, UNCHANGED <<stored, history, compacted, nextId, cut, answer, pc, ret, late>>
  PROVE  IdsInv'
<1>1. Shape' /\ Taken' = Taken
  BY DEF IdsInv, Shape, Taken
<1>2. StoredInv'
  BY <1>1 DEF IdsInv, StoredInv
<1>3. LateInv'
  BY DEF IdsInv, LateInv, Harmless
<1>4. QED
  BY <1>1, <1>2, <1>3 DEF IdsInv

LEMMA InitInv == Init => IdsInv
<1> SUFFICES ASSUME Init PROVE IdsInv
  OBVIOUS
<1>1. Len(<<>>) = 0 /\ Where("checkpoint", <<>>) = {}
  BY DEF Where
<1>2. Shape
  BY OneIsSeq DEF Init, Shape, Idle, Labels
<1>3. StoredInv /\ LateInv
  BY <1>1, OneIsSeq DEF Init, StoredInv, LateInv, Ordered, Ids, Below
<1>4. QED
  BY <1>2, <1>3 DEF IdsInv

\* The steps that append messages to storage and to the history.
LEMMA SpokeInv ==
  ASSUME IdsInv, ~Rebuilding, pc # "idle", Commit, history' = history \o Spoken,
         UNCHANGED <<compacted, cut, answer, late>>,
         ret' \in {"user", "model", "summary", "dmail", "idle"},
         \/ nextId' = nextId /\ pc' \in Labels \ {"checkpoint", "restore", "down"}
         \/ nextId' = nextId + 1 /\ pc' = "checkpoint"
  PROVE  IdsInv'
<1>1. Shape'
  <2>1. IsSeq(history')
    BY SpokenIsSeq, ConcatParts DEF IdsInv, Shape
  <2>2. nextId' \in Nat /\ pc' \in Labels /\ (pc' = "checkpoint" => nextId' > 0)
    BY DEF IdsInv, Shape, Labels, Writes
  <2>3. QED
    BY <2>1, <2>2 DEF IdsInv, Shape
<1>2. Taken' = nextId
  BY DEF IdsInv, Shape, Taken
<1>3. QED
  BY <1>1, <1>2, Wrote DEF IdsInv

LEMMA SoulInv == ASSUME IdsInv, NoInterruptedRewind, Soul PROVE IdsInv'
<1> USE DEF memory, scratch, denwa, around
<1>0. ASSUME ~Rebuilding, pc # "idle"
      PROVE  late = {}
  BY <1>0 DEF IdsInv, LateInv
<1>1. CASE WriteCheckpoint
  <2>1. pc' \in Labels \ {"checkpoint", "restore", "down"} /\ nextId' = nextId
    BY <1>1 DEF WriteCheckpoint, LeaveCheckpoint, IdsInv, Shape, Labels, Writes
  <2>2. Shape'
    BY <1>1, <2>1 DEF WriteCheckpoint, IdsInv, Shape
  <2>3. Taken' = nextId
    BY <2>1, <2>2 DEF Taken, Shape
  <2>4. QED
    BY <1>1, <2>2, <2>3, Wrote DEF WriteCheckpoint, IdsInv
<1>2. CASE WriteMark
  <2>1. pc' \in Labels \ {"checkpoint", "restore", "down"}
    BY <1>2 DEF WriteMark, LeaveCheckpoint, IdsInv, Shape, Labels, Writes
  <2>2. QED
    BY <1>2, <2>1, SpokeInv DEF WriteMark, IdsInv, Shape
<1>3. CASE WriteUser \/ WriteInit \/ WriteDmail \/ WriteAnswer \/ WriteResults
  <2>1. pc' \in Labels \ {"checkpoint", "restore", "down"}
    BY <1>3 DEF WriteUser, WriteInit, WriteDmail, WriteAnswer, WriteResults, WriteMessages,
                Labels, Writes
  <2>2. QED
    BY <1>3, <2>1, SpokeInv
    DEF WriteUser, WriteInit, WriteDmail, WriteAnswer, WriteResults, WriteMessages, IdsInv, Shape
<1>4. CASE WriteUsage
  <2>1. pc' \in Labels \ {"checkpoint", "restore", "down"}
    BY <1>4 DEF WriteUsage, Labels, Writes
  <2>2. Shape'
    BY <1>4, <2>1 DEF WriteUsage, IdsInv, Shape
  <2>3. Taken' = nextId
    BY <1>4, <2>1, <2>2 DEF WriteUsage, Taken, Shape
  <2>4. QED
    BY <1>4, <2>2, <2>3, Wrote DEF WriteUsage, IdsInv
<1>5. CASE WriteSummary
  <2>1. \/ nextId' = nextId /\ pc' \in Labels \ {"checkpoint", "restore", "down"}
        \/ nextId' = nextId + 1 /\ pc' = "checkpoint"
    BY <1>5 DEF WriteSummary, EnterCheckpoint, Labels, Writes
  <2>2. ret' \in {"user", "model", "summary", "dmail", "idle"}
    BY <1>5 DEF WriteSummary, EnterCheckpoint, IdsInv, Shape
  <2>3. QED
    BY <1>5, <2>1, <2>2, SpokeInv DEF WriteSummary
<1>6. CASE MaxStepsReached \/ Settle \/ Find
  <2>1. pc' \in Labels \ {"checkpoint", "restore", "down"} /\ cut' \in Nat
    <3>1. CASE MaxStepsReached \/ Settle
      BY <3>1 DEF MaxStepsReached, Settle, Labels, Writes, IdsInv, Shape
    <3>2. CASE Find
      <4>1. Len(stored) \in Nat
        BY DEF IdsInv, StoredInv, Ordered, IsSeq
      <4>2. CASE pc' = "idle"
        BY <3>2, <4>2 DEF Find, Labels, IdsInv, Shape
      <4>3. CASE pc' # "idle"
        <5> DEFINE found == {i \in Where("checkpoint", stored) : stored[i].body = target}
        <5>1. found # {} /\ pc' = "truncate"
              /\ cut' = (CHOOSE i \in found : \A j \in found : i <= j) - 1
          BY <3>2, <4>3 DEF Find
        <5>2. \A i \in found : i \in Nat /\ i > 0
          BY <4>1 DEF Where
        <5> HIDE DEF found
        <5>3. \E i \in found : \A j \in found : i <= j
          BY <5>1, <5>2, LeastExists
        <5>4. (CHOOSE i \in found : \A j \in found : i <= j) \in found
          BY <5>3, Zenon
        <5>5. cut' \in Nat
          BY <5>1, <5>2, <5>4
        <5>6. QED
          BY <5>1, <5>5 DEF Labels, Writes
      <4>4. QED
        BY <4>2, <4>3
    <3>3. QED
      BY <1>6, <3>1, <3>2
  <2>2. Shape'
    BY <1>6, <2>1 DEF MaxStepsReached, Settle, Find, IdsInv, Shape
  <2>3. Taken <= Taken'
    BY <1>6, <2>1, TakenIsNat DEF MaxStepsReached, Settle, Find, IdsInv, Shape, Taken
  <2>4. late = {} /\ late' = {} /\ ~Rebuilding /\ stored' = stored
    BY <1>6, <1>0 DEF MaxStepsReached, Settle, Find
  <2>5. QED
    BY <2>2, <2>3, <2>4, Stayed DEF IdsInv
<1>7. CASE StartStep
  <2>1. \/ nextId' = nextId /\ pc' = "compact" /\ ret' = ret
        \/ nextId' = nextId + 1 /\ pc' = "checkpoint" /\ ret' = "model"
    BY <1>7 DEF StartStep, EnterCheckpoint
  <2>2. Shape'
    BY <1>7, <2>1 DEF StartStep, IdsInv, Shape, Labels, Writes
  <2>3. Taken <= Taken'
    BY <1>7, <2>1 DEF StartStep, IdsInv, Shape, Taken
  <2>4. late = {} /\ late' = {} /\ ~Rebuilding /\ stored' = stored
    BY <1>7, <1>0 DEF StartStep
  <2>5. QED
    BY <2>2, <2>3, <2>4, Stayed DEF IdsInv
<1>8. CASE (\E calls \in Calls, usage \in Usages : Generate(calls, usage))
           \/ (\E how \in Outcomes : FinishTools(how))
  <2>1. /\ pc \in {"model", "tools"} /\ pc' \in Labels \ {"checkpoint", "restore", "down"}
        /\ answer'.calls \in Nat
        /\ UNCHANGED <<stored, history, compacted, nextId, cut, ret, late>>
    <3>1. ASSUME NEW calls \in Calls, NEW usage \in Usages, Generate(calls, usage)
          PROVE  /\ pc = "model" /\ pc' \in {"tools", "usageIn"} /\ answer'.calls \in Nat
                 /\ UNCHANGED <<stored, history, compacted, nextId, cut, ret, late>>
      BY <3>1 DEF Generate
    <3>2. ASSUME NEW how \in Outcomes, FinishTools(how)
          PROVE  /\ pc = "tools" /\ pc' \in {"idle", "answer"} /\ answer'.calls \in Nat
                 /\ UNCHANGED <<stored, history, compacted, nextId, cut, ret, late>>
      BY <3>2 DEF FinishTools, IdsInv, Shape
    <3>3. QED
      BY <1>8, <3>1, <3>2 DEF Labels, Writes
  <2>2. Shape' /\ Taken <= Taken'
    BY <2>1 DEF IdsInv, Shape, Taken
  <2>3. QED
    BY <2>1, <2>2, <1>0, Stayed DEF IdsInv
<1>9. CASE Compact
  <2>1. IsSeq(compacted')
    BY <1>9, CompactionIsSeq DEF Compact, IdsInv, Shape
  <2>2. Shape'
    BY <1>9, <2>1 DEF Compact, IdsInv, Shape, Labels, Writes
  <2>3. Taken <= Taken'
    BY <1>9 DEF Compact, IdsInv, Shape, Taken
  <2>4. QED
    BY <1>9, <2>2, <2>3, <1>0, Stayed DEF Compact, IdsInv
<1>10. CASE Clear
  <2>1. Shape'
    <3>1. IsSeq(history')
      BY <1>10, OneIsSeq DEF Clear
    <3>2. /\ nextId' \in Nat /\ pc' \in {"idle", "checkpoint"}
          /\ (pc' = "checkpoint" => nextId' > 0)
          /\ ret' \in {"user", "model", "summary", "dmail", "idle"}
      BY <1>10 DEF Clear, EnterCheckpoint, IdsInv, Shape
    <3>3. QED
      BY <1>10, <3>1, <3>2 DEF Clear, IdsInv, Shape, Labels, Writes
  <2>2. Ordered(stored') /\ Ids(stored') = {}
    <3>1. Issued.keep = 0 /\ 0 # None
      BY <1>10 DEF Clear, Issued
    <3>2. Len(stored) \in Nat
      BY DEF IdsInv, StoredInv, Ordered, IsSeq
    <3>3. stored' = SubSeq(stored, 1, IF 0 < Len(stored) THEN 0 ELSE Len(stored))
      BY <1>10, <3>1 DEF Clear, Commit, Committed
    <3>4. stored' = SubSeq(stored, 1, 0)
      BY <3>2, <3>3
    <3>5. Ordered(SubSeq(stored, 1, 0)) /\ Len(SubSeq(stored, 1, 0)) = 0
      <4>1. Ordered(stored) /\ IsSeq(stored) /\ 0 \in Nat /\ 0 <= Len(stored)
        BY <3>2 DEF IdsInv, StoredInv, Ordered
      <4>2. Ordered(SubSeq(stored, 1, 0))
        BY <4>1, CutOff
      <4>3. Len(SubSeq(stored, 1, 0)) = 0
        BY <4>1, SubSeqParts
      <4>4. QED
        BY <4>2, <4>3
    <3>6. QED
      BY <3>4, <3>5 DEF Ids, Where
  <2>3. StoredInv'
    BY <2>2 DEF StoredInv, Below
  <2>4. QED
    BY <1>10, <1>0, <2>1, <2>3 DEF Clear, IdsInv, LateInv
<1>11. CASE Truncate
  <2>1. Shape'
    BY <1>11, OneIsSeq DEF Truncate, IdsInv, Shape, Labels, Writes
  <2>2. Ordered(stored')
    <3>1. PICK op : op = Issued
      OBVIOUS
    <3>2. Harmless(op)
      BY <1>11, <3>1, IssuedHarmless DEF Truncate, IdsInv
    <3>3. QED
      BY <1>11, <3>1, <3>2, CommitHarmless DEF Truncate, Commit, IdsInv, StoredInv, Shape
  <2>3. QED
    BY <1>11, <1>0, <2>1, <2>2 DEF Truncate, IdsInv, StoredInv, LateInv
<1>12. CASE Restore
  <2>1. Checkpoints(stored) \in Nat /\ Below(stored, Checkpoints(stored)) /\ Ordered(stored)
    BY RestoredIdIsNew DEF IdsInv, StoredInv
  <2>2. /\ nextId' = Checkpoints(stored) + 1 /\ pc' = "checkpoint" /\ stored' = stored
        /\ late' = late /\ pc = "restore" /\ ret' = "dmail"
    BY <1>12 DEF Restore, EnterCheckpoint
  <2>3. IsSeq(history')
    BY <1>12, <2>1, MessagesIsSeq DEF Restore, Ordered
  <2>4. Shape'
    BY <1>12, <2>1, <2>2, <2>3 DEF Restore, IdsInv, Shape, Labels, Writes
  <2>5. Taken' = Checkpoints(stored)
    BY <2>1, <2>2 DEF Taken
  <2>6. QED
    BY <2>1, <2>2, <2>4, <2>5 DEF IdsInv, StoredInv, LateInv
<1>13. QED
  BY <1>1, <1>2, <1>3, <1>4, <1>5, <1>6, <1>7, <1>8, <1>9, <1>10, <1>11, <1>12 DEF Soul

LEMMA ClientInv == ASSUME IdsInv, NoInterruptedRewind, Client PROVE IdsInv'
<1>1. /\ pc = "idle" /\ late = {} /\ late' = {} /\ stored' = stored
      /\ UNCHANGED <<history, compacted, cut, answer>>
  BY DEF Client, Prompt, SlashClear, SlashCompact, SlashInit, Begin, scratch, around,
         NoInterruptedRewind
<1>2. /\ ret' = ret \/ ret' \in {"user", "idle"}
      /\ \/ nextId' = nextId + 1 /\ pc' = "checkpoint"
         \/ nextId' = nextId /\ pc' \in {"clear", "compact", "init"}
  BY DEF Client, Prompt, SlashClear, SlashCompact, SlashInit, EnterCheckpoint
<1>3. Shape'
  BY <1>1, <1>2 DEF IdsInv, Shape, Labels, Writes
<1>4. Taken <= Taken'
  BY <1>1, <1>2 DEF IdsInv, Shape, Taken
<1>5. QED
  BY <1>1, <1>3, <1>4, Stayed DEF IdsInv

LEMMA FaultsInv == ASSUME IdsInv, NoInterruptedRewind, Faults PROVE IdsInv'
<1> USE DEF memory, scratch, denwa, around
<1>0. ASSUME pc # "idle"
      PROVE  late = {}
  BY <1>0 DEF IdsInv, LateInv
<1>1. CASE Fail
  <2>1. /\ pc \notin {"idle", "restore", "down"} /\ pc' = "idle"
        /\ UNCHANGED <<stored, history, compacted, nextId, cut, answer, ret, late>>
    BY <1>1 DEF Fail, NoInterruptedRewind
  <2>2. Shape' /\ Taken <= Taken'
    BY <2>1 DEF IdsInv, Shape, Taken, Labels
  <2>3. QED
    BY <2>1, <2>2, <1>0, Stayed DEF IdsInv
<1>2. CASE Cancel
  <2>1. /\ pc \notin {"idle", "restore", "down"} /\ pc' = "idle" /\ late = {}
        /\ UNCHANGED <<stored, history, compacted, nextId, cut, answer, ret>>
        /\ late' \in {{}, {Issued}}
    BY <1>2, <1>0 DEF Cancel, NoInterruptedRewind
  <2>2. Shape' /\ Taken <= Taken' /\ Taken \in Nat /\ Taken' \in Nat
    BY <2>1 DEF IdsInv, Shape, Taken, Labels
  <2>3. PICK op : op = Issued
    OBVIOUS
  <2>4. Harmless(op)
    BY <2>1, <2>3, IssuedHarmless DEF IdsInv
  <2>5. Harmless(op)'
    BY <2>1, <2>4 DEF Harmless
  <2>6. LateInv'
    BY <2>1, <2>3, <2>5 DEF LateInv
  <2>7. StoredInv'
    BY <2>1, <2>2, BelowMore DEF IdsInv, StoredInv
  <2>8. QED
    BY <2>2, <2>6, <2>7 DEF IdsInv
<1>3. CASE \E op \in late : LateCommit(op)
  <2>1. PICK op \in late : LateCommit(op)
    BY <1>3
  <2>2. pc = "idle" /\ Harmless(op) /\ late = {op}
    BY <2>1 DEF IdsInv, LateInv
  <2>3. /\ late' = {} /\ stored' \in {stored, Committed(op, stored)}
        /\ UNCHANGED <<history, compacted, nextId, cut, answer, pc, ret>>
    BY <2>1, <2>2 DEF LateCommit
  <2>4. Shape'
    BY <2>3 DEF IdsInv, Shape
  <2>5. Taken = nextId /\ Taken' = nextId /\ nextId \in Nat
    BY <2>2, <2>3 DEF Taken, IdsInv, Shape
  <2>6. Ordered(stored) /\ Below(stored, nextId)
    BY <2>2, <2>5 DEF IdsInv, StoredInv
  <2>7. Ordered(stored') /\ Below(stored', nextId)
    BY <2>2, <2>3, <2>5, <2>6, CommitHarmless
  <2>8. QED
    BY <2>3, <2>4, <2>5, <2>7 DEF IdsInv, StoredInv, LateInv
<1>4. CASE StrayEnds
  <2>1. UNCHANGED <<stored, history, compacted, nextId, cut, answer, pc, ret, late>>
    BY <1>4 DEF StrayEnds
  <2>2. QED
    BY <2>1, Same
<1>5. CASE Crash
  <2>1. Ordered(stored')
    <3>1. CASE stored' = stored
      BY <3>1 DEF IdsInv, StoredInv
    <3>2. CASE pc \in Writes /\ stored' = Committed(Issued, stored)
      <4>1. PICK op : op = Issued
        OBVIOUS
      <4>2. Harmless(op)
        BY <3>2, <4>1, IssuedHarmless DEF IdsInv, Writes
      <4>3. QED
        BY <3>2, <4>1, <4>2, CommitHarmless DEF IdsInv, StoredInv, Shape
    <3>3. QED
      BY <1>5, <3>1, <3>2 DEF Crash
  <2>2. Shape'
    BY <1>5, OneIsSeq DEF Crash, Shape, Labels, Idle
  <2>3. QED
    BY <1>5, <2>1, <2>2 DEF Crash, IdsInv, StoredInv, LateInv
<1>6. CASE Restart
  <2>1. Checkpoints(stored) \in Nat /\ Below(stored, Checkpoints(stored)) /\ Ordered(stored)
    BY RestoredIdIsNew DEF IdsInv, StoredInv
  <2>2. /\ nextId' = Checkpoints(stored) /\ pc' = "idle" /\ stored' = stored
        /\ late = {} /\ late' = {}
        /\ UNCHANGED <<compacted, cut, answer, ret>>
    BY <1>6, <1>0 DEF Restart
  <2>3. IsSeq(history')
    BY <1>6, <2>1, MessagesIsSeq DEF Restart, Ordered
  <2>4. Shape'
    BY <2>1, <2>2, <2>3 DEF IdsInv, Shape, Labels
  <2>5. Taken' = Checkpoints(stored)
    BY <2>1, <2>2 DEF Taken
  <2>6. QED
    BY <2>1, <2>2, <2>4, <2>5 DEF IdsInv, StoredInv, LateInv
<1>7. QED
  BY <1>1, <1>2, <1>3, <1>4, <1>5, <1>6 DEF Faults

LEMMA StepInv == ASSUME IdsInv, NoInterruptedRewind, [Next]_vars PROVE IdsInv'
<1>1. CASE \E id \in 0 .. nCheckpoints : SendDmail(id)
  <2>1. UNCHANGED <<stored, history, compacted, nextId, cut, answer, pc, ret, late>>
    BY <1>1 DEF SendDmail, memory, scratch, around
  <2>2. QED
    BY <2>1, Same
<1>2. CASE UNCHANGED vars
  <2>1. UNCHANGED <<stored, history, compacted, nextId, cut, answer, pc, ret, late>>
    BY <1>2 DEF vars, memory, scratch, around
  <2>2. QED
    BY <2>1, Same
<1>3. QED
  BY <1>1, <1>2, SoulInv, ClientInv, FaultsInv DEF Next

LEMMA InvOrders == IdsInv => CheckpointIdsIncrease
BY DEF IdsInv, StoredInv, Ordered, Below, Ids, Taken, CheckpointIdsIncrease

\* Ids identify checkpoints, for all constants, faults and schedules, as long as
\* no rewind is interrupted between its truncation and its reload, and the
\* transactions of a cancelled turn commit before the next turn begins.
\* (soul/context.rs:68-107)
THEOREM CheckpointsOrdered ==
  ASSUME NoInterruptedRewind
  PROVE  Spec => []CheckpointIdsIncrease
<1>1. Init => IdsInv
  BY InitInv
<1>2. IdsInv /\ [Next]_vars => IdsInv'
  BY StepInv
<1>3. IdsInv => CheckpointIdsIncrease
  BY InvOrders
<1>4. QED
  BY <1>1, <1>2, <1>3, PTL DEF Spec
-----------------------------------------------------------------------------
(* What the stored events restore, as they grow.                           *)

Upto(I, i) == {j \in I : j <= i}

LEMMA UptoCounts ==
  ASSUME NEW n \in Nat, NEW I \in SUBSET (1 .. n), NEW i \in Nat
  PROVE  /\ IsFiniteSet(I) /\ IsFiniteSet(Upto(I, i))
         /\ Cardinality(I) \in Nat /\ Cardinality(Upto(I, i)) \in Nat
         /\ Cardinality(Upto(I, i)) <= Cardinality(I)
<1>1. IsFiniteSet(I)
  <2>1. IsFiniteSet(1 .. n)
    BY FS_Interval
  <2>2. QED
    BY <2>1, FS_Subset
<1>2. Upto(I, i) \subseteq I
  BY DEF Upto
<1>3. IsFiniteSet(Upto(I, i)) /\ Cardinality(Upto(I, i)) <= Cardinality(I)
  BY <1>1, <1>2, FS_Subset
<1>4. QED
  BY <1>1, <1>3, FS_CardinalityType

\* The k-th index exists.
LEMMA NthIsThere ==
  ASSUME NEW n \in Nat, NEW I \in SUBSET (1 .. n), NEW k \in 1 .. Cardinality(I)
  PROVE  Nth(I, k) \in I /\ Cardinality(Upto(I, Nth(I, k))) = k
<1> DEFINE T == {i \in 1 .. n : k <= Cardinality(Upto(I, i))}
<1>1. k \in Nat /\ 0 < k /\ k <= Cardinality(I)
  BY UptoCounts
<1>2. T \in SUBSET Nat /\ T # {}
  <2>1. Upto(I, n) = I
    <3>1. \A j \in I : j <= n
      OBVIOUS
    <3>2. QED
      BY <3>1 DEF Upto
  <2>2. n # 0
    <3>1. n = 0 => I = {}
      <4>1. ASSUME n = 0, NEW j \in I PROVE FALSE
        <5>1. j \in 1 .. n
          OBVIOUS
        <5>2. QED
          BY <4>1, <5>1
      <4>2. QED
        BY <4>1
    <3>2. Cardinality({}) = 0
      BY FS_EmptySet
    <3>3. n = 0 => Cardinality(I) = 0
      BY <3>1, <3>2
    <3>4. QED
      BY <1>1, <3>3
  <2>3. n \in T
    BY <1>1, <2>1, <2>2
  <2>4. QED
    BY <2>3
<1>3. PICK i \in T : \A j \in T : i <= j
  BY <1>2, LeastExists
<1>4. i \in 1 .. n /\ i - 1 \in Nat /\ k <= Cardinality(Upto(I, i))
  BY <1>3
<1>5. Cardinality(Upto(I, i - 1)) < k
  <2>1. CASE i = 1
    <3>1. Upto(I, i - 1) = {}
      <4>1. \A j \in I : ~ (j <= 0)
        <5>1. \A j \in I : j \in 1 .. n
          OBVIOUS
        <5>2. QED
          BY <5>1
      <4>2. i - 1 = 0
        BY <2>1
      <4>3. Upto(I, 0) = {}
        BY <4>1 DEF Upto
      <4>4. QED
        BY <4>2, <4>3
    <3>2. QED
      BY <1>1, <3>1, FS_EmptySet
  <2>2. CASE i # 1
    <3>1. i - 1 \in 1 .. n /\ i - 1 \notin T
      BY <1>3, <1>4, <2>2
    <3>2. Cardinality(Upto(I, i - 1)) \in Nat
      BY <1>4, UptoCounts
    <3>3. QED
      BY <1>1, <3>1, <3>2
  <2>3. QED
    BY <2>1, <2>2
<1> HIDE DEF T
<1>a. \A j \in I : (j <= i <=> j <= i - 1 \/ j = i)
  <2>1. \A j \in I : j \in 1 .. n
    OBVIOUS
  <2>2. QED
    BY <1>4, <2>1
<1>6. i \in I
  <2> SUFFICES ASSUME i \notin I PROVE FALSE
    OBVIOUS
  <2>1. Upto(I, i) = Upto(I, i - 1)
    BY <1>a DEF Upto
  <2>2. Cardinality(Upto(I, i - 1)) \in Nat
    BY <1>4, UptoCounts
  <2>3. QED
    BY <1>1, <1>4, <1>5, <2>1, <2>2
<1>7. Cardinality(Upto(I, i)) = Cardinality(Upto(I, i - 1)) + 1
  <2>1. Upto(I, i) = Upto(I, i - 1) \cup {i}
    BY <1>a, <1>6 DEF Upto
  <2>2. i \notin Upto(I, i - 1)
    BY <1>4 DEF Upto
  <2>3. IsFiniteSet(Upto(I, i - 1))
    BY <1>4, UptoCounts
  <2>4. QED
    BY <2>1, <2>2, <2>3, FS_AddElement
<1>8. Cardinality(Upto(I, i)) = k
  <2>1. Cardinality(Upto(I, i - 1)) \in Nat
    BY <1>4, UptoCounts
  <2>2. QED
    BY <1>1, <1>4, <1>5, <1>7, <2>1
<1>9. \E j \in I : Cardinality({m \in I : m <= j}) = k
  BY <1>6, <1>8 DEF Upto
<1>10. QED
  BY <1>9, Zenon DEF Nth, Upto

\* There is only one.
LEMMA NthIsOnly ==
  ASSUME NEW n \in Nat, NEW I \in SUBSET (1 .. n), NEW i \in I, NEW k \in 1 .. Cardinality(I),
         Cardinality(Upto(I, i)) = k
  PROVE  Nth(I, k) = i
<1>1. PICK j \in I : j = Nth(I, k) /\ Cardinality(Upto(I, j)) = k
  BY NthIsThere
<1>2. ASSUME NEW x \in I, NEW y \in I, x < y PROVE Cardinality(Upto(I, x)) < Cardinality(Upto(I, y))
  <2>1. x \in Nat /\ y \in Nat /\ \A z \in I : z \in Nat
    <3>1. \A z \in I : z \in 1 .. n
      OBVIOUS
    <3>2. QED
      BY <3>1
  <2>a. \A z \in I : z <= x => z <= y
    BY <1>2, <2>1
  <2>2. Upto(I, x) \subseteq Upto(I, y)
    BY <2>a DEF Upto
  <2>3. y \in Upto(I, y) /\ y \notin Upto(I, x)
    BY <1>2, <2>1 DEF Upto
  <2>4. IsFiniteSet(Upto(I, y)) /\ IsFiniteSet(Upto(I, x))
    BY <2>1, UptoCounts
  <2>5. Cardinality(Upto(I, x) \cup {y}) = Cardinality(Upto(I, x)) + 1
    BY <2>3, <2>4, FS_AddElement
  <2>6. Upto(I, x) \cup {y} \subseteq Upto(I, y)
    BY <2>2, <2>3
  <2>7. Cardinality(Upto(I, x) \cup {y}) <= Cardinality(Upto(I, y))
    BY <2>4, <2>6, FS_Subset
  <2>8. Cardinality(Upto(I, x)) \in Nat /\ Cardinality(Upto(I, y)) \in Nat
    BY <2>1, UptoCounts
  <2>9. QED
    BY <2>5, <2>7, <2>8
<1>3. i \in Nat /\ j \in Nat /\ k \in Nat
  BY UptoCounts
<1>4. ~ (i < j) /\ ~ (j < i)
  BY <1>1, <1>2, <1>3
<1>5. QED
  BY <1>1, <1>3, <1>4

LEMMA SameSeq ==
  ASSUME NEW s, NEW t, IsSeq(s), IsSeq(t), Len(s) = Len(t),
         \A i \in 1 .. Len(s) : s[i] = t[i]
  PROVE  s = t
<1>1. PICK S : s \in Seq(S)
  BY DEF IsSeq
<1>2. PICK T : t \in Seq(T)
  BY DEF IsSeq
<1>3. s \in Seq(S \cup T) /\ t \in Seq(S \cup T)
  BY <1>1, <1>2
<1>4. QED
  BY <1>3

LEMMA MessagesAre ==
  ASSUME NEW s, IsSeq(s)
  PROVE  LET W == Where("message", s)
         IN  /\ W \in SUBSET (1 .. Len(s)) /\ Len(s) \in Nat /\ Cardinality(W) \in Nat
             /\ IsFiniteSet(W)
             /\ IsSeq(Messages(s)) /\ Len(Messages(s)) = Cardinality(W)
             /\ \A k \in 1 .. Cardinality(W) : Messages(s)[k] = s[Nth(W, k)].body
<1> DEFINE W == Where("message", s)
<1>1. Len(s) \in Nat
  BY DEF IsSeq
<1>2. W \in SUBSET (1 .. Len(s))
  BY DEF Where
<1>3. Cardinality(W) \in Nat /\ IsFiniteSet(W)
  <2> HIDE DEF W
  <2> QED
    BY <1>1, <1>2, UptoCounts
<1>4. Messages(s) = [k \in 1 .. Cardinality(W) |-> s[Nth(W, k)].body]
  BY DEF Messages
<1>5. IsSeq(Messages(s))
  BY MessagesIsSeq
<1> HIDE DEF W
<1>6. Len(Messages(s)) = Cardinality(W)
      /\ \A k \in 1 .. Cardinality(W) : Messages(s)[k] = s[Nth(W, k)].body
  <2>1. [k \in 1 .. Cardinality(W) |-> s[Nth(W, k)].body]
          \in Seq({s[Nth(W, k)].body : k \in 1 .. Cardinality(W)})
    BY <1>3
  <2>2. QED
    BY <1>3, <1>4, <2>1
<1>7. QED
  BY <1>1, <1>2, <1>3, <1>5, <1>6 DEF W

\* Events that follow leave the messages before them where they are.
LEMMA MessagesKept ==
  ASSUME NEW s, NEW t, IsSeq(s), IsSeq(t)
  PROVE  LET V == Where("message", s)
             W == Where("message", s \o t)
         IN  \A k \in 1 .. Cardinality(V) :
               /\ k \in 1 .. Cardinality(W)
               /\ (s \o t)[Nth(W, k)].body = Messages(s)[k]
<1> DEFINE V == Where("message", s)
           W == Where("message", s \o t)
<1>1. /\ IsSeq(s \o t) /\ Len(s) \in Nat /\ Len(t) \in Nat
      /\ Len(s \o t) = Len(s) + Len(t)
      /\ \A i \in 1 .. Len(s) : (s \o t)[i] = s[i]
  BY ConcatParts
<1>2. V \in SUBSET (1 .. Len(s)) /\ W \in SUBSET (1 .. Len(s \o t))
  BY DEF Where
<1>3. \A i \in 1 .. Len(s) : i \in V <=> i \in W
  BY <1>1 DEF Where
<1>4. V \subseteq W
  BY <1>2, <1>3
<1>5. \A k \in 1 .. Cardinality(V) : Messages(s)[k] = s[Nth(V, k)].body
  BY MessagesAre
<1>6. IsFiniteSet(W) /\ Cardinality(V) \in Nat /\ Cardinality(W) \in Nat
  BY <1>1, MessagesAre
<1> HIDE DEF V, W
<1>7. Cardinality(V) <= Cardinality(W)
  BY <1>4, <1>6, FS_Subset
<1>8. ASSUME NEW k \in 1 .. Cardinality(V)
      PROVE  k \in 1 .. Cardinality(W) /\ (s \o t)[Nth(W, k)].body = Messages(s)[k]
  <2>1. k \in 1 .. Cardinality(W)
    BY <1>6, <1>7
  <2>2. Nth(V, k) \in V /\ Cardinality(Upto(V, Nth(V, k))) = k
    BY <1>1, <1>2, NthIsThere
  <2>3. PICK i \in V : i = Nth(V, k)
    BY <2>2
  <2>4. i \in 1 .. Len(s) /\ \A j \in 1 .. Len(s \o t) : j <= i => j \in 1 .. Len(s)
    BY <1>1, <1>2
  <2>5. \A j : (j \in V /\ j <= i) <=> (j \in W /\ j <= i)
    BY <1>2, <1>3, <1>4, <2>4
  <2>6. Upto(W, i) = Upto(V, i)
    BY <2>5 DEF Upto
  <2>7. Nth(W, k) = i
    <3>1. i \in W /\ Cardinality(Upto(W, i)) = k
      BY <1>4, <2>2, <2>3, <2>6
    <3>2. Len(s \o t) \in Nat
      BY <1>1
    <3>3. QED
      BY <1>2, <2>1, <3>1, <3>2, NthIsOnly
  <2>8. QED
    BY <1>1, <1>5, <2>1, <2>3, <2>4, <2>7
<1>9. QED
  BY <1>8 DEF V, W

\* Messages that are appended are restored at the end ...
LEMMA MessagesGrow ==
  ASSUME NEW s, NEW m, IsSeq(s), IsSeq(m)
  PROVE  Messages(s \o Rows(m)) = Messages(s) \o m
<1> DEFINE t == Rows(m)
           V == Where("message", s)
           W == Where("message", s \o t)
           N == Len(s)
           C == Cardinality(V)
<1>1. /\ Len(m) \in Nat /\ IsSeq(t) /\ Len(t) = Len(m)
      /\ \A i \in 1 .. Len(m) : t[i] = Row("message", m[i])
  <2>1. IsSeq(t) /\ Len(m) \in Nat
    BY RowsAreMessages DEF IsSeq
  <2>2. t \in Seq({Row("message", m[i]) : i \in 1 .. Len(m)})
    BY <2>1 DEF Rows
  <2>3. QED
    BY <2>1, <2>2 DEF Rows
<1> HIDE DEF t
<1>2. /\ IsSeq(s \o t) /\ N \in Nat /\ Len(s \o t) = N + Len(m)
      /\ \A i \in 1 .. N : (s \o t)[i] = s[i]
      /\ \A i \in 1 .. Len(m) : (s \o t)[N + i] = Row("message", m[i])
  BY <1>1, ConcatParts
<1>3. V \in SUBSET (1 .. N) /\ W \in SUBSET (1 .. N + Len(m))
  BY <1>2 DEF Where
<1>4. \A i \in 1 .. N : i \in V <=> i \in W
  BY <1>2 DEF Where
<1>5. \A i \in 1 .. Len(m) : N + i \in W
  <2>1. ASSUME NEW i \in 1 .. Len(m) PROVE N + i \in W
    <3>1. N + i \in 1 .. N + Len(m)
      BY <1>1, <1>2
    <3>2. (s \o t)[N + i].kind = "message"
      <4>1. (s \o t)[N + i] = Row("message", m[i])
        BY <1>2, Zenon
      <4>2. QED
        BY <4>1 DEF Row
    <3>3. QED
      BY <1>2, <3>1, <3>2 DEF Where
  <2>2. QED
    BY <2>1
<1>6. /\ IsSeq(Messages(s)) /\ Len(Messages(s)) = C /\ C \in Nat /\ IsFiniteSet(V)
      /\ IsSeq(Messages(s \o t)) /\ Len(Messages(s \o t)) = Cardinality(W)
      /\ \A k \in 1 .. Cardinality(W) : Messages(s \o t)[k] = (s \o t)[Nth(W, k)].body
  BY <1>2, MessagesAre
<1>7. \A k \in 1 .. C : k \in 1 .. Cardinality(W) /\ (s \o t)[Nth(W, k)].body = Messages(s)[k]
  BY <1>1, MessagesKept
<1> HIDE DEF V, W
<1>8. ASSUME NEW d \in 0 .. Len(m)
      PROVE  Cardinality(Upto(W, N + d)) = C + d
  <2> DEFINE D == (N + 1) .. (N + d)
  <2>1. \A j : j \in Upto(W, N + d) <=> j \in V \cup D
    <3>1. ASSUME NEW j, j \in Upto(W, N + d) PROVE j \in V \cup D
      <4>1. j \in W /\ j \in 1 .. N + Len(m) /\ j <= N + d
        BY <3>1, <1>3 DEF Upto
      <4>2. j \in 1 .. N \/ j \in D
        BY <1>1, <1>2, <4>1
      <4>3. QED
        BY <1>4, <4>1, <4>2
    <3>2. ASSUME NEW j \in V PROVE j \in Upto(W, N + d)
      <4>1. j \in 1 .. N /\ j <= N + d
        BY <1>1, <1>2, <1>3
      <4>2. QED
        BY <1>4, <4>1 DEF Upto
    <3>3. ASSUME NEW j \in D PROVE j \in Upto(W, N + d)
      <4>1. PICK i \in 1 .. Len(m) : j = N + i /\ i <= d
        <5>1. j - N \in 1 .. Len(m) /\ j = N + (j - N) /\ j - N <= d
          BY <1>1, <1>2
        <5>2. QED
          BY <5>1
      <4>2. QED
        BY <1>1, <1>2, <1>5, <4>1 DEF Upto
    <3>4. QED
      BY <3>1, <3>2, <3>3
  <2>2. Upto(W, N + d) = V \cup D
    BY <2>1
  <2>3. IsFiniteSet(D) /\ Cardinality(D) = d
    <3>1. N + 1 \in Int /\ N + d \in Int /\ d \in Nat
      BY <1>1, <1>2
    <3>2. IsFiniteSet(D) /\ Cardinality(D) = IF N + 1 > N + d THEN 0 ELSE (N + d) - (N + 1) + 1
      <4> QED
        BY <3>1, FS_Interval
    <3>3. QED
      BY <1>2, <3>1, <3>2
  <2>4. V \cap D = {}
    BY <1>2, <1>3
  <2> HIDE DEF D
  <2>5. Cardinality(V \cup D) = Cardinality(V) + Cardinality(D)
    <3>1. Cardinality(V \cup D) = Cardinality(V) + Cardinality(D) - Cardinality(V \cap D)
      BY <1>6, <2>3, FS_Union
    <3>2. Cardinality(V \cap D) = 0
      BY <2>4, FS_EmptySet
    <3>3. QED
      BY <1>1, <1>6, <2>3, <3>1, <3>2
  <2>6. QED
    BY <2>2, <2>3, <2>5
<1>9. Cardinality(W) = C + Len(m)
  <2>1. Upto(W, N + Len(m)) = W
    <3>1. \A j \in W : j <= N + Len(m)
      <4>1. \A j \in W : j \in 1 .. N + Len(m)
        BY <1>3
      <4>2. QED
        BY <1>1, <1>2, <4>1
    <3>2. QED
      BY <3>1 DEF Upto
  <2>2. Len(m) \in 0 .. Len(m)
    BY <1>1
  <2>3. QED
    BY <1>8, <2>1, <2>2
<1>10. ASSUME NEW d \in 1 .. Len(m)
       PROVE  C + d \in 1 .. Cardinality(W) /\ Messages(s \o t)[C + d] = m[d]
  <2>1. C + d \in 1 .. Cardinality(W) /\ d \in 0 .. Len(m)
    BY <1>1, <1>6, <1>9
  <2>2. Nth(W, C + d) = N + d
    <3>1. Cardinality(Upto(W, N + d)) = C + d /\ N + d \in W
      BY <1>5, <1>8, <2>1
    <3>2. N + Len(m) \in Nat
      BY <1>1, <1>2
    <3>3. PICK i \in W, k \in 1 .. Cardinality(W) :
            i = N + d /\ k = C + d /\ Cardinality(Upto(W, i)) = k
      BY <2>1, <3>1
    <3>4. Nth(W, k) = i
      BY <1>3, <3>2, <3>3, NthIsOnly
    <3>5. QED
      BY <3>3, <3>4
  <2>3. Messages(s \o t)[C + d] = (s \o t)[N + d].body
    BY <1>6, <2>1, <2>2
  <2>4. (s \o t)[N + d].body = m[d]
    <3>1. (s \o t)[N + d] = Row("message", m[d])
      BY <1>2, Zenon
    <3>2. QED
      BY <3>1 DEF Row
  <2>5. QED
    BY <2>1, <2>3, <2>4
<1>11. /\ IsSeq(Messages(s) \o m) /\ Len(Messages(s) \o m) = C + Len(m)
       /\ \A k \in 1 .. C : (Messages(s) \o m)[k] = Messages(s)[k]
       /\ \A d \in 1 .. Len(m) : (Messages(s) \o m)[C + d] = m[d]
  <2>1. IsSeq(Messages(s)) /\ IsSeq(m)
    BY <1>6
  <2>2. /\ IsSeq(Messages(s) \o m) /\ Len(Messages(s) \o m) = Len(Messages(s)) + Len(m)
        /\ \A k \in 1 .. Len(Messages(s)) : (Messages(s) \o m)[k] = Messages(s)[k]
        /\ \A d \in 1 .. Len(m) : (Messages(s) \o m)[Len(Messages(s)) + d] = m[d]
    BY <2>1, ConcatParts
  <2>3. Len(Messages(s)) = C
    BY <1>6
  <2>4. QED
    BY <2>2, <2>3
<1>12. ASSUME NEW k \in 1 .. C + Len(m)
       PROVE  Messages(s \o t)[k] = (Messages(s) \o m)[k]
  <2>1. CASE k \in 1 .. C
    BY <1>6, <1>7, <1>11, <2>1
  <2>2. CASE k \notin 1 .. C
    <3>1. PICK d \in 1 .. Len(m) : k = C + d
      <4>1. k - C \in 1 .. Len(m) /\ k = C + (k - C)
        BY <1>1, <1>6, <2>2
      <4>2. QED
        BY <4>1
    <3>2. QED
      BY <1>10, <1>11, <3>1
  <2>3. QED
    BY <2>1, <2>2
<1>13. Messages(s \o t) = Messages(s) \o m
  BY <1>6, <1>9, <1>11, <1>12, SameSeq
<1>14. QED
  BY <1>13 DEF t

\* ... and other events are not seen.
LEMMA MessagesStay ==
  ASSUME NEW s, NEW t, IsSeq(s), IsSeq(t), Where("message", t) = {}
  PROVE  Messages(s \o t) = Messages(s)
<1> DEFINE V == Where("message", s)
           W == Where("message", s \o t)
<1>1. /\ IsSeq(s \o t) /\ Len(s) \in Nat /\ Len(t) \in Nat
      /\ Len(s \o t) = Len(s) + Len(t)
      /\ \A i \in 1 .. Len(s) : (s \o t)[i] = s[i]
      /\ \A i \in 1 .. Len(t) : (s \o t)[Len(s) + i] = t[i]
  BY ConcatParts
<1>2. W = V
  <2>1. ASSUME NEW i \in W PROVE i \in V
    <3>1. i \in 1 .. Len(s) + Len(t) /\ (s \o t)[i].kind = "message"
      BY <1>1 DEF Where
    <3>2. CASE i \in 1 .. Len(s)
      BY <1>1, <3>1, <3>2 DEF Where
    <3>3. CASE i \notin 1 .. Len(s)
      <4>1. i - Len(s) \in 1 .. Len(t) /\ i = Len(s) + (i - Len(s))
        BY <1>1, <3>1, <3>3
      <4>2. i - Len(s) \in Where("message", t)
        BY <1>1, <3>1, <4>1 DEF Where
      <4>3. QED
        BY <4>2
    <3>4. QED
      BY <3>2, <3>3
  <2>2. ASSUME NEW i \in V PROVE i \in W
    BY <1>1 DEF Where
  <2>3. QED
    BY <2>1, <2>2
<1>3. /\ IsSeq(Messages(s)) /\ Len(Messages(s)) = Cardinality(V)
      /\ IsSeq(Messages(s \o t)) /\ Len(Messages(s \o t)) = Cardinality(W)
      /\ \A k \in 1 .. Cardinality(W) : Messages(s \o t)[k] = (s \o t)[Nth(W, k)].body
  BY <1>1, MessagesAre
<1>4. \A k \in 1 .. Cardinality(V) : (s \o t)[Nth(W, k)].body = Messages(s)[k]
  BY MessagesKept
<1> HIDE DEF V, W
<1>5. QED
  BY <1>2, <1>3, <1>4, SameSeq

LEMMA NothingStored == Messages(<<>>) = <<>> /\ TokenCount(<<>>) = Fits
<1>1. \A kind : Where(kind, <<>>) = {}
  BY DEF Where
<1>2. IsSeq(<<>>)
  BY OneIsSeq
<1>3. Cardinality({}) = 0
  BY FS_EmptySet
<1>4. IsSeq(Messages(<<>>)) /\ Len(Messages(<<>>)) = 0
  BY <1>1, <1>2, <1>3, MessagesAre
<1>5. Len(<<>>) = 0
  OBVIOUS
<1>6. Messages(<<>>) = <<>>
  BY <1>2, <1>4, <1>5, SameSeq
<1>7. QED
  BY <1>1, <1>6 DEF TokenCount

\* The last usage event decides.
LEMMA TokensStay ==
  ASSUME NEW s, NEW t, IsSeq(s), IsSeq(t), Where("usage", t) = {}
  PROVE  TokenCount(s \o t) = TokenCount(s)
<1> DEFINE V == Where("usage", s)
           W == Where("usage", s \o t)
<1>1. /\ IsSeq(s \o t) /\ Len(s) \in Nat /\ Len(t) \in Nat
      /\ Len(s \o t) = Len(s) + Len(t)
      /\ \A i \in 1 .. Len(s) : (s \o t)[i] = s[i]
      /\ \A i \in 1 .. Len(t) : (s \o t)[Len(s) + i] = t[i]
  BY ConcatParts
<1>2. W = V
  <2>1. ASSUME NEW i \in W PROVE i \in V
    <3>1. i \in 1 .. Len(s) + Len(t) /\ (s \o t)[i].kind = "usage"
      BY <1>1 DEF Where
    <3>2. CASE i \in 1 .. Len(s)
      BY <1>1, <3>1, <3>2 DEF Where
    <3>3. CASE i \notin 1 .. Len(s)
      <4>1. i - Len(s) \in 1 .. Len(t) /\ i = Len(s) + (i - Len(s))
        BY <1>1, <3>1, <3>3
      <4>2. i - Len(s) \in Where("usage", t)
        BY <1>1, <3>1, <4>1 DEF Where
      <4>3. QED
        BY <4>2
    <3>4. QED
      BY <3>2, <3>3
  <2>2. ASSUME NEW i \in V PROVE i \in W
    BY <1>1 DEF Where
  <2>3. QED
    BY <2>1, <2>2
<1>3. V # {} => Greatest(V) \in V
  <2>1. V \in SUBSET (1 .. Len(s))
    BY DEF Where
  <2> HIDE DEF V
  <2>2. QED
    BY <1>1, <2>1, GreatestIs
<1>4. V # {} => (s \o t)[Greatest(V)] = s[Greatest(V)]
  BY <1>1, <1>3 DEF Where
<1>5. QED
  BY <1>2, <1>4 DEF TokenCount, LastOf

LEMMA TokensNew ==
  ASSUME NEW s, IsSeq(s), NEW x
  PROVE  TokenCount(s \o <<Row("usage", x)>>) = x
<1> DEFINE t == s \o <<Row("usage", x)>>
           W == Where("usage", t)
<1>1. Len(s) \in Nat /\ Len(t) = Len(s) + 1 /\ t[Len(s) + 1] = Row("usage", x)
  BY AppendOne
<1> HIDE DEF t
<1>2. W \in SUBSET (1 .. Len(s) + 1) /\ Len(s) + 1 \in W
  BY <1>1 DEF Where, Row
<1>3. Greatest(W) \in W /\ \A j \in W : j <= Greatest(W)
  <2>1. W # {} /\ Len(s) + 1 \in Nat
    BY <1>1, <1>2
  <2> HIDE DEF W
  <2>2. QED
    BY <1>2, <2>1, GreatestIs
<1>4. Greatest(W) = Len(s) + 1
  <2>1. Greatest(W) \in 1 .. Len(s) + 1 /\ Len(s) + 1 <= Greatest(W)
    BY <1>2, <1>3
  <2> HIDE DEF W
  <2>2. QED
    BY <1>1, <2>1
<1>5. TokenCount(t) = x
  <2>1. W # {}
    BY <1>2
  <2>2. QED
    BY <1>1, <1>4, <2>1 DEF TokenCount, LastOf, Row
<1>6. QED
  BY <1>5 DEF t

-----------------------------------------------------------------------------
(* The memory is what the stored events restore.                           *)

\* A transaction keeps events or a number of them, and adds a sequence.
Whole(op) == op.keep \in Nat \cup {None} /\ IsSeq(op.put)

Form ==
  /\ IsSeq(stored) /\ IsSeq(history) /\ IsSeq(compacted)
  /\ answer.calls \in Nat /\ cut \in Nat
  /\ \A op \in late : Whole(op)

MemoryInv == Form /\ (late # {} => torn) /\ Restorable

WholeRewinds == "restore" \notin FailAt \cup CancelAt

LEMMA CommittedIsSeq ==
  ASSUME NEW s, IsSeq(s), NEW op, Whole(op)
  PROVE  IsSeq(Committed(op, s))
<1>1. CASE op.keep = None
  BY <1>1, ConcatParts DEF Committed, Whole
<1>2. CASE op.keep # None
  <2>1. op.keep \in Nat /\ Len(s) \in Nat
    BY <1>2 DEF Whole, IsSeq
  <2>2. PICK n \in Nat : n <= Len(s) /\ n = IF op.keep < Len(s) THEN op.keep ELSE Len(s)
    BY <2>1
  <2>3. QED
    BY <1>2, <2>2, SubSeqParts DEF Committed
<1>3. QED
  BY <1>1, <1>2

LEMMA IssuedIsWhole == ASSUME Form PROVE Whole(Issued)
<1>1. Issued.keep \in Nat \cup {None}
  BY DEF Issued, Form
<1>2. IsSeq(Spoken)
  BY SpokenAre DEF Form
<1>3. IsSeq(Rows(Spoken))
  BY <1>2, RowsAreMessages
<1>4. IsSeq(Issued.put)
  BY <1>3, OneIsSeq DEF Issued
<1>5. QED
  BY <1>1, <1>4 DEF Whole

\* A step that stores nothing and leaves the memory alone.
LEMMA NothingNew ==
  ASSUME MemoryInv, ~Rebuilding, UNCHANGED <<stored, history, tokens, late>>,
         IsSeq(compacted'), answer'.calls \in Nat, cut' \in Nat, torn => torn'
  PROVE  MemoryInv'
BY DEF MemoryInv, Form, Restorable

\* Messages that are stored and added to the history.
LEMMA Speaks ==
  ASSUME MemoryInv, Commit, history' = history \o Spoken,
         pc \in {"mark", "user", "init", "dmail", "answer", "results", "summary"},
         UNCHANGED <<tokens, compacted, answer, cut, late, torn>>
  PROVE  MemoryInv'
<1>1. IsSeq(Spoken) /\ IsSeq(history) /\ IsSeq(stored)
  BY SpokenAre DEF MemoryInv, Form
<1>2. PICK m : m = Spoken
  OBVIOUS
<1>3. stored' = stored \o Rows(m)
  BY <1>2 DEF Commit, Committed, Issued
<1>4. IsSeq(Rows(m)) /\ Where("usage", Rows(m)) = {}
  <2>1. IsSeq(Rows(m)) /\ Len(m) \in Nat
    BY <1>1, <1>2, RowsAreMessages DEF IsSeq
  <2>2. \A i \in 1 .. Len(m) : Rows(m)[i].kind = "message"
    BY DEF Rows, Row
  <2>3. Len(Rows(m)) = Len(m)
    BY <2>1 DEF Rows
  <2>4. QED
    BY <2>1, <2>2, <2>3 DEF Where
<1>5. IsSeq(stored') /\ IsSeq(history')
  BY <1>1, <1>2, <1>3, <1>4, ConcatParts
<1>6. Messages(stored \o Rows(m)) = Messages(stored) \o m
  BY <1>1, <1>2, MessagesGrow
<1>7. TokenCount(stored \o Rows(m)) = TokenCount(stored)
  BY <1>1, <1>4, TokensStay
<1>8. torn \/ (history = Messages(stored) /\ tokens = TokenCount(stored))
  BY DEF MemoryInv, Restorable
<1>9. torn' \/ (history' = Messages(stored') /\ tokens' = TokenCount(stored'))
  <2>1. CASE torn
    BY <2>1
  <2>2. CASE ~torn
    <3>1. history' = Messages(stored')
      BY <1>2, <1>3, <1>6, <1>8, <2>2
    <3>2. tokens' = TokenCount(stored')
      BY <1>3, <1>7, <1>8, <2>2
    <3>3. QED
      BY <3>1, <3>2
  <2>3. QED
    BY <2>1, <2>2
<1>10. Restorable'
  BY <1>9 DEF Restorable
<1>11. QED
  BY <1>5, <1>10 DEF MemoryInv, Form

\* An event that is no message.
LEMMA StoresOne ==
  ASSUME MemoryInv, pc \in {"checkpoint", "usageIn", "usageTotal"}, Commit,
         UNCHANGED <<history, compacted, answer, cut, late, torn>>,
         tokens' = CASE pc = "usageIn" -> answer.usage[1]
                     [] pc = "usageTotal" -> answer.usage[2]
                     [] OTHER -> tokens
  PROVE  MemoryInv'
<1>1. PICK r : /\ Issued.put = <<r>> /\ r.kind # "message"
               /\ pc = "checkpoint" => r.kind # "usage"
               /\ pc # "checkpoint" => r = Row("usage", tokens')
  <2>1. CASE pc = "checkpoint"
    BY <2>1 DEF Issued, Row
  <2>2. CASE pc = "usageIn"
    BY <2>2 DEF Issued, Row
  <2>3. CASE pc = "usageTotal"
    BY <2>3 DEF Issued, Row
  <2>4. QED
    BY <2>1, <2>2, <2>3
<1>2. IsSeq(stored) /\ IsSeq(<<r>>) /\ Len(<<r>>) = 1 /\ <<r>>[1] = r
  BY OneIsSeq DEF MemoryInv, Form
<1>3. stored' = stored \o <<r>>
  BY <1>1 DEF Commit, Committed, Issued
<1>4. IsSeq(stored')
  BY <1>2, <1>3, ConcatParts
<1>5. Messages(stored \o <<r>>) = Messages(stored)
  <2>1. Where("message", <<r>>) = {}
    BY <1>1, <1>2 DEF Where
  <2>2. QED
    BY <1>2, <2>1, MessagesStay
<1>6. torn \/ (history = Messages(stored) /\ tokens = TokenCount(stored))
  BY DEF MemoryInv, Restorable
<1>7. pc = "checkpoint" => TokenCount(stored \o <<r>>) = TokenCount(stored)
  <2>1. pc = "checkpoint" => Where("usage", <<r>>) = {}
    BY <1>1, <1>2 DEF Where
  <2>2. QED
    BY <1>2, <2>1, TokensStay
<1>8. pc # "checkpoint" => TokenCount(stored \o <<r>>) = tokens'
  <2>1. PICK x : x = tokens'
    OBVIOUS
  <2>2. TokenCount(stored \o <<Row("usage", x)>>) = x
    BY <1>2, TokensNew
  <2>3. QED
    BY <1>1, <2>1, <2>2
<1>9. torn' \/ (history' = Messages(stored') /\ tokens' = TokenCount(stored'))
  <2>1. CASE torn
    BY <2>1
  <2>2. CASE ~torn
    <3>1. history' = Messages(stored')
      BY <1>3, <1>5, <1>6, <2>2
    <3>2. tokens' = TokenCount(stored')
      BY <1>3, <1>6, <1>7, <1>8, <2>2
    <3>3. QED
      BY <3>1, <3>2
  <2>3. QED
    BY <2>1, <2>2
<1>10. Restorable'
  BY <1>9 DEF Restorable
<1>11. QED
  BY <1>4, <1>10 DEF MemoryInv, Form

LEMMA InitMemory == Init => MemoryInv
<1> SUFFICES ASSUME Init PROVE MemoryInv
  OBVIOUS
<1>1. Form
  BY OneIsSeq DEF Init, Form, Idle
<1>2. QED
  BY <1>1, NothingStored DEF Init, MemoryInv, Restorable

LEMMA SoulMemory == ASSUME MemoryInv, Soul PROVE MemoryInv'
<1> USE DEF memory, scratch, denwa, around
<1>f. IsSeq(compacted) /\ IsSeq(stored) /\ answer.calls \in Nat /\ cut \in Nat
  BY DEF MemoryInv, Form
<1>1. CASE WriteCheckpoint
  BY <1>1, StoresOne DEF WriteCheckpoint
<1>2. CASE WriteUsage
  BY <1>2, StoresOne DEF WriteUsage
<1>3. CASE WriteMark \/ WriteSummary
  BY <1>3, Speaks DEF WriteMark, WriteSummary
<1>4. CASE WriteUser \/ WriteInit \/ WriteDmail \/ WriteAnswer \/ WriteResults
  BY <1>4, Speaks
  DEF WriteUser, WriteInit, WriteDmail, WriteAnswer, WriteResults, WriteMessages
<1>5. CASE MaxStepsReached \/ StartStep \/ Settle
  BY <1>f, <1>5, NothingNew DEF MaxStepsReached, StartStep, Settle
<1>6. CASE Find
  <2>1. cut' \in Nat
    <3> DEFINE found == {i \in Where("checkpoint", stored) : stored[i].body = target}
    <3>1. CASE found = {}
      BY <1>f, <1>6, <3>1 DEF Find
    <3>2. CASE found # {}
      <4>1. cut' = (CHOOSE i \in found : \A j \in found : i <= j) - 1
        BY <1>6, <3>2 DEF Find
      <4>2. \A i \in found : i \in Nat /\ i > 0
        BY <1>f DEF Where, IsSeq
      <4> HIDE DEF found
      <4>3. \E i \in found : \A j \in found : i <= j
        BY <3>2, <4>2, LeastExists
      <4>4. (CHOOSE i \in found : \A j \in found : i <= j) \in found
        BY <4>3, Zenon
      <4>5. QED
        BY <4>1, <4>2, <4>4
    <3>3. QED
      BY <3>1, <3>2
  <2>2. QED
    BY <1>f, <1>6, <2>1, NothingNew DEF Find
<1>7. CASE \E calls \in Calls, usage \in Usages : Generate(calls, usage)
  <2>1. PICK calls \in Calls, usage \in Usages : Generate(calls, usage)
    BY <1>7
  <2>2. answer'.calls \in Nat
    BY <2>1 DEF Generate
  <2>3. QED
    BY <1>f, <2>1, <2>2, NothingNew DEF Generate
<1>8. CASE \E how \in Outcomes : FinishTools(how)
  BY <1>f, <1>8, NothingNew DEF FinishTools
<1>9. CASE Compact
  <2>1. IsSeq(compacted')
    BY <1>9, CompactionIsSeq DEF Compact, MemoryInv, Form
  <2>2. QED
    BY <1>f, <1>9, <2>1, NothingNew DEF Compact
<1>10. CASE Clear
  <2>1. stored' = <<>>
    <3>1. Issued.keep = 0 /\ 0 # None
      BY <1>10 DEF Clear, Issued
    <3>2. Len(stored) \in Nat
      BY <1>f DEF IsSeq
    <3>3. stored' = SubSeq(stored, 1, 0)
      BY <1>10, <3>1, <3>2 DEF Clear, Commit, Committed
    <3>4. IsSeq(SubSeq(stored, 1, 0)) /\ Len(SubSeq(stored, 1, 0)) = 0
      BY <1>f, <3>2, SubSeqParts
    <3>5. Len(<<>>) = 0 /\ IsSeq(<<>>)
      BY OneIsSeq
    <3>6. SubSeq(stored, 1, 0) = <<>>
      BY <3>4, <3>5, SameSeq
    <3>7. QED
      BY <3>3, <3>6
  <2>2. history' = <<>> /\ tokens' = Fits
    BY <1>10 DEF Clear
  <2>3. Restorable'
    BY <2>1, <2>2, NothingStored DEF Restorable
  <2>4. QED
    BY <1>10, <2>1, <2>2, <2>3, OneIsSeq DEF Clear, MemoryInv, Form
<1>11. CASE Truncate
  <2>1. IsSeq(stored')
    BY <1>11, IssuedIsWhole, CommittedIsSeq DEF Truncate, Commit, MemoryInv, Form
  <2>2. QED
    BY <1>11, <2>1, OneIsSeq DEF Truncate, MemoryInv, Form, Restorable
<1>12. CASE Restore
  <2>1. IsSeq(history')
    BY <1>12, <1>f, MessagesIsSeq DEF Restore
  <2>2. QED
    BY <1>12, <2>1 DEF Restore, MemoryInv, Form, Restorable
<1>13. QED
  BY <1>1, <1>2, <1>3, <1>4, <1>5, <1>6, <1>7, <1>8, <1>9, <1>10, <1>11, <1>12 DEF Soul

LEMMA ClientMemory == ASSUME MemoryInv, Client PROVE MemoryInv'
<1>1. IsSeq(compacted) /\ answer.calls \in Nat /\ cut \in Nat
  BY DEF MemoryInv, Form
<1>2. ~Rebuilding /\ UNCHANGED <<stored, history, tokens, late, torn, compacted, answer, cut>>
  BY DEF Client, Prompt, SlashClear, SlashCompact, SlashInit, Begin, scratch, around
<1>3. QED
  BY <1>1, <1>2, NothingNew

LEMMA FaultsMemory == ASSUME MemoryInv, WholeRewinds, Faults PROVE MemoryInv'
<1> USE DEF memory, scratch, denwa, around
<1>f. IsSeq(compacted) /\ IsSeq(stored) /\ answer.calls \in Nat /\ cut \in Nat
  BY DEF MemoryInv, Form
<1>1. CASE Fail
  <2>1. pc \notin {"restore", "down"}
    BY <1>1 DEF Fail, WholeRewinds
  <2>2. QED
    BY <1>f, <1>1, <2>1, NothingNew DEF Fail
<1>2. CASE Cancel
  <2>1. pc \notin {"restore", "down"}
    BY <1>2 DEF Cancel, WholeRewinds
  <2>2. PICK op : op = Issued
    OBVIOUS
  <2>3. Whole(op)
    BY <2>2, IssuedIsWhole DEF MemoryInv
  <2>4. /\ late' = late \cup (IF pc \in Writes THEN {op} ELSE {})
        /\ torn' = (torn \/ pc \in Writes)
        /\ UNCHANGED <<stored, history, tokens, compacted, answer, cut>>
    BY <1>2, <2>2 DEF Cancel
  <2>5. Form'
    BY <2>3, <2>4 DEF MemoryInv, Form, Whole
  <2>6. late' # {} => torn'
    BY <2>4 DEF MemoryInv
  <2>7. Restorable'
    <3>1. torn \/ (history = Messages(stored) /\ tokens = TokenCount(stored))
      BY <2>1 DEF MemoryInv, Restorable
    <3>2. torn' \/ (history' = Messages(stored') /\ tokens' = TokenCount(stored'))
      BY <2>4, <3>1
    <3>3. QED
      BY <3>2 DEF Restorable
  <2>8. QED
    BY <2>5, <2>6, <2>7 DEF MemoryInv
<1>3. CASE \E op \in late : LateCommit(op)
  <2>1. PICK op \in late : LateCommit(op)
    BY <1>3
  <2>2. torn /\ torn' /\ Whole(op)
    BY <2>1 DEF MemoryInv, Form, LateCommit
  <2>3. IsSeq(stored')
    BY <1>f, <2>1, <2>2, CommittedIsSeq DEF LateCommit
  <2>4. QED
    BY <2>1, <2>2, <2>3 DEF MemoryInv, Form, LateCommit, Restorable, Whole
<1>4. CASE StrayEnds
  BY <1>4 DEF StrayEnds, MemoryInv, Form, Restorable
<1>5. CASE Crash
  <2>1. IsSeq(stored')
    BY <1>f, <1>5, IssuedIsWhole, CommittedIsSeq DEF Crash, MemoryInv
  <2>2. QED
    BY <1>5, <2>1, OneIsSeq DEF Crash, MemoryInv, Form, Restorable, Idle
<1>6. CASE Restart
  <2>1. IsSeq(history')
    BY <1>6, <1>f, MessagesIsSeq DEF Restart
  <2>2. QED
    BY <1>6, <2>1 DEF Restart, MemoryInv, Form, Restorable
<1>7. QED
  BY <1>1, <1>2, <1>3, <1>4, <1>5, <1>6 DEF Faults

LEMMA StepMemory == ASSUME MemoryInv, WholeRewinds, [Next]_vars PROVE MemoryInv'
<1>1. CASE \E id \in 0 .. nCheckpoints : SendDmail(id)
  BY <1>1 DEF SendDmail, memory, scratch, around, MemoryInv, Form, Restorable
<1>2. CASE UNCHANGED vars
  BY <1>2 DEF vars, memory, scratch, around, MemoryInv, Form, Restorable
<1>3. QED
  BY <1>1, <1>2, SoulMemory, ClientMemory, FaultsMemory DEF Next

\* Whatever fails, crashes or is rewound, compacted or cleared, in any order and
\* for all constants, a restarted process would show the model the history and
\* the token count it sees now; only a cancelled transaction breaks it (torn),
\* and a rewind must not be interrupted between its truncation and its reload.
\* (soul/context.rs:31-163)
THEOREM MemoryRestorable ==
  ASSUME WholeRewinds
  PROVE  Spec => []Restorable
<1>1. Init => MemoryInv
  BY InitMemory
<1>2. MemoryInv /\ [Next]_vars => MemoryInv'
  BY StepMemory
<1>3. MemoryInv => Restorable
  BY DEF MemoryInv
<1>4. QED
  BY <1>1, <1>2, <1>3, PTL DEF Spec

-----------------------------------------------------------------------------
(* Calls and their results stay together.                                  *)

\* Every call has its results behind it, and every result its call before it.
Closed(h) ==
  \A i \in 1 .. Len(h) :
    /\ h[i].role = "call" =>
         \A j \in 1 .. h[i].n : i + j <= Len(h) /\ h[i + j].role = "tool"
    /\ h[i].role = "tool" =>
         \E j \in 1 .. i - 1 : h[j].role = "call" /\ i <= j + h[j].n

\* The calls of messages are counted.
Counted(h) == IsSeq(h) /\ \A i \in 1 .. Len(h) : h[i].role = "call" => h[i].n \in Nat

\* Closed but for a last message with n calls, if n is not 0.
Open(h, n) ==
  IF n = 0 THEN Counted(h) /\ Closed(h)
  ELSE \E g : Counted(g) /\ Closed(g) /\ h = g \o <<Text("call", n)>>

LEMMA ClosedOne ==
  ASSUME NEW x, x.role \notin {"call", "tool"}
  PROVE  Counted(<<x>>) /\ Closed(<<x>>)
<1>1. Len(<<x>>) = 1 /\ <<x>>[1] = x /\ IsSeq(<<x>>)
  BY OneIsSeq
<1>2. QED
  BY <1>1 DEF Closed, Counted

LEMMA ClosedNone == Counted(<<>>) /\ Closed(<<>>)
<1>1. Len(<<>>) = 0 /\ IsSeq(<<>>)
  BY OneIsSeq
<1>2. QED
  BY <1>1 DEF Closed, Counted

LEMMA CountedConcat ==
  ASSUME NEW g, NEW h, Counted(g), Counted(h)
  PROVE  Counted(g \o h)
<1>1. /\ IsSeq(g \o h) /\ Len(g) \in Nat /\ Len(h) \in Nat /\ Len(g \o h) = Len(g) + Len(h)
      /\ \A i \in 1 .. Len(g) : (g \o h)[i] = g[i]
      /\ \A i \in 1 .. Len(h) : (g \o h)[Len(g) + i] = h[i]
  BY ConcatParts DEF Counted
<1>2. ASSUME NEW i \in 1 .. Len(g) + Len(h), (g \o h)[i].role = "call"
      PROVE  (g \o h)[i].n \in Nat
  <2>1. CASE i \in 1 .. Len(g)
    BY <1>1, <1>2, <2>1 DEF Counted
  <2>2. CASE i \notin 1 .. Len(g)
    <3>1. PICK k \in 1 .. Len(h) : i = Len(g) + k
      <4>1. i - Len(g) \in 1 .. Len(h) /\ i = Len(g) + (i - Len(g))
        BY <1>1, <2>2
      <4>2. QED
        BY <4>1
    <3>2. (g \o h)[i] = h[k]
      BY <1>1, <3>1
    <3>3. QED
      BY <1>2, <3>2 DEF Counted
  <2>3. QED
    BY <2>1, <2>2
<1>3. QED
  BY <1>1, <1>2 DEF Counted

LEMMA ClosedConcat ==
  ASSUME NEW g, NEW h, Counted(g), Closed(g), Counted(h), Closed(h)
  PROVE  Counted(g \o h) /\ Closed(g \o h)
<1> DEFINE s == g \o h
           N == Len(g)
           M == Len(h)
<1>1. /\ N \in Nat /\ M \in Nat /\ Len(s) = N + M
      /\ \A i \in 1 .. N : s[i] = g[i]
      /\ \A i \in 1 .. M : s[N + i] = h[i]
  BY ConcatParts DEF Counted
<1> HIDE DEF s
<1>2. ASSUME NEW i \in 1 .. N
      PROVE  /\ s[i].role = "call" =>
                  \A j \in 1 .. s[i].n : i + j <= N + M /\ s[i + j].role = "tool"
             /\ s[i].role = "tool" =>
                  \E j \in 1 .. i - 1 : s[j].role = "call" /\ i <= j + s[j].n
  <2>1. s[i] = g[i]
    BY <1>1
  <2>2. ASSUME g[i].role = "call", NEW j \in 1 .. g[i].n
        PROVE  i + j <= N + M /\ s[i + j].role = "tool"
    <3>1. i + j <= N /\ g[i + j].role = "tool"
      BY <2>2 DEF Closed
    <3>2. g[i].n \in Nat /\ j \in Nat /\ j > 0
      BY <2>2 DEF Counted
    <3>3. i + j \in 1 .. N
      BY <1>1, <3>1, <3>2
    <3>4. QED
      BY <1>1, <3>1, <3>3
  <2>3. ASSUME g[i].role = "tool"
        PROVE  \E j \in 1 .. i - 1 : s[j].role = "call" /\ i <= j + s[j].n
    <3>1. PICK j \in 1 .. i - 1 : g[j].role = "call" /\ i <= j + g[j].n
      BY <2>3 DEF Closed
    <3>2. j \in 1 .. N
      BY <1>1
    <3>3. QED
      BY <1>1, <3>1, <3>2
  <2>4. QED
    BY <2>1, <2>2, <2>3
<1>3. ASSUME NEW k \in 1 .. M
      PROVE  /\ s[N + k].role = "call" =>
                  \A j \in 1 .. s[N + k].n :
                    (N + k) + j <= N + M /\ s[(N + k) + j].role = "tool"
             /\ s[N + k].role = "tool" =>
                  \E j \in 1 .. (N + k) - 1 : s[j].role = "call" /\ N + k <= j + s[j].n
  <2>1. s[N + k] = h[k]
    BY <1>1
  <2>2. ASSUME h[k].role = "call", NEW j \in 1 .. h[k].n
        PROVE  (N + k) + j <= N + M /\ s[(N + k) + j].role = "tool"
    <3>1. k + j <= M /\ h[k + j].role = "tool"
      BY <2>2 DEF Closed
    <3>2. h[k].n \in Nat /\ j \in Nat /\ j > 0
      BY <2>2 DEF Counted
    <3>3. PICK l \in 1 .. M : l = k + j
      BY <1>1, <3>1, <3>2
    <3>4. s[N + l] = h[l] /\ N + l = (N + k) + j
      BY <1>1, <3>2, <3>3
    <3>5. QED
      BY <1>1, <3>1, <3>3, <3>4
  <2>3. ASSUME h[k].role = "tool"
        PROVE  \E j \in 1 .. (N + k) - 1 : s[j].role = "call" /\ N + k <= j + s[j].n
    <3>1. PICK j \in 1 .. k - 1 : h[j].role = "call" /\ k <= j + h[j].n
      BY <2>3 DEF Closed
    <3>2. j \in 1 .. M /\ s[N + j] = h[j] /\ h[j].n \in Nat
      <4>1. j \in 1 .. M
        BY <1>1
      <4>2. QED
        BY <1>1, <3>1, <4>1 DEF Counted
    <3>3. N + j \in 1 .. (N + k) - 1 /\ N + k <= (N + j) + h[j].n
      BY <1>1, <3>1, <3>2
    <3>4. QED
      BY <3>1, <3>2, <3>3
  <2>4. QED
    BY <2>1, <2>2, <2>3
<1>4. ASSUME NEW i \in 1 .. N + M
      PROVE  /\ s[i].role = "call" =>
                  \A j \in 1 .. s[i].n : i + j <= N + M /\ s[i + j].role = "tool"
             /\ s[i].role = "tool" =>
                  \E j \in 1 .. i - 1 : s[j].role = "call" /\ i <= j + s[j].n
  <2>1. CASE i \in 1 .. N
    BY <1>2, <2>1
  <2>2. CASE i \notin 1 .. N
    <3>1. PICK k \in 1 .. M : i = N + k
      <4>1. i - N \in 1 .. M /\ i = N + (i - N)
        BY <1>1, <2>2
      <4>2. QED
        BY <4>1
    <3>2. QED
      BY <1>3, <3>1
  <2>3. QED
    BY <2>1, <2>2
<1>5. Closed(s)
  BY <1>1, <1>4 DEF Closed
<1>6. QED
  BY <1>5, CountedConcat DEF s

\* A call and as many results.
LEMMA ClosedGroup ==
  ASSUME NEW n \in Nat
  PROVE  LET t == <<Text("call", n)>> \o [i \in 1 .. n |-> Text("tool", 0)]
         IN  Counted(t) /\ Closed(t)
<1> DEFINE r == [i \in 1 .. n |-> Text("tool", 0)]
           c == <<Text("call", n)>>
           t == c \o r
<1>1. IsSeq(r) /\ Len(r) = n /\ \A i \in 1 .. n : r[i] = Text("tool", 0)
  <2>1. r \in Seq({Text("tool", 0)})
    OBVIOUS
  <2>2. IsSeq(r)
    BY <2>1 DEF IsSeq
  <2>3. Len(r) = n /\ \A i \in 1 .. n : r[i] = Text("tool", 0)
    OBVIOUS
  <2>4. QED
    BY <2>2, <2>3
<1>2. IsSeq(c) /\ Len(c) = 1 /\ c[1] = Text("call", n)
  BY OneIsSeq
<1> HIDE DEF r, c
<1>3. /\ IsSeq(t) /\ Len(t) = 1 + n
      /\ \A i \in 1 .. 1 : t[i] = c[i]
      /\ \A i \in 1 .. n : t[1 + i] = r[i]
  <2>1. /\ IsSeq(c \o r) /\ Len(c \o r) = Len(c) + Len(r)
        /\ \A i \in 1 .. Len(c) : (c \o r)[i] = c[i]
        /\ \A i \in 1 .. Len(r) : (c \o r)[Len(c) + i] = r[i]
    <3>1. IsSeq(c) /\ IsSeq(r)
      BY <1>1, <1>2
    <3>2. QED
      BY <3>1, ConcatParts
  <2>2. QED
    BY <1>1, <1>2, <2>1
<1> HIDE DEF t
<1>4. t[1].role = "call" /\ t[1].n = n
  BY <1>2, <1>3 DEF Text
<1>5. \A i \in 1 .. n : t[1 + i].role = "tool"
  <2>1. \A i \in 1 .. n : t[1 + i] = Text("tool", 0)
    BY <1>1, <1>3, Zenon
  <2>2. QED
    BY <2>1 DEF Text
<1>6. \A i \in 1 .. 1 + n : i = 1 \/ (i > 1 /\ t[i].role = "tool")
  <2>1. ASSUME NEW i \in 1 .. 1 + n, i # 1 PROVE i > 1 /\ t[i].role = "tool"
    <3>1. i - 1 \in 1 .. n /\ i = 1 + (i - 1)
      BY <2>1
    <3>2. t[1 + (i - 1)].role = "tool"
      BY <1>5, <3>1
    <3>3. QED
      BY <2>1, <3>1, <3>2
  <2>2. QED
    BY <2>1
<1>7. Counted(t)
  BY <1>3, <1>4, <1>6 DEF Counted
<1>8. Closed(t)
  <2>1. ASSUME NEW i \in 1 .. 1 + n, t[i].role = "call", NEW j \in 1 .. t[i].n
        PROVE  i + j <= 1 + n /\ t[i + j].role = "tool"
    <3>1. i = 1
      BY <1>6, <2>1
    <3>2. QED
      BY <1>4, <1>5, <3>1
  <2>2. ASSUME NEW i \in 1 .. 1 + n, t[i].role = "tool"
        PROVE  \E j \in 1 .. i - 1 : t[j].role = "call" /\ i <= j + t[j].n
    <3>1. i # 1
      BY <1>4, <2>2
    <3>2. 1 \in 1 .. i - 1 /\ i <= 1 + n
      BY <3>1
    <3>3. QED
      BY <1>4, <3>2
  <2>3. \A i \in 1 .. 1 + n :
          /\ t[i].role = "call" =>
               \A j \in 1 .. t[i].n : i + j <= 1 + n /\ t[i + j].role = "tool"
          /\ t[i].role = "tool" =>
               \E j \in 1 .. i - 1 : t[j].role = "call" /\ i <= j + t[j].n
    BY <2>1, <2>2, Zenon
  <2>4. QED
    BY <1>3, <2>3 DEF Closed
<1>9. QED
  BY <1>7, <1>8 DEF t, c, r

\* What follows from a message that is no result is closed as well.
LEMMA ClosedRest ==
  ASSUME NEW s, Counted(s), Closed(s), NEW m \in 1 .. Len(s), s[m].role # "tool"
  PROVE  Counted(SubSeq(s, m, Len(s))) /\ Closed(SubSeq(s, m, Len(s)))
<1> DEFINE t == SubSeq(s, m, Len(s))
           M == Len(s) - m + 1
           o == m - 1
<1>1. Len(s) \in Nat /\ o \in Nat /\ M \in Nat /\ o + M = Len(s)
  BY DEF Counted, IsSeq
<1>2. IsSeq(t) /\ Len(t) = M /\ \A i \in 1 .. M : t[i] = s[o + i]
  <2>1. PICK S : s \in Seq(S)
    BY DEF Counted, IsSeq
  <2>2. t \in Seq(S)
    BY <1>1, <2>1
  <2>3. QED
    BY <1>1, <2>1, <2>2 DEF IsSeq
<1> HIDE DEF t
<1>3. Counted(t)
  <2>1. \A i \in 1 .. M : o + i \in 1 .. Len(s)
    BY <1>1
  <2>2. QED
    BY <1>2, <2>1 DEF Counted
<1>4. ASSUME NEW i \in 1 .. M
      PROVE  /\ t[i].role = "call" =>
                  \A j \in 1 .. t[i].n : i + j <= M /\ t[i + j].role = "tool"
             /\ t[i].role = "tool" =>
                  \E j \in 1 .. i - 1 : t[j].role = "call" /\ i <= j + t[j].n
  <2>1. PICK k \in 1 .. Len(s) : k = o + i /\ t[i] = s[k]
    <3>1. o + i \in 1 .. Len(s)
      BY <1>1
    <3>2. QED
      BY <1>2, <3>1
  <2>2. ASSUME s[k].role = "call", NEW j \in 1 .. s[k].n
        PROVE  i + j <= M /\ t[i + j].role = "tool"
    <3>1. k + j <= Len(s) /\ s[k + j].role = "tool"
      BY <2>2 DEF Closed
    <3>2. s[k].n \in Nat /\ j \in Nat /\ j > 0
      BY <2>2 DEF Counted
    <3>3. i + j \in 1 .. M /\ o + (i + j) = k + j
      BY <1>1, <2>1, <3>1, <3>2
    <3>4. t[i + j] = s[k + j]
      BY <1>2, <3>3
    <3>5. QED
      BY <3>1, <3>3, <3>4
  <2>3. ASSUME s[k].role = "tool"
        PROVE  \E j \in 1 .. i - 1 : t[j].role = "call" /\ i <= j + t[j].n
    <3>1. PICK j \in 1 .. k - 1 : s[j].role = "call" /\ k <= j + s[j].n
      BY <2>3 DEF Closed
    <3>2. j \in 1 .. Len(s) /\ s[j].n \in Nat
      <4>1. j \in 1 .. Len(s)
        BY <1>1
      <4>2. QED
        BY <3>1, <4>1 DEF Counted
    <3>3. j >= m
      <4> SUFFICES ASSUME j < m PROVE FALSE
        BY <3>2
      <4>0. PICK n \in Nat : n = s[j].n /\ k <= j + n
        BY <3>1, <3>2
      <4>1. m \in Nat /\ j \in Nat /\ k \in Nat /\ m <= k /\ j < m
        <5>1. k = o + i
          BY <2>1
        <5>2. QED
          BY <1>1, <5>1
      <4>2. m - j \in 1 .. s[j].n /\ j + (m - j) = m
        <5>1. m - j \in 1 .. n /\ j + (m - j) = m
          BY <4>0, <4>1
        <5>2. QED
          BY <4>0, <5>1
      <4>3. s[j + (m - j)].role = "tool"
        <5>1. \A d \in 1 .. s[j].n : j + d <= Len(s) /\ s[j + d].role = "tool"
          BY <3>1, <3>2, Zenon DEF Closed
        <5>2. QED
          BY <4>2, <5>1, Zenon
      <4>4. QED
        BY <4>2, <4>3
    <3>4. PICK l \in 1 .. i - 1 : l = j - o
      BY <1>1, <2>1, <3>2, <3>3
    <3>5. l \in 1 .. M /\ t[l] = s[j] /\ i <= l + s[j].n
      <4>1. l \in 1 .. M /\ o + l = j
        BY <1>1, <3>2, <3>4
      <4>2. t[l] = s[o + l]
        BY <1>2, <4>1
      <4>3. i <= l + s[j].n
        <5>1. i = k - o /\ l = j - o /\ k <= j + s[j].n
          BY <1>1, <2>1, <3>1, <3>4
        <5>2. QED
          BY <1>1, <2>1, <3>2, <5>1
      <4>4. QED
        BY <4>1, <4>2, <4>3
    <3>6. QED
      BY <3>1, <3>4, <3>5
  <2>4. QED
    BY <2>1, <2>2, <2>3
<1>5. Closed(t)
  BY <1>2, <1>4 DEF Closed
<1>6. QED
  BY <1>3, <1>5 DEF t

Tidy(h) == Counted(h) /\ Closed(h)

LEMMA ConcatAssoc ==
  ASSUME NEW a, NEW b, NEW c, IsSeq(a), IsSeq(b), IsSeq(c)
  PROVE  (a \o b) \o c = a \o (b \o c)
<1>1. PICK A : a \in Seq(A)
  BY DEF IsSeq
<1>2. PICK B : b \in Seq(B)
  BY DEF IsSeq
<1>3. PICK C : c \in Seq(C)
  BY DEF IsSeq
<1>4. PICK S : a \in Seq(S) /\ b \in Seq(S) /\ c \in Seq(S)
  <2>1. a \in Seq(A \cup B \cup C) /\ b \in Seq(A \cup B \cup C) /\ c \in Seq(A \cup B \cup C)
    BY <1>1, <1>2, <1>3
  <2>2. QED
    BY <2>1
<1>5. QED
  BY <1>4

LEMMA TidyCompaction == ASSUME NEW s, Tidy(s) PROVE Tidy(Compaction(s))
<1> DEFINE others == Speaking(s) \ {Greatest(Speaking(s))}
           m == Greatest(others)
<1>1. CASE Speaking(s) = {} \/ others = {} \/ m = 1
  BY <1>1 DEF Compaction
<1>2. CASE ~ (Speaking(s) = {} \/ others = {} \/ m = 1)
  <2>1. others \in SUBSET (1 .. Len(s)) /\ Len(s) \in Nat
    BY DEF Speaking, Tidy, Counted, IsSeq
  <2>2. m \in others
    <3> HIDE DEF others
    <3> QED
      BY <1>2, <2>1, GreatestIs
  <2>3. m \in 1 .. Len(s) /\ s[m].role # "tool"
    BY <2>2 DEF Speaking
  <2>4. Compaction(s) = <<Text("summary", 0)>> \o SubSeq(s, m, Len(s))
    BY <1>2 DEF Compaction
  <2> HIDE DEF m
  <2>5. Tidy(SubSeq(s, m, Len(s)))
    BY <2>3, ClosedRest DEF Tidy
  <2>6. Tidy(<<Text("summary", 0)>>)
    BY ClosedOne DEF Text, Tidy
  <2>7. QED
    BY <2>4, <2>5, <2>6, ClosedConcat DEF Tidy
<1>3. QED
  BY <1>1, <1>2

\* The results that the history waits for.
Waiting == IF pc \in {"usageTotal", "results"} THEN answer.calls ELSE 0

\* What a rewind to any of its checkpoints leaves is tidy.
CutsTidy(s) == \A i \in Where("checkpoint", s) : Tidy(Messages(SubSeq(s, 1, i - 1)))

StoredFit(s, n) == IsSeq(s) /\ Open(Messages(s), n) /\ CutsTidy(s)

CallsInv ==
  /\ answer.calls \in Nat
  /\ pc \in Labels \ {"down"} /\ ret \in {"user", "model", "summary", "dmail", "idle"}
  /\ Open(history, Waiting) /\ StoredFit(stored, Waiting) /\ Tidy(compacted)
  /\ pc = "truncate" => cut \in Nat /\ cut + 1 \in Where("checkpoint", stored)
  /\ pc = "results" => answer.calls > 0
  /\ \/ late = {}
     \/ pc = "idle" /\ \E op : late = {op} /\ StoredFit(Committed(op, stored), 0)

\* No answer is cut off from its results, and what is cancelled commits in time.
WholeAnswers ==
  /\ FailAt \cap {"usageTotal", "results"} = {}
  /\ CancelAt \cap {"answer", "usageTotal", "results"} = {}
  /\ MaySlow = FALSE /\ MayCrash = FALSE

LEMMA StartOfConcat ==
  ASSUME NEW s, NEW t, IsSeq(s), IsSeq(t), NEW n \in Nat, n <= Len(s)
  PROVE  SubSeq(s \o t, 1, n) = SubSeq(s, 1, n)
<1>1. /\ IsSeq(s \o t) /\ Len(s) \in Nat /\ Len(t) \in Nat
      /\ Len(s \o t) = Len(s) + Len(t)
      /\ \A i \in 1 .. Len(s) : (s \o t)[i] = s[i]
  BY ConcatParts
<1>2. n <= Len(s \o t)
  BY <1>1
<1>3. IsSeq(SubSeq(s, 1, n)) /\ Len(SubSeq(s, 1, n)) = n
      /\ \A i \in 1 .. n : SubSeq(s, 1, n)[i] = s[i]
  BY SubSeqParts
<1>4. IsSeq(SubSeq(s \o t, 1, n)) /\ Len(SubSeq(s \o t, 1, n)) = n
      /\ \A i \in 1 .. n : SubSeq(s \o t, 1, n)[i] = (s \o t)[i]
  BY <1>1, <1>2, SubSeqParts
<1>5. \A i \in 1 .. n : i \in 1 .. Len(s)
  BY <1>1
<1>6. \A i \in 1 .. n : SubSeq(s \o t, 1, n)[i] = SubSeq(s, 1, n)[i]
  BY <1>1, <1>3, <1>4, <1>5
<1>7. QED
  BY <1>3, <1>4, <1>6, SameSeq

LEMMA StartOfStart ==
  ASSUME NEW s, IsSeq(s), NEW n \in Nat, NEW k \in Nat, k <= n, n <= Len(s)
  PROVE  SubSeq(SubSeq(s, 1, n), 1, k) = SubSeq(s, 1, k)
<1> DEFINE t == SubSeq(s, 1, n)
<1>1. Len(s) \in Nat /\ k <= Len(s)
  BY DEF IsSeq
<1>2. IsSeq(t) /\ Len(t) = n /\ \A i \in 1 .. n : t[i] = s[i]
  BY SubSeqParts
<1> HIDE DEF t
<1>3. IsSeq(SubSeq(t, 1, k)) /\ Len(SubSeq(t, 1, k)) = k
      /\ \A i \in 1 .. k : SubSeq(t, 1, k)[i] = t[i]
  BY <1>2, SubSeqParts
<1>4. IsSeq(SubSeq(s, 1, k)) /\ Len(SubSeq(s, 1, k)) = k
      /\ \A i \in 1 .. k : SubSeq(s, 1, k)[i] = s[i]
  BY <1>1, SubSeqParts
<1>5. \A i \in 1 .. k : SubSeq(t, 1, k)[i] = SubSeq(s, 1, k)[i]
  BY <1>2, <1>3, <1>4
<1>6. SubSeq(t, 1, k) = SubSeq(s, 1, k)
  BY <1>3, <1>4, <1>5, SameSeq
<1>7. QED
  BY <1>6 DEF t

LEMMA CutsGrow ==
  ASSUME NEW s, NEW t, IsSeq(s), IsSeq(t), CutsTidy(s), Where("checkpoint", t) = {}
  PROVE  CutsTidy(s \o t)
<1>1. /\ Len(s) \in Nat /\ Len(t) \in Nat /\ Len(s \o t) = Len(s) + Len(t)
      /\ \A i \in 1 .. Len(s) : (s \o t)[i] = s[i]
      /\ \A i \in 1 .. Len(t) : (s \o t)[Len(s) + i] = t[i]
  BY ConcatParts
<1>2. ASSUME NEW i \in Where("checkpoint", s \o t)
      PROVE  Tidy(Messages(SubSeq(s \o t, 1, i - 1)))
  <2>1. i \in 1 .. Len(s) + Len(t) /\ (s \o t)[i].kind = "checkpoint"
    BY <1>1 DEF Where
  <2>2. i \in 1 .. Len(s)
    <3> SUFFICES ASSUME i \notin 1 .. Len(s) PROVE FALSE
      OBVIOUS
    <3>1. i - Len(s) \in 1 .. Len(t) /\ i = Len(s) + (i - Len(s))
      BY <1>1, <2>1
    <3>2. i - Len(s) \in Where("checkpoint", t)
      BY <1>1, <2>1, <3>1 DEF Where
    <3>3. QED
      BY <3>2
  <2>3. i \in Where("checkpoint", s) /\ i - 1 \in Nat /\ i - 1 <= Len(s)
    BY <1>1, <2>1, <2>2 DEF Where
  <2>4. SubSeq(s \o t, 1, i - 1) = SubSeq(s, 1, i - 1)
    BY <2>3, StartOfConcat
  <2>5. QED
    BY <2>3, <2>4 DEF CutsTidy
<1>3. QED
  BY <1>2 DEF CutsTidy

LEMMA CutsCheckpoint ==
  ASSUME NEW s, IsSeq(s), CutsTidy(s), Tidy(Messages(s)), NEW r
  PROVE  CutsTidy(s \o <<r>>)
<1>0. IsSeq(<<r>>) /\ Len(<<r>>) = 1
  BY OneIsSeq
<1>1. /\ Len(s) \in Nat /\ Len(s \o <<r>>) = Len(s) + 1
      /\ \A i \in 1 .. Len(s) : (s \o <<r>>)[i] = s[i]
  BY <1>0, ConcatParts
<1>2. ASSUME NEW i \in Where("checkpoint", s \o <<r>>)
      PROVE  Tidy(Messages(SubSeq(s \o <<r>>, 1, i - 1)))
  <2>1. i \in 1 .. Len(s) + 1 /\ (s \o <<r>>)[i].kind = "checkpoint"
    BY <1>1 DEF Where
  <2>2. i - 1 \in Nat /\ i - 1 <= Len(s)
    BY <1>1, <2>1
  <2>3. SubSeq(s \o <<r>>, 1, i - 1) = SubSeq(s, 1, i - 1)
    BY <1>0, <2>2, StartOfConcat
  <2>4. CASE i \in 1 .. Len(s)
    <3>1. i \in Where("checkpoint", s)
      BY <1>1, <2>1, <2>4 DEF Where
    <3>2. QED
      BY <2>3, <3>1 DEF CutsTidy
  <2>5. CASE i \notin 1 .. Len(s)
    <3>1. i - 1 = Len(s)
      BY <1>1, <2>1, <2>5
    <3>2. SubSeq(s, 1, Len(s)) = s
      <4>1. /\ IsSeq(SubSeq(s, 1, Len(s))) /\ Len(SubSeq(s, 1, Len(s))) = Len(s)
            /\ \A j \in 1 .. Len(s) : SubSeq(s, 1, Len(s))[j] = s[j]
        BY <1>1, SubSeqParts
      <4>2. QED
        BY <4>1, SameSeq
    <3>3. QED
      BY <2>3, <3>1, <3>2
  <2>6. QED
    BY <2>4, <2>5
<1>3. QED
  BY <1>2 DEF CutsTidy

LEMMA CutsCut ==
  ASSUME NEW s, IsSeq(s), CutsTidy(s), NEW n \in Nat, n <= Len(s)
  PROVE  CutsTidy(SubSeq(s, 1, n))
<1> DEFINE t == SubSeq(s, 1, n)
<1>1. IsSeq(t) /\ Len(t) = n /\ \A i \in 1 .. n : t[i] = s[i]
  BY SubSeqParts
<1>2. Len(s) \in Nat
  BY DEF IsSeq
<1>3. ASSUME NEW i \in Where("checkpoint", t)
      PROVE  Tidy(Messages(SubSeq(t, 1, i - 1)))
  <2>1. i \in 1 .. n /\ i \in Where("checkpoint", s)
    <3> HIDE DEF t
    <3> QED
      BY <1>1, <1>2 DEF Where
  <2>2. i - 1 \in Nat /\ i - 1 <= n
    BY <2>1
  <2>3. SubSeq(t, 1, i - 1) = SubSeq(s, 1, i - 1)
    BY <2>2, StartOfStart
  <2>4. QED
    BY <2>1, <2>3 DEF CutsTidy
<1> HIDE DEF t
<1>4. CutsTidy(t)
  BY <1>3 DEF CutsTidy
<1>5. QED
  BY <1>4 DEF t

\* What the results of a written answer leave open.
After == IF pc \in {"answer", "usageTotal"} THEN answer.calls ELSE 0

LEMMA OpenNone == ASSUME NEW h PROVE Open(h, 0) <=> Tidy(h)
BY DEF Open, Tidy

LEMMA OpenIsSeq == ASSUME NEW h, NEW n, Open(h, n) PROVE IsSeq(h)
<1>1. CASE n = 0
  BY <1>1 DEF Open, Counted
<1>2. CASE n # 0
  <2>1. PICK g : Counted(g) /\ h = g \o <<Text("call", n)>>
    BY <1>2 DEF Open
  <2>2. QED
    BY <2>1, AppendOne DEF Counted
<1>3. QED
  BY <1>1, <1>2

\* Appending what the soul speaks.
LEMMA SpeakOpen ==
  ASSUME CallsInv, NEW h, Open(h, Waiting),
         pc \in {"mark", "user", "init", "dmail", "answer", "results", "summary"}
  PROVE  Open(h \o Spoken, After)
<1>1. CASE pc \in {"mark", "user", "init", "dmail", "summary"}
  <2>1. Tidy(h) /\ After = 0
    BY <1>1, OpenNone DEF Waiting, After
  <2>2. Tidy(Spoken)
    <3>1. CASE pc = "summary"
      BY <3>1 DEF Spoken, CallsInv
    <3>2. CASE pc # "summary"
      <4>1. PICK x : Spoken = <<x>> /\ x.role \in {"mark", "user", "dmail"}
        BY <1>1, <3>2 DEF Spoken, Text
      <4>2. QED
        BY <4>1, ClosedOne DEF Tidy
    <3>3. QED
      BY <3>1, <3>2
  <2>3. Tidy(h \o Spoken)
    BY <2>1, <2>2, ClosedConcat DEF Tidy
  <2>4. QED
    BY <2>1, <2>3, OpenNone
<1>2. CASE pc = "answer"
  <2>1. Tidy(h) /\ After = answer.calls /\ answer.calls \in Nat
    BY <1>2, OpenNone DEF Waiting, After, CallsInv
  <2>2. CASE answer.calls = 0
    <3>1. Spoken = <<Text("said", 0)>>
      BY <1>2, <2>2 DEF Spoken
    <3>2. Tidy(Spoken)
      BY <3>1, ClosedOne DEF Text, Tidy
    <3>3. Tidy(h \o Spoken)
      BY <2>1, <3>2, ClosedConcat DEF Tidy
    <3>4. QED
      BY <2>1, <2>2, <3>3, OpenNone
  <2>3. CASE answer.calls # 0
    <3>1. Spoken = <<Text("call", answer.calls)>>
      BY <1>2, <2>1, <2>3 DEF Spoken
    <3>2. QED
      BY <2>1, <2>3, <3>1 DEF Open, Tidy
  <2>4. QED
    BY <2>2, <2>3
<1>3. CASE pc = "results"
  <2>1. PICK n \in Nat : n = answer.calls /\ n # 0
    BY <1>3 DEF CallsInv
  <2>2. PICK g : Tidy(g) /\ h = g \o <<Text("call", n)>>
    <3>1. Open(h, n)
      BY <1>3, <2>1 DEF Waiting
    <3>2. QED
      BY <2>1, <3>1 DEF Open, Tidy
  <2>3. PICK r : r = Spoken /\ r = [i \in 1 .. n |-> Text("tool", 0)]
    BY <1>3, <2>1 DEF Spoken
  <2>4. IsSeq(r)
    <3>1. r \in Seq({Text("tool", 0)})
      BY <2>3
    <3>2. QED
      BY <3>1 DEF IsSeq
  <2>5. Tidy(<<Text("call", n)>> \o r)
    <3>1. Tidy(<<Text("call", n)>> \o [i \in 1 .. n |-> Text("tool", 0)])
      BY ClosedGroup DEF Tidy
    <3>2. QED
      BY <2>3, <3>1
  <2>6. h \o r = g \o (<<Text("call", n)>> \o r)
    <3>1. PICK c : c = <<Text("call", n)>> /\ IsSeq(c)
      BY OneIsSeq
    <3>2. IsSeq(g)
      BY <2>2 DEF Tidy, Counted
    <3>3. (g \o c) \o r = g \o (c \o r)
      BY <2>4, <3>1, <3>2, ConcatAssoc
    <3>4. QED
      BY <2>2, <3>1, <3>3
  <2>7. Tidy(h \o r)
    BY <2>2, <2>5, <2>6, ClosedConcat DEF Tidy
  <2>8. After = 0
    BY <1>3 DEF After
  <2>9. QED
    BY <2>3, <2>7, <2>8, OpenNone
<1>4. QED
  BY <1>1, <1>2, <1>3

\* Whatever pc names leaves the stored events fit.
LEMMA IssuedFit ==
  ASSUME CallsInv, pc \in Writes
  PROVE  StoredFit(Committed(Issued, stored), After)
<1>0. IsSeq(stored) /\ CutsTidy(stored) /\ Open(Messages(stored), Waiting) /\ Len(stored) \in Nat
  BY DEF CallsInv, StoredFit, IsSeq
<1>1. CASE pc \in {"mark", "user", "init", "dmail", "answer", "results", "summary"}
  <2>1. IsSeq(Spoken)
    BY SpokenAre DEF CallsInv, Tidy, Counted
  <2>2. PICK m : m = Spoken
    OBVIOUS
  <2>3. Committed(Issued, stored) = stored \o Rows(m)
    BY <1>1, <2>2 DEF Committed, Issued
  <2>4. IsSeq(Rows(m)) /\ Where("checkpoint", Rows(m)) = {}
    BY <2>1, <2>2, RowsAreMessages DEF Ids
  <2>5. IsSeq(stored \o Rows(m))
    BY <1>0, <2>4, ConcatParts
  <2>6. CutsTidy(stored \o Rows(m))
    BY <1>0, <2>4, CutsGrow
  <2>7. Messages(stored \o Rows(m)) = Messages(stored) \o m
    BY <1>0, <2>1, <2>2, MessagesGrow
  <2>8. Open(Messages(stored) \o m, After)
    BY <1>0, <1>1, <2>2, SpeakOpen
  <2>9. QED
    BY <2>3, <2>5, <2>6, <2>7, <2>8 DEF StoredFit
<1>2. CASE pc \in {"checkpoint", "usageIn", "usageTotal"}
  <2>1. PICK r : Issued.put = <<r>> /\ r.kind # "message" /\ (r.kind = "checkpoint" => pc = "checkpoint")
    <3>1. CASE pc = "checkpoint"
      BY <3>1 DEF Issued, Row
    <3>2. CASE pc = "usageIn"
      BY <3>2 DEF Issued, Row
    <3>3. CASE pc = "usageTotal"
      BY <3>3 DEF Issued, Row
    <3>4. QED
      BY <1>2, <3>1, <3>2, <3>3
  <2>2. Committed(Issued, stored) = stored \o <<r>>
    BY <1>2, <2>1 DEF Committed, Issued
  <2>3. IsSeq(<<r>>) /\ Len(<<r>>) = 1 /\ <<r>>[1] = r
    BY OneIsSeq
  <2>4. IsSeq(stored \o <<r>>)
    BY <1>0, <2>3, ConcatParts
  <2>5. Messages(stored \o <<r>>) = Messages(stored)
    <3>1. Where("message", <<r>>) = {}
      BY <2>1, <2>3 DEF Where
    <3>2. QED
      BY <1>0, <2>3, <3>1, MessagesStay
  <2>6. CutsTidy(stored \o <<r>>)
    <3>1. CASE pc = "checkpoint"
      <4>1. Tidy(Messages(stored))
        BY <1>0, <3>1, OpenNone DEF Waiting
      <4>2. QED
        BY <1>0, <4>1, CutsCheckpoint
    <3>2. CASE pc # "checkpoint"
      <4>1. Where("checkpoint", <<r>>) = {}
        BY <2>1, <2>3, <3>2 DEF Where
      <4>2. QED
        BY <1>0, <2>3, <4>1, CutsGrow
    <3>3. QED
      BY <3>1, <3>2
  <2>7. Waiting = After
    BY <1>2 DEF Waiting, After
  <2>8. QED
    BY <1>0, <2>2, <2>4, <2>5, <2>6, <2>7 DEF StoredFit
<1>3. CASE pc = "clear"
  <2>1. Committed(Issued, stored) = SubSeq(stored, 1, 0)
    BY <1>0, <1>3 DEF Committed, Issued
  <2>2. IsSeq(SubSeq(stored, 1, 0)) /\ Len(SubSeq(stored, 1, 0)) = 0
    BY <1>0, SubSeqParts
  <2>3. Len(<<>>) = 0 /\ IsSeq(<<>>)
    BY OneIsSeq
  <2>4. Committed(Issued, stored) = <<>>
    BY <2>1, <2>2, <2>3, SameSeq
  <2>5. CutsTidy(<<>>)
    BY <2>3 DEF CutsTidy, Where
  <2>6. Open(Messages(<<>>), 0)
    BY NothingStored, ClosedNone, OpenNone DEF Tidy
  <2>7. After = 0
    BY <1>3 DEF After
  <2>8. QED
    BY <2>3, <2>4, <2>5, <2>6, <2>7 DEF StoredFit
<1>4. CASE pc = "truncate"
  <2>1. cut \in Nat /\ cut + 1 \in Where("checkpoint", stored)
    BY <1>4 DEF CallsInv
  <2>2. cut < Len(stored)
    BY <1>0, <2>1 DEF Where
  <2>3. Committed(Issued, stored) = SubSeq(stored, 1, cut)
    BY <1>4, <2>1, <2>2 DEF Committed, Issued
  <2>4. IsSeq(SubSeq(stored, 1, cut)) /\ CutsTidy(SubSeq(stored, 1, cut))
    BY <1>0, <2>1, <2>2, SubSeqParts, CutsCut
  <2>5. Tidy(Messages(SubSeq(stored, 1, cut)))
    <3>1. (cut + 1) - 1 = cut
      BY <2>1
    <3>2. Tidy(Messages(SubSeq(stored, 1, (cut + 1) - 1)))
      BY <1>0, <2>1 DEF CutsTidy
    <3>3. QED
      BY <3>1, <3>2
  <2>6. After = 0
    BY <1>4 DEF After
  <2>7. QED
    BY <2>3, <2>4, <2>5, <2>6, OpenNone DEF StoredFit
<1>5. QED
  BY <1>1, <1>2, <1>3, <1>4 DEF Writes

\* A transaction of the turn commits.
LEMMA WroteCalls ==
  ASSUME CallsInv, pc \in Writes, Commit, UNCHANGED <<answer, late, compacted>>,
         ret' \in {"user", "model", "summary", "dmail", "idle"},
         Open(history', After), Waiting' = After, pc' \in Labels \ {"down", "truncate"},
         pc' = "results" => answer.calls > 0
  PROVE  CallsInv'
<1>1. StoredFit(stored', Waiting')
  BY IssuedFit DEF Commit
<1>2. late = {}
  BY DEF CallsInv, Writes
<1>3. QED
  BY <1>1, <1>2 DEF CallsInv

\* A step that stores nothing.
LEMMA StayedCalls ==
  ASSUME CallsInv, late = {}, UNCHANGED <<stored, history, late>>,
         answer'.calls \in Nat, Tidy(compacted'), Waiting' = Waiting,
         pc' \in Labels \ {"down"}, ret' \in {"user", "model", "summary", "dmail", "idle"},
         pc' = "results" => answer'.calls > 0,
         pc' = "truncate" => cut' \in Nat /\ cut' + 1 \in Where("checkpoint", stored)
  PROVE  CallsInv'
BY DEF CallsInv

LEMMA SoulCalls == ASSUME CallsInv, Soul PROVE CallsInv'
<1> USE DEF memory, scratch, denwa, around
<1>0. /\ answer.calls \in Nat /\ Tidy(compacted) /\ pc \in Labels \ {"down"}
      /\ Open(history, Waiting)
      /\ pc # "idle" => late = {}
  BY DEF CallsInv
<1>r. ret' \in {"user", "model", "summary", "dmail", "idle"}
  BY DEF CallsInv, Soul, WriteCheckpoint, WriteMark, WriteUser, WriteInit, WriteDmail,
         MaxStepsReached, StartStep, WriteUsage, WriteAnswer, WriteResults, Settle, Generate,
         FinishTools, Compact, Clear, WriteSummary, Find, Truncate, Restore, WriteMessages,
         LeaveCheckpoint, EnterCheckpoint
<1>1. CASE WriteCheckpoint
  <2>1. pc' \in {"mark", "user", "model", "summary", "dmail", "idle"}
    <3>1. ret \in {"user", "model", "summary", "dmail", "idle"}
      BY DEF CallsInv
    <3>2. QED
      BY <1>1, <3>1 DEF WriteCheckpoint, LeaveCheckpoint
  <2>2. Waiting' = 0 /\ Waiting = 0 /\ After = 0
    BY <1>1, <2>1 DEF WriteCheckpoint, Waiting, After
  <2>3. QED
    BY <1>0, <1>1, <2>1, <2>2, <1>r, WroteCalls DEF WriteCheckpoint, Labels, Writes
<1>2. CASE WriteMark \/ WriteUser \/ WriteInit \/ WriteDmail \/ WriteSummary
  <2>1. /\ pc \in {"mark", "user", "init", "dmail", "summary"}
        /\ Commit /\ history' = history \o Spoken
        /\ UNCHANGED <<answer, late, compacted>>
    BY <1>2 DEF WriteMark, WriteUser, WriteInit, WriteDmail, WriteSummary, WriteMessages
  <2>2. pc' \in {"user", "model", "summary", "dmail", "idle", "loop", "checkpoint"}
    <3>1. ret \in {"user", "model", "summary", "dmail", "idle"}
      BY DEF CallsInv
    <3>2. QED
      BY <1>2, <3>1
      DEF WriteMark, LeaveCheckpoint, WriteUser, WriteInit, WriteDmail, WriteSummary,
          WriteMessages, EnterCheckpoint
  <2>3. Waiting' = 0 /\ After = 0
    BY <2>1, <2>2 DEF Waiting, After
  <2>4. Open(history', After)
    BY <1>0, <2>1, SpeakOpen
  <2>5. QED
    BY <2>1, <2>2, <2>3, <2>4, <1>r, WroteCalls DEF Labels, Writes
<1>3. CASE WriteAnswer
  <2>1. /\ pc = "answer" /\ Commit /\ history' = history \o Spoken
        /\ UNCHANGED <<answer, late, compacted>>
        /\ pc' \in {"usageTotal", "results", "settle"}
        /\ pc' = "results" => answer.calls > 0
        /\ pc' = "settle" => answer.calls = 0
    BY <1>0, <1>3 DEF WriteAnswer, WriteMessages
  <2>2. Waiting' = answer.calls /\ After = answer.calls
    BY <2>1 DEF Waiting, After
  <2>3. Open(history', After)
    BY <1>0, <2>1, SpeakOpen
  <2>4. QED
    BY <2>1, <2>2, <2>3, <1>r, WroteCalls DEF Labels, Writes
<1>4. CASE WriteResults
  <2>1. /\ pc = "results" /\ Commit /\ history' = history \o Spoken
        /\ UNCHANGED <<answer, late, compacted>> /\ pc' = "settle"
    BY <1>4 DEF WriteResults, WriteMessages
  <2>2. Waiting' = 0 /\ After = 0
    BY <2>1 DEF Waiting, After
  <2>3. Open(history', After)
    BY <1>0, <2>1, SpeakOpen
  <2>4. QED
    BY <2>1, <2>2, <2>3, <1>r, WroteCalls DEF Labels, Writes
<1>5. CASE WriteUsage
  <2>1. /\ pc \in {"usageIn", "usageTotal"} /\ Commit
        /\ UNCHANGED <<history, answer, late, compacted>>
        /\ pc = "usageIn" => pc' = "tools"
        /\ pc = "usageTotal" => pc' = IF answer.calls > 0 THEN "results" ELSE "settle"
    BY <1>5 DEF WriteUsage
  <2>2. Waiting = After /\ Waiting' = After
    <3>1. CASE pc = "usageIn"
      BY <2>1, <3>1 DEF Waiting, After
    <3>2. CASE pc = "usageTotal"
      BY <1>0, <2>1, <3>2 DEF Waiting, After
    <3>3. QED
      BY <2>1, <3>1, <3>2
  <2>3. pc' \in {"tools", "results", "settle"} /\ (pc' = "results" => answer.calls > 0)
    BY <2>1
  <2>4. QED
    BY <1>0, <2>1, <2>2, <2>3, <1>r, WroteCalls DEF Labels, Writes
<1>6. CASE MaxStepsReached \/ StartStep \/ Settle
  <2>1. /\ pc \in {"loop", "settle"} /\ pc' \in {"idle", "compact", "checkpoint", "find", "loop"}
        /\ UNCHANGED <<stored, history, late, answer, compacted>>
    BY <1>6 DEF MaxStepsReached, StartStep, Settle, EnterCheckpoint
  <2>2. Waiting' = 0 /\ Waiting = 0 /\ late = {}
    BY <1>0, <2>1 DEF Waiting
  <2>3. QED
    BY <1>0, <2>1, <2>2, <1>r, StayedCalls DEF Labels, Writes
<1>7. CASE Find
  <2>1. /\ pc = "find" /\ pc' \in {"idle", "truncate"}
        /\ UNCHANGED <<stored, history, late, answer, compacted>>
    BY <1>7 DEF Find
  <2>2. Waiting' = 0 /\ Waiting = 0 /\ late = {}
    BY <1>0, <2>1 DEF Waiting
  <2>3. ASSUME pc' = "truncate"
        PROVE  cut' \in Nat /\ cut' + 1 \in Where("checkpoint", stored)
    <3> DEFINE found == {i \in Where("checkpoint", stored) : stored[i].body = target}
               f == CHOOSE i \in found : \A j \in found : i <= j
    <3>1. found # {} /\ cut' = f - 1
      BY <1>7, <2>3 DEF Find
    <3>2. \A i \in found : i \in Nat /\ i > 0 /\ i \in Where("checkpoint", stored)
      BY DEF Where, CallsInv, StoredFit, IsSeq
    <3>3. f \in found
      <4> HIDE DEF found
      <4>1. \E i \in found : \A j \in found : i <= j
        BY <3>1, <3>2, LeastExists
      <4>2. QED
        BY <4>1, Zenon
    <3> HIDE DEF f, found
    <3>4. f \in Nat /\ f > 0 /\ f \in Where("checkpoint", stored)
      BY <3>2, <3>3
    <3>5. cut' \in Nat /\ cut' + 1 = f
      BY <3>1, <3>4
    <3>6. QED
      BY <3>4, <3>5
  <2>4. QED
    BY <1>0, <2>1, <2>2, <2>3, <1>r, StayedCalls DEF Labels, Writes
<1>8. CASE \E calls \in Calls, usage \in Usages : Generate(calls, usage)
  <2>1. PICK calls \in Calls, usage \in Usages : Generate(calls, usage)
    BY <1>8
  <2>2. /\ pc = "model" /\ pc' \in {"tools", "usageIn"} /\ answer'.calls \in Nat
        /\ UNCHANGED <<stored, history, late, compacted>>
    BY <2>1 DEF Generate
  <2>3. Waiting' = 0 /\ Waiting = 0 /\ late = {}
    BY <1>0, <2>2 DEF Waiting
  <2>4. QED
    BY <1>0, <2>2, <2>3, <1>r, StayedCalls DEF Labels, Writes
<1>9. CASE \E how \in Outcomes : FinishTools(how)
  <2>1. /\ pc = "tools" /\ pc' \in {"idle", "answer"}
        /\ UNCHANGED <<stored, history, late, answer, compacted>>
    BY <1>9 DEF FinishTools
  <2>2. Waiting' = 0 /\ Waiting = 0 /\ late = {}
    BY <1>0, <2>1 DEF Waiting
  <2>3. QED
    BY <1>0, <2>1, <2>2, <1>r, StayedCalls DEF Labels, Writes
<1>10. CASE Compact
  <2>1. /\ pc = "compact" /\ pc' = "clear" /\ compacted' = Compaction(history)
        /\ UNCHANGED <<stored, history, late, answer>>
    BY <1>10 DEF Compact
  <2>2. Waiting' = 0 /\ Waiting = 0 /\ late = {}
    BY <1>0, <2>1 DEF Waiting
  <2>3. Tidy(compacted')
    BY <1>0, <2>1, <2>2, OpenNone, TidyCompaction
  <2>4. QED
    BY <1>0, <2>1, <2>2, <2>3, <1>r, StayedCalls DEF Labels, Writes
<1>11. CASE Clear \/ Truncate
  <2>1. /\ pc \in {"clear", "truncate"} /\ pc' \in {"checkpoint", "idle", "restore"} /\ history' = <<>>
        /\ Commit /\ UNCHANGED <<late, answer, compacted>>
    BY <1>11 DEF Clear, Truncate, EnterCheckpoint
  <2>2. Waiting' = 0 /\ After = 0
    BY <2>1 DEF Waiting, After
  <2>3. Open(history', After)
    BY <2>1, <2>2, ClosedNone, OpenNone DEF Tidy
  <2>4. QED
    BY <2>1, <2>2, <2>3, <1>r, WroteCalls DEF Labels, Writes
<1>12. CASE Restore
  <2>1. /\ pc = "restore" /\ pc' = "checkpoint" /\ history' = Messages(stored)
        /\ UNCHANGED <<stored, late, answer, compacted>>
    BY <1>12 DEF Restore, EnterCheckpoint
  <2>2. Waiting' = 0 /\ Waiting = 0 /\ late = {}
    BY <1>0, <2>1 DEF Waiting
  <2>3. Open(history', 0)
    BY <2>1, <2>2 DEF CallsInv, StoredFit
  <2>4. QED
    BY <1>r, <2>1, <2>2, <2>3 DEF CallsInv, Labels, Writes
<1>13. QED
  BY <1>1, <1>2, <1>3, <1>4, <1>5, <1>6, <1>7, <1>8, <1>9, <1>10, <1>11, <1>12 DEF Soul

LEMMA ClientCalls == ASSUME CallsInv, WholeAnswers, Client PROVE CallsInv'
<1>1. /\ pc = "idle" /\ late = {}
      /\ UNCHANGED <<stored, history, late, answer, compacted>>
  BY DEF Client, Prompt, SlashClear, SlashCompact, SlashInit, Begin, scratch, around,
         WholeAnswers
<1>2. /\ pc' \in {"checkpoint", "clear", "compact", "init"}
      /\ ret' = ret \/ ret' \in {"user", "idle"}
  BY DEF Client, Prompt, SlashClear, SlashCompact, SlashInit, EnterCheckpoint
<1>3. ret' \in {"user", "model", "summary", "dmail", "idle"}
  BY <1>2 DEF CallsInv
<1>4. Waiting' = 0 /\ Waiting = 0
  BY <1>1, <1>2 DEF Waiting
<1>5. answer.calls \in Nat /\ Tidy(compacted)
  BY DEF CallsInv
<1>6. QED
  BY <1>1, <1>2, <1>3, <1>4, <1>5, StayedCalls DEF Labels, Writes

LEMMA FaultsCalls == ASSUME CallsInv, WholeAnswers, Faults PROVE CallsInv'
<1> USE DEF memory, scratch, denwa, around
<1>0. /\ answer.calls \in Nat /\ Tidy(compacted) /\ pc \in Labels \ {"down"}
      /\ ret \in {"user", "model", "summary", "dmail", "idle"}
      /\ pc # "idle" => late = {}
  BY DEF CallsInv
<1>1. CASE Fail
  <2>1. /\ pc \notin {"idle", "usageTotal", "results"} /\ pc' = "idle"
        /\ UNCHANGED <<stored, history, late, answer, compacted, ret>>
    BY <1>1 DEF Fail, WholeAnswers
  <2>2. Waiting' = 0 /\ Waiting = 0
    BY <2>1 DEF Waiting
  <2>3. QED
    BY <1>0, <2>1, <2>2, StayedCalls DEF Labels, Writes
<1>2. CASE Cancel
  <2>1. /\ pc \notin {"idle", "answer", "usageTotal", "results"} /\ pc' = "idle" /\ late = {}
        /\ UNCHANGED <<stored, history, answer, compacted, ret>>
        /\ late' = IF pc \in Writes THEN {Issued} ELSE {}
    BY <1>0, <1>2 DEF Cancel, WholeAnswers
  <2>2. Waiting' = 0 /\ Waiting = 0 /\ After = 0
    BY <2>1 DEF Waiting, After
  <2>3. CASE pc \in Writes
    <3>1. PICK op : op = Issued
      OBVIOUS
    <3>2. StoredFit(Committed(op, stored), 0)
      BY <2>2, <2>3, <3>1, IssuedFit
    <3>3. late' = {op} /\ StoredFit(Committed(op, stored'), 0)
      BY <2>1, <2>3, <3>1, <3>2
    <3>4. QED
      BY <1>0, <2>1, <2>2, <3>3 DEF CallsInv, Labels
  <2>4. CASE pc \notin Writes
    BY <1>0, <2>1, <2>2, <2>4, StayedCalls DEF Labels, Writes
  <2>5. QED
    BY <2>3, <2>4
<1>3. CASE \E op \in late : LateCommit(op)
  <2>1. PICK op \in late : LateCommit(op)
    BY <1>3
  <2>2. pc = "idle" /\ late = {op} /\ StoredFit(Committed(op, stored), 0)
    BY <2>1 DEF CallsInv
  <2>3. /\ late' = {} /\ stored' \in {stored, Committed(op, stored)}
        /\ UNCHANGED <<history, answer, compacted, pc, ret>>
    BY <2>1, <2>2 DEF LateCommit
  <2>4. Waiting' = 0 /\ Waiting = 0
    BY <2>2, <2>3 DEF Waiting
  <2>5. StoredFit(stored', 0)
    BY <2>2, <2>3, <2>4 DEF CallsInv
  <2>6. QED
    BY <2>2, <2>3, <2>4, <2>5 DEF CallsInv
<1>4. CASE StrayEnds
  <2>1. UNCHANGED <<stored, history, late, answer, compacted, pc, ret, cut>>
    BY <1>4 DEF StrayEnds
  <2>2. Waiting' = Waiting
    BY <2>1 DEF Waiting
  <2>3. QED
    BY <2>1, <2>2 DEF CallsInv
<1>5. CASE Crash \/ Restart
  BY <1>0, <1>5 DEF Crash, Restart, WholeAnswers
<1>6. QED
  BY <1>1, <1>2, <1>3, <1>4, <1>5 DEF Faults

LEMMA StepCalls == ASSUME CallsInv, WholeAnswers, [Next]_vars PROVE CallsInv'
<1>1. CASE (\E id \in 0 .. nCheckpoints : SendDmail(id)) \/ UNCHANGED vars
  <2>1. UNCHANGED <<stored, history, late, answer, compacted, pc, ret, cut>>
    BY <1>1 DEF SendDmail, vars, memory, scratch, around
  <2>2. Waiting' = Waiting
    BY <2>1 DEF Waiting
  <2>3. QED
    BY <2>1, <2>2 DEF CallsInv
<1>2. QED
  BY <1>1, SoulCalls, ClientCalls, FaultsCalls DEF Next

LEMMA InitCalls == Init => CallsInv
<1> SUFFICES ASSUME Init PROVE CallsInv
  OBVIOUS
<1>1. Tidy(<<>>) /\ IsSeq(<<>>)
  BY ClosedNone, OneIsSeq DEF Tidy
<1>2. CutsTidy(<<>>)
  BY DEF CutsTidy, Where
<1>3. StoredFit(<<>>, 0)
  BY <1>1, <1>2, NothingStored, OpenNone DEF StoredFit
<1>4. Waiting = 0 /\ Open(<<>>, 0)
  BY <1>1, OpenNone DEF Init, Waiting
<1>5. QED
  BY <1>1, <1>3, <1>4 DEF Init, CallsInv, Idle, Labels, Writes

\* The model is never sent a call without its results, nor results without
\* their call, wherever a D-Mail rewinds to, whatever compaction preserves and
\* whatever else fails or is cancelled: as long as nothing interrupts the two
\* writes of an answer and its results, and the transactions of a cancelled turn
\* commit before the next turn begins.
\* (soul/kimisoul.rs:763-774, soul/compaction.rs:34-98, soul/context.rs:88-163)
THEOREM CallsStayAnswered ==
  ASSUME WholeAnswers
  PROVE  Spec => []CallsAnswered
<1>1. Init => CallsInv
  BY InitCalls
<1>2. CallsInv /\ [Next]_vars => CallsInv'
  BY StepCalls
<1>3. CallsInv => CallsAnswered
  <2>1. ASSUME CallsInv, pc = "model" PROVE Closed(history)
    <3>1. Waiting = 0
      BY <2>1 DEF Waiting
    <3>2. QED
      BY <2>1, <3>1, OpenNone DEF CallsInv, Tidy
  <2>2. QED
    BY <2>1 DEF CallsAnswered, Closed
<1>4. QED
  BY <1>1, <1>2, <1>3, PTL DEF Spec

-----------------------------------------------------------------------------
(* D-Mails stay in their step.                                             *)

\* From the end of the model's answer to what handle_step_result makes of it.
InStep == {"usageIn", "tools", "answer", "usageTotal", "results", "settle"}

\* Nothing ends a turn from within a step.
WholeSteps == (FailAt \cup CancelAt) \cap InStep = {} /\ "unsupported" \notin Outcomes

WithinInv == ~stray /\ (pending # None => pc \in InStep /\ sentIn = <<turn, step>>)

LEMMA StepWithin == ASSUME WithinInv, WholeSteps, [Next]_vars PROVE WithinInv'
<1> USE DEF memory, scratch, denwa, around
<1>1. CASE WriteUsage \/ WriteAnswer \/ WriteResults
  <2>1. pc' \in InStep /\ UNCHANGED <<stray, pending, sentIn, turn, step>>
    BY <1>1 DEF WriteUsage, WriteAnswer, WriteResults, WriteMessages, InStep
  <2>2. QED
    BY <2>1 DEF WithinInv
<1>2. CASE \E how \in Outcomes : FinishTools(how)
  <2>1. PICK how \in Outcomes : FinishTools(how)
    BY <1>2
  <2>2. how # "unsupported"
    BY DEF WholeSteps
  <2>3. pc' \in InStep /\ UNCHANGED <<stray, pending, sentIn, turn, step>>
    BY <2>1, <2>2 DEF FinishTools, InStep
  <2>4. QED
    BY <2>3 DEF WithinInv
<1>3. CASE Settle
  BY <1>3 DEF Settle, WithinInv
<1>4. CASE \/ WriteCheckpoint \/ WriteMark \/ WriteUser \/ WriteInit \/ WriteDmail
           \/ MaxStepsReached \/ StartStep
           \/ \E calls \in Calls, usage \in Usages : Generate(calls, usage)
  <2>1. pc \notin InStep /\ UNCHANGED <<stray, pending, sentIn>>
    BY <1>4 DEF WriteCheckpoint, WriteMark, WriteUser, WriteInit, WriteDmail, WriteMessages,
                LeaveCheckpoint, MaxStepsReached, StartStep, Generate, InStep
  <2>2. QED
    BY <2>1 DEF WithinInv
<1>5. CASE Compact \/ Clear \/ WriteSummary \/ Find \/ Truncate \/ Restore \/ Client \/ Restart
  <2>1. pc \notin InStep /\ UNCHANGED <<stray, pending, sentIn>>
    BY <1>5 DEF Compact, Clear, WriteSummary, Find, Truncate, Restore, Client, Prompt,
                SlashClear, SlashCompact, SlashInit, Begin, Restart, InStep
  <2>2. QED
    BY <2>1 DEF WithinInv
<1>6. CASE Fail \/ Cancel
  <2>1. pc \notin InStep /\ UNCHANGED <<pending, sentIn>>
    BY <1>6 DEF Fail, Cancel, WholeSteps
  <2>2. ~stray'
    BY <1>6, <2>1 DEF Fail, Cancel, ToolsRun, InStep, WithinInv
  <2>3. QED
    BY <2>1, <2>2 DEF WithinInv
<1>7. CASE Crash \/ StrayEnds
  BY <1>7 DEF Crash, StrayEnds, WithinInv
<1>8. CASE (\E op \in late : LateCommit(op)) \/ UNCHANGED vars
  <2>1. UNCHANGED <<pc, stray, pending, sentIn, turn, step>>
    BY <1>8 DEF LateCommit, vars
  <2>2. QED
    BY <2>1 DEF WithinInv
<1>9. CASE \E id \in 0 .. nCheckpoints : SendDmail(id)
  BY <1>9 DEF SendDmail, ToolsRun, InStep, WithinInv
<1>10. QED
  BY <1>1, <1>2, <1>3, <1>4, <1>5, <1>6, <1>7, <1>8, <1>9 DEF Next, Soul, Faults

\* A D-Mail never outlives the step that sent it, whatever the tools do, however
\* the step is answered, and wherever else the turn fails or is cancelled: only
\* a turn that ends in the middle of a step leaves its D-Mail behind.
\* (soul/kimisoul.rs:703-726)
THEOREM DmailsStayInStep ==
  ASSUME WholeSteps
  PROVE  Spec => []DmailWithinStep
<1>1. Init => WithinInv
  BY DEF Init, WithinInv
<1>2. WithinInv /\ [Next]_vars => WithinInv'
  BY StepWithin
<1>3. WithinInv => DmailWithinStep
  BY DEF WithinInv, DmailWithinStep, InStep
<1>4. QED
  BY <1>1, <1>2, <1>3, PTL DEF Spec

-----------------------------------------------------------------------------
(* D-Mails land at their checkpoint.                                       *)

\* A prefix of the events restores a prefix of the messages.
LEMMA MessagesStart ==
  ASSUME NEW s, IsSeq(s), NEW n \in Nat, n <= Len(s)
  PROVE  LET a == Messages(SubSeq(s, 1, n))
         IN  /\ IsSeq(a) /\ Len(a) <= Len(Messages(s))
             /\ \A k \in 1 .. Len(a) : Messages(s)[k] = a[k]
<1>1. PICK S : s \in Seq(S)
  BY DEF IsSeq
<1>2. PICK a, b : /\ IsSeq(a) /\ IsSeq(b) /\ a = SubSeq(s, 1, n) /\ s = a \o b
  <2>1. SubSeq(s, 1, n) \in Seq(S) /\ SubSeq(s, n + 1, Len(s)) \in Seq(S)
    BY <1>1
  <2>2. PICK a, b : a = SubSeq(s, 1, n) /\ b = SubSeq(s, n + 1, Len(s)) /\ IsSeq(a) /\ IsSeq(b)
    BY <2>1 DEF IsSeq
  <2>3. Len(s) \in Nat /\ Len(a) = n /\ \A i \in 1 .. n : a[i] = s[i]
    BY <1>1, <2>2
  <2>4. Len(b) = Len(s) - n /\ \A i \in 1 .. Len(s) - n : b[i] = s[n + i]
    BY <1>1, <2>2
  <2>5. /\ IsSeq(a \o b) /\ Len(a \o b) = Len(a) + Len(b)
        /\ \A i \in 1 .. Len(a) : (a \o b)[i] = a[i]
        /\ \A i \in 1 .. Len(b) : (a \o b)[Len(a) + i] = b[i]
    <3>1. IsSeq(a) /\ IsSeq(b)
      BY <2>2
    <3>2. QED
      BY <3>1, ConcatParts
  <2>6. Len(a \o b) = Len(s)
    BY <2>3, <2>4, <2>5
  <2>7. ASSUME NEW i \in 1 .. Len(s) PROVE s[i] = (a \o b)[i]
    <3>1. CASE i \in 1 .. n
      BY <2>3, <2>5, <3>1
    <3>2. CASE i \notin 1 .. n
      <4>1. PICK k \in 1 .. Len(s) - n : i = n + k
        <5>1. i - n \in 1 .. Len(s) - n /\ i = n + (i - n)
          BY <2>3, <3>2
        <5>2. QED
          BY <5>1
      <4>2. (a \o b)[n + k] = b[k]
        BY <2>3, <2>4, <2>5
      <4>3. b[k] = s[n + k]
        BY <2>4
      <4>4. QED
        BY <4>1, <4>2, <4>3
    <3>3. QED
      BY <3>1, <3>2
  <2>8. s = a \o b
    <3>1. IsSeq(s) /\ IsSeq(a \o b) /\ Len(s) = Len(a \o b)
      BY <2>5, <2>6
    <3>2. \A i \in 1 .. Len(s) : s[i] = (a \o b)[i]
      BY <2>7
    <3>3. QED
      BY <3>1, <3>2, SameSeq
  <2>9. QED
    BY <2>2, <2>8
<1>3. LET V == Where("message", a)
          W == Where("message", a \o b)
      IN  \A k \in 1 .. Cardinality(V) :
            /\ k \in 1 .. Cardinality(W)
            /\ (a \o b)[Nth(W, k)].body = Messages(a)[k]
  <2>1. IsSeq(a) /\ IsSeq(b)
    BY <1>2
  <2>2. QED
    BY <2>1, MessagesKept
<1>4. /\ IsSeq(Messages(a)) /\ Len(Messages(a)) = Cardinality(Where("message", a))
      /\ Cardinality(Where("message", a)) \in Nat
  BY <1>2, MessagesAre
<1>5. LET W == Where("message", s)
      IN  /\ Len(Messages(s)) = Cardinality(W) /\ Cardinality(W) \in Nat
          /\ \A k \in 1 .. Cardinality(W) : Messages(s)[k] = s[Nth(W, k)].body
  BY MessagesAre
<1>6. \A k \in 1 .. Len(Messages(a)) :
        k \in 1 .. Len(Messages(s)) /\ Messages(s)[k] = Messages(a)[k]
  BY <1>2, <1>3, <1>4, <1>5
<1>7. Len(Messages(a)) <= Len(Messages(s))
  <2>1. CASE Len(Messages(a)) = 0
    BY <1>5, <2>1
  <2>2. CASE Len(Messages(a)) # 0
    <3>1. Len(Messages(a)) \in 1 .. Len(Messages(a))
      BY <1>4, <2>2
    <3>2. Len(Messages(a)) \in 1 .. Len(Messages(s))
      BY <1>6, <3>1
    <3>3. QED
      BY <1>5, <3>2
  <2>3. QED
    BY <2>1, <2>2
<1>8. QED
  BY <1>2, <1>4, <1>6, <1>7

\* Every checkpoint but one at the end is followed by its message.
Marked(s, n) ==
  \A i \in Ids(s) :
    i <= n => i < Len(s) /\ s[i + 1] = Row("message", Text("mark", s[i].body))

\* The ids are 0, 1, ..., n - 1.
Numbered(s, n) ==
  Ordered(s) /\ Below(s, n) /\ \A k \in 0 .. n - 1 : \E i \in Ids(s) : s[i].body = k

\* Before checkpoint k the messages were m.
Before(s, k, m) == \E i \in Ids(s) : s[i].body = k /\ Messages(SubSeq(s, 1, i - 1)) = m

\* What the model saw before a checkpoint, if it saw one under that number.
LEMMA SeenBefore ==
  ASSUME NEW s, Ordered(s), Marked(s, Len(s)), NEW i \in Ids(s)
  PROVE  LET h == Messages(s)
             marks == {k \in 1 .. Len(h) : h[k] = Text("mark", s[i].body)}
         IN  Cardinality(marks) = 1 =>
               SubSeq(h, 1, (CHOOSE k \in marks : TRUE) - 1) = Messages(SubSeq(s, 1, i - 1))
<1> DEFINE h == Messages(s)
           x == Text("mark", s[i].body)
           marks == {k \in 1 .. Len(h) : h[k] = x}
           a == SubSeq(s, 1, i - 1)
           m == Messages(a)
           r == s[i]
<1>1. IsSeq(s) /\ Len(s) \in Nat /\ i \in 1 .. Len(s) /\ i < Len(s) /\ r.kind = "checkpoint"
      /\ s[i + 1] = Row("message", x)
  <2>1. IsSeq(s) /\ Len(s) \in Nat
    BY DEF Ordered, IsSeq
  <2>2. i \in 1 .. Len(s) /\ r.kind = "checkpoint"
    BY DEF Ids, Where
  <2>3. i <= Len(s)
    BY <2>1, <2>2
  <2>4. QED
    BY <2>1, <2>2, <2>3 DEF Marked
<1>2. IsSeq(a) /\ Len(a) = i - 1 /\ i - 1 \in Nat
  BY <1>1, SubSeqParts
<1>3. SubSeq(s, 1, i + 1) = (a \o <<r>>) \o Rows(<<x>>)
  <2>1. PICK S : s \in Seq(S)
    BY <1>1 DEF IsSeq
  <2>2. Rows(<<x>>) = <<s[i + 1]>>
    BY <1>1 DEF Rows
  <2>3. SubSeq(s, 1, i + 1) = (a \o <<s[i]>>) \o <<s[i + 1]>>
    BY <1>1, <2>1
  <2>4. QED
    BY <2>2, <2>3
<1>4. IsSeq(<<r>>) /\ IsSeq(<<x>>) /\ Len(<<r>>) = 1 /\ <<r>>[1] = r /\ Len(<<x>>) = 1 /\ <<x>>[1] = x
  BY OneIsSeq
<1> HIDE DEF a, r, x
<1>5. Messages(SubSeq(s, 1, i + 1)) = m \o <<x>>
  <2>1. IsSeq(a \o <<r>>)
    BY <1>2, <1>4, ConcatParts
  <2>2. Messages((a \o <<r>>) \o Rows(<<x>>)) = Messages(a \o <<r>>) \o <<x>>
    BY <1>4, <2>1, MessagesGrow
  <2>3. Where("message", <<r>>) = {}
    BY <1>1, <1>4 DEF Where
  <2>4. Messages(a \o <<r>>) = m
    BY <1>2, <1>4, <2>3, MessagesStay
  <2>5. QED
    BY <1>3, <2>2, <2>4
<1>6. IsSeq(m) /\ IsSeq(h) /\ Len(m) \in Nat /\ Len(h) \in Nat
  BY <1>1, <1>2, MessagesAre DEF IsSeq
<1> HIDE DEF m
<1>7. /\ IsSeq(m \o <<x>>) /\ Len(m \o <<x>>) = Len(m) + 1
      /\ \A k \in 1 .. Len(m) : (m \o <<x>>)[k] = m[k]
      /\ (m \o <<x>>)[Len(m) + 1] = x
  BY <1>6, AppendOne
<1>8. Len(m) + 1 <= Len(h) /\ \A k \in 1 .. Len(m) + 1 : h[k] = (m \o <<x>>)[k]
  <2>1. i + 1 \in Nat /\ i + 1 <= Len(s)
    BY <1>1
  <2>2. /\ Len(Messages(SubSeq(s, 1, i + 1))) <= Len(h)
        /\ \A k \in 1 .. Len(Messages(SubSeq(s, 1, i + 1))) :
             h[k] = Messages(SubSeq(s, 1, i + 1))[k]
    BY <1>1, <2>1, MessagesStart
  <2>3. QED
    BY <1>5, <1>7, <2>2
<1> HIDE DEF h
<1>9. Len(m) + 1 \in marks
  BY <1>6, <1>7, <1>8
<1>10. ASSUME Cardinality(marks) = 1
       PROVE  SubSeq(h, 1, (CHOOSE k \in marks : TRUE) - 1) = m
  <2>1. IsFiniteSet(marks)
    <3>1. IsFiniteSet(1 .. Len(h))
      BY <1>6, FS_Interval
    <3>2. marks \in SUBSET (1 .. Len(h))
      OBVIOUS
    <3>3. QED
      BY <3>1, <3>2, FS_Subset
  <2>2. \A k \in marks : k = Len(m) + 1
    <3> HIDE DEF marks
    <3>1. PICK y : marks = {y}
      BY <1>10, <2>1, FS_Singleton
    <3>2. QED
      BY <1>9, <3>1
  <2>3. (CHOOSE k \in marks : TRUE) = Len(m) + 1
    <3> HIDE DEF marks
    <3> QED
      BY <1>9, <2>2
  <2>4. SubSeq(h, 1, Len(m)) = m
    <3>1. Len(m) <= Len(h)
      BY <1>6, <1>8
    <3>2. /\ IsSeq(SubSeq(h, 1, Len(m))) /\ Len(SubSeq(h, 1, Len(m))) = Len(m)
          /\ \A k \in 1 .. Len(m) : SubSeq(h, 1, Len(m))[k] = h[k]
      BY <1>6, <3>1, SubSeqParts
    <3>3. \A k \in 1 .. Len(m) : h[k] = m[k]
      BY <1>6, <1>7, <1>8
    <3>4. QED
      BY <1>6, <3>2, <3>3, SameSeq
  <2>5. (CHOOSE k \in marks : TRUE) - 1 = Len(m)
    <3>1. PICK y : y = CHOOSE k \in marks : TRUE
      OBVIOUS
    <3>2. y = Len(m) + 1
      BY <2>3, <3>1
    <3>3. y - 1 = Len(m)
      BY <1>6, <3>2
    <3>4. QED
      BY <3>1, <3>3
  <2>6. QED
    BY <2>4, <2>5
<1>11. QED
  BY <1>10 DEF h, m, a, x

LEMMA NumberedNone == Numbered(<<>>, 0) /\ Marked(<<>>, 0) /\ Len(<<>>) = 0
<1>1. Len(<<>>) = 0 /\ IsSeq(<<>>) /\ Ids(<<>>) = {}
  <2>1. IsSeq(<<>>)
    BY OneIsSeq
  <2>2. Len(<<>>) = 0 /\ Ids(<<>>) = {}
    BY DEF Ids, Where
  <2>3. QED
    BY <2>1, <2>2
<1>2. \A k \in 0 .. 0 - 1 : FALSE
  OBVIOUS
<1>3. QED
  BY <1>1, <1>2 DEF Numbered, Marked, Ordered, Below

\* Events that are no checkpoints follow.
LEMMA NumberedGrow ==
  ASSUME NEW s, NEW t, NEW n \in Nat, Numbered(s, n), Marked(s, Len(s)), IsSeq(t), Ids(t) = {}
  PROVE  /\ Numbered(s \o t, n) /\ Marked(s \o t, Len(s \o t))
         /\ \A k, m : Before(s, k, m) => Before(s \o t, k, m)
<1>1. /\ IsSeq(s) /\ Len(s) \in Nat /\ Len(t) \in Nat /\ Len(s \o t) = Len(s) + Len(t)
      /\ \A i \in 1 .. Len(s) : (s \o t)[i] = s[i]
      /\ \A i \in 1 .. Len(t) : (s \o t)[Len(s) + i] = t[i]
  BY ConcatParts DEF Numbered, Ordered
<1>2. Ordered(s \o t) /\ Below(s \o t, n)
  BY AppendOthers DEF Numbered
<1>3. \A i \in Ids(s) : i \in Ids(s \o t) /\ (s \o t)[i] = s[i]
  <2>1. ASSUME NEW i \in Ids(s) PROVE i \in Ids(s \o t) /\ (s \o t)[i] = s[i]
    <3>1. i \in 1 .. Len(s) /\ s[i].kind = "checkpoint"
      BY DEF Ids, Where
    <3>2. i \in 1 .. Len(s \o t) /\ (s \o t)[i] = s[i]
      BY <1>1, <3>1
    <3>3. QED
      BY <3>1, <3>2 DEF Ids, Where
  <2>2. QED
    BY <2>1
<1>4. \A i \in Ids(s \o t) : i \in Ids(s)
  <2>1. ASSUME NEW i \in Ids(s \o t) PROVE i \in Ids(s)
    <3>1. i \in 1 .. Len(s) + Len(t) /\ (s \o t)[i].kind = "checkpoint"
      BY <1>1 DEF Ids, Where
    <3>2. i \in 1 .. Len(s)
      <4> SUFFICES ASSUME i \notin 1 .. Len(s) PROVE FALSE
        OBVIOUS
      <4>1. i - Len(s) \in 1 .. Len(t) /\ i = Len(s) + (i - Len(s))
        BY <1>1, <3>1
      <4>2. i - Len(s) \in Ids(t)
        BY <1>1, <3>1, <4>1 DEF Ids, Where
      <4>3. QED
        BY <4>2
    <3>3. QED
      BY <1>1, <3>1, <3>2 DEF Ids, Where
  <2>2. QED
    BY <2>1
<1>5. Numbered(s \o t, n)
  <2>1. ASSUME NEW k \in 0 .. n - 1 PROVE \E i \in Ids(s \o t) : (s \o t)[i].body = k
    <3>1. PICK i \in Ids(s) : s[i].body = k
      BY DEF Numbered
    <3>2. QED
      BY <1>3, <3>1
  <2>2. QED
    BY <1>2, <2>1 DEF Numbered
<1>6. Marked(s \o t, Len(s \o t))
  <2>1. ASSUME NEW i \in Ids(s \o t)
        PROVE  i < Len(s \o t)
               /\ (s \o t)[i + 1] = Row("message", Text("mark", (s \o t)[i].body))
    <3>1. i \in Ids(s) /\ i \in 1 .. Len(s) /\ (s \o t)[i] = s[i]
      BY <1>3, <1>4 DEF Ids, Where
    <3>2. i < Len(s) /\ s[i + 1] = Row("message", Text("mark", s[i].body))
      BY <1>1, <3>1 DEF Marked
    <3>3. i + 1 \in 1 .. Len(s)
      BY <1>1, <3>1, <3>2
    <3>4. (s \o t)[i + 1] = s[i + 1]
      BY <1>1, <3>3
    <3>5. QED
      BY <1>1, <3>1, <3>2, <3>4
  <2>2. QED
    BY <2>1 DEF Marked
<1>7. ASSUME NEW k, NEW m, Before(s, k, m) PROVE Before(s \o t, k, m)
  <2>1. PICK i \in Ids(s) : s[i].body = k /\ Messages(SubSeq(s, 1, i - 1)) = m
    BY <1>7 DEF Before
  <2>2. i - 1 \in Nat /\ i - 1 <= Len(s)
    BY <1>1 DEF Ids, Where
  <2>3. SubSeq(s \o t, 1, i - 1) = SubSeq(s, 1, i - 1)
    BY <1>1, <2>2, StartOfConcat
  <2>4. QED
    BY <1>3, <2>1, <2>3 DEF Before
<1>8. QED
  BY <1>5, <1>6, <1>7

\* A checkpoint with the next id follows ...
LEMMA NumberedNext ==
  ASSUME NEW s, NEW n \in Nat, Numbered(s, n), Marked(s, Len(s))
  PROVE  LET t == s \o <<Row("checkpoint", n)>>
         IN  /\ Numbered(t, n + 1) /\ Len(t) \in Nat /\ Len(t) > 0
             /\ t[Len(t)] = Row("checkpoint", n) /\ Marked(t, Len(t) - 1)
<1> DEFINE t == s \o <<Row("checkpoint", n)>>
<1>1. /\ IsSeq(t) /\ Len(s) \in Nat /\ Len(t) = Len(s) + 1
      /\ \A i \in 1 .. Len(s) : t[i] = s[i]
      /\ t[Len(s) + 1] = Row("checkpoint", n)
  BY AppendOne DEF Numbered, Ordered
<1>2. Ordered(t) /\ Below(t, n + 1)
  BY AppendCheckpoint DEF Numbered
<1> HIDE DEF t
<1>3. \A i \in Ids(s) : i \in Ids(t) /\ t[i] = s[i]
  BY <1>1 DEF Ids, Where
<1>4. Len(s) + 1 \in Ids(t) /\ t[Len(s) + 1].body = n
  BY <1>1 DEF Ids, Where, Row
<1>5. ASSUME NEW k \in 0 .. (n + 1) - 1 PROVE \E i \in Ids(t) : t[i].body = k
  <2>1. CASE k = n
    BY <1>4, <2>1
  <2>2. CASE k # n
    <3>1. k \in 0 .. n - 1
      BY <2>2
    <3>2. PICK i \in Ids(s) : s[i].body = k
      BY <3>1 DEF Numbered
    <3>3. QED
      BY <1>3, <3>2
  <2>3. QED
    BY <2>1, <2>2
<1>6. ASSUME NEW i \in Ids(t), i <= Len(t) - 1
      PROVE  i < Len(t) /\ t[i + 1] = Row("message", Text("mark", t[i].body))
  <2>1. i \in 1 .. Len(s) /\ t[i].kind = "checkpoint"
    BY <1>1, <1>6 DEF Ids, Where
  <2>2. i \in Ids(s) /\ i <= Len(s) /\ t[i] = s[i]
    BY <1>1, <2>1 DEF Ids, Where
  <2>3. i < Len(s) /\ s[i + 1] = Row("message", Text("mark", s[i].body))
    BY <2>2 DEF Marked
  <2>4. i + 1 \in 1 .. Len(s)
    BY <1>1, <2>1, <2>3
  <2>5. t[i + 1] = s[i + 1]
    BY <1>1, <2>4
  <2>6. QED
    BY <1>1, <2>1, <2>2, <2>3, <2>5
<1>7. Numbered(t, n + 1) /\ Marked(t, Len(t) - 1)
  BY <1>2, <1>5, <1>6 DEF Numbered, Marked
<1>8. QED
  BY <1>1, <1>7 DEF t

\* ... and then its message.
LEMMA NumberedMark ==
  ASSUME NEW s, NEW n \in Nat, Numbered(s, n), Len(s) > 0, NEW k,
         s[Len(s)] = Row("checkpoint", k), Marked(s, Len(s) - 1)
  PROVE  LET t == s \o <<Row("message", Text("mark", k))>>
         IN  Numbered(t, n) /\ Marked(t, Len(t))
<1> DEFINE r == Row("message", Text("mark", k))
           t == s \o <<r>>
<1>1. /\ IsSeq(t) /\ Len(s) \in Nat /\ Len(t) = Len(s) + 1
      /\ \A i \in 1 .. Len(s) : t[i] = s[i]
      /\ t[Len(s) + 1] = r
  BY AppendOne DEF Numbered, Ordered
<1>2. Ids(<<r>>) = {} /\ IsSeq(<<r>>)
  BY OneIsSeq DEF Ids, Where, Row
<1>3. Ordered(t) /\ Below(t, n)
  BY <1>2, AppendOthers DEF Numbered
<1>r. r.kind # "checkpoint"
  BY DEF Row
<1> HIDE DEF t
<1>4. \A i \in Ids(s) : i \in Ids(t) /\ t[i] = s[i]
  BY <1>1 DEF Ids, Where
<1>5. ASSUME NEW j \in 0 .. n - 1 PROVE \E i \in Ids(t) : t[i].body = j
  <2>1. PICK i \in Ids(s) : s[i].body = j
    BY DEF Numbered
  <2>2. QED
    BY <1>4, <2>1
<1>6. ASSUME NEW i \in Ids(t)
      PROVE  i < Len(t) /\ t[i + 1] = Row("message", Text("mark", t[i].body))
  <2>1. i \in 1 .. Len(s) + 1 /\ t[i].kind = "checkpoint"
    BY <1>1 DEF Ids, Where
  <2>2. i \in 1 .. Len(s)
    <3>1. i # Len(s) + 1
      BY <1>1, <1>r, <2>1
    <3>2. QED
      BY <1>1, <2>1, <3>1
  <2>3. t[i] = s[i]
    BY <1>1, <2>2
  <2>4. CASE i = Len(s)
    <3>1. t[i].body = k
      BY <2>3, <2>4 DEF Row
    <3>2. QED
      BY <1>1, <2>4, <3>1
  <2>5. CASE i # Len(s)
    <3>1. i \in Ids(s) /\ i <= Len(s) - 1
      BY <1>1, <2>1, <2>2, <2>3, <2>5 DEF Ids, Where
    <3>2. i < Len(s) /\ s[i + 1] = Row("message", Text("mark", s[i].body))
      BY <3>1 DEF Marked
    <3>3. i + 1 \in 1 .. Len(s)
      BY <1>1, <2>2, <3>2
    <3>4. t[i + 1] = s[i + 1]
      BY <1>1, <3>3
    <3>5. QED
      BY <1>1, <2>2, <2>3, <3>2, <3>4
  <2>6. QED
    BY <2>4, <2>5
<1>7. Numbered(t, n) /\ Marked(t, Len(t))
  BY <1>3, <1>5, <1>6 DEF Numbered, Marked
<1>8. QED
  BY <1>7 DEF t

\* A rewind to checkpoint k.
LEMMA NumberedCut ==
  ASSUME NEW s, NEW n \in Nat, Numbered(s, n), Marked(s, Len(s)), NEW k \in 0 .. n - 1,
         NEW c \in Nat, c + 1 \in Ids(s), s[c + 1].body = k
  PROVE  LET t == SubSeq(s, 1, c)
         IN  /\ c < Len(s) /\ Numbered(t, k) /\ Marked(t, Len(t))
             /\ \A m : Before(s, k, m) => Messages(t) = m
<1> DEFINE t == SubSeq(s, 1, c)
<1>1. IsSeq(s) /\ Len(s) \in Nat /\ Ordered(s)
  BY DEF Numbered, Ordered, IsSeq
<1>2. c + 1 \in 1 .. Len(s) /\ s[c + 1].kind = "checkpoint" /\ c < Len(s) /\ c <= Len(s)
  BY <1>1 DEF Ids, Where
<1>3. IsSeq(t) /\ Len(t) = c /\ \A i \in 1 .. c : t[i] = s[i]
  BY <1>1, <1>2, SubSeqParts
<1>4. Ordered(t)
  BY <1>1, <1>2, CutOff
<1>5. \A m : Before(s, k, m) => Messages(t) = m
  <2>1. ASSUME NEW m, Before(s, k, m) PROVE Messages(t) = m
    <3>1. PICK i \in Ids(s) : s[i].body = k /\ Messages(SubSeq(s, 1, i - 1)) = m
      BY <2>1 DEF Before
    <3>2. i \in Nat
      BY <1>1 DEF Ids, Where
    <3>3. ~ (i < c + 1) /\ ~ (c + 1 < i)
      <4>1. i < c + 1 => s[i].body < s[c + 1].body
        BY <1>1 DEF Ordered
      <4>2. c + 1 < i => s[c + 1].body < s[i].body
        BY <1>1 DEF Ordered
      <4>3. QED
        BY <3>1, <4>1, <4>2
    <3>4. i = c + 1
      BY <3>2, <3>3
    <3>5. i - 1 = c
      BY <3>4
    <3>6. QED
      BY <3>1, <3>5
  <2>2. QED
    BY <2>1
<1> HIDE DEF t
<1>6. \A i : i \in Ids(t) <=> i \in Ids(s) /\ i \in 1 .. c
  BY <1>1, <1>2, <1>3 DEF Ids, Where
<1>7. ASSUME NEW i \in Ids(t) PROVE t[i].body < k
  <2>1. i \in Ids(s) /\ i \in 1 .. c /\ t[i] = s[i] /\ i < c + 1
    BY <1>3, <1>6
  <2>2. s[i].body < s[c + 1].body
    BY <1>1, <2>1 DEF Ordered
  <2>3. QED
    BY <2>1, <2>2
<1>8. ASSUME NEW j \in 0 .. k - 1 PROVE \E i \in Ids(t) : t[i].body = j
  <2>1. j \in 0 .. n - 1 /\ j < k
    OBVIOUS
  <2>2. PICK i \in Ids(s) : s[i].body = j
    BY <2>1 DEF Numbered
  <2>3. i \in 1 .. Len(s)
    BY DEF Ids, Where
  <2>4. ~ (c + 1 < i) /\ i # c + 1
    <3>1. c + 1 < i => s[c + 1].body < s[i].body
      BY <1>1 DEF Ordered
    <3>2. QED
      BY <2>1, <2>2, <3>1
  <2>5. i \in 1 .. c
    BY <1>1, <2>3, <2>4
  <2>6. QED
    BY <1>3, <1>6, <2>2, <2>5
<1>9. ASSUME NEW i \in Ids(t)
      PROVE  i < Len(t) /\ t[i + 1] = Row("message", Text("mark", t[i].body))
  <2>1. i \in Ids(s) /\ i \in 1 .. c /\ t[i] = s[i] /\ i <= Len(s)
    BY <1>1, <1>2, <1>3, <1>6
  <2>2. s[i + 1] = Row("message", Text("mark", s[i].body))
    BY <2>1 DEF Marked
  <2>3. i # c
    <3>1. i = c => s[c + 1].kind = "message"
      BY <2>2 DEF Row
    <3>2. QED
      BY <1>2, <3>1
  <2>4. i + 1 \in 1 .. c
    BY <2>1, <2>3
  <2>5. t[i + 1] = s[i + 1]
    BY <1>3, <2>4
  <2>6. QED
    BY <1>3, <2>1, <2>2, <2>4, <2>5
<1>10. Numbered(t, k) /\ Marked(t, Len(t))
  BY <1>4, <1>7, <1>8, <1>9 DEF Numbered, Marked, Below
<1>11. QED
  BY <1>2, <1>5, <1>10 DEF t

LEMMA NumberedRestored ==
  ASSUME NEW s, NEW n \in Nat, Numbered(s, n)
  PROVE  Checkpoints(s) = n
<1>1. Checkpoints(s) \in Nat /\ Below(s, Checkpoints(s))
  BY RestoredIdIsNew DEF Numbered
<1>2. IsSeq(s) /\ Len(s) \in Nat
  BY DEF Numbered, Ordered, IsSeq
<1>3. n <= Checkpoints(s)
  <2>1. CASE n = 0
    BY <1>1, <2>1
  <2>2. CASE n # 0
    <3>1. n - 1 \in 0 .. n - 1
      BY <2>2
    <3>2. PICK i \in Ids(s) : s[i].body = n - 1
      BY <3>1 DEF Numbered
    <3>3. n - 1 < Checkpoints(s)
      BY <1>1, <3>2 DEF Below
    <3>4. QED
      BY <1>1, <3>3
  <2>3. QED
    BY <2>1, <2>2
<1>4. Checkpoints(s) <= n
  <2>1. CASE Ids(s) = {}
    BY <2>1 DEF Checkpoints, Ids
  <2>2. CASE Ids(s) # {}
    <3>1. Checkpoints(s) = s[Greatest(Ids(s))].body + 1
      BY <2>2 DEF Checkpoints, Ids, LastOf
    <3>2. Greatest(Ids(s)) \in Ids(s)
      BY <1>2, <2>2, GreatestIs DEF Ids, Where
    <3>3. s[Greatest(Ids(s))].body < n /\ s[Greatest(Ids(s))].body \in Nat
      BY <3>2 DEF Numbered, Below, Ordered
    <3>4. QED
      BY <3>1, <3>3
  <2>3. QED
    BY <2>1, <2>2
<1>5. QED
  BY <1>1, <1>3, <1>4

\* Where a D-Mail to checkpoint id goes is stored.
Awaits(id) == id \in 0 .. nextId - 1 /\ (seen # None => Before(stored, id, seen))

LandForm ==
  /\ pc \in Labels \ {"down"} /\ ret \in {"user", "model", "summary", "dmail", "idle"}
  /\ nextId \in Nat /\ (pc = "checkpoint" => nextId > 0)
  /\ late = {} /\ torn = FALSE

LandIds ==
  /\ pc # "restore" => Numbered(stored, Taken)
  /\ pc # "mark" => Marked(stored, Len(stored))
  /\ pc = "mark" =>
       /\ Len(stored) > 0 /\ stored[Len(stored)] = Row("checkpoint", nextId - 1)
       /\ Marked(stored, Len(stored) - 1)
  /\ pc \in {"model", "usageIn", "tools"} => nCheckpoints = nextId

LandMail ==
  /\ pending # None => pc \in InStep /\ Awaits(pending)
  /\ pc \in {"find", "truncate"} => Awaits(target)
  /\ pc = "truncate" =>
       cut \in Nat /\ cut + 1 \in Ids(stored) /\ stored[cut + 1].body = target
  /\ pc = "restore" =>
       target \in Nat /\ Numbered(stored, target) /\ (seen # None => Messages(stored) = seen)
  /\ pc \in {"checkpoint", "mark"} /\ ret = "dmail" =>
       target \in Nat /\ nextId = target + 1 /\ (seen # None => history = seen)
  /\ pc = "dmail" => (seen # None => history = seen \o <<Text("mark", target)>>)

LandInv == LandForm /\ LandIds /\ LandMail

\* The agent has the tool for D-Mails. Steps end, checkpoints are not left
\* half-way, rewinds reload, and no transaction is cancelled.
CalmTurns ==
  /\ FailAt \cap ({"checkpoint", "mark", "restore"} \cup InStep) = {}
  /\ CancelAt \cap (Writes \cup {"restore"} \cup InStep) = {}
  /\ "unsupported" \notin Outcomes /\ MayCrash = FALSE /\ WithMark = TRUE

\* Storage stays as it is, and the turn goes on.
LEMMA LandStill ==
  ASSUME LandInv, pc \notin {"mark", "restore"}, Taken' = Taken,
         UNCHANGED <<stored, seen, late, torn>>, nextId' \in Nat,
         pc' \in Labels \ {"down", "mark", "restore", "dmail", "truncate", "find", "model"},
         ret' \in {"user", "model", "summary", "dmail", "idle"},
         pc' = "checkpoint" => ret' # "dmail" /\ nextId' > 0,
         pc' \in {"usageIn", "tools"} => nCheckpoints' = nextId',
         pending' # None => pc' \in InStep /\ pending' = pending /\ nextId' = nextId
  PROVE  LandInv'
<1>1. LandForm'
  BY DEF LandInv, LandForm
<1>2. LandIds'
  <2>1. Numbered(stored, Taken) /\ Marked(stored, Len(stored))
    BY DEF LandInv, LandIds
  <2>2. Numbered(stored', Taken') /\ Marked(stored', Len(stored'))
    BY <2>1
  <2>3. QED
    BY <2>2 DEF LandIds
<1>3. LandMail'
  <2>1. ASSUME pending' # None PROVE Awaits(pending)'
    <3>1. Awaits(pending) /\ pending' = pending /\ nextId' = nextId
      BY <2>1 DEF LandInv, LandMail
    <3>2. QED
      BY <3>1 DEF Awaits
  <2>2. QED
    BY <2>1 DEF LandMail
<1>4. QED
  BY <1>1, <1>2, <1>3 DEF LandInv

\* Events that are no checkpoints are stored.
LEMMA LandGrow ==
  ASSUME LandInv, NEW t, IsSeq(t), Ids(t) = {}, stored' = stored \o t,
         pc \in {"user", "init", "dmail", "answer", "results", "summary", "usageIn", "usageTotal"},
         UNCHANGED <<pending, nCheckpoints, seen, late, torn>>, Taken' = Taken, nextId' \in Nat,
         pc' \in Labels \ {"down", "mark", "restore", "dmail", "truncate", "find", "model", "usageIn"},
         ret' \in {"user", "model", "summary", "dmail", "idle"},
         pc' = "checkpoint" => ret' # "dmail" /\ nextId' > 0,
         pc' = "tools" => pc = "usageIn",
         pc \in InStep => pc' \in InStep /\ nextId' = nextId
  PROVE  LandInv'
<1>1. LandForm'
  BY DEF LandInv, LandForm
<1>0. /\ Numbered(stored, Taken) /\ Marked(stored, Len(stored)) /\ Taken \in Nat
      /\ Taken = nextId /\ nextId \in Nat
  BY DEF LandInv, LandIds, LandForm, Taken
<1>2. /\ Numbered(stored', Taken) /\ Marked(stored', Len(stored'))
      /\ \A k, m : Before(stored, k, m) => Before(stored', k, m)
  BY <1>0, NumberedGrow
<1>3. LandIds'
  <2>1. Numbered(stored', Taken')
    BY <1>2
  <2>2. pc' = "tools" => nCheckpoints' = nextId'
    BY DEF LandInv, LandIds, InStep
  <2>3. QED
    BY <1>2, <2>1, <2>2 DEF LandIds
<1>4. LandMail'
  <2>1. ASSUME pending' # None PROVE pc' \in InStep /\ Awaits(pending)'
    <3>1. pc \in InStep /\ Awaits(pending) /\ pc' \in InStep /\ nextId' = nextId
      BY <2>1 DEF LandInv, LandMail
    <3>2. PICK p : p = pending
      OBVIOUS
    <3>3. p \in 0 .. nextId' - 1 /\ (seen' # None => Before(stored', p, seen'))
      BY <1>2, <3>1, <3>2 DEF Awaits
    <3>4. QED
      BY <3>1, <3>2, <3>3 DEF Awaits
  <2>2. QED
    BY <2>1 DEF LandMail
<1>5. QED
  BY <1>1, <1>3, <1>4 DEF LandInv

LEMMA LandStores ==
  ASSUME LandInv, MemoryInv, CalmTurns,
         \/ WriteUser \/ WriteInit \/ WriteDmail \/ WriteAnswer \/ WriteResults \/ WriteSummary
         \/ WriteUsage
  PROVE  LandInv'
<1> USE DEF memory, scratch, denwa, around
<1>0. nextId \in Nat /\ ret \in {"user", "model", "summary", "dmail", "idle"}
  BY DEF LandInv, LandForm
<1>1. IsSeq(Spoken)
  BY SpokenAre DEF MemoryInv, Form
<1>2. PICK m : m = Spoken
  OBVIOUS
<1>3. IsSeq(Rows(m)) /\ Ids(Rows(m)) = {}
  BY <1>1, <1>2, RowsAreMessages
<1>4. CASE WriteUser \/ WriteInit \/ WriteDmail \/ WriteAnswer \/ WriteResults
  <2>1. /\ pc \in {"user", "init", "dmail", "answer", "results"} /\ Commit
        /\ UNCHANGED <<pending, nCheckpoints, seen, late, torn, nextId, ret>>
        /\ pc' \in {"loop", "idle", "usageTotal", "results", "settle"}
        /\ pc \in {"answer", "results"} => pc' \in InStep
    BY <1>4 DEF WriteUser, WriteInit, WriteDmail, WriteAnswer, WriteResults, WriteMessages, InStep
  <2>2. stored' = stored \o Rows(m)
    BY <1>2, <2>1 DEF Commit, Committed, Issued
  <2>3. Taken' = Taken
    BY <2>1 DEF Taken
  <2>4. QED
    BY <1>0, <1>3, <2>1, <2>2, <2>3, LandGrow DEF Labels, Writes, InStep
<1>5. CASE WriteSummary
  <2>1. /\ pc = "summary" /\ Commit /\ UNCHANGED <<pending, nCheckpoints, seen, late, torn>>
        /\ \/ pc' = "idle" /\ nextId' = nextId /\ ret' = ret
           \/ pc' = "checkpoint" /\ nextId' = nextId + 1 /\ ret' = "model"
    BY <1>5 DEF WriteSummary, EnterCheckpoint
  <2>2. stored' = stored \o Rows(m)
    BY <1>2, <2>1 DEF Commit, Committed, Issued
  <2>3. Taken' = Taken
    BY <1>0, <2>1 DEF Taken
  <2>4. QED
    BY <1>0, <1>3, <2>1, <2>2, <2>3, LandGrow DEF Labels, Writes, InStep
<1>6. CASE WriteUsage
  <2>1. /\ pc \in {"usageIn", "usageTotal"} /\ Commit
        /\ UNCHANGED <<pending, nCheckpoints, seen, late, torn, nextId, ret>>
        /\ pc' \in {"tools", "results", "settle"}
        /\ pc' = "tools" => pc = "usageIn"
    BY <1>6 DEF WriteUsage
  <2>2. PICK x : stored' = stored \o <<Row("usage", x)>>
    BY <2>1 DEF Commit, Committed, Issued
  <2>3. PICK t : /\ t = <<Row("usage", x)>> /\ IsSeq(t) /\ Len(t) = 1
                 /\ t[1].kind = "usage"
    <3>1. PICK r : r = Row("usage", x)
      OBVIOUS
    <3>2. IsSeq(<<r>>) /\ Len(<<r>>) = 1 /\ <<r>>[1] = r
      BY OneIsSeq
    <3>3. r.kind = "usage"
      BY <3>1 DEF Row
    <3>4. QED
      BY <3>1, <3>2, <3>3
  <2>4. Ids(t) = {}
    BY <2>3 DEF Ids, Where
  <2>5. Taken' = Taken
    BY <2>1 DEF Taken
  <2>6. /\ pc \in {"user", "init", "dmail", "answer", "results", "summary", "usageIn", "usageTotal"}
        /\ pc' \in Labels \ {"down", "mark", "restore", "dmail", "truncate", "find", "model",
                             "usageIn"}
        /\ pc' # "checkpoint" /\ pc' \in InStep
        /\ nextId' = nextId /\ nextId' \in Nat
        /\ ret' \in {"user", "model", "summary", "dmail", "idle"}
    BY <1>0, <2>1 DEF Labels, Writes, InStep
  <2>7. QED
    BY <2>1, <2>2, <2>3, <2>4, <2>5, <2>6, LandGrow
<1>7. QED
  BY <1>4, <1>5, <1>6

LEMMA LandSteps ==
  ASSUME LandInv, CalmTurns,
         \/ MaxStepsReached \/ StartStep \/ Compact \/ Client \/ Fail \/ Cancel
         \/ \E calls \in Calls, usage \in Usages : Generate(calls, usage)
         \/ \E how \in Outcomes : FinishTools(how)
  PROVE  LandInv'
<1> USE DEF memory, scratch, denwa, around
<1>0. /\ nextId \in Nat /\ ret \in {"user", "model", "summary", "dmail", "idle"}
      /\ pending # None => pc \in InStep
  BY DEF LandInv, LandForm, LandMail
<1>1. CASE MaxStepsReached \/ Compact \/ Fail \/ Cancel
  <2>1. /\ pc \notin {"mark", "checkpoint", "restore"} /\ pc \notin InStep
        /\ pc' \in {"idle", "clear"}
        /\ UNCHANGED <<stored, seen, torn, nextId, pending>>
    BY <1>1 DEF MaxStepsReached, Compact, Fail, Cancel, CalmTurns, InStep, Writes, LandInv, LandForm
  <2>2. UNCHANGED late /\ (ret' = ret \/ ret' = "summary")
    BY <1>1 DEF MaxStepsReached, Compact, Fail, Cancel, CalmTurns
  <2>3. Taken' = Taken
    BY <2>1 DEF Taken
  <2>4. QED
    BY <1>0, <2>1, <2>2, <2>3, LandStill DEF Labels, Writes
<1>2. CASE StartStep \/ Client
  <2>1. /\ pc \in {"loop", "idle"} /\ UNCHANGED <<stored, seen, late, torn, pending>>
        /\ ret' = ret \/ ret' \in {"user", "model", "idle"}
        /\ \/ pc' \in {"compact", "clear", "init"} /\ nextId' = nextId
           \/ pc' = "checkpoint" /\ nextId' = nextId + 1 /\ ret' \in {"user", "model"}
    BY <1>2 DEF StartStep, Client, Prompt, SlashClear, SlashCompact, SlashInit, Begin, EnterCheckpoint
  <2>2. Taken' = Taken
    BY <1>0, <2>1 DEF Taken
  <2>3. pc \notin InStep
    BY <2>1 DEF InStep
  <2>4. QED
    BY <1>0, <2>1, <2>2, <2>3, LandStill DEF Labels, Writes
<1>3. CASE \E calls \in Calls, usage \in Usages : Generate(calls, usage)
  <2>1. /\ pc = "model" /\ pc' \in {"tools", "usageIn"}
        /\ UNCHANGED <<stored, seen, late, torn, pending, nextId, ret, nCheckpoints>>
    BY <1>3 DEF Generate
  <2>2. Taken' = Taken /\ nCheckpoints' = nextId'
    BY <2>1 DEF Taken, LandInv, LandIds
  <2>3. pc \notin InStep
    BY <2>1 DEF InStep
  <2>4. QED
    BY <1>0, <2>1, <2>2, <2>3, LandStill DEF Labels, Writes
<1>4. CASE \E how \in Outcomes : FinishTools(how)
  <2>1. PICK how \in Outcomes : FinishTools(how)
    BY <1>4
  <2>2. /\ pc = "tools" /\ pc' = "answer"
        /\ UNCHANGED <<stored, seen, late, torn, pending, nextId, ret, nCheckpoints>>
    BY <2>1 DEF FinishTools, CalmTurns
  <2>3. Taken' = Taken
    BY <2>2 DEF Taken
  <2>4. QED
    BY <1>0, <2>2, <2>3, LandStill DEF Labels, Writes, InStep
<1>5. QED
  BY <1>1, <1>2, <1>3, <1>4

LEMMA LandCheckpoint == ASSUME LandInv, CalmTurns, WriteCheckpoint PROVE LandInv'
<1> USE DEF memory, scratch, denwa, around
<1>1. /\ pc = "checkpoint" /\ pc' = "mark" /\ Commit
      /\ UNCHANGED <<history, nextId, ret, target, pending, nCheckpoints, seen, late, torn>>
  BY DEF WriteCheckpoint, CalmTurns
<1>2. PICK n \in Nat : n = nextId - 1 /\ n + 1 = nextId /\ Taken = n
  <2>1. nextId \in Nat /\ nextId > 0
    BY <1>1 DEF LandInv, LandForm
  <2>2. nextId - 1 \in Nat
    BY <2>1
  <2>3. QED
    BY <1>1, <2>1, <2>2 DEF Taken
<1>3. stored' = stored \o <<Row("checkpoint", n)>>
  BY <1>1, <1>2 DEF Commit, Committed, Issued
<1>4. Numbered(stored, n) /\ Marked(stored, Len(stored))
  BY <1>1, <1>2 DEF LandInv, LandIds
<1>5. /\ Numbered(stored', n + 1) /\ Len(stored') > 0
      /\ stored'[Len(stored')] = Row("checkpoint", n) /\ Marked(stored', Len(stored') - 1)
  BY <1>3, <1>4, NumberedNext
<1>6. LandForm'
  BY <1>1 DEF LandInv, LandForm, Labels, Writes
<1>7. LandIds'
  <2>1. Taken' = nextId /\ nextId' = nextId
    <3>1. pc' = "mark" /\ nextId' = nextId /\ nextId \in Nat
      BY <1>1 DEF LandInv, LandForm
    <3>2. QED
      BY <3>1 DEF Taken
  <2>2. Numbered(stored', Taken')
    BY <1>2, <1>5, <2>1
  <2>3. stored'[Len(stored')] = Row("checkpoint", nextId' - 1)
    BY <1>2, <1>5, <2>1
  <2>4. QED
    BY <1>1, <1>5, <2>2, <2>3 DEF LandIds
<1>8. LandMail'
  <2>1. pending = None
    BY <1>1 DEF LandInv, LandMail, InStep
  <2>2. QED
    BY <1>1, <2>1 DEF LandInv, LandMail
<1>9. QED
  BY <1>6, <1>7, <1>8 DEF LandInv

LEMMA LandMark == ASSUME LandInv, CalmTurns, WriteMark PROVE LandInv'
<1> USE DEF memory, scratch, denwa, around
<1>1. /\ pc = "mark" /\ pc' = ret /\ Commit /\ history' = history \o Spoken
      /\ ret \in {"user", "model", "summary", "dmail", "idle"} /\ nextId \in Nat
      /\ UNCHANGED <<nextId, ret, target, pending, seen, late, torn>>
      /\ nCheckpoints' = IF ret = "model" THEN nextId ELSE nCheckpoints
  BY DEF WriteMark, LeaveCheckpoint, LandInv, LandForm
<1>2. Spoken = <<Text("mark", nextId - 1)>>
  BY <1>1 DEF Spoken
<1>3. PICK n, k : n = nextId /\ k = nextId - 1 /\ n \in Nat
  BY <1>1
<1>4. stored' = stored \o <<Row("message", Text("mark", k))>>
  <2>1. Rows(<<Text("mark", k)>>) = <<Row("message", Text("mark", k))>>
    BY DEF Rows
  <2>2. QED
    BY <1>1, <1>2, <1>3, <2>1 DEF Commit, Committed, Issued
<1>5. /\ Numbered(stored, n) /\ Len(stored) > 0
      /\ stored[Len(stored)] = Row("checkpoint", k) /\ Marked(stored, Len(stored) - 1)
  BY <1>1, <1>3 DEF LandInv, LandIds, Taken
<1>6. Numbered(stored', n) /\ Marked(stored', Len(stored'))
  BY <1>3, <1>4, <1>5, NumberedMark
<1>7. LandForm'
  BY <1>1 DEF LandInv, LandForm, Labels, Writes
<1>8. LandIds'
  <2>1. Taken' = n
    BY <1>1, <1>3 DEF Taken
  <2>2. pc' = "model" => nCheckpoints' = nextId'
    BY <1>1
  <2>3. QED
    BY <1>1, <1>6, <2>1, <2>2 DEF LandIds
<1>9. LandMail'
  <2>1. pending' = None
    BY <1>1 DEF LandInv, LandMail, InStep
  <2>2. ASSUME pc' = "dmail", seen' # None
        PROVE  history' = seen' \o <<Text("mark", target')>>
    <3>1. nextId = target + 1 /\ history = seen /\ target' = target /\ seen' = seen
      BY <1>1, <2>2 DEF LandInv, LandMail
    <3>2. target = nextId - 1
      <4>1. target \in Nat
        BY <1>1, <2>2 DEF LandInv, LandMail
      <4>2. QED
        BY <3>1, <4>1
    <3>3. QED
      BY <1>1, <1>2, <3>1, <3>2
  <2>3. QED
    BY <1>1, <2>1, <2>2 DEF LandMail
<1>10. QED
  BY <1>7, <1>8, <1>9 DEF LandInv

LEMMA LandClear == ASSUME LandInv, CalmTurns, Clear PROVE LandInv'
<1> USE DEF memory, scratch, denwa, around
<1>1. /\ pc = "clear" /\ Commit
      /\ UNCHANGED <<target, pending, nCheckpoints, seen, late, torn>>
      /\ \/ pc' = "checkpoint" /\ nextId' = 0 + 1 /\ ret' = "summary"
         \/ pc' = "idle" /\ nextId' = 0 /\ ret' = ret
  BY DEF Clear, EnterCheckpoint
<1>2. IsSeq(stored) /\ Len(stored) \in Nat
  BY <1>1 DEF LandInv, LandIds, Numbered, Ordered, IsSeq
<1>3. stored' = <<>>
  <2>1. Issued.keep = 0 /\ 0 # None
    BY <1>1 DEF Issued
  <2>2. stored' = SubSeq(stored, 1, 0)
    BY <1>1, <1>2, <2>1 DEF Commit, Committed
  <2>3. QED
    BY <1>2, <2>2 DEF IsSeq
<1>4. Taken' = 0
  BY <1>1 DEF Taken
<1>5. LandForm'
  BY <1>1 DEF LandInv, LandForm, Labels, Writes
<1>6. LandIds'
  <2>1. Numbered(stored', Taken') /\ Marked(stored', Len(stored'))
    BY <1>3, <1>4, NumberedNone
  <2>2. QED
    BY <1>1, <2>1 DEF LandIds
<1>7. LandMail'
  BY <1>1 DEF LandInv, LandMail, InStep
<1>8. QED
  BY <1>5, <1>6, <1>7 DEF LandInv

LEMMA LandSettle == ASSUME LandInv, Settle PROVE LandInv'
<1> USE DEF memory, scratch, denwa, around
<1>1. /\ pc = "settle" /\ pending' = None
      /\ UNCHANGED <<stored, nextId, ret, nCheckpoints, seen, late, torn>>
      /\ \/ pc' = "find" /\ target' = pending /\ pending # None
         \/ pc' \in {"loop", "idle"}
  BY DEF Settle
<1>2. nextId \in Nat
  BY DEF LandInv, LandForm
<1>3. LandForm'
  BY <1>1 DEF LandInv, LandForm, Labels, Writes
<1>4. LandIds'
  <2>1. Taken' = Taken
    BY <1>1 DEF Taken
  <2>2. Numbered(stored', Taken') /\ Marked(stored', Len(stored'))
    BY <1>1, <2>1 DEF LandInv, LandIds
  <2>3. QED
    BY <1>1, <2>2 DEF LandIds
<1>5. LandMail'
  <2>1. ASSUME pc' = "find" PROVE Awaits(target)'
    <3>1. Awaits(pending) /\ target' = pending
      BY <1>1, <2>1 DEF LandInv, LandMail
    <3>2. QED
      BY <1>1, <3>1 DEF Awaits
  <2>2. QED
    BY <1>1, <2>1 DEF LandMail
<1>6. QED
  BY <1>3, <1>4, <1>5 DEF LandInv

\* Where a D-Mail goes there is a checkpoint.
LEMMA AwaitedIsThere ==
  ASSUME LandInv, pc \notin {"checkpoint", "restore"}, NEW id, Awaits(id)
  PROVE  \E i \in Ids(stored) : stored[i].body = id
<1>1. nextId \in Nat /\ Numbered(stored, Taken)
  BY DEF LandInv, LandForm, LandIds
<1>2. Taken = nextId
  BY <1>1 DEF Taken
<1>3. id \in 0 .. nextId - 1
  BY DEF Awaits
<1>4. QED
  BY <1>1, <1>2, <1>3 DEF Numbered

LEMMA LandFind == ASSUME LandInv, Find PROVE LandInv'
<1> USE DEF memory, scratch, denwa, around
<1> DEFINE found == {i \in Where("checkpoint", stored) : stored[i].body = target}
<1>1. /\ pc = "find"
      /\ UNCHANGED <<stored, nextId, ret, target, pending, nCheckpoints, seen, late, torn>>
  BY DEF Find
<1>2. Awaits(target) /\ pending = None /\ Len(stored) \in Nat
  BY <1>1 DEF LandInv, LandMail, LandIds, InStep, Numbered, Ordered, IsSeq
<1>3. found # {}
  BY <1>1, <1>2, AwaitedIsThere DEF Ids
<1>4. PICK x : x = CHOOSE i \in found : \A j \in found : i <= j
  OBVIOUS
<1>5. pc' = "truncate" /\ cut' = x - 1
  BY <1>1, <1>3, <1>4 DEF Find
<1>6. x \in found
  <2>1. found \in SUBSET Nat
    BY <1>2 DEF Where
  <2>2. \E i \in found : \A j \in found : i <= j
    BY <1>3, <2>1, LeastExists
  <2> HIDE DEF found
  <2>3. QED
    BY <1>4, <2>2
<1>7. cut' \in Nat /\ cut' + 1 = x /\ x \in Ids(stored) /\ stored[x].body = target
  BY <1>2, <1>5, <1>6 DEF Where, Ids
<1>8. LandForm'
  BY <1>1, <1>5 DEF LandInv, LandForm, Labels, Writes
<1>9. LandIds'
  <2>1. Taken' = Taken
    BY <1>1, <1>5 DEF Taken
  <2>2. Numbered(stored', Taken') /\ Marked(stored', Len(stored'))
    BY <1>1, <2>1 DEF LandInv, LandIds
  <2>3. QED
    BY <1>5, <2>2 DEF LandIds
<1>10. LandMail'
  <2>1. Awaits(target)'
    BY <1>1, <1>2 DEF Awaits
  <2>2. cut' \in Nat /\ cut' + 1 \in Ids(stored') /\ stored'[cut' + 1].body = target'
    BY <1>1, <1>7
  <2>3. QED
    BY <1>1, <1>2, <1>5, <2>1, <2>2 DEF LandMail
<1>11. QED
  BY <1>8, <1>9, <1>10 DEF LandInv

LEMMA LandTruncate == ASSUME LandInv, CalmTurns, Truncate PROVE LandInv'
<1> USE DEF memory, scratch, denwa, around
<1>1. /\ pc = "truncate" /\ pc' = "restore" /\ Commit /\ nextId' = 0
      /\ UNCHANGED <<ret, target, pending, nCheckpoints, seen, late, torn>>
  BY DEF Truncate
<1>2. /\ nextId \in Nat /\ Numbered(stored, nextId) /\ Marked(stored, Len(stored))
      /\ pending = None
  BY <1>1 DEF LandInv, LandForm, LandIds, LandMail, Taken, InStep
<1>3. /\ cut \in Nat /\ cut + 1 \in Ids(stored) /\ stored[cut + 1].body = target
      /\ Awaits(target) /\ target \in 0 .. nextId - 1
  BY <1>1 DEF LandInv, LandMail, Awaits
<1>4. PICK t : t = SubSeq(stored, 1, cut)
  OBVIOUS
<1>5. /\ cut < Len(stored) /\ Numbered(t, target) /\ Marked(t, Len(t))
      /\ \A m : Before(stored, target, m) => Messages(t) = m
  BY <1>2, <1>3, <1>4, NumberedCut
<1>6. stored' = t
  <2>1. Issued.keep = cut /\ cut # None
    BY <1>1, <1>3 DEF Issued
  <2>2. QED
    BY <1>1, <1>4, <1>5, <2>1 DEF Commit, Committed
<1>7. LandForm'
  BY <1>1 DEF LandInv, LandForm, Labels, Writes
<1>8. LandIds'
  BY <1>1, <1>5, <1>6 DEF LandIds
<1>9. LandMail'
  <2>1. target' \in Nat /\ Numbered(stored', target')
    BY <1>1, <1>2, <1>3, <1>5, <1>6
  <2>2. seen' # None => Messages(stored') = seen'
    BY <1>1, <1>3, <1>5, <1>6 DEF Awaits
  <2>3. QED
    BY <1>1, <1>2, <2>1, <2>2 DEF LandMail
<1>10. QED
  BY <1>7, <1>8, <1>9 DEF LandInv

LEMMA LandRestore == ASSUME LandInv, Restore PROVE LandInv'
<1> USE DEF memory, scratch, denwa, around
<1>1. /\ pc = "restore" /\ pc' = "checkpoint" /\ ret' = "dmail" /\ history' = Messages(stored)
      /\ nextId' = Checkpoints(stored) + 1 /\ torn' = (late # {})
      /\ UNCHANGED <<stored, target, pending, nCheckpoints, seen, late>>
  BY DEF Restore, EnterCheckpoint
<1>2. /\ target \in Nat /\ Numbered(stored, target) /\ Marked(stored, Len(stored))
      /\ (seen # None => Messages(stored) = seen) /\ pending = None /\ late = {}
  BY <1>1 DEF LandInv, LandForm, LandIds, LandMail, InStep
<1>3. nextId' = target + 1
  BY <1>1, <1>2, NumberedRestored
<1>4. Taken' = target
  BY <1>1, <1>2, <1>3 DEF Taken
<1>5. LandForm'
  <2>1. torn' = FALSE
    BY <1>1, <1>2
  <2>2. QED
    BY <1>1, <1>2, <1>3, <2>1 DEF LandForm, Labels, Writes
<1>6. LandIds'
  BY <1>1, <1>2, <1>4 DEF LandIds
<1>7. LandMail'
  BY <1>1, <1>2, <1>3 DEF LandMail
<1>8. QED
  BY <1>5, <1>6, <1>7 DEF LandInv

LEMMA LandSend ==
  ASSUME LandInv, MemoryInv, WithinInv, NEW id \in 0 .. nCheckpoints, SendDmail(id)
  PROVE  LandInv'
<1> USE DEF memory, scratch, denwa, around
<1>1. /\ pc \in {"usageIn", "tools"} /\ id < nCheckpoints /\ pending' = id
      /\ UNCHANGED <<stored, pc, nextId, ret, nCheckpoints, late, torn>>
  BY DEF SendDmail, ToolsRun, WithinInv
<1>2. /\ nCheckpoints = nextId /\ nextId \in Nat /\ Numbered(stored, Taken)
      /\ Marked(stored, Len(stored))
  BY <1>1 DEF LandInv, LandForm, LandIds
<1>3. id \in 0 .. nextId - 1 /\ Taken = nextId
  BY <1>1, <1>2 DEF Taken
<1>4. PICK i \in Ids(stored) : stored[i].body = id
  BY <1>2, <1>3 DEF Numbered
<1>5. history = Messages(stored)
  BY <1>1 DEF MemoryInv, Restorable, LandInv, LandForm, Rebuilding
<1>6. seen' # None => Before(stored, id, seen')
  <2> DEFINE h == Messages(stored)
             marks == {k \in 1 .. Len(h) : h[k] = Text("mark", id)}
  <2>1. seen' = IF Cardinality(marks) = 1
                THEN SubSeq(h, 1, (CHOOSE k \in marks : TRUE) - 1) ELSE None
    BY <1>5 DEF SendDmail
  <2>2. Cardinality(marks) = 1 =>
          SubSeq(h, 1, (CHOOSE k \in marks : TRUE) - 1) = Messages(SubSeq(stored, 1, i - 1))
    <3>1. Ordered(stored) /\ Marked(stored, Len(stored)) /\ i \in Ids(stored)
      BY <1>2, <1>4 DEF Numbered
    <3>2. LET ms == {k \in 1 .. Len(h) : h[k] = Text("mark", stored[i].body)}
          IN  Cardinality(ms) = 1 =>
                SubSeq(h, 1, (CHOOSE k \in ms : TRUE) - 1) = Messages(SubSeq(stored, 1, i - 1))
      BY <3>1, SeenBefore
    <3>3. marks = {k \in 1 .. Len(h) : h[k] = Text("mark", stored[i].body)}
      BY <1>4
    <3>4. QED
      BY <3>2, <3>3
  <2> HIDE DEF marks, h
  <2>3. seen' # None => seen' = Messages(SubSeq(stored, 1, i - 1))
    BY <2>1, <2>2
  <2>4. QED
    BY <1>4, <2>3 DEF Before
<1>7. LandForm'
  BY <1>1 DEF LandInv, LandForm
<1>8. LandIds'
  <2>1. Taken' = Taken
    BY <1>1 DEF Taken
  <2>2. QED
    BY <1>1, <1>2, <2>1 DEF LandIds
<1>9. LandMail'
  <2>1. pc' \in InStep /\ Awaits(pending)'
    BY <1>1, <1>3, <1>6 DEF Awaits, InStep
  <2>2. QED
    BY <1>1, <2>1 DEF LandMail
<1>10. QED
  BY <1>7, <1>8, <1>9 DEF LandInv

LEMMA StepLands ==
  ASSUME LandInv, MemoryInv, WithinInv, CalmTurns, [Next]_vars
  PROVE  LandInv'
<1> USE DEF memory, scratch, denwa, around
<1>1. CASE Soul
  <2>1. CASE \/ WriteUser \/ WriteInit \/ WriteDmail \/ WriteAnswer \/ WriteResults
             \/ WriteSummary \/ WriteUsage
    BY <2>1, LandStores
  <2>2. CASE \/ MaxStepsReached \/ StartStep \/ Compact
             \/ \E calls \in Calls, usage \in Usages : Generate(calls, usage)
             \/ \E how \in Outcomes : FinishTools(how)
    BY <2>2, LandSteps
  <2>3. CASE WriteCheckpoint
    BY <2>3, LandCheckpoint
  <2>4. CASE WriteMark
    BY <2>4, LandMark
  <2>5. CASE Settle
    BY <2>5, LandSettle
  <2>6. CASE Clear
    BY <2>6, LandClear
  <2>7. CASE Find
    BY <2>7, LandFind
  <2>8. CASE Truncate
    BY <2>8, LandTruncate
  <2>9. CASE Restore
    BY <2>9, LandRestore
  <2>10. QED
    BY <1>1, <2>1, <2>2, <2>3, <2>4, <2>5, <2>6, <2>7, <2>8, <2>9 DEF Soul
<1>2. CASE Client \/ Fail \/ Cancel
  BY <1>2, LandSteps
<1>3. CASE \E id \in 0 .. nCheckpoints : SendDmail(id)
  BY <1>3, LandSend
<1>4. CASE Crash \/ Restart \/ \E op \in late : LateCommit(op)
  BY <1>4 DEF Crash, Restart, CalmTurns, LandInv, LandForm
<1>5. CASE StrayEnds \/ UNCHANGED vars
  <2>1. UNCHANGED <<stored, history, nextId, pc, ret, target, cut, pending, nCheckpoints,
                    seen, late, torn>>
    BY <1>5 DEF StrayEnds, vars
  <2>2. LandForm'
    BY <2>1 DEF LandInv, LandForm
  <2>3. LandIds'
    BY <2>1 DEF LandInv, LandIds, Taken
  <2>4. LandMail'
    BY <2>1 DEF LandInv, LandMail, Awaits
  <2>5. QED
    BY <2>2, <2>3, <2>4 DEF LandInv
<1>6. QED
  BY <1>1, <1>2, <1>3, <1>4, <1>5 DEF Next, Faults

LEMMA InitLands == Init => LandInv
<1> SUFFICES ASSUME Init PROVE LandInv
  OBVIOUS
<1>1. Taken = 0
  BY DEF Init, Taken
<1>2. LandIds
  BY <1>1, NumberedNone DEF Init, LandIds
<1>3. LandForm /\ LandMail
  BY DEF Init, LandForm, LandMail, Labels
<1>4. QED
  BY <1>2, <1>3 DEF LandInv

\* A D-Mail that DenwaRenji accepts arrives: its checkpoint is there until then,
\* and after the rewind the model sees all the messages before the checkpoint
\* and the checkpoint's own, however many rewinds, compactions, clearings and
\* failed turns went before, in the turns that CalmTurns describes.
\* (send_dmail, soul/denwarenji.rs:34-46; revert_to, soul/context.rs:88-133)
THEOREM DmailsLand ==
  ASSUME CalmTurns
  PROVE  Spec => []DmailLands
<1>1. WholeRewinds /\ WholeSteps
  BY DEF CalmTurns, WholeRewinds, WholeSteps
<1> DEFINE Inv == LandInv /\ MemoryInv /\ WithinInv
<1>2. Init => Inv
  BY InitLands, InitMemory DEF Init, WithinInv
<1>3. Inv /\ [Next]_vars => Inv'
  BY <1>1, StepLands, StepMemory, StepWithin
<1>4. Inv => DmailLands
  <2> SUFFICES ASSUME LandInv PROVE DmailLands
    OBVIOUS
  <2>1. ASSUME pending # None PROVE \E i \in Where("checkpoint", stored) : stored[i].body = pending
    <3>1. pc \in InStep /\ Awaits(pending)
      BY <2>1 DEF LandInv, LandMail
    <3>2. QED
      BY <3>1, AwaitedIsThere DEF InStep, Ids
  <2>2. ASSUME pc = "find" PROVE \E i \in Where("checkpoint", stored) : stored[i].body = target
    <3>1. Awaits(target)
      BY <2>2 DEF LandInv, LandMail
    <3>2. QED
      BY <2>2, <3>1, AwaitedIsThere DEF Ids
  <2>3. pc = "dmail" /\ seen # None => history = seen \o <<Text("mark", target)>>
    BY DEF LandInv, LandMail
  <2>4. QED
    BY <2>1, <2>2, <2>3 DEF DmailLands, AcceptedExists
<1>5. QED
  BY <1>2, <1>3, <1>4, PTL DEF Spec
=============================================================================
