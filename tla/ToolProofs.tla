----------------------------- MODULE ToolProofs -----------------------------
(***************************************************************************)
(* Theorems about the file tools and about the approval that tools ask for *)
(* before they change anything: for all calls, jobs and failures, for every *)
(* number of requests, steps and turns, and every choice of the client's.  *)
(***************************************************************************)
EXTENDS Approval, FileTools, TLAPS

-----------------------------------------------------------------------------
(* The inductive invariant.                                                *)

Reasons == {"nothing", "lines", "bytes", "end", "image"}

Places == {"idle", "looked", "ask", "write", "fill", "ok", "failed", "rejected",
           "typed", "sized", "stream"}

Form ==
  /\ job \in Jobs /\ pc \in [Calls -> Places]
  /\ file \in Seq(Pieces) \cup {Missing}
  /\ log \in Seq([by : Pieces, text : Seq(Pieces) \cup {Missing}])
  /\ seen \in [Calls -> Seq(Pieces)] /\ new \in [Calls -> Seq(Pieces)]
  /\ got \in [Calls -> Seq(Pieces)] /\ at \in [Calls -> Nat] /\ readAt \in [Calls -> Nat]
  /\ existed \in [Calls -> BOOLEAN] /\ blind \in [Calls -> BOOLEAN]
  /\ bytes \in [Calls -> Nat] /\ cut \in [Calls -> SUBSET Nat] /\ told \in [Calls -> Reasons]
  /\ inflight \subseteq Calls /\ dropped \subseteq Calls

\* The log ends with the file as it is, and a call's last step in it is its last.
Logged ==
  /\ Len(log) > 0 /\ log[1].by = 0 /\ log[Len(log)].text = file
  /\ \A c \in Calls :
       /\ readAt[c] <= Len(log)
       /\ Steps(c) # {} => LastStep(c) \in Steps(c) /\ \A i \in Steps(c) : i <= LastStep(c)

Kept(c) == pc[c] = "ok" /\ c \notin inflight \cup dropped

\* Where a call is says what it has done.
Staged(c) ==
  /\ Steps(c) # {} => pc[c] \in {"fill", "ok", "failed"}
  /\ c \in Changers /\ Kept(c) => Steps(c) # {}
  /\ c \in inflight \cup dropped => c \in Changers /\ pc[c] = "ok"
  /\ c \in Changers /\ pc[c] \in {"ask", "write", "fill", "ok"} =>
       c \in ToSet(new[c]) /\ new[c] = Edited(c, seen[c])
  /\ pc[c] \in {"ask", "write", "fill"} => c \in Changers
  /\ pc[c] \in {"typed", "sized", "stream"} => c \in Readers

\* Nothing that e may still do makes it one that did not override c.
OverrodeForGood(e, c) ==
  /\ Steps(e) # {} /\ LastStep(e) > LastStep(c)
  /\ \/ readAt[e] < LastStep(c)
     \/ c \in ToSet(seen[e]) /\ c \notin ToSet(new[e])
     \/ blind[e]
     \/ pc[e] = "failed"

\* What a call has read without a piece that was reported before had been
\* overridden by then, by somebody else.
Recalled(d, c) ==
  /\ pc[d] \in {"ask", "write", "fill"} /\ ~blind[d] /\ c \notin ToSet(seen[d])
  /\ Kept(c) /\ LastStep(c) <= readAt[d]
  => \E e \in Changers \ {c, d} : OverrodeForGood(e, c)

\* ReportedIsKept, of one call.
Reported(c) ==
  pc[c] = "ok" /\ c \notin ToSet(TextOf(file)) =>
    \/ c \in inflight \cup dropped
    \/ \E d \in Changers \ {c} : Overrode(d, c)

KeptInv ==
  /\ Form /\ Logged
  /\ \A c \in Calls : Staged(c)
  /\ \A c \in Changers : \A d \in Changers \ {c} : Recalled(d, c)
  /\ \A c \in Changers : Reported(c)

-----------------------------------------------------------------------------
(* Texts and the log.                                                      *)

LEMMA TextIs ==
  ASSUME NEW f \in Seq(Pieces) \cup {Missing}
  PROVE  TextOf(f) \in Seq(Pieces) /\ (f \in Seq(Pieces) => TextOf(f) = f)
BY FileToolsAssumption DEF TextOf, Pieces

LEMMA JobIs ==
  ASSUME job \in Jobs, NEW c \in Calls
  PROVE  /\ job[c].kind \in {"overwrite", "append", "replace", "read", "media"}
         /\ c \in Changers <=> job[c].kind \in {"overwrite", "append", "replace"}
         /\ c \in Readers <=> c \notin Changers
BY FileToolsAssumption DEF Changers, Readers

\* An edit that changes something puts the call's piece in.
LEMMA EditedHas ==
  ASSUME job \in Jobs, NEW c \in Changers, NEW text \in Seq(Pieces)
  PROVE  /\ Edited(c, text) \in Seq(Pieces)
         /\ Edited(c, text) # text => c \in ToSet(Edited(c, text))
<1>1. c \in Calls /\ c \in Pieces
  BY DEF Changers, Pieces
<1>2. job[c].kind \in {"overwrite", "append", "replace"}
  BY <1>1, JobIs
<1>3. CASE job[c].kind = "overwrite"
  <2>1. Edited(c, text) = <<c>>
    BY <1>3 DEF Edited
  <2>2. QED
    BY <1>1, <2>1 DEF ToSet
<1>4. CASE job[c].kind = "append"
  <2>1. Edited(c, text) = Append(text, c)
    BY <1>4 DEF Edited
  <2>2. /\ Append(text, c) \in Seq(Pieces) /\ Len(text) + 1 \in DOMAIN Append(text, c)
        /\ Append(text, c)[Len(text) + 1] = c
    BY <1>1
  <2>3. QED
    BY <2>1, <2>2 DEF ToSet
<1>5. CASE job[c].kind = "replace"
  <2> DEFINE Goes(i) == text[i] = job[c].old
                        /\ (job[c].all \/ \A j \in 1 .. i - 1 : text[j] # job[c].old)
             s == [i \in DOMAIN text |-> IF Goes(i) THEN c ELSE text[i]]
  <2>1. Edited(c, text) = s
    BY <1>5 DEF Edited
  <2>2. DOMAIN s = DOMAIN text /\ \A i \in DOMAIN text : s[i] \in {c, text[i]}
    OBVIOUS
  <2> HIDE DEF s, Goes
  <2>3. s \in Seq(Pieces)
    <3>1. DOMAIN text = 1 .. Len(text) /\ Len(text) \in Nat
          /\ \A i \in DOMAIN text : text[i] \in Pieces
      OBVIOUS
    <3>2. s \in [1 .. Len(text) -> Pieces]
      BY <1>1, <2>2, <3>1 DEF s
    <3>3. QED
      BY <3>1, <3>2
  <2>4. ASSUME s # text PROVE c \in ToSet(s)
    <3>1. PICK i \in DOMAIN text : s[i] # text[i]
      BY <2>2, <2>3, <2>4
    <3>2. s[i] = c
      BY <2>2, <3>1
    <3>3. QED
      BY <2>2, <3>2 DEF ToSet
  <2>5. QED
    BY <2>1, <2>3, <2>4
<1>6. QED
  BY <1>2, <1>3, <1>4, <1>5

\* A step that changes the file is the last of its call, and of no other.
LEMMA LogGrows ==
  ASSUME Form, Logged, NEW x \in Calls, NEW f \in Seq(Pieces) \cup {Missing}, Become(x, f)
  PROVE  /\ file' = f /\ Len(log') = Len(log) + 1 /\ Len(log) \in Nat
         /\ log' \in Seq([by : Pieces, text : Seq(Pieces) \cup {Missing}])
         /\ log'[Len(log')].text = f /\ log'[1] = log[1]
         /\ \A i \in DOMAIN log : i \in DOMAIN log' /\ log'[i] = log[i]
         /\ Steps(x)' = Steps(x) \cup {Len(log) + 1} /\ LastStep(x)' = Len(log) + 1
         /\ \A i \in Steps(x) : i <= Len(log)
         /\ \A c \in Calls \ {x} : Steps(c)' = Steps(c) /\ LastStep(c)' = LastStep(c)
<1> DEFINE n == Len(log) + 1
           entry == [by |-> x, text |-> f]
<1>1. /\ file' = f /\ log' = Append(log, entry)
      /\ entry \in [by : Pieces, text : Seq(Pieces) \cup {Missing}]
  BY DEF Become, Pieces
<1>2. /\ log \in Seq([by : Pieces, text : Seq(Pieces) \cup {Missing}]) /\ Len(log) \in Nat
      /\ Len(log) > 0
  BY DEF Form, Logged
<1>3. entry.by = x /\ entry.text = f
  OBVIOUS
<1> HIDE DEF entry
<1>4. /\ log' \in Seq([by : Pieces, text : Seq(Pieces) \cup {Missing}])
      /\ Len(log') = n /\ DOMAIN log' = 1 .. n /\ DOMAIN log = 1 .. Len(log)
      /\ log'[n] = entry /\ \A i \in DOMAIN log : log'[i] = log[i]
  BY <1>1, <1>2
<1>5. DOMAIN log' = DOMAIN log \cup {n} /\ n \notin DOMAIN log
  BY <1>2, <1>4
<1> HIDE DEF n
<1>6. \A i \in Steps(x) : i <= Len(log) /\ i \in Nat
  BY <1>4, <1>2 DEF Steps
<1>7. Steps(x)' = Steps(x) \cup {n}
  BY <1>3, <1>4, <1>5 DEF Steps
<1>8. LastStep(x)' = n
  <2>1. \A j \in Steps(x)' : j <= n
    BY <1>2, <1>6, <1>7 DEF n
  <2>2. n \in Steps(x)' /\ \A m \in Steps(x)' : (\A j \in Steps(x)' : j <= m) => m = n
    <3>1. n \in Steps(x)'
      BY <1>7
    <3>2. ASSUME NEW m \in Steps(x)', \A j \in Steps(x)' : j <= m PROVE m = n
      <4>1. n <= m /\ m <= n
        BY <2>1, <3>1, <3>2
      <4>2. m \in Nat /\ n \in Nat
        BY <1>2, <1>6, <1>7, <3>2 DEF n
      <4>3. QED
        BY <4>1, <4>2
    <3>3. QED
      BY <3>1, <3>2
  <2>3. QED
    BY <2>1, <2>2 DEF LastStep
<1>9. ASSUME NEW c \in Calls \ {x}
      PROVE  Steps(c)' = Steps(c) /\ LastStep(c)' = LastStep(c)
  <2>1. Steps(c)' = Steps(c)
    BY <1>3, <1>4, <1>5 DEF Steps
  <2>2. QED
    BY <2>1 DEF LastStep
<1>10. log'[Len(log')].text = f /\ log'[1] = log[1]
  BY <1>2, <1>3, <1>4
<1>11. QED
  BY <1>1, <1>2, <1>4, <1>5, <1>6, <1>7, <1>8, <1>9, <1>10 DEF n

LEMMA LogRests ==
  ASSUME UNCHANGED log
  PROVE  \A c \in Calls : Steps(c)' = Steps(c) /\ LastStep(c)' = LastStep(c)
BY DEF Steps, LastStep

\* The text that Fill leaves: the new one, and what stuck out behind it.
LEMMA FilledIs ==
  ASSUME NEW s \in Seq(Pieces), NEW old \in Seq(Pieces)
  PROVE  /\ s \o SubSeq(old, Len(s) + 1, Len(old)) \in Seq(Pieces)
         /\ ToSet(s) \subseteq ToSet(s \o SubSeq(old, Len(s) + 1, Len(old)))
<1> DEFINE rest == SubSeq(old, Len(s) + 1, Len(old))
<1>1. rest \in Seq(Pieces)
  <2>1. Len(s) \in Nat /\ Len(old) \in Nat
        /\ \A i \in (Len(s) + 1) .. Len(old) : old[i] \in Pieces
    OBVIOUS
  <2>2. QED
    BY <2>1
<1> HIDE DEF rest
<1>2. s \o rest \in Seq(Pieces) /\ Len(s \o rest) = Len(s) + Len(rest)
      /\ Len(s) \in Nat /\ Len(rest) \in Nat
      /\ \A i \in 1 .. Len(s) : (s \o rest)[i] = s[i]
  BY <1>1
<1>3. \A i \in DOMAIN s : i \in DOMAIN (s \o rest) /\ (s \o rest)[i] = s[i]
  BY <1>2
<1>4. QED
  BY <1>2, <1>3 DEF ToSet, rest

\* An addition is at the end.
LEMMA AppendedIs ==
  ASSUME NEW c \in Calls, NEW old \in Seq(Pieces)
  PROVE  /\ Append(old, c) \in Seq(Pieces) /\ c \in ToSet(Append(old, c))
         /\ ToSet(old) \subseteq ToSet(Append(old, c))
<1>1. /\ Append(old, c) \in Seq(Pieces) /\ Len(Append(old, c)) = Len(old) + 1
      /\ Len(old) \in Nat /\ Append(old, c)[Len(old) + 1] = c
      /\ \A i \in 1 .. Len(old) : Append(old, c)[i] = old[i]
  BY DEF Pieces
<1>2. /\ Len(old) + 1 \in DOMAIN Append(old, c)
      /\ \A i \in DOMAIN old : i \in DOMAIN Append(old, c) /\ Append(old, c)[i] = old[i]
  BY <1>1
<1>3. QED
  BY <1>1, <1>2 DEF ToSet

LEMMA EmptyIs == <<>> \in Seq(Pieces) /\ ToSet(<<>>) = {} /\ TextOf(Missing) = <<>>
BY DEF ToSet, TextOf

\* What is read of a text has as many pieces, and the calls' are the same.
LEMMA LossyIs ==
  ASSUME NEW text \in Seq(Pieces)
  PROVE  /\ Lossy(text) \in Seq(Pieces) /\ Len(Lossy(text)) = Len(text)
         /\ \A c \in Calls : c \in ToSet(Lossy(text)) <=> c \in ToSet(text)
<1>1. /\ DOMAIN Lossy(text) = DOMAIN text /\ DOMAIN text = 1 .. Len(text) /\ Len(text) \in Nat
      /\ \A i \in DOMAIN text : text[i] \in Pieces
  BY DEF Lossy
<1>2. /\ \A i \in DOMAIN text : Lossy(text)[i] = IF text[i] = Raw THEN Mark ELSE text[i]
      /\ Lossy(text) = [i \in 1 .. Len(text) |-> Lossy(text)[i]]
  BY <1>1 DEF Lossy
<1>3. \A i \in 1 .. Len(text) : Lossy(text)[i] \in Pieces
  BY <1>1, <1>2 DEF Pieces
<1>4. Lossy(text) \in Seq(Pieces) /\ Len(Lossy(text)) = Len(text)
  <2>1. Lossy(text) \in [1 .. Len(text) -> Pieces]
    BY <1>2, <1>3
  <2>2. QED
    BY <1>1, <2>1
<1>5. Raw \notin Calls /\ Mark \notin Calls
  BY FileToolsAssumption
<1>6. \A c \in Calls : c \in ToSet(Lossy(text)) <=> c \in ToSet(text)
  BY <1>1, <1>2, <1>5 DEF ToSet
<1>7. QED
  BY <1>4, <1>6

-----------------------------------------------------------------------------
(* A step keeps the types.                                                 *)

\* The proposal of a call: what it read, and what it makes of it.
LEMMA ProposeForm ==
  ASSUME Form, NEW x \in Changers, NEW text \in Seq(Pieces), NEW unsure \in BOOLEAN,
         Propose(x, text, unsure),
         UNCHANGED <<job, fileVars, existed, readerVars, inflight, dropped>>
  PROVE  /\ Form'
         /\ \A y \in Calls \ {x} : pc'[y] = pc[y] /\ seen'[y] = seen[y] /\ new'[y] = new[y]
                                   /\ readAt'[y] = readAt[y] /\ blind'[y] = blind[y]
         /\ pc'[x] \in {"failed", "ask"} /\ seen'[x] = text /\ readAt'[x] = Len(log)
         /\ blind'[x] = unsure /\ new'[x] = Edited(x, text)
         /\ pc'[x] = "ask" => x \in ToSet(new'[x])
<1>1. x \in Calls
  BY DEF Changers
<1>2. job \in Jobs
  BY DEF Form
<1>3. Edited(x, text) \in Seq(Pieces) /\ (Edited(x, text) # text => x \in ToSet(Edited(x, text)))
  BY <1>2, EditedHas
<1>4. Len(log) \in Nat
  BY DEF Form
<1>5. /\ seen' = [seen EXCEPT ![x] = text] /\ new' = [new EXCEPT ![x] = Edited(x, text)]
      /\ readAt' = [readAt EXCEPT ![x] = Len(log)] /\ blind' = [blind EXCEPT ![x] = unsure]
      /\ pc' = [pc EXCEPT ![x] = IF Edited(x, text) = text THEN "failed" ELSE "ask"]
  BY DEF Propose, Goto
<1>6. seen' \in [Calls -> Seq(Pieces)] /\ seen'[x] = text
      /\ \A y \in Calls \ {x} : seen'[y] = seen[y]
  BY <1>1, <1>5 DEF Form
<1>7. new' \in [Calls -> Seq(Pieces)] /\ new'[x] = Edited(x, text)
      /\ \A y \in Calls \ {x} : new'[y] = new[y]
  BY <1>1, <1>3, <1>5 DEF Form
<1>8. readAt' \in [Calls -> Nat] /\ readAt'[x] = Len(log)
      /\ \A y \in Calls \ {x} : readAt'[y] = readAt[y]
  BY <1>1, <1>4, <1>5 DEF Form
<1>9. blind' \in [Calls -> BOOLEAN] /\ blind'[x] = unsure
      /\ \A y \in Calls \ {x} : blind'[y] = blind[y]
  BY <1>1, <1>5 DEF Form
<1>10. pc' \in [Calls -> Places] /\ pc'[x] = (IF Edited(x, text) = text THEN "failed" ELSE "ask")
       /\ \A y \in Calls \ {x} : pc'[y] = pc[y]
  BY <1>1, <1>5 DEF Form, Places
<1>11. Form'
  BY <1>6, <1>7, <1>8, <1>9, <1>10 DEF Form, fileVars, readerVars
<1>12. QED
  BY <1>3, <1>6, <1>7, <1>8, <1>9, <1>10, <1>11

\* A call goes somewhere, and only it does.
LEMMA Goes ==
  ASSUME Form, NEW x \in Calls, NEW where \in Places, Goto(x, where)
  PROVE  /\ pc' \in [Calls -> Places] /\ pc'[x] = where
         /\ \A y \in Calls \ {x} : pc'[y] = pc[y]
BY DEF Goto, Form

\* A step of a tool that changes the file and what it has read: the types.
LEMMA BecomeForm ==
  ASSUME Form, Logged, NEW x \in Calls, NEW f \in Seq(Pieces) \cup {Missing}, Become(x, f),
         pc' \in [Calls -> Places], inflight' \subseteq Calls, dropped' \subseteq Calls,
         UNCHANGED <<job, seenVars, readerVars>>
  PROVE  Form'
<1>1. /\ file' = f
      /\ log' \in Seq([by : Pieces, text : Seq(Pieces) \cup {Missing}])
  BY LogGrows
<1>2. QED
  BY <1>1 DEF Form, seenVars, readerVars

\* The line that comes next is a piece of the text.
LEMMA NextLineIs ==
  ASSUME Form, NEW x \in Calls, NextLine(x) # <<>>
  PROVE  /\ at[x] \in Nat /\ at[x] < Len(TextOf(file)) /\ file # Missing
         /\ NextLine(x)[1] = Lossy(TextOf(file))[at[x] + 1] /\ NextLine(x)[1] \in Pieces
<1>1. at[x] \in Nat /\ TextOf(file) \in Seq(Pieces)
  BY TextIs DEF Form
<1>2. at[x] < Len(TextOf(file)) /\ NextLine(x) = <<Lossy(TextOf(file))[at[x] + 1]>>
  BY DEF NextLine
<1>3. file # Missing
  BY <1>1, <1>2, EmptyIs
<1>4. Lossy(TextOf(file)) \in Seq(Pieces) /\ Len(Lossy(TextOf(file))) = Len(TextOf(file))
  BY <1>1, LossyIs
<1>5. Lossy(TextOf(file))[at[x] + 1] \in Pieces
  BY <1>1, <1>2, <1>4
<1>6. QED
  BY <1>1, <1>2, <1>3, <1>5

\* What a line adds to the bytes that were read.
LEMMA BytesAre ==
  ASSUME NEW line \in Pieces
  PROVE  BytesOf(line) \in Nat /\ BytesOf(line) <= MaxLength /\ MaxLength \in Nat
BY FileToolsAssumption DEF BytesOf, TooLong

Reads(x) ==
  Sniff(x) \/ ReadFails(x) \/ Measure(x) \/ LoadMedia(x) \/ OpenStream(x) \/ SkipLine(x)
  \/ TakeLine(x) \/ CutPanics(x) \/ StreamEnds(x)

\* A step of a tool that reads changes nothing that another call has.
LEMMA ReadsForm ==
  ASSUME Form, NEW x \in Calls, Staged(x), Reads(x)
  PROVE  /\ Form'
         /\ UNCHANGED <<job, hint, magic, fileVars, existed, seen, new, blind, inflight, dropped>>
         /\ \A y \in Calls \ {x} : /\ pc'[y] = pc[y] /\ readAt'[y] = readAt[y]
                                   /\ got'[y] = got[y] /\ at'[y] = at[y] /\ told'[y] = told[y]
                                   /\ bytes'[y] = bytes[y] /\ cut'[y] = cut[y]
         /\ x \in Readers /\ pc[x] \in {"looked", "typed", "sized", "stream"}
         /\ pc'[x] \in {"typed", "sized", "stream", "ok", "failed"}
<1> USE DEF readerVars, seenVars, given, fileVars
<1>1. TextOf(file) \in Seq(Pieces) /\ Len(TextOf(file)) \in Nat
  BY TextIs DEF Form
<1>2. x \in Readers /\ pc[x] \in {"looked", "typed", "sized", "stream"}
  BY DEF Reads, Staged, Sniff, ReadFails, Measure, LoadMedia, OpenStream, SkipLine, TakeLine,
         CutPanics, StreamEnds, Readers, Changers
<1>3. CASE Sniff(x)
  <2>1. PICK where \in {"typed", "failed"} : Goto(x, where)
    BY <1>3 DEF Sniff
  <2>2. pc' \in [Calls -> Places] /\ pc'[x] = where /\ \A y \in Calls \ {x} : pc'[y] = pc[y]
    BY <2>1, Goes DEF Places
  <2>3. readAt' \in [Calls -> Nat] /\ \A y \in Calls \ {x} : readAt'[y] = readAt[y]
    BY <1>3 DEF Sniff, Form
  <2>4. UNCHANGED <<given, fileVars, existed, seen, new, blind, readerVars, inflight, dropped>>
    BY <1>3 DEF Sniff
  <2>5. Form'
    BY <2>2, <2>3, <2>4 DEF Form
  <2>6. QED
    BY <1>2, <2>2, <2>3, <2>4, <2>5
<1>4. CASE ReadFails(x)
  <2>1. pc' \in [Calls -> Places] /\ pc'[x] = "failed" /\ \A y \in Calls \ {x} : pc'[y] = pc[y]
    BY <1>4, Goes DEF ReadFails, Places
  <2>2. UNCHANGED <<given, fileVars, seenVars, readerVars, inflight, dropped>>
    BY <1>4 DEF ReadFails
  <2>3. Form'
    BY <2>1, <2>2 DEF Form
  <2>4. QED
    BY <1>2, <2>1, <2>2, <2>3
<1>5. CASE Measure(x)
  <2>1. PICK where \in {"sized", "failed"} : Goto(x, where)
    BY <1>5 DEF Measure
  <2>2. pc' \in [Calls -> Places] /\ pc'[x] = where /\ \A y \in Calls \ {x} : pc'[y] = pc[y]
    BY <2>1, Goes DEF Places
  <2>3. at' \in [Calls -> Nat] /\ \A y \in Calls \ {x} : at'[y] = at[y]
    BY <1>1, <1>5 DEF Measure, Form
  <2>4. UNCHANGED <<given, fileVars, seenVars, got, bytes, cut, told, inflight, dropped>>
    BY <1>5 DEF Measure
  <2>5. Form'
    BY <2>2, <2>3, <2>4 DEF Form
  <2>6. QED
    BY <1>2, <2>2, <2>3, <2>4, <2>5
<1>6. CASE LoadMedia(x)
  <2>1. pc' \in [Calls -> Places] /\ pc'[x] = "ok" /\ \A y \in Calls \ {x} : pc'[y] = pc[y]
    BY <1>6, Goes DEF LoadMedia, Places
  <2>2. /\ got' \in [Calls -> Seq(Pieces)]
        /\ told' \in [Calls -> Reasons]
        /\ \A y \in Calls \ {x} : got'[y] = got[y] /\ told'[y] = told[y]
    BY <1>1, <1>6 DEF LoadMedia, Form, Reasons
  <2>3. UNCHANGED <<given, fileVars, seenVars, at, bytes, cut, inflight, dropped>>
    BY <1>6 DEF LoadMedia
  <2>4. Form'
    BY <2>1, <2>2, <2>3 DEF Form
  <2>5. QED
    BY <1>2, <2>1, <2>2, <2>3, <2>4
<1>7. CASE OpenStream(x)
  <2>1. pc' \in [Calls -> Places] /\ pc'[x] = "stream" /\ \A y \in Calls \ {x} : pc'[y] = pc[y]
    BY <1>7, Goes DEF OpenStream, Places
  <2>2. UNCHANGED <<given, fileVars, seenVars, readerVars, inflight, dropped>>
    BY <1>7 DEF OpenStream
  <2>3. Form'
    BY <2>1, <2>2 DEF Form
  <2>4. QED
    BY <1>2, <2>1, <2>2, <2>3
<1>8. CASE TakeLine(x)
  <2> DEFINE line == NextLine(x)[1]
             full == Full(x, Len(got[x]) + 1, bytes[x] + BytesOf(line))
             short == IF TooLong(line) THEN cut[x] \cup {at[x] + 1} ELSE cut[x]
  <2>1. line \in Pieces /\ BytesOf(line) \in Nat
    <3>1. NextLine(x) # <<>>
      BY <1>8 DEF TakeLine
    <3>2. QED
      BY <3>1, NextLineIs, BytesAre
  <2>2. /\ got' = [got EXCEPT ![x] = Append(@, line)] /\ at' = [at EXCEPT ![x] = @ + 1]
        /\ bytes' = [bytes EXCEPT ![x] = bytes[x] + BytesOf(line)]
        /\ cut' = [cut EXCEPT ![x] = short]
        /\ Goto(x, IF full = "no" THEN "stream" ELSE "ok")
        /\ told' = [told EXCEPT ![x] = IF full = "no" THEN @ ELSE full]
        /\ UNCHANGED <<given, fileVars, seenVars, inflight, dropped>>
    <3>1. cut' = [cut EXCEPT ![x] = short]
      <4>1. cut' = [cut EXCEPT ![x] = IF TooLong(line) THEN @ \cup {at[x] + 1} ELSE @]
        BY <1>8 DEF TakeLine
      <4>2. QED
        BY <4>1 DEF Form
    <3>2. QED
      BY <1>8, <3>1 DEF TakeLine
  <2>3. full \in Reasons \cup {"no"}
    BY DEF Full, Reasons
  <2>4. short \in SUBSET Nat
    BY DEF Form
  <2> HIDE DEF line, full, short
  <2>5. PICK where \in {"ok", "stream"} : Goto(x, where)
    BY <2>2
  <2>6. pc' \in [Calls -> Places] /\ pc'[x] = where /\ \A y \in Calls \ {x} : pc'[y] = pc[y]
    BY <2>5, Goes DEF Places
  <2>7. told' \in [Calls -> Reasons] /\ \A y \in Calls \ {x} : told'[y] = told[y]
    BY <2>2, <2>3 DEF Form
  <2>8. got' \in [Calls -> Seq(Pieces)] /\ \A y \in Calls \ {x} : got'[y] = got[y]
    BY <2>1, <2>2 DEF Form
  <2>9. /\ at' \in [Calls -> Nat] /\ bytes' \in [Calls -> Nat] /\ cut' \in [Calls -> SUBSET Nat]
        /\ \A y \in Calls \ {x} : at'[y] = at[y] /\ bytes'[y] = bytes[y] /\ cut'[y] = cut[y]
    <3>1. /\ at \in [Calls -> Nat] /\ bytes \in [Calls -> Nat] /\ cut \in [Calls -> SUBSET Nat]
          /\ at[x] + 1 \in Nat /\ bytes[x] + BytesOf(line) \in Nat
      BY <2>1 DEF Form
    <3>2. at' \in [Calls -> Nat] /\ \A y \in Calls \ {x} : at'[y] = at[y]
      BY <2>2, <3>1
    <3>3. bytes' \in [Calls -> Nat] /\ \A y \in Calls \ {x} : bytes'[y] = bytes[y]
      BY <2>2, <3>1
    <3>4. cut' \in [Calls -> SUBSET Nat] /\ \A y \in Calls \ {x} : cut'[y] = cut[y]
      BY <2>2, <2>4, <3>1
    <3>5. QED
      BY <3>2, <3>3, <3>4
  <2>10. Form'
    BY <2>2, <2>6, <2>7, <2>8, <2>9 DEF Form
  <2>11. QED
    BY <1>2, <2>2, <2>6, <2>7, <2>8, <2>9, <2>10
<1>9. CASE StreamEnds(x)
  <2>1. pc' \in [Calls -> Places] /\ pc'[x] = "ok" /\ \A y \in Calls \ {x} : pc'[y] = pc[y]
    BY <1>9, Goes DEF StreamEnds, Places
  <2>2. /\ told' \in [Calls -> Reasons]
        /\ \A y \in Calls \ {x} : told'[y] = told[y]
    BY <1>9 DEF StreamEnds, Form, Reasons
  <2>3. UNCHANGED <<given, fileVars, seenVars, got, at, bytes, cut, inflight, dropped>>
    BY <1>9 DEF StreamEnds
  <2>4. Form'
    BY <2>1, <2>2, <2>3 DEF Form
  <2>5. QED
    BY <1>2, <2>1, <2>2, <2>3, <2>4
<1>10. CASE SkipLine(x)
  <2>1. /\ at' = [at EXCEPT ![x] = @ + 1] /\ pc[x] = "stream"
        /\ UNCHANGED <<given, fileVars, pc, seenVars, got, bytes, cut, told, inflight, dropped>>
    BY <1>10 DEF SkipLine
  <2>2. at' \in [Calls -> Nat] /\ \A y \in Calls \ {x} : at'[y] = at[y]
    BY <2>1 DEF Form
  <2>3. Form'
    BY <2>1, <2>2 DEF Form
  <2>4. QED
    BY <1>2, <2>1, <2>2, <2>3
<1>11. CASE CutPanics(x)
  <2>1. pc' \in [Calls -> Places] /\ pc'[x] = "failed" /\ \A y \in Calls \ {x} : pc'[y] = pc[y]
    BY <1>11, Goes DEF CutPanics, Places
  <2>2. UNCHANGED <<given, fileVars, seenVars, readerVars, inflight, dropped>>
    BY <1>11 DEF CutPanics
  <2>3. Form'
    BY <2>1, <2>2 DEF Form
  <2>4. QED
    BY <1>2, <2>1, <2>2, <2>3
<1>12. QED
  BY <1>3, <1>4, <1>5, <1>6, <1>7, <1>8, <1>9, <1>10, <1>11 DEF Reads

-----------------------------------------------------------------------------
(* What a step of call x leaves as it was.                                  *)

Moves(x) ==
  /\ UNCHANGED job
  /\ \A y \in Calls \ {x} :
       /\ pc'[y] = pc[y] /\ seen'[y] = seen[y] /\ new'[y] = new[y]
       /\ readAt'[y] = readAt[y] /\ blind'[y] = blind[y]
       /\ y \in inflight' <=> y \in inflight
       /\ y \in dropped' <=> y \in dropped
  /\ Steps(x) # {} =>
       /\ seen'[x] = seen[x] /\ new'[x] = new[x] /\ readAt'[x] = readAt[x]
       /\ blind'[x] = blind[x]
       /\ pc[x] = "failed" => pc'[x] = "failed"

\* The file rests, or x changes it.
Writes(x) == UNCHANGED fileVars \/ \E f \in Seq(Pieces) \cup {Missing} : Become(x, f)

LEMMA StepsMove ==
  ASSUME Form, Logged, NEW x \in Calls, Writes(x)
  PROVE  /\ \A c \in Calls \ {x} : Steps(c)' = Steps(c) /\ LastStep(c)' = LastStep(c)
         /\ Steps(x) # {} => Steps(x)' # {} /\ LastStep(x)' >= LastStep(x)
         /\ \A c \in Calls : Steps(c) # {} => LastStep(c) \in Nat /\ LastStep(c) <= Len(log)
         /\ Len(log) \in Nat
<1>1. \A c \in Calls : Steps(c) # {} => LastStep(c) \in Nat /\ LastStep(c) <= Len(log)
  <2>1. DOMAIN log = 1 .. Len(log) /\ Len(log) \in Nat
    BY DEF Form
  <2>2. \A c \in Calls : Steps(c) # {} => LastStep(c) \in DOMAIN log
    BY DEF Logged, Steps
  <2>3. QED
    BY <2>1, <2>2
<1>2. CASE UNCHANGED fileVars
  <2>1. \A c \in Calls : Steps(c)' = Steps(c) /\ LastStep(c)' = LastStep(c)
    BY <1>2, LogRests DEF fileVars
  <2>2. Len(log) \in Nat
    BY DEF Form
  <2>3. QED
    BY <1>1, <2>1, <2>2
<1>3. CASE \E f \in Seq(Pieces) \cup {Missing} : Become(x, f)
  <2>1. PICK f \in Seq(Pieces) \cup {Missing} : Become(x, f)
    BY <1>3
  <2>2. /\ Steps(x)' = Steps(x) \cup {Len(log) + 1} /\ LastStep(x)' = Len(log) + 1
        /\ Len(log) \in Nat
        /\ \A c \in Calls \ {x} : Steps(c)' = Steps(c) /\ LastStep(c)' = LastStep(c)
    BY <2>1, LogGrows
  <2>3. QED
    BY <1>1, <2>2
<1>4. QED
  BY <1>2, <1>3 DEF Writes

LEMMA LoggedStays ==
  ASSUME Form, Logged, NEW x \in Calls, Writes(x), Form', \A c \in Calls : readAt'[c] <= Len(log)
  PROVE  Logged'
<1>1. CASE UNCHANGED fileVars
  <2>1. \A c \in Calls : Steps(c)' = Steps(c) /\ LastStep(c)' = LastStep(c)
    BY <1>1, LogRests DEF fileVars
  <2>2. QED
    BY <1>1, <2>1 DEF Logged, fileVars
<1>2. CASE \E f \in Seq(Pieces) \cup {Missing} : Become(x, f)
  <2>1. PICK f \in Seq(Pieces) \cup {Missing} : Become(x, f)
    BY <1>2
  <2>2. /\ Steps(x)' = Steps(x) \cup {Len(log) + 1} /\ LastStep(x)' = Len(log) + 1
        /\ Len(log) \in Nat /\ Len(log') = Len(log) + 1 /\ file' = f
        /\ log'[Len(log')].text = f /\ log'[1] = log[1]
        /\ \A i \in Steps(x) : i <= Len(log)
        /\ \A c \in Calls \ {x} : Steps(c)' = Steps(c) /\ LastStep(c)' = LastStep(c)
    BY <2>1, LogGrows
  <2>3. \A c \in Calls : readAt'[c] \in Nat
    BY DEF Form
  <2>4. \A c \in Calls : readAt'[c] <= Len(log')
    BY <2>2, <2>3
  <2>5. \A c \in Calls \ {x} : Steps(c)' # {} =>
          LastStep(c)' \in Steps(c)' /\ \A i \in Steps(c)' : i <= LastStep(c)'
    BY <2>2 DEF Logged
  <2>6. \A i \in Steps(x)' : i <= LastStep(x)'
    <3>1. DOMAIN log \subseteq Nat
      <4>1. log \in Seq([by : Pieces, text : Seq(Pieces) \cup {Missing}])
        BY DEF Form
      <4>2. QED
        BY <4>1
    <3>2. \A i \in Steps(x) : i \in Nat
      BY <3>1 DEF Steps
    <3>3. QED
      BY <2>2, <3>2
  <2>7. LastStep(x)' \in Steps(x)'
    BY <2>2
  <2>8. Len(log') > 0 /\ log'[1].by = 0 /\ log'[Len(log')].text = file'
    BY <2>2 DEF Logged
  <2>9. \A c \in Calls : Steps(c)' # {} =>
          LastStep(c)' \in Steps(c)' /\ \A i \in Steps(c)' : i <= LastStep(c)'
    BY <2>5, <2>6, <2>7
  <2>10. QED
    BY <2>4, <2>8, <2>9 DEF Logged
<1>3. QED
  BY <1>1, <1>2 DEF Writes

LEMMA StagedStays ==
  ASSUME NEW x \in Calls, NEW y \in Calls \ {x}, Moves(x), Staged(y), Steps(y)' = Steps(y)
  PROVE  Staged(y)'
<1>1. /\ job' = job /\ pc'[y] = pc[y] /\ seen'[y] = seen[y] /\ new'[y] = new[y]
      /\ y \in inflight' <=> y \in inflight
      /\ y \in dropped' <=> y \in dropped
  BY DEF Moves
<1>2. Changers' = Changers /\ Readers' = Readers /\ Edited(y, seen[y])' = Edited(y, seen[y])
  BY <1>1 DEF Changers, Readers, Edited
<1>3. QED
  BY <1>1, <1>2 DEF Staged, Kept

\* Who overrode a call for good did so whatever happens.
LEMMA ForGoodStays ==
  ASSUME Form, Logged, NEW x \in Calls, Moves(x), Writes(x), NEW c \in Calls, NEW e \in Calls,
         LastStep(c)' = LastStep(c), LastStep(c) \in Nat, OverrodeForGood(e, c)
  PROVE  OverrodeForGood(e, c)'
<1>1. /\ readAt'[e] = readAt[e] /\ seen'[e] = seen[e] /\ new'[e] = new[e]
      /\ blind'[e] = blind[e]
      /\ pc[e] = "failed" => pc'[e] = "failed"
  BY DEF Moves, OverrodeForGood
<1>2. /\ Steps(e) # {} /\ Steps(e)' # {} /\ LastStep(e)' >= LastStep(e) /\ LastStep(e) \in Nat
      /\ LastStep(e)' \in Nat
  <2>1. Steps(e) # {} /\ LastStep(e) \in Nat
    BY StepsMove DEF OverrodeForGood
  <2>2. CASE e = x /\ \E f \in Seq(Pieces) \cup {Missing} : Become(x, f)
    <3>1. PICK f \in Seq(Pieces) \cup {Missing} : Become(x, f)
      BY <2>2
    <3>2. LastStep(x)' = Len(log) + 1 /\ Len(log) \in Nat
      BY <3>1, LogGrows
    <3>3. Steps(x)' # {} /\ LastStep(x)' >= LastStep(x)
      BY <2>1, <2>2, StepsMove
    <3>4. QED
      BY <2>1, <2>2, <3>2, <3>3
  <2>3. CASE e = x /\ UNCHANGED fileVars
    <3>1. LastStep(e)' = LastStep(e) /\ Steps(e)' = Steps(e)
      BY <2>3, LogRests DEF fileVars
    <3>2. QED
      BY <2>1, <3>1
  <2>4. CASE e # x
    BY <2>1, <2>4, StepsMove
  <2>5. QED
    BY <2>2, <2>3, <2>4 DEF Writes
<1>3. LastStep(e)' > LastStep(c)'
  BY <1>2 DEF OverrodeForGood
<1>4. QED
  BY <1>1, <1>2, <1>3 DEF OverrodeForGood

\* What a call had read without a reported piece stays excused.
LEMMA RecalledStays ==
  ASSUME KeptInv, NEW x \in Calls, Moves(x), Writes(x), NEW c \in Changers,
         NEW d \in Changers \ {c}, Kept(x)' => Kept(x) \/ ~UNCHANGED fileVars,
         d = x /\ pc'[x] \in {"ask", "write", "fill"} =>
           /\ pc[x] \in {"ask", "write", "fill"}
           /\ seen'[x] = seen[x] /\ readAt'[x] = readAt[x] /\ blind'[x] = blind[x]
  PROVE  Recalled(d, c)'
<1> SUFFICES ASSUME pc'[d] \in {"ask", "write", "fill"}, ~blind'[d], c \notin ToSet(seen'[d]),
                    Kept(c)', LastStep(c)' <= readAt'[d]
             PROVE  (\E e \in Changers \ {c, d} : OverrodeForGood(e, c))'
  BY DEF Recalled
<1>1. Form /\ Logged /\ Staged(c) /\ Recalled(d, c) /\ c \in Calls /\ d \in Calls
  BY DEF KeptInv, Changers
<1>2. /\ pc[d] \in {"ask", "write", "fill"} /\ blind'[d] = blind[d]
      /\ seen'[d] = seen[d] /\ readAt'[d] = readAt[d]
  BY <1>1 DEF Moves
<1>3. /\ \A y \in Calls \ {x} : Steps(y)' = Steps(y) /\ LastStep(y)' = LastStep(y)
      /\ \A y \in Calls : Steps(y) # {} => LastStep(y) \in Nat /\ LastStep(y) <= Len(log)
      /\ Len(log) \in Nat
  BY <1>1, StepsMove
<1>4. Kept(c) /\ LastStep(c)' = LastStep(c)
  <2>1. CASE c # x
    BY <1>1, <1>3, <2>1 DEF Moves, Kept
  <2>2. CASE c = x /\ UNCHANGED fileVars
    BY <2>2, LogRests DEF fileVars
  <2>3. CASE c = x /\ ~UNCHANGED fileVars
    <3>1. PICK f \in Seq(Pieces) \cup {Missing} : Become(x, f)
      BY <2>3 DEF Writes
    <3>2. LastStep(x)' = Len(log) + 1
      BY <1>1, <3>1, LogGrows
    <3>3. readAt[d] <= Len(log) /\ readAt[d] \in Nat
      BY <1>1 DEF Logged, Form
    <3>4. QED
      BY <1>2, <1>3, <2>3, <3>2, <3>3
  <2>4. QED
    BY <2>1, <2>2, <2>3
<1>5. PICK e \in Changers \ {c, d} : OverrodeForGood(e, c)
  BY <1>1, <1>2, <1>4 DEF Recalled
<1>6. e \in Calls /\ Changers' = Changers
  BY DEF Changers, Moves
<1>7. LastStep(c) \in Nat
  BY <1>1, <1>3, <1>4 DEF Staged
<1>8. OverrodeForGood(e, c)'
  BY <1>1, <1>4, <1>5, <1>6, <1>7, ForGoodStays
<1>9. QED
  BY <1>5, <1>6, <1>8

\* A piece that was gone stays excused, as long as nobody who broke it mends it.
LEMMA ReportedStays ==
  ASSUME KeptInv, NEW x \in Calls, Moves(x), Writes(x), NEW c \in Changers \ {x},
         pc[x] = "fill" => pc'[x] = "failed",
         ToSet(TextOf(file)) \subseteq ToSet(TextOf(file'))
  PROVE  Reported(c)'
<1> SUFFICES ASSUME pc'[c] = "ok", c \notin ToSet(TextOf(file')), c \notin inflight' \cup dropped'
             PROVE  (\E d \in Changers \ {c} : Overrode(d, c))'
  BY DEF Reported, TextOf
<1>1. Form /\ Logged /\ Staged(c) /\ Reported(c) /\ c \in Calls
  BY DEF KeptInv, Changers
<1>2. pc[c] = "ok" /\ c \notin ToSet(TextOf(file)) /\ c \notin inflight \cup dropped
  BY <1>1 DEF Moves
<1>3. PICK d \in Changers \ {c} : Overrode(d, c)
  BY <1>1, <1>2 DEF Reported
<1>4. d \in Calls /\ Changers' = Changers
  BY DEF Changers, Moves
<1>5. LastStep(c)' = LastStep(c) /\ LastStep(c) \in Nat
  BY <1>1, <1>2, StepsMove DEF Staged, Kept
<1>6. CASE OverrodeForGood(d, c)
  <2>1. OverrodeForGood(d, c)'
    BY <1>1, <1>4, <1>5, <1>6, ForGoodStays
  <2>2. QED
    BY <1>4, <2>1 DEF OverrodeForGood, Overrode
<1>7. CASE ~OverrodeForGood(d, c)
  <2>1. pc[d] = "fill" /\ Steps(d) # {} /\ LastStep(d) > LastStep(c)
    BY <1>3, <1>7 DEF OverrodeForGood, Overrode
  <2>2. pc'[d] \in {"fill", "failed"}
    BY <1>4, <2>1 DEF Moves
  <2>3. Steps(d)' # {} /\ LastStep(d)' > LastStep(c)'
    <3>1. CASE d # x
      BY <1>1, <1>4, <1>5, <2>1, <3>1, StepsMove
    <3>2. CASE d = x
      <4>1. Steps(x)' # {} /\ LastStep(x)' >= LastStep(x) /\ LastStep(x) \in Nat
        BY <1>1, <2>1, <3>2, StepsMove
      <4>2. LastStep(x)' \in Nat
        <5>1. CASE UNCHANGED fileVars
          BY <4>1, <5>1, LogRests DEF fileVars
        <5>2. CASE \E f \in Seq(Pieces) \cup {Missing} : Become(x, f)
          BY <1>1, <5>2, LogGrows
        <5>3. QED
          BY <5>1, <5>2 DEF Writes
      <4>3. QED
        BY <1>5, <2>1, <3>2, <4>1, <4>2
    <3>3. QED
      BY <3>1, <3>2
  <2>4. QED
    BY <1>4, <2>2, <2>3 DEF Overrode
<1>8. QED
  BY <1>6, <1>7

\* Together: x only has to account for itself.
LEMMA MovesInv ==
  ASSUME KeptInv, NEW x \in Calls, Moves(x), Writes(x), Form', Staged(x)',
         \A y \in Calls : readAt'[y] <= Len(log),
         Kept(x)' => Kept(x) \/ ~UNCHANGED fileVars,
         pc'[x] \in {"ask", "write", "fill"} =>
           /\ pc[x] \in {"ask", "write", "fill"}
           /\ seen'[x] = seen[x] /\ readAt'[x] = readAt[x] /\ blind'[x] = blind[x],
         \A c \in Changers : Reported(c)'
  PROVE  KeptInv'
<1>1. Form /\ Logged
  BY DEF KeptInv
<1>2. Logged'
  BY <1>1, LoggedStays
<1>3. \A c \in Calls : Staged(c)'
  <2>1. ASSUME NEW c \in Calls \ {x} PROVE Staged(c)'
    BY <1>1, <2>1, StepsMove, StagedStays DEF KeptInv
  <2>2. QED
    BY <2>1
<1>4. Changers' = Changers
  BY DEF Moves, Changers
<1>5. \A c \in Changers : \A d \in Changers \ {c} : Recalled(d, c)'
  BY RecalledStays
<1>6. QED
  BY <1>2, <1>3, <1>4, <1>5 DEF KeptInv

-----------------------------------------------------------------------------
(* Step by step.                                                            *)

LEMMA Reached ==
  ASSUME KeptInv, NEW x \in Calls
  PROVE  /\ Form /\ Logged /\ Staged(x)
         /\ \A y \in Calls : readAt[y] <= Len(log)
         /\ TextOf(file) \in Seq(Pieces)
BY TextIs DEF KeptInv, Logged, Form

\* A call that only goes on, and does not succeed by it.
LEMMA LookInv ==
  ASSUME KeptInv, NEW x \in Calls,
         Refuse(x) \/ Look(x) \/ Approve(x) \/ Reject(x) \/ WriteFails(x)
         \/ (ReadOldFails(x) /\ job[x].kind = "replace")
  PROVE  KeptInv'
<1>1. Form /\ Logged /\ Staged(x)
  BY Reached
<1>2. PICK where \in {"looked", "failed", "write", "rejected"} : Goto(x, where)
  BY DEF Refuse, Look, Approve, Reject, WriteFails, ReadOldFails
<1>3. /\ pc' \in [Calls -> Places] /\ pc'[x] = where /\ \A y \in Calls \ {x} : pc'[y] = pc[y]
  BY <1>1, <1>2, Goes DEF Places
<1>4. /\ UNCHANGED <<job, hint, magic, fileVars, seen, new, readAt, blind, readerVars>>
      /\ UNCHANGED <<inflight, dropped>>
      /\ existed' \in [Calls -> BOOLEAN]
  <2>1. CASE Look(x)
    BY <1>1, <2>1 DEF Look, IsThere, Form, given
  <2>2. CASE Refuse(x) \/ Approve(x) \/ Reject(x) \/ WriteFails(x)
    BY <1>1, <2>2 DEF Refuse, Approve, Reject, WriteFails, Form, seenVars, given
  <2>3. CASE ReadOldFails(x) /\ job[x].kind = "replace"
    BY <1>1, <2>3 DEF ReadOldFails, Form, given
  <2>4. QED
    BY <2>1, <2>2, <2>3
<1>5. Form'
  BY <1>1, <1>3, <1>4 DEF Form, fileVars, readerVars
<1>6. /\ pc[x] \in {"idle", "looked", "ask", "write", "fill"}
      /\ pc'[x] = "looked" => pc[x] = "idle"
      /\ pc'[x] = "write" => pc[x] = "ask"
      /\ pc[x] = "fill" => pc'[x] = "failed"
      /\ pc'[x] = "rejected" => pc[x] = "ask"
  BY <1>3 DEF Refuse, Look, Approve, Reject, WriteFails, ReadOldFails, Goto
<1>7. Steps(x)' = Steps(x) /\ Changers' = Changers /\ Readers' = Readers
      /\ Edited(x, seen[x])' = Edited(x, seen[x])
  BY <1>4, LogRests DEF fileVars, Changers, Readers, Edited
<1>8. Staged(x)'
  BY <1>1, <1>3, <1>4, <1>6, <1>7 DEF Staged, Kept
<1>9. Moves(x) /\ Writes(x) /\ \A y \in Calls : readAt'[y] <= Len(log)
  <2>1. \A y \in Calls : readAt'[y] <= Len(log)
    BY <1>4, Reached
  <2>2. pc[x] # "failed"
    BY <1>6
  <2>3. QED
    BY <1>3, <1>4, <2>1, <2>2 DEF Moves, Writes
<1>10. \A c \in Changers : Reported(c)'
  <2>1. pc'[x] # "ok"
    BY <1>3
  <2>2. ASSUME NEW c \in Changers, c # x PROVE Reported(c)'
    BY <1>4, <1>6, <1>9, <2>2, ReportedStays DEF fileVars
  <2>3. QED
    BY <2>1, <2>2 DEF Reported
<1>11. ~Kept(x)'
  BY <1>3 DEF Kept
<1>12. pc'[x] \in {"ask", "write", "fill"} => pc[x] \in {"ask", "write", "fill"}
  BY <1>3, <1>6
<1>13. QED
  BY <1>4, <1>5, <1>8, <1>9, <1>10, <1>11, <1>12, MovesInv

LEMMA ReadsInv ==
  ASSUME KeptInv, NEW x \in Calls, Reads(x)
  PROVE  KeptInv'
<1>1. Form /\ Logged /\ Staged(x)
  BY Reached
<1>2. /\ Form'
      /\ UNCHANGED <<job, hint, magic, fileVars, existed, seen, new, blind, inflight, dropped>>
      /\ \A y \in Calls \ {x} : pc'[y] = pc[y] /\ readAt'[y] = readAt[y]
      /\ x \in Readers /\ pc[x] \in {"looked", "typed", "sized", "stream"}
      /\ pc'[x] \in {"typed", "sized", "stream", "ok", "failed"}
  BY <1>1, ReadsForm
<1>3. Steps(x) = {} /\ Steps(x)' = {}
  <2>1. Steps(x) = {}
    BY <1>1, <1>2 DEF Staged
  <2>2. QED
    BY <1>2, <2>1, LogRests DEF fileVars
<1>4. Changers' = Changers /\ Readers' = Readers /\ x \notin Changers
  BY <1>2 DEF Changers, Readers
<1>5. Staged(x)'
  BY <1>1, <1>2, <1>3, <1>4 DEF Staged
<1>6. \A y \in Calls : readAt'[y] <= Len(log)
  <2>1. readAt'[x] \in {Len(log), readAt[x]}
    BY <1>1 DEF Reads, Sniff, ReadFails, Measure, LoadMedia, OpenStream, SkipLine, TakeLine, CutPanics, StreamEnds,
                seenVars, Form
  <2>2. Len(log) \in Nat
    BY <1>1 DEF Form
  <2>3. QED
    BY <1>2, <2>1, <2>2, Reached
<1>7. Moves(x) /\ Writes(x)
  BY <1>2, <1>3 DEF Moves, Writes
<1>8. Logged'
  BY <1>1, <1>2, <1>6, <1>7, LoggedStays
<1>9. ASSUME NEW c \in Calls \ {x} PROVE Staged(c)'
  BY <1>1, <1>7, <1>9, StepsMove, StagedStays DEF KeptInv
<1>10. ASSUME NEW c \in Changers, NEW d \in Changers \ {c} PROVE Recalled(d, c)'
  <2>1. d # x /\ c # x
    BY <1>4, <1>10
  <2>2. Kept(x)' => Kept(x) \/ ~UNCHANGED fileVars \/ c # x
    BY <2>1
  <2>3. Recalled(d, c)
    BY DEF KeptInv
  <2>4. c \in Calls /\ d \in Calls
    BY DEF Changers
  <2>5. \A y \in Calls : Steps(y)' = Steps(y) /\ LastStep(y)' = LastStep(y)
    BY <1>2, LogRests DEF fileVars
  <2>6. \A e \in Changers : OverrodeForGood(e, c) => OverrodeForGood(e, c)'
    <3>1. \A e \in Changers : e \in Calls \ {x}
      BY <1>4 DEF Changers
    <3>2. QED
      BY <1>2, <2>4, <2>5, <3>1 DEF OverrodeForGood
  <2>7. Kept(c)' <=> Kept(c)
    BY <1>2, <2>1, <2>4 DEF Kept
  <2>8. QED
    BY <1>2, <1>4, <2>1, <2>3, <2>4, <2>5, <2>6, <2>7 DEF Recalled
<1>11. ASSUME NEW c \in Changers PROVE Reported(c)'
  BY <1>2, <1>4, <1>7, ReportedStays DEF fileVars
<1>12. QED
  BY <1>2, <1>4, <1>5, <1>8, <1>9, <1>10, <1>11 DEF KeptInv

LEMMA ProposeInv ==
  ASSUME KeptInv, NEW x \in Changers, pc[x] = "looked", NEW text \in Seq(Pieces),
         NEW unsure \in BOOLEAN, Propose(x, text, unsure),
         UNCHANGED <<job, fileVars, existed, readerVars, inflight, dropped>>,
         ~unsure => Busy = {} /\ \A c \in Calls : c \in ToSet(text) <=> c \in ToSet(TextOf(file))
  PROVE  KeptInv'
<1>1. x \in Calls /\ Form /\ Logged /\ Staged(x)
  BY Reached DEF Changers
<1>2. /\ Form'
      /\ \A y \in Calls \ {x} : pc'[y] = pc[y] /\ seen'[y] = seen[y] /\ new'[y] = new[y]
                                /\ readAt'[y] = readAt[y] /\ blind'[y] = blind[y]
      /\ pc'[x] \in {"failed", "ask"} /\ seen'[x] = text /\ readAt'[x] = Len(log)
      /\ blind'[x] = unsure /\ new'[x] = Edited(x, text)
      /\ pc'[x] = "ask" => x \in ToSet(new'[x])
  BY <1>1, ProposeForm
<1>3. Steps(x) = {} /\ Changers' = Changers /\ Readers' = Readers
      /\ Edited(x, text)' = Edited(x, text)
  BY <1>1 DEF Staged, Changers, Readers, Edited
<1>4. \A y \in Calls : Steps(y)' = Steps(y) /\ LastStep(y)' = LastStep(y)
  BY LogRests DEF fileVars
<1>5. Moves(x) /\ Writes(x)
  BY <1>2, <1>3 DEF Moves, Writes
<1>6. Logged'
  <2>1. \A y \in Calls : readAt'[y] <= Len(log)
    <3>1. Len(log) \in Nat
      BY <1>1 DEF Form
    <3>2. QED
      BY <1>2, <3>1, Reached
  <2>2. QED
    BY <1>1, <1>2, <1>5, <2>1, LoggedStays
<1>7. Staged(x)'
  <2>1. Edited(x, seen[x])' = Edited(x, text)
    BY <1>2 DEF Edited
  <2>2. x \notin inflight' \cup dropped' /\ Steps(x)' = {}
    BY <1>1, <1>3, <1>4 DEF Staged
  <2>3. QED
    BY <1>2, <1>3, <2>1, <2>2 DEF Staged, Kept
<1>8. ASSUME NEW c \in Calls PROVE Staged(c)'
  <2>1. CASE c = x
    BY <1>7, <2>1
  <2>2. CASE c # x
    BY <1>1, <1>4, <1>5, <2>2, StagedStays DEF KeptInv
  <2>3. QED
    BY <2>1, <2>2
<1>9. ~Kept(x)' /\ pc[x] # "fill"
  BY <1>2 DEF Kept
<1>10. ASSUME NEW c \in Changers, NEW d \in Changers \ {c} PROVE Recalled(d, c)'
  <2>1. CASE d # x
    BY <1>1, <1>5, <1>9, <2>1, RecalledStays
  <2>2. CASE d = x
    <3>1. SUFFICES ASSUME ~unsure, c \notin ToSet(text), Kept(c)'
                   PROVE  (\E e \in Changers \ {c, x} : OverrodeForGood(e, c))'
      BY <1>2, <2>2 DEF Recalled
    <3>2. c \in Calls \ {x} /\ Kept(c)
      BY <1>2, <1>9, <3>1 DEF Kept, Changers
    <3>3. PICK e \in Changers \ {c} : Overrode(e, c)
      <4>1. c \notin ToSet(TextOf(file))
        BY <3>1, <3>2
      <4>2. QED
        BY <3>2, <4>1 DEF KeptInv, Reported, Kept
    <3>4. pc[e] # "fill" /\ e \in Calls
      BY <3>1, <3>3 DEF Busy, Changers
    <3>5. e # x /\ OverrodeForGood(e, c)
      BY <1>3, <3>3, <3>4 DEF Overrode, OverrodeForGood
    <3>6. OverrodeForGood(e, c)'
      BY <1>2, <1>4, <3>2, <3>4, <3>5 DEF OverrodeForGood
    <3>7. QED
      BY <1>3, <3>3, <3>5, <3>6
  <2>3. QED
    BY <2>1, <2>2
<1>11. ASSUME NEW c \in Changers PROVE Reported(c)'
  <2>1. CASE c = x
    BY <1>2, <2>1 DEF Reported
  <2>2. CASE c # x
    BY <1>1, <1>5, <1>9, <2>2, ReportedStays DEF fileVars
  <2>3. QED
    BY <2>1, <2>2
<1>12. QED
  BY <1>2, <1>3, <1>6, <1>8, <1>10, <1>11 DEF KeptInv

LEMMA ReadOldInv ==
  ASSUME KeptInv, NEW x \in Calls,
         ReadOld(x) \/ (ReadOldFails(x) /\ job[x].kind # "replace")
  PROVE  KeptInv'
<1>1. x \in Changers /\ pc[x] = "looked"
      /\ UNCHANGED <<job, fileVars, existed, readerVars, inflight, dropped>>
  BY DEF ReadOld, ReadOldFails, given
<1>2. /\ <<>> \in Seq(Pieces) /\ TextOf(file) \in Seq(Pieces) /\ existed[x] \in BOOLEAN
      /\ file = Missing => TextOf(file) = <<>>
  BY Reached, EmptyIs DEF Form
<1>3. CASE ReadOld(x)
  <2> DEFINE text == IF existed[x] THEN Lossy(TextOf(file)) ELSE <<>>
             unsure == Busy # {} \/ (file # Missing /\ ~existed[x])
  <2>1. Propose(x, text, unsure) /\ text \in Seq(Pieces) /\ unsure \in BOOLEAN
    BY <1>2, <1>3, LossyIs DEF ReadOld
  <2>2. ~unsure => Busy = {} /\ \A c \in Calls : c \in ToSet(text) <=> c \in ToSet(TextOf(file))
    BY <1>2, LossyIs
  <2> HIDE DEF text, unsure
  <2>3. QED
    BY <1>1, <2>1, <2>2, ProposeInv
<1>4. CASE ReadOldFails(x) /\ job[x].kind # "replace"
  <2>1. Propose(x, <<>>, TRUE)
    BY <1>4 DEF ReadOldFails
  <2>2. QED
    BY <1>1, <1>2, <2>1, ProposeInv
<1>5. QED
  BY <1>3, <1>4

\* A call that has shown its change is one that changes files.
LEMMA ChangesIs ==
  ASSUME Form, NEW x \in Calls, Staged(x), pc[x] \in {"write", "fill"} \/ x \in inflight
  PROVE  x \in Changers /\ x \in ToSet(new[x]) /\ new[x] = Edited(x, seen[x])
BY DEF Staged

LEMMA OpenInv ==
  ASSUME KeptInv, NEW x \in Calls, Open(x)
  PROVE  KeptInv'
<1>1. Form /\ Logged /\ Staged(x)
  BY Reached
<1>2. /\ Become(x, <<>>) /\ Goto(x, "fill") /\ pc[x] = "write"
      /\ UNCHANGED <<job, seenVars, readerVars, inflight, dropped>>
  BY DEF Open, given
<1>3. /\ pc' \in [Calls -> Places] /\ pc'[x] = "fill" /\ \A y \in Calls \ {x} : pc'[y] = pc[y]
  BY <1>1, <1>2, Goes DEF Places
<1>4. <<>> \in Seq(Pieces) \cup {Missing}
  OBVIOUS
<1>5. Form'
  BY <1>1, <1>2, <1>3, <1>4, BecomeForm DEF Form
<1>6. /\ Steps(x)' # {} /\ LastStep(x)' = Len(log) + 1 /\ Len(log) \in Nat
      /\ \A c \in Calls \ {x} : Steps(c)' = Steps(c) /\ LastStep(c)' = LastStep(c)
  BY <1>1, <1>2, <1>4, LogGrows
<1>7. /\ Changers' = Changers /\ Readers' = Readers /\ x \in Changers
      /\ Edited(x, seen[x])' = Edited(x, seen[x])
  BY <1>1, <1>2, ChangesIs DEF Changers, Readers, Edited, seenVars
<1>8. Moves(x) /\ Writes(x)
  BY <1>2, <1>3, <1>4 DEF Moves, Writes, seenVars
<1>9. Staged(x)'
  BY <1>1, <1>2, <1>3, <1>6, <1>7 DEF Staged, Kept, seenVars
<1>10. ASSUME NEW c \in Changers PROVE Reported(c)'
  <2>1. SUFFICES ASSUME pc'[c] = "ok", c \notin inflight' \cup dropped'
                 PROVE  (\E d \in Changers \ {c} : Overrode(d, c))'
    BY DEF Reported
  <2>2. c # x /\ c \in Calls /\ Kept(c) /\ Staged(c)
    BY <1>2, <1>3, <2>1 DEF Kept, KeptInv, Changers
  <2>3. Steps(c) # {}
    BY <2>2 DEF Staged
  <2>4. LastStep(c) \in Nat /\ LastStep(c) <= Len(log)
    BY <1>1, <1>8, <2>2, <2>3, StepsMove
  <2>5. Overrode(x, c)'
    BY <1>3, <1>6, <2>2, <2>4 DEF Overrode
  <2>6. QED
    BY <1>7, <2>2, <2>5
<1>11. \A y \in Calls : readAt'[y] <= Len(log)
  BY <1>2, Reached DEF seenVars
<1>12. ~Kept(x)'
  BY <1>3 DEF Kept
<1>13. QED
  BY <1>2, <1>5, <1>8, <1>9, <1>10, <1>11, <1>12, MovesInv DEF seenVars

LEMMA FillInv ==
  ASSUME KeptInv, NEW x \in Calls, Fill(x)
  PROVE  KeptInv'
<1> DEFINE old == TextOf(file)
           f == new[x] \o SubSeq(old, Len(new[x]) + 1, Len(old))
<1>1. Form /\ Logged /\ Staged(x) /\ old \in Seq(Pieces) /\ new[x] \in Seq(Pieces)
  BY Reached DEF Form
<1>2. /\ Become(x, f) /\ Goto(x, "ok") /\ pc[x] = "fill"
      /\ UNCHANGED <<job, seenVars, readerVars, inflight, dropped>>
  BY DEF Fill, given
<1>3. /\ pc' \in [Calls -> Places] /\ pc'[x] = "ok" /\ \A y \in Calls \ {x} : pc'[y] = pc[y]
  BY <1>1, <1>2, Goes DEF Places
<1>4. f \in Seq(Pieces) /\ ToSet(new[x]) \subseteq ToSet(f)
  BY <1>1, FilledIs
<1> HIDE DEF f, old
<1>5. Form'
  BY <1>1, <1>2, <1>3, <1>4, BecomeForm DEF Form
<1>6. /\ Steps(x)' # {} /\ LastStep(x)' = Len(log) + 1 /\ Len(log) \in Nat
      /\ \A c \in Calls \ {x} : Steps(c)' = Steps(c) /\ LastStep(c)' = LastStep(c)
      /\ file' = f /\ Len(log') = Len(log) + 1
  BY <1>1, <1>2, <1>4, LogGrows
<1>7. /\ Changers' = Changers /\ Readers' = Readers /\ x \in Changers /\ x \in ToSet(new[x])
      /\ Edited(x, seen[x])' = Edited(x, seen[x])
  BY <1>1, <1>2, ChangesIs DEF Changers, Readers, Edited, seenVars
<1>8. Moves(x) /\ Writes(x)
  BY <1>2, <1>3, <1>4 DEF Moves, Writes, seenVars
<1>9. Staged(x)'
  BY <1>1, <1>2, <1>3, <1>6, <1>7 DEF Staged, Kept, seenVars
<1>10. TextOf(file') = f
  BY <1>4, <1>6, TextIs
<1>11. ASSUME NEW c \in Changers PROVE Reported(c)'
  <2>1. SUFFICES ASSUME pc'[c] = "ok", c \notin inflight' \cup dropped', c \notin ToSet(f)
                 PROVE  (\E d \in Changers \ {c} : Overrode(d, c))'
    BY <1>10 DEF Reported, TextOf
  <2>2. c # x /\ c \in Calls /\ Kept(c) /\ Staged(c)
    BY <1>2, <1>3, <1>4, <1>7, <2>1 DEF Kept, KeptInv, Changers
  <2>3. Steps(c) # {}
    BY <2>2 DEF Staged
  <2>4. LastStep(c) \in Nat /\ LastStep(c) <= Len(log)
    BY <1>1, <1>8, <2>2, <2>3, StepsMove
  <2>5. CASE readAt[x] < LastStep(c) \/ blind[x] \/ c \in ToSet(seen[x])
    <3>1. c \notin ToSet(new[x])
      BY <1>4, <2>1
    <3>2. Overrode(x, c)'
      BY <1>2, <1>3, <1>6, <2>2, <2>4, <2>5, <3>1 DEF Overrode, seenVars
    <3>3. QED
      BY <1>7, <2>2, <3>2
  <2>6. CASE ~(readAt[x] < LastStep(c)) /\ ~blind[x] /\ c \notin ToSet(seen[x])
    <3>1. readAt[x] \in Nat /\ Recalled(x, c)
      BY <1>1, <1>7, <2>2 DEF Form, KeptInv
    <3>2. PICK e \in Changers \ {c, x} : OverrodeForGood(e, c)
      BY <1>2, <2>2, <2>4, <2>6, <3>1 DEF Recalled
    <3>3. e \in Calls /\ LastStep(c)' = LastStep(c)
      BY <1>6, <2>2 DEF Changers
    <3>4. OverrodeForGood(e, c)'
      BY <1>1, <1>8, <2>2, <2>4, <3>2, <3>3, ForGoodStays
    <3>5. Overrode(e, c)'
      BY <3>4 DEF Overrode, OverrodeForGood
    <3>6. QED
      BY <1>7, <3>2, <3>5
  <2>7. QED
    BY <2>5, <2>6
<1>12. \A y \in Calls : readAt'[y] <= Len(log)
  BY <1>2, Reached DEF seenVars
<1>13. ~UNCHANGED fileVars
  <2>1. log' # log
    BY <1>6
  <2>2. QED
    BY <2>1 DEF fileVars
<1>14. QED
  BY <1>3, <1>5, <1>8, <1>9, <1>11, <1>12, <1>13, MovesInv

\* An append takes nothing away, and its own piece is there or on its way.
LEMMA AppendsInv ==
  ASSUME KeptInv, NEW x \in Calls, Form', Writes(x), pc[x] = "write" \/ x \in inflight,
         pc'[x] = "ok", \A y \in Calls \ {x} : pc'[y] = pc[y],
         UNCHANGED <<job, seenVars, readerVars>>,
         \A y \in Calls \ {x} : (y \in inflight' <=> y \in inflight)
                                /\ (y \in dropped' <=> y \in dropped),
         ToSet(TextOf(file)) \subseteq ToSet(TextOf(file')),
         \/ x \in ToSet(TextOf(file')) /\ ~UNCHANGED fileVars
         \/ x \in inflight' \cup dropped'
  PROVE  KeptInv'
<1>1. Form /\ Logged /\ Staged(x)
  BY Reached
<1>2. /\ pc[x] \notin {"fill", "failed"} /\ pc[x] \in {"write", "ok"}
      /\ x \in Changers /\ x \in ToSet(new[x]) /\ new[x] = Edited(x, seen[x])
  <2>1. pc[x] \in {"write", "ok"}
    BY <1>1 DEF Staged
  <2>2. QED
    BY <1>1, <2>1, ChangesIs
<1>3. /\ Changers' = Changers /\ Readers' = Readers /\ Edited(x, seen[x])' = Edited(x, seen[x])
  BY DEF Changers, Readers, Edited, seenVars
<1>4. Moves(x)
  BY <1>2 DEF Moves, seenVars
<1>5. Kept(x)' => ~UNCHANGED fileVars /\ Steps(x)' # {}
  <2>1. SUFFICES ASSUME Kept(x)' PROVE ~UNCHANGED fileVars /\ Steps(x)' # {}
    OBVIOUS
  <2>2. ~UNCHANGED fileVars
    BY <2>1 DEF Kept
  <2>3. PICK f \in Seq(Pieces) \cup {Missing} : Become(x, f)
    BY <2>2 DEF Writes
  <2>4. Steps(x)' # {}
    BY <1>1, <2>3, LogGrows
  <2>5. QED
    BY <2>2, <2>4
<1>6. Staged(x)'
  BY <1>2, <1>3, <1>5 DEF Staged, seenVars
<1>7. ASSUME NEW c \in Changers PROVE Reported(c)'
  <2>1. CASE c = x
    BY <2>1 DEF Reported, TextOf
  <2>2. CASE c # x
    BY <1>2, <1>4, <2>2, ReportedStays
  <2>3. QED
    BY <2>1, <2>2
<1>8. \A y \in Calls : readAt'[y] <= Len(log)
  BY Reached DEF seenVars
<1>9. pc'[x] \notin {"ask", "write", "fill"}
  OBVIOUS
<1>10. QED
  BY <1>4, <1>5, <1>6, <1>7, <1>8, <1>9, MovesInv

LEMMA AppendInv ==
  ASSUME KeptInv, NEW x \in Calls, AppendRemote(x) \/ AppendLocal(x) \/ Land(x)
  PROVE  KeptInv'
<1>1. Form /\ Logged /\ Staged(x) /\ TextOf(file) \in Seq(Pieces)
  BY Reached
<1>2. UNCHANGED <<job, seenVars, readerVars>> /\ (pc[x] = "write" \/ x \in inflight)
  BY DEF AppendRemote, AppendLocal, Land, given
<1> DEFINE f == Append(TextOf(file), x)
<1>3. f \in Seq(Pieces) /\ x \in ToSet(f) /\ ToSet(TextOf(file)) \subseteq ToSet(f)
  BY <1>1, AppendedIs
<1> HIDE DEF f
<1>4. /\ pc' \in [Calls -> Places] /\ pc'[x] = "ok" /\ \A y \in Calls \ {x} : pc'[y] = pc[y]
  <2>1. CASE AppendRemote(x) \/ AppendLocal(x)
    BY <1>1, <2>1, Goes DEF AppendRemote, AppendLocal, Places
  <2>2. CASE Land(x)
    BY <1>1, <2>2 DEF Land, Staged, Form
  <2>3. QED
    BY <2>1, <2>2
<1>5. /\ inflight' \subseteq Calls /\ dropped' \subseteq Calls
      /\ \A y \in Calls \ {x} : (y \in inflight' <=> y \in inflight)
                                /\ (y \in dropped' <=> y \in dropped)
  BY <1>1 DEF Form, AppendRemote, AppendLocal, Land
<1>6. CASE Become(x, f)
  <2>1. file' = f /\ Len(log') # Len(log)
    BY <1>1, <1>3, <1>6, LogGrows
  <2>2. Form'
    BY <1>1, <1>2, <1>3, <1>4, <1>5, <1>6, BecomeForm
  <2>3. TextOf(file') = f
    BY <1>3, <2>1, TextIs
  <2>4. ~UNCHANGED fileVars /\ Writes(x)
    BY <1>3, <1>6, <2>1 DEF fileVars, Writes
  <2>5. QED
    BY <1>2, <1>3, <1>4, <1>5, <2>2, <2>3, <2>4, AppendsInv
<1>7. CASE AppendLocal(x) /\ file = Missing
  <2>1. Become(x, <<>>) /\ x \in inflight'
    BY <1>7 DEF AppendLocal
  <2>2. <<>> \in Seq(Pieces) \cup {Missing}
    OBVIOUS
  <2>3. Form' /\ Writes(x)
    BY <1>1, <1>2, <1>4, <1>5, <2>1, <2>2, BecomeForm DEF Writes
  <2>4. ToSet(TextOf(file)) = {}
    BY <1>7, EmptyIs
  <2>5. QED
    BY <1>2, <1>4, <1>5, <2>1, <2>3, <2>4, AppendsInv
<1>8. CASE UNCHANGED fileVars /\ x \in inflight' \cup dropped'
  <2>1. Form'
    BY <1>1, <1>2, <1>4, <1>5, <1>8 DEF Form, fileVars, seenVars, readerVars
  <2>2. TextOf(file') = TextOf(file) /\ Writes(x)
    BY <1>8 DEF fileVars, Writes
  <2>3. QED
    BY <1>2, <1>4, <1>5, <1>8, <2>1, <2>2, AppendsInv
<1>9. QED
  BY <1>6, <1>7, <1>8 DEF AppendRemote, AppendLocal, Land, f

\* Nothing has happened yet.
LEMMA KeptInit ==
  ASSUME FileInit
  PROVE  KeptInv
<1>1. /\ \A c \in Calls : pc[c] = "idle" /\ readAt[c] = 0
      /\ log = <<[by |-> 0, text |-> file]>> /\ inflight = {} /\ dropped = {}
  BY DEF FileInit
<1>2. file \in Seq(Pieces) \cup {Missing}
  <2>1. PICK f \in Texts : file = f
    BY DEF FileInit
  <2>2. CASE f = Missing
    BY <2>1, <2>2
  <2>3. CASE f # Missing
    <3>1. f \in Seq({0, Raw})
      BY <2>1, <2>3, FileToolsAssumption
    <3>2. QED
      BY <2>1, <3>1 DEF Pieces
  <2>4. QED
    BY <2>2, <2>3
<1>3. log \in Seq([by : Pieces, text : Seq(Pieces) \cup {Missing}]) /\ Len(log) = 1
  <2>1. [by |-> 0, text |-> file] \in [by : Pieces, text : Seq(Pieces) \cup {Missing}]
    BY <1>2 DEF Pieces
  <2>2. QED
    BY <1>1, <2>1
<1>4. Form
  <2>1. <<>> \in Seq(Pieces)
    OBVIOUS
  <2>2. QED
    BY <1>2, <1>3, <2>1 DEF FileInit, Form, Places, Reasons
<1>5. log[1].by = 0 /\ log[1].text = file /\ DOMAIN log = {1}
  BY <1>1
<1>6. \A c \in Calls : Steps(c) = {}
  BY <1>5, FileToolsAssumption DEF Steps
<1>7. Logged
  BY <1>1, <1>3, <1>5, <1>6 DEF Logged
<1>8. \A c \in Calls : Staged(c)
  BY <1>1, <1>6 DEF Staged, Kept
<1>9. \A c \in Changers : Reported(c) /\ \A d \in Changers \ {c} : Recalled(d, c)
  BY <1>1 DEF Changers, Reported, Recalled
<1>10. QED
  BY <1>4, <1>7, <1>8, <1>9 DEF KeptInv

LEMMA KeptRests ==
  ASSUME KeptInv, UNCHANGED allVars
  PROVE  KeptInv'
<1>1. /\ UNCHANGED <<job, file, pc, existed, seen, new, got, at, bytes, cut, told>>
      /\ UNCHANGED <<inflight, dropped, log, readAt, blind>>
  BY DEF allVars, given, readerVars
<1>2. Form' = Form /\ Logged' = Logged /\ Changers' = Changers
  BY <1>1 DEF Form, Logged, Steps, LastStep, Changers
<1>3. \A c \in Calls : Staged(c)' = Staged(c)
  BY <1>1 DEF Staged, Steps, Kept, Changers, Readers, Edited
<1>4. \A c, d : Recalled(d, c)' = Recalled(d, c)
  BY <1>1 DEF Recalled, Kept, LastStep, Steps, OverrodeForGood, Changers
<1>5. \A c : Reported(c)' = Reported(c)
  BY <1>1 DEF Reported, Overrode, LastStep, Steps, TextOf, Changers
<1>6. QED
  BY <1>2, <1>3, <1>4, <1>5 DEF KeptInv

\* In every state: the types, what the log says of each call, and why a piece
\* that a call put in is not there.
THEOREM KeptSpec == FileSpec => []KeptInv
<1>1. ASSUME KeptInv, [FileNext]_allVars PROVE KeptInv'
  <2>1. CASE UNCHANGED allVars
    BY <1>1, <2>1, KeptRests
  <2>2. ASSUME NEW x \in Calls,
               Change(x) \/ Sniff(x) \/ ReadFails(x) \/ ReadMediaFile(x) \/ ReadFile(x)
        PROVE  KeptInv'
    <3>1. CASE Refuse(x) \/ Look(x) \/ Approve(x) \/ Reject(x) \/ WriteFails(x)
      BY <1>1, <3>1, LookInv
    <3>2. CASE ReadOld(x) \/ ReadOldFails(x)
      BY <1>1, <3>2, LookInv, ReadOldInv
    <3>3. CASE Open(x)
      BY <1>1, <3>3, OpenInv
    <3>4. CASE Fill(x)
      BY <1>1, <3>4, FillInv
    <3>5. CASE AppendRemote(x) \/ AppendLocal(x) \/ Land(x)
      BY <1>1, <3>5, AppendInv
    <3>6. CASE Sniff(x) \/ ReadFails(x) \/ ReadMediaFile(x) \/ ReadFile(x)
      BY <1>1, <3>6, ReadsInv DEF Reads, ReadMediaFile, ReadFile
    <3>7. QED
      BY <2>2, <3>1, <3>2, <3>3, <3>4, <3>5, <3>6 DEF Change
  <2>3. QED
    BY <1>1, <2>1, <2>2 DEF FileNext
<1>2. QED
  BY <1>1, KeptInit, PTL DEF FileSpec

\* A change that was reported as made is in the file as long as no later call
\* overrode it: one whose client saw it go, that had read the file before, or
\* whose own write broke. (replace.rs:133-180, write.rs:84-141)
THEOREM ReportedStaysTrue == FileSpec => []ReportedIsKept
<1>1. KeptInv => ReportedIsKept
  BY DEF KeptInv, ReportedIsKept, Reported
<1>2. QED
  BY <1>1, KeptSpec, PTL

-----------------------------------------------------------------------------
(* What a file tool tells of its own call.                                  *)

\* Step m of c added its piece to what there was.
Added(c, m) ==
  m - 1 \in DOMAIN log /\ log[m].text = Append(TextOf(log[m - 1].text), c)

\* Step m of c wrote the new text over what there was.
Filled(c, m) ==
  LET old == TextOf(log[m - 1].text)
  IN log[m].text = new[c] \o SubSeq(old, Len(new[c]) + 1, Len(old))

\* Step k of c made the file, or emptied it.
Emptied(c, k) == log[k].text = <<>>
Created(c, k) == k - 1 \in DOMAIN log /\ log[k].text = <<>> /\ log[k - 1].text = Missing

\* What a call that is done did to the file, in its one or two steps.
Did(c) ==
  IF job[c].kind = "append"
  THEN \E m \in DOMAIN log :
         /\ Added(c, m)
         /\ \/ Steps(c) = {m}
            \/ \E k \in DOMAIN log : k < m /\ Steps(c) = {k, m} /\ Created(c, k)
  ELSE \E k, m \in DOMAIN log :
         k < m /\ Steps(c) = {k, m} /\ Emptied(c, k) /\ Filled(c, m)

Traced(c) ==
  /\ pc[c] = "fill" =>
       job[c].kind # "append" /\ \E k \in DOMAIN log : Steps(c) = {k} /\ Emptied(c, k)
  /\ c \in inflight =>
       /\ job[c].kind = "append"
       /\ Steps(c) = {} \/ \E k \in DOMAIN log : Steps(c) = {k} /\ Created(c, k)
  /\ Kept(c) => Did(c)

\* How far a reader is, and what it has read if nobody changed the file since.
Lines(c) ==
  LET from == job[c].from
      last == from + Len(got[c]) - 1
  IN /\ got[c] = SubSeq(Lossy(TextOf(file)), from, last)
     /\ cut[c] = {i \in from .. last : TooLong(Lossy(TextOf(file))[i])}

Streaming(c) ==
  /\ job[c].kind = "read" /\ told[c] = "nothing"
  /\ Len(got[c]) < job[c].n /\ Len(got[c]) < MaxLines
  /\ bytes[c] <= Len(got[c]) * MaxLength
  /\ IF at[c] < job[c].from THEN Len(got[c]) = 0 ELSE Len(got[c]) = at[c] - job[c].from + 1
  /\ readAt[c] = Len(log) => Lines(c)

\* The reading ended where the message says.
Ended(c) ==
  /\ told[c] = "end" => job[c].from + Len(got[c]) - 1 >= Len(TextOf(file))
  /\ told[c] = "nothing" => Len(got[c]) = job[c].n
  /\ told[c] = "lines" => Len(got[c]) = MaxLines
  /\ told[c] = "bytes" => /\ Len(got[c]) < MaxLines
                          /\ MaxBytes <= bytes[c] /\ bytes[c] <= Len(got[c]) * MaxLength

Shown(c) == readAt[c] = Len(log) => KindOf(TextOf(file)) = "image"

Streamed(c) ==
  /\ pc[c] \in {"idle", "looked", "typed"} =>
       got[c] = <<>> /\ at[c] = 0 /\ bytes[c] = 0 /\ cut[c] = {} /\ told[c] = "nothing"
  /\ pc[c] = "stream" => Streaming(c)
  /\ pc[c] = "typed" /\ job[c].kind = "media" => Shown(c)
  /\ pc[c] = "sized" =>
       /\ job[c].kind = "media" /\ Shown(c) /\ at[c] <= MaxSize
       /\ readAt[c] = Len(log) => at[c] = Len(TextOf(file))
  /\ pc[c] = "ok" /\ readAt[c] = Len(log) =>
       IF job[c].kind = "read"
       THEN Lines(c) /\ Ended(c)
       ELSE /\ got[c] = TextOf(file) /\ KindOf(got[c]) = "image"
            /\ Len(got[c]) = at[c] /\ at[c] <= MaxSize

ToldInv ==
  /\ \A c \in Changers : Traced(c)
  /\ \A c \in Readers : Streamed(c)


LEMMA ReaderIs ==
  ASSUME job \in Jobs, NEW c \in Readers
  PROVE  /\ c \in Calls /\ job[c].kind \in {"read", "media"}
         /\ job[c].kind = "read" => job[c].from \in Nat \ {0} /\ job[c].n \in Nat \ {0}
BY FileToolsAssumption DEF Changers, Readers

\* One more line makes the stretch that was read one longer.
LEMMA StretchIs ==
  ASSUME NEW t \in Seq(Pieces), NEW a \in Nat \ {0}, NEW n \in Nat, a + n <= Len(t),
         NEW s \in Seq(Pieces), Len(s) = n, s = SubSeq(t, a, a + n - 1)
  PROVE  s \o <<t[a + n]>> = SubSeq(t, a, a + n)
<1>1. /\ Len(t) \in Nat /\ t[a + n] \in Pieces
      /\ \A i \in 1 .. Len(t) : t[i] \in Pieces
  OBVIOUS
<1> DEFINE u == SubSeq(t, a, a + n)
           v == s \o <<t[a + n]>>
<1>2. /\ u \in Seq(Pieces) /\ Len(u) = n + 1
      /\ \A i \in 1 .. n + 1 : u[i] = t[a + i - 1]
  <2>1. \A i \in a .. a + n : t[i] \in Pieces
    BY <1>1
  <2>2. QED
    BY <1>1, <2>1
<1>3. /\ v \in Seq(Pieces) /\ Len(v) = n + 1 /\ v[n + 1] = t[a + n]
      /\ \A i \in 1 .. n : v[i] = s[i]
  BY <1>1
<1>4. \A i \in 1 .. n : s[i] = t[a + i - 1]
  BY <1>1
<1> HIDE DEF u, v
<1>5. \A i \in 1 .. n + 1 : u[i] = v[i]
  <2>1. ASSUME NEW i \in 1 .. n + 1 PROVE u[i] = v[i]
    <3>1. CASE i = n + 1
      BY <1>2, <1>3, <3>1
    <3>2. CASE i \in 1 .. n
      BY <1>2, <1>3, <1>4, <3>2
    <3>3. QED
      BY <3>1, <3>2
  <2>2. QED
    BY <2>1
<1>6. u = v
  BY <1>2, <1>3, <1>5
<1>7. QED
  BY <1>6 DEF u, v

\* What another call does to the file ends what was known of it; else it rests.
LEMMA StreamedStays ==
  ASSUME KeptInv, NEW x \in Calls, Writes(x), NEW c \in Readers, Streamed(c),
         UNCHANGED <<job, hint, magic>>, pc'[c] = pc[c], readAt'[c] = readAt[c],
         got'[c] = got[c], at'[c] = at[c], bytes'[c] = bytes[c], cut'[c] = cut[c],
         told'[c] = told[c]
  PROVE  Streamed(c)'
<1>1. c \in Calls /\ Form /\ Logged /\ readAt[c] <= Len(log) /\ readAt[c] \in Nat
  BY Reached DEF Readers, Form
<1>2. CASE UNCHANGED fileVars
  <2>1. UNCHANGED <<file, log>>
    BY <1>2 DEF fileVars
  <2>2. (Lines(c)' <=> Lines(c)) /\ (Shown(c)' <=> Shown(c)) /\ KindOf(got[c])' = KindOf(got[c])
    BY <2>1 DEF Lines, Shown, KindOf, Magic, TextOf
  <2>3. Ended(c)' <=> Ended(c)
    BY <2>1 DEF Ended, TextOf
  <2>4. QED
    BY <2>1, <2>2, <2>3 DEF Streamed, Streaming, TextOf, KindOf, Magic
<1>3. CASE ~UNCHANGED fileVars
  <2>1. PICK f \in Seq(Pieces) \cup {Missing} : Become(x, f)
    BY <1>3 DEF Writes
  <2>2. Len(log') = Len(log) + 1 /\ Len(log) \in Nat
    BY <1>1, <2>1, LogGrows
  <2>3. readAt'[c] # Len(log')
    BY <1>1, <2>2
  <2>4. QED
    BY <2>3 DEF Streamed, Streaming, Shown
<1>4. QED
  BY <1>2, <1>3

LEMMA NextOf ==
  ASSUME NEW c \in Calls, Form
  PROVE  NextLine(c) = <<>> <=> at[c] >= Len(TextOf(file))
<1>1. at[c] \in Nat /\ Len(TextOf(file)) \in Nat
  BY TextIs DEF Form
<1>2. QED
  BY <1>1 DEF NextLine

\* A line is taken.
LEMMA LineIs ==
  ASSUME KeptInv, NEW c \in Readers, Streamed(c), TakeLine(c)
  PROVE  Streamed(c)'
<1> DEFINE t == Lossy(TextOf(file))
           L == Len(got[c])
           from == job[c].from
           n == job[c].n
           line == NextLine(c)[1]
           size == bytes[c] + BytesOf(line)
           full == Full(c, L + 1, size)
<1>1. /\ c \in Calls /\ Form /\ Streaming(c) /\ t \in Seq(Pieces) /\ Len(t) \in Nat
      /\ Len(t) = Len(TextOf(file))
  <2>1. c \in Calls /\ Form /\ Streaming(c) /\ TextOf(file) \in Seq(Pieces)
    BY Reached DEF Readers, TakeLine, Streamed
  <2>2. QED
    BY <2>1, LossyIs
<1>2. /\ job[c].kind = "read" /\ told[c] = "nothing" /\ L < n /\ L < MaxLines
      /\ L = (IF at[c] < from THEN 0 ELSE at[c] - from + 1) /\ bytes[c] <= L * MaxLength
      /\ from \in Nat \ {0} /\ n \in Nat \ {0} /\ MaxLines \in Nat /\ L \in Nat /\ at[c] \in Nat
      /\ got[c] \in Seq(Pieces) /\ bytes[c] \in Nat /\ MaxLength \in Nat
      /\ readAt[c] = Len(log) => /\ got[c] = SubSeq(t, from, from + L - 1)
                                 /\ cut[c] = {i \in from .. from + L - 1 : TooLong(t[i])}
  <2>1. job[c].kind = "read" /\ job \in Jobs
    BY <1>1 DEF Streaming, Form
  <2>2. from \in Nat \ {0} /\ n \in Nat \ {0} /\ MaxLines \in Nat /\ MaxLength \in Nat
    BY <2>1, ReaderIs, FileToolsAssumption
  <2>3. got[c] \in Seq(Pieces) /\ at[c] \in Nat /\ L \in Nat /\ bytes[c] \in Nat
    BY <1>1 DEF Form
  <2>4. QED
    BY <1>1, <2>1, <2>2, <2>3 DEF Streaming, Lines
<1>3. /\ at[c] < Len(t) /\ line = t[at[c] + 1] /\ line \in Pieces /\ at[c] + 1 >= from
      /\ BytesOf(line) \in Nat /\ BytesOf(line) <= MaxLength
  <2>1. NextLine(c) # <<>> /\ Wanted(c)
    BY DEF TakeLine
  <2>2. QED
    BY <1>1, <2>1, NextLineIs, BytesAre DEF Wanted
<1>4. from + L = at[c] + 1 /\ line = t[from + L] /\ from + L <= Len(t)
  BY <1>1, <1>2, <1>3
<1>5. /\ UNCHANGED <<job, hint, magic, file, log, readAt>>
      /\ got'[c] = Append(got[c], line) /\ at'[c] = at[c] + 1 /\ bytes'[c] = size
      /\ cut'[c] = (IF TooLong(line) THEN cut[c] \cup {at[c] + 1} ELSE cut[c])
      /\ pc'[c] = (IF full = "no" THEN "stream" ELSE "ok")
      /\ told'[c] = (IF full = "no" THEN "nothing" ELSE full)
  <2>1. /\ got \in [Calls -> Seq(Pieces)] /\ at \in [Calls -> Nat] /\ bytes \in [Calls -> Nat]
        /\ cut \in [Calls -> SUBSET Nat] /\ told \in [Calls -> Reasons] /\ pc \in [Calls -> Places]
    BY <1>1 DEF Form
  <2>2. UNCHANGED <<job, hint, magic, file, log, readAt>>
    BY DEF TakeLine, given, fileVars, seenVars
  <2>3. got' = [got EXCEPT ![c] = Append(got[c], line)] /\ bytes' = [bytes EXCEPT ![c] = size]
    BY DEF TakeLine
  <2>4. at' = [at EXCEPT ![c] = at[c] + 1]
    BY DEF TakeLine
  <2>5. cut' = [cut EXCEPT ![c] = IF TooLong(line) THEN cut[c] \cup {at[c] + 1} ELSE cut[c]]
    BY DEF TakeLine
  <2>6. /\ pc' = [pc EXCEPT ![c] = IF full = "no" THEN "stream" ELSE "ok"]
        /\ told' = [told EXCEPT ![c] = IF full = "no" THEN told[c] ELSE full]
    BY DEF TakeLine, Goto
  <2> HIDE DEF line, size, full
  <2>7. /\ got'[c] = Append(got[c], line) /\ bytes'[c] = size /\ at'[c] = at[c] + 1
        /\ cut'[c] = (IF TooLong(line) THEN cut[c] \cup {at[c] + 1} ELSE cut[c])
    BY <1>1, <2>1, <2>3, <2>4, <2>5
  <2>8. /\ pc'[c] = (IF full = "no" THEN "stream" ELSE "ok")
        /\ told'[c] = (IF full = "no" THEN "nothing" ELSE full)
    BY <1>1, <1>2, <2>1, <2>6
  <2>9. QED
    BY <2>2, <2>7, <2>8
<1>6. size <= (L + 1) * MaxLength /\ size \in Nat
  <2>1. (L + 1) * MaxLength = L * MaxLength + MaxLength
    BY <1>2
  <2>2. L * MaxLength \in Nat
    BY <1>2
  <2>3. QED
    BY <1>2, <1>3, <2>1, <2>2
<1> HIDE DEF line, size, full
<1>7. Len(got'[c]) = L + 1 /\ got'[c] = got[c] \o <<line>>
  <2>1. got[c] \in Seq(Pieces) /\ line \in Pieces /\ got'[c] = Append(got[c], line)
    BY <1>2, <1>3, <1>5
  <2>2. QED
    BY <2>1
<1>8. ASSUME readAt[c] = Len(log)
      PROVE  /\ got'[c] = SubSeq(t, from, from + L)
             /\ cut'[c] = {i \in from .. from + L : TooLong(t[i])}
  <2>1. /\ got[c] = SubSeq(t, from, from + L - 1) /\ Len(got[c]) = L
        /\ cut[c] = {i \in from .. from + L - 1 : TooLong(t[i])}
    BY <1>2, <1>8
  <2> HIDE DEF t, L, from, n, line, size, full
  <2>2. got'[c] = SubSeq(t, from, from + L)
    <3>1. /\ t \in Seq(Pieces) /\ from \in Nat \ {0} /\ L \in Nat /\ from + L <= Len(t)
          /\ got[c] \in Seq(Pieces) /\ Len(got[c]) = L /\ got[c] = SubSeq(t, from, from + L - 1)
      BY <1>1, <1>2, <1>4, <2>1
    <3>2. got[c] \o <<t[from + L]>> = SubSeq(t, from, from + L)
      BY <3>1, StretchIs
    <3>3. QED
      BY <1>4, <1>7, <3>2
  <2>3. from .. from + L = (from .. from + L - 1) \cup {from + L}
    <3>1. from \in Nat /\ L \in Nat
      BY <1>2
    <3>2. \A i \in Int : from <= i /\ i <= from + L <=> (from <= i /\ i <= from + L - 1) \/ i = from + L
      BY <3>1
    <3>3. QED
      BY <3>1, <3>2
  <2>4. cut'[c] = {i \in from .. from + L : TooLong(t[i])}
    BY <1>4, <1>5, <2>1, <2>3
  <2>5. QED
    BY <2>2, <2>4
<1>9. readAt'[c] = Len(log') => Lines(c)'
  <2>1. Lines(c)' <=> /\ got'[c] = SubSeq(t, from, from + Len(got'[c]) - 1)
                      /\ cut'[c] = {i \in from .. from + Len(got'[c]) - 1 : TooLong(t[i])}
    BY <1>5 DEF Lines, TextOf, Lossy, TooLong
  <2>2. from + Len(got'[c]) - 1 = from + L
    BY <1>2, <1>7
  <2>3. QED
    BY <1>5, <1>8, <2>1, <2>2
<1> HIDE DEF t, L, from, n, line, size, full
<1>10. CASE full = "no"
  <2>1. L + 1 < n /\ L + 1 < MaxLines
    BY <1>2, <1>10 DEF full, Full, n
  <2>2. ~(at'[c] < from) /\ L + 1 = at'[c] - from + 1
    BY <1>2, <1>4, <1>5
  <2>3. Streaming(c)'
    BY <1>2, <1>5, <1>6, <1>7, <1>9, <1>10, <2>1, <2>2 DEF Streaming, n, from
  <2>4. pc'[c] = "stream"
    BY <1>5, <1>10
  <2>5. QED
    BY <2>3, <2>4 DEF Streamed
<1>11. CASE full # "no"
  <2>1. /\ full \in {"nothing", "lines", "bytes"}
        /\ full = "nothing" => L + 1 >= n
        /\ full = "lines" => L + 1 >= MaxLines
        /\ full = "bytes" => L + 1 < MaxLines /\ size >= MaxBytes
    BY <1>11 DEF full, Full, n
  <2>2. /\ full = "nothing" => L + 1 = n
        /\ full = "lines" => L + 1 = MaxLines
    BY <1>2, <2>1
  <2>3. pc'[c] = "ok" /\ told'[c] = full
    BY <1>5, <1>11
  <2>4. Ended(c)'
    BY <1>5, <1>6, <1>7, <2>1, <2>2, <2>3 DEF Ended, n
  <2>5. QED
    BY <1>2, <1>5, <1>9, <2>3, <2>4 DEF Streamed
<1>12. QED
  BY <1>10, <1>11

\* A line before the offset is passed over.
LEMMA SkipIs ==
  ASSUME KeptInv, NEW c \in Readers, Streamed(c), SkipLine(c)
  PROVE  Streamed(c)'
<1>1. /\ c \in Calls /\ Form /\ Streaming(c) /\ job[c].from \in Nat /\ at[c] \in Nat
      /\ pc'[c] = "stream"
  <2>1. c \in Calls /\ Form /\ Streaming(c) /\ pc'[c] = "stream"
    BY Reached DEF Readers, SkipLine, Streamed
  <2>2. QED
    BY <2>1, ReaderIs DEF Form, Streaming
<1>2. /\ UNCHANGED <<job, file, log, readAt, got, bytes, cut, told>>
      /\ at'[c] = at[c] + 1 /\ at[c] + 1 < job[c].from
  BY <1>1 DEF SkipLine, Wanted, Form, given, fileVars, seenVars
<1>3. Lines(c)' <=> Lines(c)
  BY <1>2 DEF Lines, TextOf
<1>4. Streaming(c)'
  BY <1>1, <1>2, <1>3 DEF Streaming
<1>5. QED
  BY <1>1, <1>4 DEF Streamed

\* The other steps of a call that reads.
LEMMA ReaderSteps ==
  ASSUME KeptInv, NEW c \in Readers, Streamed(c), Reads(c)
  PROVE  Streamed(c)'
<1>1. /\ c \in Calls /\ Form /\ at[c] \in Nat /\ Len(TextOf(file)) \in Nat /\ job \in Jobs
      /\ TextOf(file) \in Seq(Pieces)
  <2>1. c \in Calls
    BY DEF Readers
  <2>2. Form /\ TextOf(file) \in Seq(Pieces)
    BY <2>1, Reached
  <2>3. QED
    BY <2>1, <2>2 DEF Form
<1>2. /\ job[c].kind \in {"read", "media"}
      /\ job[c].kind = "read" => job[c].from \in Nat \ {0} /\ job[c].n \in Nat \ {0}
  BY <1>1, ReaderIs
<1>3. CASE TakeLine(c) \/ SkipLine(c)
  BY <1>3, LineIs, SkipIs
<1>4. CASE Sniff(c)
  <2>1. /\ UNCHANGED <<job, hint, magic, file, log, got, at, told>> /\ pc[c] = "looked"
        /\ UNCHANGED <<bytes, cut>> /\ pc'[c] \in {"typed", "failed"}
        /\ pc'[c] = "typed" /\ job[c].kind = "media" => KindOf(TextOf(file)) = "image"
    BY <1>1, <1>4 DEF Sniff, Goto, Form, given, fileVars, readerVars
  <2>2. /\ got'[c] = <<>> /\ at'[c] = 0 /\ bytes'[c] = 0 /\ cut'[c] = {}
        /\ told'[c] = "nothing"
    BY <2>1 DEF Streamed
  <2>3. KindOf(TextOf(file))' = KindOf(TextOf(file))
    BY <2>1 DEF KindOf, Magic, TextOf
  <2>4. QED
    BY <2>1, <2>2, <2>3 DEF Streamed, Shown
<1>5. CASE ReadFails(c) \/ CutPanics(c)
  <2>1. pc'[c] = "failed"
    BY <1>1, <1>5 DEF ReadFails, CutPanics, Goto, Form
  <2>2. QED
    BY <2>1 DEF Streamed
<1>6. CASE Measure(c)
  <2>1. /\ UNCHANGED <<job, hint, magic, file, log, readAt>> /\ pc[c] = "typed"
        /\ job[c].kind = "media" /\ pc'[c] \in {"sized", "failed"}
        /\ pc'[c] = "sized" => at'[c] = Len(TextOf(file)) /\ Len(TextOf(file)) \in 1 .. MaxSize
    BY <1>1, <1>6 DEF Measure, Goto, Form, given, fileVars, seenVars
  <2>2. Shown(c)' <=> Shown(c)
    BY <2>1 DEF Shown, KindOf, Magic, TextOf
  <2>3. TextOf(file)' = TextOf(file) /\ MaxSize \in Nat
    BY <2>1, FileToolsAssumption DEF TextOf
  <2>4. QED
    BY <1>1, <2>1, <2>2, <2>3 DEF Streamed
<1>7. CASE LoadMedia(c)
  <2>1. /\ UNCHANGED <<job, hint, magic, file, log, readAt, at>> /\ pc[c] = "sized"
        /\ pc'[c] = "ok" /\ got'[c] = TextOf(file) /\ job[c].kind = "media"
    BY <1>1, <1>7 DEF LoadMedia, Goto, Form, given, fileVars, seenVars, Streamed
  <2>2. /\ TextOf(file)' = TextOf(file) /\ KindOf(got[c])' = KindOf(TextOf(file))
    BY <2>1 DEF TextOf, KindOf, Magic
  <2>3. QED
    BY <2>1, <2>2 DEF Streamed, Shown
<1>8. CASE OpenStream(c)
  <2>1. /\ UNCHANGED <<job, file, log, readAt, got, at, bytes, cut, told>> /\ pc[c] = "typed"
        /\ pc'[c] = "stream" /\ job[c].kind = "read"
    BY <1>1, <1>8 DEF OpenStream, Goto, Form, given, fileVars, seenVars, readerVars
  <2>2. /\ got[c] = <<>> /\ at[c] = 0 /\ bytes[c] = 0 /\ cut[c] = {} /\ told[c] = "nothing"
        /\ Len(got[c]) = 0
    BY <2>1 DEF Streamed
  <2>3. /\ job[c].from \in Nat \ {0} /\ job[c].n \in Nat \ {0}
        /\ MaxLines \in Nat \ {0} /\ MaxLength \in Nat
    BY <1>2, <2>1, FileToolsAssumption
  <2>4. /\ SubSeq(Lossy(TextOf(file)), job[c].from, job[c].from + 0 - 1) = <<>>
        /\ job[c].from .. job[c].from + 0 - 1 = {}
    BY <1>1, <2>3, LossyIs
  <2>5. Lines(c)'
    BY <2>1, <2>2, <2>4 DEF Lines, TextOf
  <2>6. Streaming(c)'
    BY <2>1, <2>2, <2>3, <2>5 DEF Streaming
  <2>7. QED
    BY <2>1, <2>6 DEF Streamed
<1>9. CASE StreamEnds(c)
  <2>1. /\ UNCHANGED <<job, file, log, readAt, got, at, bytes, cut>> /\ pc[c] = "stream"
        /\ pc'[c] = "ok" /\ told'[c] = "end" /\ NextLine(c) = <<>>
    BY <1>1, <1>9 DEF StreamEnds, Goto, Form, given, fileVars, seenVars
  <2>2. Streaming(c) /\ at[c] >= Len(TextOf(file)) /\ job[c].kind = "read"
    BY <1>1, <2>1, NextOf DEF Streamed, Streaming
  <2>3. job[c].from + Len(got[c]) - 1 >= Len(TextOf(file))
    <3>1. CASE at[c] < job[c].from
      <4>1. Len(got[c]) = 0
        BY <2>2, <3>1 DEF Streaming
      <4>2. QED
        BY <1>1, <1>2, <2>2, <3>1, <4>1
    <3>2. CASE ~(at[c] < job[c].from)
      <4>1. Len(got[c]) = at[c] - job[c].from + 1
        BY <2>2, <3>2 DEF Streaming
      <4>2. QED
        BY <1>1, <1>2, <2>2, <4>1
    <3>3. QED
      BY <3>1, <3>2
  <2>4. Lines(c)' <=> Lines(c)
    BY <2>1 DEF Lines, TextOf
  <2>5. Ended(c)'
    BY <2>1, <2>3 DEF Ended, TextOf
  <2>6. QED
    BY <2>1, <2>2, <2>4, <2>5 DEF Streamed, Streaming
<1>10. QED
  BY <1>3, <1>4, <1>5, <1>6, <1>7, <1>8, <1>9 DEF Reads

\* What the log says of another call, or of one that is at rest.
LEMMA TracedStays ==
  ASSUME Form, Logged, NEW x \in Calls, Writes(x), NEW c \in Changers, Traced(c),
         Steps(c)' = Steps(c), UNCHANGED job, pc'[c] = pc[c], new'[c] = new[c],
         c \in inflight' <=> c \in inflight, Kept(c)' => Kept(c)
  PROVE  Traced(c)'
<1>1. \A i \in DOMAIN log : i \in DOMAIN log' /\ log'[i] = log[i]
  <2>1. CASE UNCHANGED fileVars
    BY <2>1 DEF fileVars
  <2>2. CASE \E f \in Seq(Pieces) \cup {Missing} : Become(x, f)
    BY <2>2, LogGrows
  <2>3. QED
    BY <2>1, <2>2 DEF Writes
<1>2. \A k \in DOMAIN log : /\ k \in DOMAIN log'
                            /\ Emptied(c, k) => Emptied(c, k)'
                            /\ Created(c, k) => Created(c, k)'
                            /\ Added(c, k) => Added(c, k)'
  BY <1>1 DEF Emptied, Created, Added, TextOf
<1>3. \A m \in DOMAIN log : m - 1 \in DOMAIN log /\ Filled(c, m) => Filled(c, m)'
  BY <1>1 DEF Filled, TextOf
<1>4. ASSUME Did(c) PROVE Did(c)'
  <2>1. CASE job[c].kind = "append"
    BY <1>2, <1>4, <2>1 DEF Did
  <2>2. CASE job[c].kind # "append"
    <3>1. PICK k, m \in DOMAIN log :
            k < m /\ Steps(c) = {k, m} /\ Emptied(c, k) /\ Filled(c, m)
      BY <1>4, <2>2 DEF Did
    <3>2. m - 1 \in DOMAIN log
      <4>1. DOMAIN log = 1 .. Len(log) /\ Len(log) \in Nat
        BY DEF Form
      <4>2. QED
        BY <3>1, <4>1
    <3>3. QED
      BY <1>2, <1>3, <2>2, <3>1, <3>2 DEF Did
  <2>3. QED
    BY <2>1, <2>2
<1>5. QED
  BY <1>2, <1>4 DEF Traced

\* A step of a call that changes the file is its own.
LEMMA ChangeMoves ==
  ASSUME KeptInv, NEW x \in Calls, Change(x)
  PROVE  /\ Writes(x) /\ UNCHANGED <<job, hint, magic, readerVars>>
         /\ \A y \in Calls \ {x} :
              /\ pc'[y] = pc[y] /\ new'[y] = new[y] /\ readAt'[y] = readAt[y]
              /\ y \in inflight' <=> y \in inflight
              /\ y \in dropped' <=> y \in dropped
<1>1. Form
  BY Reached
<1>2. UNCHANGED <<job, hint, magic, readerVars>>
  BY DEF Change, Refuse, Look, ReadOld, ReadOldFails, Approve, Reject, Open, Fill, WriteFails,
         AppendRemote, AppendLocal, Land, given, readerVars
<1>3. \A y \in Calls \ {x} : pc'[y] = pc[y]
  BY <1>1 DEF Change, Refuse, Look, ReadOld, ReadOldFails, Approve, Reject, Open, Fill,
              WriteFails, AppendRemote, AppendLocal, Land, Goto, Propose, Form
<1>4. \A y \in Calls \ {x} : new'[y] = new[y] /\ readAt'[y] = readAt[y]
  BY <1>1 DEF Change, Refuse, Look, ReadOld, ReadOldFails, Approve, Reject, Open, Fill,
              WriteFails, AppendRemote, AppendLocal, Land, Propose, Form, seenVars
<1>5. \A y \in Calls \ {x} : (y \in inflight' <=> y \in inflight)
                             /\ (y \in dropped' <=> y \in dropped)
  BY DEF Change, Refuse, Look, ReadOld, ReadOldFails, Approve, Reject, Open, Fill, WriteFails,
         AppendRemote, AppendLocal, Land
<1>6. Writes(x)
  <2>1. CASE UNCHANGED fileVars
    BY <2>1 DEF Writes
  <2>2. CASE Open(x) \/ (AppendLocal(x) /\ ~UNCHANGED fileVars)
    <3>1. Become(x, <<>>) /\ <<>> \in Seq(Pieces)
      BY <2>2 DEF Open, AppendLocal
    <3>2. QED
      BY <3>1 DEF Writes
  <2>3. CASE Fill(x)
    <3>1. new[x] \in Seq(Pieces) /\ TextOf(file) \in Seq(Pieces)
      BY <1>1, Reached DEF Form
    <3>2. QED
      BY <2>3, <3>1, FilledIs DEF Fill, Writes
  <2>4. CASE AppendRemote(x) \/ (Land(x) /\ ~UNCHANGED fileVars)
    <3>1. Become(x, Append(TextOf(file), x)) /\ Append(TextOf(file), x) \in Seq(Pieces)
      BY <2>4, Reached, AppendedIs DEF AppendRemote, Land
    <3>2. QED
      BY <3>1 DEF Writes
  <2>5. QED
    BY <2>1, <2>2, <2>3, <2>4
       DEF Change, Refuse, Look, ReadOld, ReadOldFails, Approve, Reject, WriteFails
<1>7. QED
  BY <1>2, <1>3, <1>4, <1>5, <1>6

\* The step that is new in the log, and what was there before it.
LEMMA NewStep ==
  ASSUME KeptInv, NEW x \in Calls, NEW f \in Seq(Pieces), Become(x, f)
  PROVE  LET m == Len(log) + 1
         IN /\ m \in DOMAIN log' /\ m - 1 \in DOMAIN log' /\ log'[m].text = f
            /\ log'[m - 1].text = file /\ Steps(x)' = Steps(x) \cup {m}
            /\ \A k \in DOMAIN log : k < m /\ k \in DOMAIN log'
            /\ \A k \in DOMAIN log : Emptied(x, k) => Emptied(x, k)'
            /\ \A k \in DOMAIN log : Created(x, k) => Created(x, k)'
<1> DEFINE m == Len(log) + 1
<1>1. Form /\ Logged
  BY Reached
<1>2. /\ Len(log') = m /\ Len(log) \in Nat /\ Len(log) > 0
      /\ DOMAIN log = 1 .. Len(log) /\ DOMAIN log' = 1 .. m
      /\ log'[m].text = f /\ Steps(x)' = Steps(x) \cup {m}
      /\ \A i \in DOMAIN log : log'[i] = log[i]
  <2>1. /\ log' \in Seq([by : Pieces, text : Seq(Pieces) \cup {Missing}])
        /\ Len(log') = Len(log) + 1 /\ Len(log) \in Nat /\ log'[Len(log')].text = f
        /\ Steps(x)' = Steps(x) \cup {Len(log) + 1}
        /\ \A i \in DOMAIN log : log'[i] = log[i]
    BY <1>1, LogGrows
  <2>2. DOMAIN log = 1 .. Len(log) /\ Len(log) > 0 /\ DOMAIN log' = 1 .. Len(log')
    BY <1>1, <2>1 DEF Form, Logged
  <2>3. QED
    BY <2>1, <2>2
<1>3. log[Len(log)].text = file
  BY <1>1 DEF Logged
<1>4. /\ m \in DOMAIN log' /\ m - 1 \in DOMAIN log' /\ m - 1 = Len(log) /\ m - 1 \in DOMAIN log
      /\ \A k \in DOMAIN log : k < m /\ k \in DOMAIN log'
  BY <1>2
<1>5. log'[m - 1].text = file
  BY <1>2, <1>3, <1>4
<1>6. \A k \in DOMAIN log : /\ Emptied(x, k) => Emptied(x, k)'
                            /\ Created(x, k) => Created(x, k)'
  BY <1>2, <1>4 DEF Emptied, Created
<1>7. QED
  BY <1>2, <1>4, <1>5, <1>6

LEMMA OwnTraced ==
  ASSUME KeptInv, NEW x \in Changers, Traced(x), Change(x)
  PROVE  Traced(x)'
<1>1. x \in Calls /\ Form /\ Logged /\ Staged(x) /\ TextOf(file) \in Seq(Pieces)
  BY Reached DEF Changers
<1>2. UNCHANGED job
  BY <1>1, ChangeMoves
<1>3. PICK m \in Nat : m = Len(log) + 1
  BY <1>1 DEF Form
<1>4. CASE Refuse(x) \/ Look(x) \/ ReadOld(x) \/ ReadOldFails(x) \/ Approve(x) \/ Reject(x)
           \/ WriteFails(x)
  <2>1. pc'[x] \notin {"fill", "ok"} /\ inflight' = inflight /\ pc[x] # "ok"
    BY <1>1, <1>4 DEF Refuse, Look, ReadOld, ReadOldFails, Approve, Reject, WriteFails, Goto,
                      Propose, Form
  <2>2. x \notin inflight
    BY <1>1, <2>1 DEF Staged
  <2>3. QED
    BY <2>1, <2>2 DEF Traced, Kept
<1>5. CASE Open(x)
  <2>1. /\ Become(x, <<>>) /\ pc'[x] = "fill" /\ pc[x] = "write" /\ inflight' = inflight
        /\ job[x].kind # "append" /\ <<>> \in Seq(Pieces)
    BY <1>1, <1>5 DEF Open, Goto, Form
  <2>2. Steps(x) = {} /\ x \notin inflight'
    BY <1>1, <2>1 DEF Staged
  <2>3. m \in DOMAIN log' /\ log'[m].text = <<>> /\ Steps(x)' = Steps(x) \cup {m}
    BY <1>1, <2>1, <1>3, NewStep
  <2>4. Steps(x)' = {m} /\ Emptied(x, m)'
    BY <2>2, <2>3 DEF Emptied
  <2>5. QED
    BY <1>2, <2>1, <2>2, <2>3, <2>4 DEF Traced, Kept
<1>6. CASE Fill(x)
  <2> DEFINE old == TextOf(file)
             f == new[x] \o SubSeq(old, Len(new[x]) + 1, Len(old))
  <2>1. /\ Become(x, f) /\ pc'[x] = "ok" /\ pc[x] = "fill" /\ inflight' = inflight
        /\ new' = new
    BY <1>1, <1>6 DEF Fill, Goto, Form, seenVars
  <2>2. f \in Seq(Pieces)
    <3>1. new[x] \in Seq(Pieces)
      BY <1>1 DEF Form
    <3>2. QED
      BY <1>1, <3>1, FilledIs
  <2>3. /\ m \in DOMAIN log' /\ log'[m].text = f /\ log'[m - 1].text = file
        /\ Steps(x)' = Steps(x) \cup {m}
        /\ \A k \in DOMAIN log : k < m /\ k \in DOMAIN log'
        /\ \A k \in DOMAIN log : Emptied(x, k) => Emptied(x, k)'
    BY <1>1, <2>1, <2>2, <1>3, NewStep
  <2>4. Filled(x, m)'
    BY <2>1, <2>3 DEF Filled, TextOf
  <2> HIDE DEF f
  <2>5. PICK k \in DOMAIN log : Steps(x) = {k} /\ Emptied(x, k)
    BY <2>1 DEF Traced
  <2>6. Steps(x)' = {k, m} /\ Emptied(x, k)' /\ k < m /\ k \in DOMAIN log'
    BY <2>3, <2>5
  <2>7. job'[x].kind # "append" /\ x \notin inflight'
    BY <1>1, <1>2, <2>1 DEF Traced, Staged
  <2>8. Did(x)'
    BY <2>3, <2>4, <2>6, <2>7 DEF Did
  <2>9. QED
    BY <2>1, <2>7, <2>8 DEF Traced
<1>7. CASE AppendLocal(x)
  <2>1. /\ pc'[x] = "ok" /\ pc[x] = "write" /\ x \in inflight' /\ job[x].kind = "append"
        /\ IF file = Missing THEN Become(x, <<>>) ELSE UNCHANGED fileVars
    BY <1>1, <1>7 DEF AppendLocal, Goto, Form
  <2>2. Steps(x) = {}
    BY <1>1, <2>1 DEF Staged
  <2>3. CASE file = Missing
    <3>1. /\ m \in DOMAIN log' /\ m - 1 \in DOMAIN log' /\ log'[m].text = <<>>
          /\ log'[m - 1].text = Missing /\ Steps(x)' = Steps(x) \cup {m}
      <4>1. <<>> \in Seq(Pieces)
        OBVIOUS
      <4>2. QED
        BY <1>1, <2>1, <2>3, <4>1, <1>3, NewStep
    <3>2. Steps(x)' = {m} /\ Created(x, m)'
      BY <2>2, <3>1 DEF Created
    <3>3. QED
      BY <1>2, <2>1, <3>1, <3>2 DEF Traced, Kept
  <2>4. CASE file # Missing
    <3>1. Steps(x)' = {}
      BY <1>1, <2>1, <2>2, <2>4, LogRests DEF fileVars
    <3>2. QED
      BY <1>2, <2>1, <3>1 DEF Traced, Kept
  <2>5. QED
    BY <2>3, <2>4
<1>8. CASE (AppendRemote(x) \/ Land(x)) /\ Become(x, Append(TextOf(file), x))
  <2>1. /\ Append(TextOf(file), x) \in Seq(Pieces) /\ x \notin inflight'
        /\ pc'[x] = "ok"
    <3>1. CASE AppendRemote(x)
      BY <1>1, <1>8, <3>1, AppendedIs DEF AppendRemote, Goto, Form, Staged
    <3>2. CASE Land(x)
      BY <1>1, <1>8, <3>2, AppendedIs DEF Land, Staged
    <3>3. QED
      BY <1>8, <3>1, <3>2
  <2>2. /\ m \in DOMAIN log' /\ m - 1 \in DOMAIN log'
        /\ log'[m].text = Append(TextOf(file), x) /\ log'[m - 1].text = file
        /\ Steps(x)' = Steps(x) \cup {m}
        /\ \A k \in DOMAIN log : k < m /\ k \in DOMAIN log'
        /\ \A k \in DOMAIN log : Created(x, k) => Created(x, k)'
    BY <1>1, <1>8, <2>1, <1>3, NewStep
  <2>3. Added(x, m)'
    BY <2>2 DEF Added, TextOf
  <2>4. /\ job[x].kind = "append"
        /\ Steps(x) = {} \/ \E k \in DOMAIN log : Steps(x) = {k} /\ Created(x, k)
    <3>1. CASE AppendRemote(x)
      BY <1>1, <3>1 DEF AppendRemote, Staged
    <3>2. CASE Land(x)
      BY <3>2 DEF Land, Traced
    <3>3. QED
      BY <1>8, <3>1, <3>2
  <2>5. \/ Steps(x)' = {m}
        \/ \E k \in DOMAIN log' : k < m /\ Steps(x)' = {k, m} /\ Created(x, k)'
    <3>1. CASE Steps(x) = {}
      BY <2>2, <3>1
    <3>2. CASE Steps(x) # {}
      <4>1. PICK k \in DOMAIN log : Steps(x) = {k} /\ Created(x, k)
        BY <2>4, <3>2
      <4>2. Steps(x)' = {k, m} /\ k < m /\ k \in DOMAIN log' /\ Created(x, k)'
        BY <2>2, <4>1
      <4>3. QED
        BY <4>2
    <3>3. QED
      BY <3>1, <3>2
  <2>6. Did(x)'
    BY <1>2, <2>2, <2>3, <2>4, <2>5 DEF Did
  <2>7. QED
    BY <2>1, <2>6 DEF Traced
<1>9. CASE Land(x) /\ ~Become(x, Append(TextOf(file), x))
  <2>1. x \in dropped' /\ x \notin inflight' /\ pc'[x] = "ok"
    BY <1>1, <1>9 DEF Land, Staged
  <2>2. QED
    BY <2>1 DEF Traced, Kept
<1>10. QED
  BY <1>4, <1>5, <1>6, <1>7, <1>8, <1>9 DEF Change, AppendRemote


LEMMA ToldStep ==
  ASSUME KeptInv, ToldInv, [FileNext]_allVars
  PROVE  ToldInv'
<1>1. Form /\ Logged
  BY DEF KeptInv
<1>2. CASE UNCHANGED allVars
  <2>1. /\ UNCHANGED <<job, hint, magic, file, pc, new, got, at, bytes, cut, told>>
        /\ UNCHANGED <<inflight, dropped, log, readAt>>
    BY <1>2 DEF allVars, given, readerVars
  <2>2. Changers' = Changers /\ Readers' = Readers
    BY <2>1 DEF Changers, Readers
  <2>3. \A c : Traced(c)' = Traced(c)
    BY <2>1 DEF Traced, Kept, Did, Added, Filled, Emptied, Created, Steps, TextOf
  <2>4. \A c : Streamed(c)' = Streamed(c)
    BY <2>1 DEF Streamed, Streaming, Ended, Shown, Lines, KindOf, Magic, TextOf
  <2>5. QED
    BY <2>2, <2>3, <2>4 DEF ToldInv
<1>3. ASSUME NEW x \in Calls, Change(x) PROVE ToldInv'
  <2>1. /\ Writes(x) /\ UNCHANGED <<job, hint, magic, readerVars>>
        /\ \A y \in Calls \ {x} :
             /\ pc'[y] = pc[y] /\ new'[y] = new[y] /\ readAt'[y] = readAt[y]
             /\ y \in inflight' <=> y \in inflight
             /\ y \in dropped' <=> y \in dropped
    BY <1>3, ChangeMoves
  <2>2. Changers' = Changers /\ Readers' = Readers
    BY <2>1 DEF Changers, Readers
  <2>3. ASSUME NEW c \in Changers PROVE Traced(c)'
    <3>1. CASE c = x
      BY <1>3, <3>1, OwnTraced DEF ToldInv
    <3>2. CASE c # x
      <4>1. c \in Calls \ {x} /\ Traced(c)
        BY <3>2 DEF Changers, ToldInv
      <4>2. Steps(c)' = Steps(c) /\ (Kept(c)' => Kept(c))
        BY <1>1, <2>1, <4>1, StepsMove DEF Kept
      <4>3. QED
        BY <1>1, <2>1, <4>1, <4>2, TracedStays
    <3>3. QED
      BY <3>1, <3>2
  <2>4. ASSUME NEW c \in Readers PROVE Streamed(c)'
    <3>1. CASE c # x
      <4>1. c \in Calls \ {x} /\ Streamed(c)
        BY <3>1 DEF Readers, ToldInv
      <4>2. QED
        BY <2>1, <4>1, StreamedStays DEF readerVars
    <3>2. CASE c = x
      <4>1. x \notin Changers /\ Staged(x) /\ Streamed(x)
        BY <3>2, Reached DEF Readers, ToldInv
      <4>2. Refuse(x) \/ Look(x)
        BY <1>3, <4>1 DEF Change, ReadOld, ReadOldFails, Approve, Reject, Open, Fill, WriteFails,
                          AppendRemote, AppendLocal, Land, Staged
      <4>3. pc[x] = "idle" /\ pc'[x] \in {"looked", "failed"}
        BY <1>1, <4>2 DEF Refuse, Look, Goto, Form
      <4>4. QED
        BY <2>1, <3>2, <4>1, <4>3 DEF Streamed, readerVars
    <3>3. QED
      BY <3>1, <3>2
  <2>5. QED
    BY <2>2, <2>3, <2>4 DEF ToldInv
<1>4. ASSUME NEW x \in Calls, Reads(x) PROVE ToldInv'
  <2>1. /\ UNCHANGED <<job, hint, magic, fileVars, new, inflight, dropped>>
        /\ \A y \in Calls \ {x} : /\ pc'[y] = pc[y] /\ readAt'[y] = readAt[y]
                                  /\ got'[y] = got[y] /\ at'[y] = at[y] /\ told'[y] = told[y]
                                  /\ bytes'[y] = bytes[y] /\ cut'[y] = cut[y]
        /\ x \in Readers
    BY <1>4, Reached, ReadsForm
  <2>2. Changers' = Changers /\ Readers' = Readers /\ Writes(x)
    BY <2>1 DEF Changers, Readers, Writes
  <2>3. ASSUME NEW c \in Changers PROVE Traced(c)'
    <3>1. c \in Calls \ {x} /\ Traced(c)
      BY <2>1 DEF Changers, Readers, ToldInv
    <3>2. Steps(c)' = Steps(c) /\ (Kept(c)' => Kept(c))
      BY <1>1, <2>1, <2>2, <3>1, StepsMove DEF Kept
    <3>3. QED
      BY <1>1, <2>1, <2>2, <3>1, <3>2, TracedStays
  <2>4. ASSUME NEW c \in Readers PROVE Streamed(c)'
    <3>1. CASE c # x
      <4>1. c \in Calls \ {x} /\ Streamed(c)
        BY <3>1 DEF Readers, ToldInv
      <4>2. QED
        BY <2>1, <2>2, <4>1, StreamedStays
    <3>2. CASE c = x
      BY <1>4, <3>2, ReaderSteps DEF ToldInv
    <3>3. QED
      BY <3>1, <3>2
  <2>5. QED
    BY <2>2, <2>3, <2>4 DEF ToldInv
<1>5. QED
  BY <1>2, <1>3, <1>4 DEF FileNext, Reads, ReadMediaFile, ReadFile

\* In every state: what the log says of each changer's steps, and what each
\* reader has read as long as nobody changes the file.
THEOREM ToldSpec == FileSpec => []ToldInv
<1>1. FileInit => ToldInv
  <2>1. SUFFICES ASSUME FileInit PROVE ToldInv
    OBVIOUS
  <2>2. ASSUME NEW c \in Changers PROVE Traced(c)
    BY <2>1 DEF FileInit, Changers, Traced, Kept
  <2>3. ASSUME NEW c \in Readers PROVE Streamed(c)
    BY <2>1 DEF FileInit, Readers, Streamed
  <2>4. QED
    BY <2>2, <2>3 DEF ToldInv
<1>2. QED
  BY <1>1, ToldStep, KeptSpec, PTL DEF FileSpec

\* An edit that nobody got into leaves what it said.
LEMMA DidAsSaid ==
  ASSUME KeptInv, NEW c \in Changers, Kept(c), Did(c), NEW first \in Steps(c),
         NEW last \in Steps(c), \A i \in Steps(c) : first <= i /\ i <= last,
         \A i \in first .. last : log[i].by = c
  PROVE  log[last].text = IF job[c].kind = "append" THEN Append(TextOf(log[first - 1].text), c)
                          ELSE new[c]
<1>1. /\ c \in Calls /\ new[c] = Edited(c, seen[c]) /\ new[c] \in Seq(Pieces)
      /\ DOMAIN log = 1 .. Len(log) /\ Len(log) \in Nat /\ Steps(c) \subseteq DOMAIN log
      /\ first \in Nat /\ last \in Nat
  <2>1. c \in Calls /\ Form /\ Staged(c)
    BY Reached DEF Changers
  <2>2. new[c] = Edited(c, seen[c]) /\ new[c] \in Seq(Pieces)
    BY <2>1 DEF Staged, Kept, Form
  <2>3. DOMAIN log = 1 .. Len(log) /\ Len(log) \in Nat /\ Steps(c) \subseteq DOMAIN log
    BY <2>1 DEF Form, Steps
  <2>4. QED
    BY <2>1, <2>2, <2>3
<1>2. \A k, m \in DOMAIN log : k < m /\ Steps(c) = {k, m} => k = first /\ m = last /\ m = k + 1
  <2>1. SUFFICES ASSUME NEW k \in DOMAIN log, NEW m \in DOMAIN log, k < m, Steps(c) = {k, m}
                 PROVE  k = first /\ m = last /\ m = k + 1
    OBVIOUS
  <2>2. k = first /\ m = last
    BY <1>1, <2>1
  <2>3. k + 1 \in first .. last
    BY <1>1, <2>1, <2>2
  <2>4. k + 1 \in Steps(c)
    BY <1>1, <2>1, <2>2, <2>3 DEF Steps
  <2>5. QED
    BY <1>1, <2>1, <2>2, <2>4
<1>3. CASE job[c].kind = "append"
  <2>2. PICK m \in DOMAIN log :
          /\ Added(c, m)
          /\ \/ Steps(c) = {m}
             \/ \E k \in DOMAIN log : k < m /\ Steps(c) = {k, m} /\ Created(c, k)
    BY <1>3 DEF Did
  <2>3. CASE Steps(c) = {m}
    <3>1. m = first /\ m = last
      BY <2>3
    <3>2. QED
      BY <1>3, <2>2, <3>1 DEF Added
  <2>4. CASE Steps(c) # {m}
    <3>1. PICK k \in DOMAIN log : k < m /\ Steps(c) = {k, m} /\ Created(c, k)
      BY <2>2, <2>4
    <3>2. k = first /\ m = last /\ m - 1 = k
      BY <1>1, <1>2, <3>1
    <3>3. TextOf(log[m - 1].text) = <<>> /\ TextOf(log[first - 1].text) = <<>>
      <4>1. log[k].text = <<>> /\ log[k - 1].text = Missing
        BY <3>1 DEF Created
      <4>2. QED
        BY <3>2, <4>1 DEF TextOf
    <3>4. QED
      BY <1>3, <2>2, <3>2, <3>3 DEF Added
  <2>5. QED
    BY <2>3, <2>4
<1>4. CASE job[c].kind # "append"
  <2>1. PICK k, m \in DOMAIN log :
          k < m /\ Steps(c) = {k, m} /\ Emptied(c, k) /\ Filled(c, m)
    BY <1>4 DEF Did
  <2>2. m = last /\ m - 1 = k
    BY <1>1, <1>2, <2>1
  <2>3. TextOf(log[m - 1].text) = <<>>
    BY <2>1, <2>2 DEF Emptied, TextOf
  <2>4. log[m].text = new[c] \o SubSeq(<<>>, Len(new[c]) + 1, Len(<<>>))
    BY <2>1, <2>3 DEF Filled
  <2>5. new[c] \o SubSeq(<<>>, Len(new[c]) + 1, Len(<<>>)) = new[c]
    <3>1. Len(<<>>) = 0 /\ Len(new[c]) \in Nat /\ <<>> \in Seq(Pieces)
      BY <1>1
    <3>2. SubSeq(<<>>, Len(new[c]) + 1, Len(<<>>)) = <<>>
      BY <3>1
    <3>3. new[c] \o <<>> = new[c]
      BY <1>1
    <3>4. QED
      BY <3>2, <3>3
  <2>6. QED
    BY <1>4, <2>2, <2>4, <2>5
<1>5. QED
  BY <1>3, <1>4

\* What a file tool tells its client of its call is so, if nobody got between:
\* an edit left the text that it had shown, an append the bytes that were there
\* and its own; a reader returned the lines that it was asked for, up to a limit
\* that it names, or all of the image. (replace.rs:153-180, read.rs:165-239,
\* read_media.rs:62-114)
THEOREM FilesStayTrue == FileSpec => []FilesAreAsTold
<1>1. ASSUME KeptInv, ToldInv PROVE ApprovedIsDone
  <2>1. SUFFICES ASSUME NEW c \in Changers, pc[c] = "ok", Steps(c) # {},
                        c \notin inflight \cup dropped
                 PROVE  LET last == LastStep(c)
                            first == CHOOSE i \in Steps(c) : \A j \in Steps(c) : i <= j
                            old == TextOf(log[first - 1].text)
                        IN (\A i \in first .. last : log[i].by = c) /\ Lossy(old) = seen[c]
                             => log[last].text = IF job[c].kind = "append" THEN Append(old, c)
                                                 ELSE new[c]
    BY DEF ApprovedIsDone
  <2>2. c \in Calls /\ Logged /\ Form
    BY <1>1, Reached DEF Changers
  <2>3. LastStep(c) \in Steps(c) /\ \A i \in Steps(c) : i <= LastStep(c)
    BY <2>1, <2>2 DEF Logged
  <2>4. Kept(c) /\ Did(c)
    BY <1>1, <2>1 DEF Kept, ToldInv, Traced
  <2>5. \E i \in Steps(c) : \A j \in Steps(c) : i <= j
    <3>1. DOMAIN log \subseteq Nat
      BY <2>2 DEF Form
    <3>2. PICK k, m \in DOMAIN log : Steps(c) = {k, m}
      BY <2>4 DEF Did
    <3>3. k \in Nat /\ m \in Nat
      BY <3>1
    <3>4. QED
      BY <3>2, <3>3
  <2>6. PICK first \in Steps(c) : /\ \A j \in Steps(c) : first <= j
                                  /\ first = CHOOSE i \in Steps(c) : \A j \in Steps(c) : i <= j
    BY <2>5
  <2>7. QED
    BY <1>1, <2>3, <2>4, <2>6, DidAsSaid
<1>2. ASSUME KeptInv, ToldInv PROVE ReadIsTrue
  <2>1. \A c \in Readers : job[c].kind = "read" /\ pc[c] = "ok" /\ readAt[c] = Len(log) =>
                             Lines(c) /\ Ended(c)
    BY <1>2 DEF ToldInv, Streamed
  <2>2. QED
    BY <2>1 DEF ReadIsTrue, Lines, Ended
<1>3. ASSUME KeptInv, ToldInv PROVE MediaIsTrue
  BY <1>3 DEF ToldInv, Streamed, MediaIsTrue
<1>4. KeptInv /\ ToldInv => FilesAreAsTold
  BY <1>1, <1>2, <1>3 DEF FilesAreAsTold
<1>5. QED
  BY <1>4, KeptSpec, ToldSpec, PTL

-----------------------------------------------------------------------------
(* Approval: the requests of the tools, and their answers.                  *)

USE ApprovalAssumption DEF ApprovalAssumption, Pipers, Responses, Awaiting, Waiting

\* One step of any task keeps the types.
LEMMA TypeStep == TypeOK /\ [Next]_vars => TypeOK'
<1> SUFFICES ASSUME TypeOK, [Next]_vars PROVE TypeOK'
  OBVIOUS
<1> USE DEF TypeOK, settings, toolVars, pipeVars, turnVars
<1>1. CASE Turn
  <2>1. CASE BeginTurn \/ EndTurn \/ Cancel
    BY <2>1 DEF BeginTurn, EndTurn, Cancel
  <2>4. CASE ToggleYolo
    BY <2>4 DEF ToggleYolo
  <2>2. CASE BeginStep
    <3>1. steps + 1 \in Pipers /\ steps' \in 0 .. MaxSteps
      BY <2>2 DEF BeginStep
    <3>2. piper' \in [Pipers -> {"unborn", "fetch", "recv", "dead"} \cup Awaiting]
      BY <2>2, <3>1 DEF BeginStep
    <3>3. piperTurn' \in [Pipers -> 0 .. MaxTurns]
      BY <2>2, <3>1 DEF BeginStep
    <3>4. phase' = "running"
      BY <2>2 DEF BeginStep
    <3>5. UNCHANGED <<settings, toolVars, req, reply, shown, aborted, holder, turn,
                      queue, registered, said>>
      BY <2>2 DEF BeginStep
    <3>6. QED
      BY <3>1, <3>2, <3>3, <3>4, <3>5
  <2>3. CASE EndStep \/ StepStopped
    BY <2>3 DEF EndStep, StepStopped
  <2>5. QED
    BY <1>1, <2>1, <2>2, <2>3, <2>4 DEF Turn
<1>2. ASSUME NEW r \in Requests, SpawnTool(r) \/ Ask(r) PROVE TypeOK'
  <2>1. CASE SpawnTool(r)
    BY <2>1 DEF SpawnTool
  <2>2. CASE Skip(r)
    BY <2>2 DEF Skip
  <2>3. CASE Put(r)
    BY <2>3 DEF Put
  <2>4. CASE Conclude(r)
    BY <2>4 DEF Conclude
  <2>5. QED
    BY <1>2, <2>1, <2>2, <2>3, <2>4 DEF Ask, Register, FindUnset, FallAsleep
<1>3. ASSUME NEW p \in Pipers, Pipe(p) PROVE TypeOK'
  <2>1. CASE AutoApprove(p)
    BY <2>1 DEF AutoApprove, Resolve
  <2>2. CASE Forward(p)
    <3>1. PICK r \in Requests : r = Head(queue)
      BY <2>2 DEF Forward
    <3>2. Tail(queue) \in Seq(Requests)
      BY <2>2 DEF Forward
    <3>3. QED
      BY <2>2, <3>1, <3>2, SMTT(30) DEF Forward
  <2>3. CASE Relay(p)
    BY <2>3, SMTT(30) DEF Relay, Resolve
  <2>4. CASE Lock(p)
    BY <2>4 DEF Lock
  <2>5. CASE Die(p)
    BY <2>5 DEF Die
  <2>6. QED
    BY <1>3, <2>1, <2>2, <2>3, <2>4, <2>5 DEF Pipe, FindNoReply, AwaitReply
<1>4. ASSUME NEW p \in Pipers, NEW response \in Answers, Answer(p, response)
      PROVE  TypeOK'
  BY <1>4 DEF Answer
<1>5. ASSUME NEW a \in Actions, SubagentApproves(a) PROVE TypeOK'
  BY <1>5 DEF SubagentApproves
<1>6. CASE UNCHANGED vars
  BY <1>6 DEF vars
<1>7. QED
  BY <1>1, <1>2, <1>3, <1>4, <1>5, <1>6 DEF Next

LEMMA InitTypeOK == Init => TypeOK
  BY DEF Init, TypeOK

\* The types of the variables are kept by every step of every task.
THEOREM TypeCorrect == Spec => []TypeOK
  BY InitTypeOK, TypeStep, PTL DEF Spec

-----------------------------------------------------------------------------
\* What the client allowed for r: an answer to r itself, or one for its action.
Granted(r) ==
  \/ said[r] \cap {"approve", "approve_for_session"} # {}
  \/ action[r] \in SessionGrants

\* Every copy of an answer, on its way from the client to the verdict, stands
\* for one that the client gave; so does every auto-approved action.
GrantInv ==
  /\ autoApprove \subseteq SessionGrants
  /\ \A p \in Pipers : reply[p] # Unset => req[p] \in Requests /\ reply[p] \in said[req[p]]
  /\ \A r \in Requests :
       /\ value[r] \in {"approve", "approve_for_session"} => Granted(r)
       /\ value[r] = "approve_for_session" => action[r] \in SessionGrants
       /\ value[r] = "reject" => "reject" \in said[r]

\* Only Forward gives a piping task a request, and it is one from the queue.
HeldInv == \A p \in Pipers : piper[p] \in Awaiting => req[p] \in Requests

VerdictInv == HeldInv /\ GrantInv /\ VerdictIsTheClients

\* What the client said is never unsaid, and a call keeps its action.
LEMMA SaidGrows ==
  ASSUME TypeOK, HeldInv, [Next]_vars
  PROVE  /\ action' = action
         /\ \A r \in Requests : said[r] \subseteq said'[r]
         /\ shared \subseteq shared'
<1> USE DEF settings, toolVars, pipeVars, turnVars, TypeOK
<1>1. CASE Turn
  BY <1>1 DEF Turn, BeginTurn, ToggleYolo, BeginStep, EndStep, StepStopped,
              EndTurn, Cancel
<1>2. ASSUME NEW r \in Requests, SpawnTool(r) \/ Ask(r)
      PROVE  UNCHANGED <<action, said, shared>>
  BY <1>2 DEF SpawnTool, Ask, Skip, Put, Register, FindUnset, FallAsleep, Conclude
<1>3. ASSUME NEW p \in Pipers, Pipe(p) PROVE UNCHANGED <<action, said, shared>>
  BY <1>3 DEF Pipe, Lock, AutoApprove, Forward, FindNoReply, AwaitReply, Relay, Die
<1>4. ASSUME NEW p \in Pipers, NEW response \in Answers, Answer(p, response)
      PROVE  /\ UNCHANGED <<action, shared>>
             /\ \A r \in Requests : said[r] \subseteq said'[r]
  BY <1>4 DEF Answer
<1>5. ASSUME NEW a \in Actions, SubagentApproves(a)
      PROVE  UNCHANGED <<action, said>> /\ shared \subseteq shared'
  BY <1>5 DEF SubagentApproves
<1>6. CASE UNCHANGED vars
  BY <1>6 DEF vars
<1>7. QED
  BY <1>1, <1>2, <1>3, <1>4, <1>5, <1>6 DEF Next

\* So whatever the client granted stays granted.
LEMMA GrantsGrow ==
  ASSUME TypeOK, HeldInv, [Next]_vars
  PROVE  /\ SessionGrants \subseteq SessionGrants'
         /\ \A r \in Requests : Granted(r) => Granted(r)'
<1>1. SessionGrants \subseteq SessionGrants'
  BY SaidGrows DEF SessionGrants
<1>2. QED
  BY <1>1, SaidGrows DEF Granted

\* Resolving a request with an answer the client gave keeps the cells honest.
LEMMA ResolveHonest ==
  ASSUME TypeOK, HeldInv, GrantInv, [Next]_vars,
         NEW r \in Requests, NEW a \in Responses, Resolve(r, a),
         a = "approve" => Granted(r)',
         a = "approve_for_session" => a \in said'[r],
         a = "reject" => a \in said'[r]
  PROVE  \A q \in Requests :
           /\ value'[q] \in {"approve", "approve_for_session"} => Granted(q)'
           /\ value'[q] = "approve_for_session" => action'[q] \in SessionGrants'
           /\ value'[q] = "reject" => "reject" \in said'[q]
<1> SUFFICES ASSUME NEW q \in Requests
             PROVE  /\ value'[q] \in {"approve", "approve_for_session"} => Granted(q)'
                    /\ value'[q] = "approve_for_session" => action'[q] \in SessionGrants'
                    /\ value'[q] = "reject" => "reject" \in said'[q]
  OBVIOUS
<1>1. CASE value'[q] = value[q]
  BY <1>1, GrantsGrow, SaidGrows DEF GrantInv
<1>2. CASE q = r /\ value'[q] = a
  <2>1. a = "approve_for_session" => action'[q] \in SessionGrants'
    BY <1>2 DEF SessionGrants
  <2>2. QED
    BY <1>2, <2>1 DEF Granted
<1>3. QED
  BY <1>1, <1>2 DEF Resolve, TypeOK

LEMMA VerdictStep == TypeOK /\ VerdictInv /\ [Next]_vars => VerdictInv'
<1> SUFFICES ASSUME TypeOK, VerdictInv, [Next]_vars PROVE VerdictInv'
  OBVIOUS
<1> USE DEF TypeOK, settings, toolVars, pipeVars, turnVars, VerdictInv
<1>1. /\ action' = action /\ SessionGrants \subseteq SessionGrants'
      /\ \A r \in Requests : said[r] \subseteq said'[r]
      /\ \A r \in Requests : Granted(r) => Granted(r)'
  BY SaidGrows, GrantsGrow
<1>2. HeldInv'
  <2>1. CASE Turn
    <3>1. CASE BeginStep
      BY <3>1 DEF HeldInv, BeginStep
    <3>2. QED
      BY <2>1, <3>1 DEF HeldInv, Turn, BeginTurn, ToggleYolo, EndStep,
                        StepStopped, EndTurn, Cancel
  <2>2. ASSUME NEW r \in Requests, SpawnTool(r) \/ Ask(r) PROVE HeldInv'
    BY <2>2 DEF HeldInv, SpawnTool, Ask, Skip, Put, Register, FindUnset, FallAsleep, Conclude
  <2>3. ASSUME NEW p \in Pipers, Pipe(p) PROVE HeldInv'
    <3>1. CASE Forward(p)
      BY <3>1 DEF HeldInv, Forward
    <3>2. QED
      BY <2>3, <3>1 DEF HeldInv, Pipe, Lock, AutoApprove, FindNoReply, AwaitReply, Relay, Die
  <2>4. ASSUME NEW p \in Pipers, NEW response \in Answers, Answer(p, response)
        PROVE  HeldInv'
    BY <2>4 DEF HeldInv, Answer
  <2>5. QED
    BY <2>1, <2>2, <2>3, <2>4 DEF Next, SubagentApproves, vars, HeldInv
<1>3. GrantInv' /\ VerdictIsTheClients'
  <2>1. CASE UNCHANGED <<autoApprove, reply, req, value, verdict, excused>>
    BY <1>1, <2>1 DEF GrantInv, VerdictIsTheClients, Granted
  <2>2. CASE Turn
    BY <2>1, <2>2 DEF Turn, BeginTurn, ToggleYolo, BeginStep, EndStep,
                      StepStopped, EndTurn, Cancel
  <2>3. ASSUME NEW r \in Requests, SpawnTool(r) \/ Ask(r)
        PROVE  GrantInv' /\ VerdictIsTheClients'
    <3>1. CASE Skip(r)
      BY <1>1, <3>1 DEF Skip, GrantInv, VerdictIsTheClients, Granted
    <3>2. CASE Conclude(r)
      BY <1>1, <3>2 DEF Conclude, GrantInv, VerdictIsTheClients, Granted
    <3>3. QED
      BY <2>1, <2>3, <3>1, <3>2 DEF SpawnTool, Ask, Put, Register, FindUnset, FallAsleep
  <2>4. ASSUME NEW p \in Pipers, Pipe(p) PROVE GrantInv' /\ VerdictIsTheClients'
    <3>1. CASE AutoApprove(p)
      <4>1. PICK r \in Requests : r = Head(queue)
        BY <3>1 DEF AutoApprove
      <4>2. Resolve(r, "approve") /\ action[r] \in autoApprove
        BY <3>1, <4>1 DEF AutoApprove
      <4>3. Granted(r)'
        BY <1>1, <4>2 DEF GrantInv, Granted
      <4>4. \A q \in Requests :
              /\ value'[q] \in {"approve", "approve_for_session"} => Granted(q)'
              /\ value'[q] = "approve_for_session" => action'[q] \in SessionGrants'
              /\ value'[q] = "reject" => "reject" \in said'[q]
        BY <4>2, <4>3, ResolveHonest
      <4>5. UNCHANGED <<autoApprove, req, reply, verdict, excused, said>>
        BY <3>1 DEF AutoApprove
      <4>6. QED
        BY <1>1, <4>4, <4>5 DEF GrantInv, VerdictIsTheClients, Granted
    <3>2. CASE Forward(p)
      BY <1>1, <3>2 DEF Forward, GrantInv, VerdictIsTheClients, Granted
    <3>3. CASE Relay(p)
      <4>1. PICK r \in Requests, a \in Responses : r = req[p] /\ a = reply[p] /\ a \in said'[r]
        <5>1. req[p] \in Requests /\ reply[p] \in said[req[p]]
          BY <3>3 DEF Relay, GrantInv
        <5>2. reply[p] \in Responses /\ reply[p] \in said'[req[p]]
          BY <1>1, <3>3, <5>1 DEF Relay
        <5>3. QED
          BY <5>1, <5>2
      <4>2. a = "approve" => Granted(r)'
        BY <4>1 DEF Granted
      <4>3. a = "approve_for_session" => action'[r] \in SessionGrants'
        BY <4>1 DEF SessionGrants
      <4>4. autoApprove' \subseteq SessionGrants'
        BY <1>1, <3>3, <4>1, <4>3 DEF Relay, GrantInv
      <4>5. Resolve(r, a)
        BY <3>3, <4>1 DEF Relay
      <4>6. \A q \in Requests :
              /\ value'[q] \in {"approve", "approve_for_session"} => Granted(q)'
              /\ value'[q] = "approve_for_session" => action'[q] \in SessionGrants'
              /\ value'[q] = "reject" => "reject" \in said'[q]
        BY <4>1, <4>2, <4>5, ResolveHonest
      <4>7. UNCHANGED <<req, reply, verdict, excused, said>>
        BY <3>3 DEF Relay
      <4>8. QED
        BY <1>1, <4>4, <4>6, <4>7 DEF GrantInv, VerdictIsTheClients, Granted
    <3>4. QED
      BY <2>1, <2>4, <3>1, <3>2, <3>3 DEF Pipe, Lock, FindNoReply, AwaitReply, Die
  <2>5. ASSUME NEW p \in Pipers, NEW response \in Answers, Answer(p, response)
        PROVE  GrantInv' /\ VerdictIsTheClients'
    BY <1>1, <2>5 DEF Answer, GrantInv, VerdictIsTheClients, Granted, HeldInv
  <2>6. ASSUME NEW a \in Actions, SubagentApproves(a)
        PROVE  GrantInv' /\ VerdictIsTheClients'
    BY <1>1, <2>6 DEF SubagentApproves, GrantInv, VerdictIsTheClients, Granted, SessionGrants
  <2>7. CASE UNCHANGED vars
    BY <2>1, <2>7 DEF vars
  <2>8. QED
    BY <2>2, <2>3, <2>4, <2>5, <2>6, <2>7 DEF Next
<1>4. QED
  BY <1>2, <1>3

LEMMA InitVerdict == Init => VerdictInv
<1> SUFFICES ASSUME Init PROVE VerdictInv
  OBVIOUS
<1>1. HeldInv
  BY DEF Init, HeldInv
<1>2. GrantInv
  BY DEF Init, GrantInv, Unset
<1>3. VerdictIsTheClients
  BY DEF Init, VerdictIsTheClients
<1>4. QED
  BY <1>1, <1>2, <1>3 DEF VerdictInv

\* A tool's verdict is the client's, in every interleaving.
THEOREM VerdictSafe == Spec => []VerdictIsTheClients
<1>1. Init => TypeOK /\ VerdictInv
  BY InitTypeOK, InitVerdict
<1>2. QED
  BY <1>1, TypeStep, VerdictStep, PTL DEF Spec, VerdictInv

-----------------------------------------------------------------------------
\* What the queue or a piping task holds was asked for, and a tool asks once.
AskedInv ==
  /\ \A i \in 1 .. Len(queue) : tool[queue[i]] \notin {"idle", "ready"}
  /\ \A p \in Pipers : piper[p] \in Awaiting => tool[req[p]] \notin {"idle", "ready"}

\* What is left of a queue without its head.
LEMMA TailIs ==
  ASSUME NEW S, NEW q \in Seq(S), q # <<>>
  PROVE  /\ Head(q) = q[1] /\ 1 \in 1 .. Len(q)
         /\ Len(Tail(q)) = Len(q) - 1
         /\ \A i \in 1 .. Len(Tail(q)) : i + 1 \in 1 .. Len(q) /\ Tail(q)[i] = q[i + 1]
  OBVIOUS

\* Taking the head off the queue keeps what the invariants say of the queue.
LEMMA TailKeeps ==
  ASSUME TypeOK, HeldInv, AskedInv, AskedOnce, queue # <<>>, queue' = Tail(queue)
  PROVE  /\ \A i, j \in 1 .. Len(queue') : queue'[i] = queue'[j] => i = j
         /\ \A i \in 1 .. Len(queue') : queue'[i] # Head(queue)
         /\ \A i \in 1 .. Len(queue'), p \in Pipers :
              piper[p] \in Awaiting => queue'[i] # req[p]
         /\ \A i \in 1 .. Len(queue') :
              queue'[i] \in Requests /\ tool[queue'[i]] \notin {"idle", "ready"}
<1>1. queue \in Seq(Requests)
  BY DEF TypeOK
<1>2. /\ Head(queue) = queue[1] /\ 1 \in 1 .. Len(queue)
      /\ Len(queue') = Len(queue) - 1
      /\ \A i \in 1 .. Len(queue') : i + 1 \in 1 .. Len(queue) /\ queue'[i] = queue[i + 1]
  BY <1>1, TailIs
<1>3. \A i, j \in 1 .. Len(queue') : queue'[i] = queue'[j] => i = j
  BY <1>1, <1>2 DEF AskedOnce
<1>4. \A i \in 1 .. Len(queue') : queue'[i] # Head(queue)
  BY <1>1, <1>2 DEF AskedOnce
<1>5. QED
  BY <1>1, <1>2, <1>3, <1>4 DEF AskedOnce, AskedInv

\* A step that starts no wait, and moves no request, keeps the invariants.
LEMMA AskedKept ==
  ASSUME AskedInv, AskedOnce, UNCHANGED <<queue, req>>,
         \A s : tool[s] \notin {"idle", "ready"} => tool'[s] \notin {"idle", "ready"},
         \A q \in Pipers : piper'[q] \in Awaiting => piper[q] \in Awaiting
  PROVE  AskedInv' /\ AskedOnce'
<1>1. AskedInv'
  BY DEF AskedInv
<1>2. AskedOnce'
  BY DEF AskedOnce
<1>3. QED
  BY <1>1, <1>2

LEMMA AskedStep ==
  ASSUME TypeOK, HeldInv, AskedInv, AskedOnce, [Next]_vars
  PROVE  AskedInv' /\ AskedOnce'
<1> USE DEF TypeOK, settings, toolVars, pipeVars, turnVars
<1>1. CASE UNCHANGED <<queue, piper, req, tool>>
  BY <1>1 DEF AskedInv, AskedOnce
<1>2. CASE Turn
  <2>1. CASE BeginStep
    <3>1. /\ UNCHANGED <<queue, req, tool>>
          /\ \A q \in Pipers : piper'[q] \in Awaiting => piper[q] \in Awaiting
      BY <2>1 DEF BeginStep
    <3>2. QED
      BY <3>1, AskedKept
  <2>2. QED
    BY <1>1, <1>2, <2>1 DEF Turn, BeginTurn, ToggleYolo, EndStep,
                            StepStopped, EndTurn, Cancel
<1>3. ASSUME NEW r \in Requests, SpawnTool(r) \/ Ask(r) PROVE AskedInv' /\ AskedOnce'
  <2>1. CASE Put(r)
    <3>1. /\ queue' = Append(queue, r) /\ tool[r] = "ready"
          /\ tool' = [tool EXCEPT ![r] = "put"]
          /\ UNCHANGED <<piper, req>>
      BY <2>1 DEF Put
    <3>2. /\ Len(queue') = Len(queue) + 1 /\ queue'[Len(queue) + 1] = r
          /\ \A i \in 1 .. Len(queue) : queue'[i] = queue[i] /\ queue[i] \in Requests
      BY <3>1
    <3>3. \A i \in 1 .. Len(queue) : queue[i] # r
      BY <3>1 DEF AskedInv
    <3>4. \A p \in Pipers : piper[p] \in Awaiting => req[p] # r
      BY <3>1 DEF AskedInv
    <3>5. \A i \in 1 .. Len(queue') : i \in 1 .. Len(queue) \/ i = Len(queue) + 1
      BY <3>2
    <3>6. AskedInv'
      BY <3>1, <3>2, <3>5 DEF AskedInv, HeldInv
    <3>7. AskedOnce'
      BY <3>1, <3>2, <3>3, <3>4, <3>5 DEF AskedOnce
    <3>8. QED
      BY <3>6, <3>7
  <2>2. CASE ~Put(r)
    <3>1. UNCHANGED <<queue, piper, req>>
      BY <1>3, <2>2 DEF SpawnTool, Ask, Skip, Register, FindUnset, FallAsleep, Conclude
    <3>2. \A s \in Requests : tool'[s] = tool[s] \/ (s = r /\
            (tool[s] \in {"idle", "ready"} \/ tool'[s] \notin {"idle", "ready"}))
      BY <1>3, <2>2 DEF SpawnTool, Ask, Skip, Register, FindUnset, FallAsleep, Conclude
    <3>3. AskedOnce'
      BY <3>1 DEF AskedOnce
    <3>4. \A s \in Requests : tool[s] \notin {"idle", "ready"} => tool'[s] \notin {"idle", "ready"}
      BY <3>2
    <3>5. AskedInv'
      BY <3>1, <3>4 DEF AskedInv, HeldInv
    <3>6. QED
      BY <3>3, <3>5
  <2>3. QED
    BY <2>1, <2>2
<1>4. ASSUME NEW p \in Pipers, Pipe(p) PROVE AskedInv' /\ AskedOnce'
  <2>1. CASE AutoApprove(p)
    <3>1. /\ queue # <<>> /\ queue' = Tail(queue) /\ UNCHANGED req
          /\ piper' = [piper EXCEPT ![p] = "fetch"]
      BY <2>1 DEF AutoApprove
    <3>2. \A s \in Requests : tool[s] \notin {"idle", "ready"} => tool'[s] \notin {"idle", "ready"}
      BY <2>1 DEF AutoApprove, Resolve
    <3>3. \A q \in Pipers : piper'[q] \in Awaiting => piper[q] \in Awaiting
      BY <3>1
    <3>4. AskedInv'
      <4>1. \A i \in 1 .. Len(queue') : tool'[queue'[i]] \notin {"idle", "ready"}
        BY <3>1, <3>2, TailKeeps
      <4>2. \A q \in Pipers : piper'[q] \in Awaiting => tool'[req'[q]] \notin {"idle", "ready"}
        BY <3>1, <3>2, <3>3 DEF AskedInv, HeldInv
      <4>3. QED
        BY <4>1, <4>2 DEF AskedInv
    <3>5. AskedOnce'
      <4>1. \A i, j \in 1 .. Len(queue') : queue'[i] = queue'[j] => i = j
        BY <3>1, TailKeeps
      <4>2. \A q1, q2 \in Pipers :
              piper'[q1] \in Awaiting /\ piper'[q2] \in Awaiting /\ req'[q1] = req'[q2] => q1 = q2
        BY <3>1, <3>3 DEF AskedOnce
      <4>3. ASSUME NEW i \in 1 .. Len(queue'), NEW q \in Pipers, piper'[q] \in Awaiting
            PROVE  queue'[i] # req'[q]
        <5>1. piper[q] \in Awaiting /\ req'[q] = req[q]
          BY <3>1, <3>3, <4>3
        <5>2. \A j \in 1 .. Len(queue'), p1 \in Pipers :
                piper[p1] \in Awaiting => queue'[j] # req[p1]
          BY <3>1, TailKeeps
        <5>3. QED
          BY <4>3, <5>1, <5>2, Zenon
      <4>4. QED
        BY <4>1, <4>2, <4>3 DEF AskedOnce
    <3>6. QED
      BY <3>4, <3>5
  <2>2. CASE Forward(p)
    <3>1. /\ queue # <<>> /\ queue' = Tail(queue) /\ UNCHANGED tool
          /\ req' = [req EXCEPT ![p] = Head(queue)]
          /\ piper' = [piper EXCEPT ![p] = "wait"]
          /\ piper[p] = "recv"
      BY <2>2 DEF Forward
    <3>2. Head(queue) = queue[1] /\ 1 \in 1 .. Len(queue)
      BY <3>1, TailIs
    <3>3. /\ tool[Head(queue)] \notin {"idle", "ready"}
          /\ \A q \in Pipers : piper[q] \in Awaiting => Head(queue) # req[q]
      BY <3>2 DEF AskedInv, AskedOnce
    <3>4. /\ piper'[p] = "wait" /\ req'[p] = Head(queue)
          /\ \A q \in Pipers : q # p => req'[q] = req[q] /\ piper'[q] = piper[q]
      BY <3>1
    <3>5. AskedInv'
      <4>1. \A i \in 1 .. Len(queue') : tool'[queue'[i]] \notin {"idle", "ready"}
        BY <3>1, TailKeeps
      <4>2. \A q \in Pipers : piper'[q] \in Awaiting => tool'[req'[q]] \notin {"idle", "ready"}
        BY <3>1, <3>3, <3>4 DEF AskedInv
      <4>3. QED
        BY <4>1, <4>2 DEF AskedInv
    <3>6. AskedOnce'
      <4>1. \A i, j \in 1 .. Len(queue') : queue'[i] = queue'[j] => i = j
        BY <3>1, TailKeeps
      <4>2. ASSUME NEW q1 \in Pipers, NEW q2 \in Pipers, req'[q1] = req'[q2],
                   piper'[q1] \in Awaiting, piper'[q2] \in Awaiting
            PROVE  q1 = q2
        <5>1. CASE q1 = p
          <6>1. q2 # p => req'[q2] = req[q2] /\ piper[q2] \in Awaiting
            BY <3>4, <4>2
          <6>2. QED
            BY <3>3, <3>4, <4>2, <5>1, <6>1
        <5>4. CASE q2 = p
          <6>1. q1 # p => req'[q1] = req[q1] /\ piper[q1] \in Awaiting
            BY <3>4, <4>2
          <6>2. QED
            BY <3>3, <3>4, <4>2, <5>4, <6>1
        <5>2. CASE q1 # p /\ q2 # p
          <6>1. req[q1] = req[q2] /\ piper[q1] \in Awaiting /\ piper[q2] \in Awaiting
            BY <3>4, <4>2, <5>2
          <6>2. QED
            BY <6>1 DEF AskedOnce
        <5>3. QED
          BY <5>1, <5>2, <5>4
      <4>3. ASSUME NEW i \in 1 .. Len(queue'), NEW q \in Pipers, piper'[q] \in Awaiting
            PROVE  queue'[i] # req'[q]
        <5>1. CASE q = p
          BY <3>1, <3>4, <5>1, TailKeeps
        <5>2. CASE q # p
          <6>1. piper[q] \in Awaiting /\ req'[q] = req[q]
            BY <3>4, <4>3, <5>2
          <6>2. QED
            BY <3>1, <6>1, TailKeeps
        <5>3. QED
          BY <5>1, <5>2
      <4>4. QED
        BY <4>1, <4>2, <4>3 DEF AskedOnce
    <3>7. QED
      BY <3>5, <3>6
  <2>3. CASE Relay(p)
    <3>1. /\ UNCHANGED <<queue, req>> /\ piper' = [piper EXCEPT ![p] = "fetch"]
      BY <2>3 DEF Relay
    <3>2. \A s \in Requests : tool[s] \notin {"idle", "ready"} => tool'[s] \notin {"idle", "ready"}
      BY <2>3 DEF Relay, Resolve
    <3>3. QED
      BY <3>1, <3>2 DEF AskedInv, AskedOnce, HeldInv
  <2>4. CASE Lock(p) \/ FindNoReply(p) \/ AwaitReply(p) \/ Die(p)
    <3>1. /\ UNCHANGED <<queue, req, tool>>
          /\ \A q \in Pipers : piper'[q] \in Awaiting => piper[q] \in Awaiting
      BY <2>4 DEF Lock, FindNoReply, AwaitReply, Die
    <3>2. QED
      BY <3>1, AskedKept
  <2>5. QED
    BY <1>4, <2>1, <2>2, <2>3, <2>4 DEF Pipe
<1>5. ASSUME NEW p \in Pipers, NEW response \in Answers, Answer(p, response)
      PROVE  AskedInv' /\ AskedOnce'
  <2>1. /\ UNCHANGED <<queue, req, tool>>
        /\ \A q \in Pipers : piper'[q] \in Awaiting => piper[q] \in Awaiting
    BY <1>5 DEF Answer
  <2>2. QED
    BY <2>1, AskedKept
<1>6. QED
  BY <1>1, <1>2, <1>3, <1>4, <1>5 DEF Next, SubagentApproves, vars

\* The client is never asked twice about one call.
THEOREM NeverAskedTwice == Spec => []AskedOnce
<1>1. Init => AskedInv /\ AskedOnce
  BY DEF Init, AskedInv, AskedOnce
<1>2. Init => TypeOK /\ VerdictInv
  BY InitTypeOK, InitVerdict
<1>3. QED
  BY <1>1, <1>2, TypeStep, VerdictStep, AskedStep, PTL DEF Spec, VerdictInv
-----------------------------------------------------------------------------
\* Where a request can be that a tool waits for and that nobody has resolved.
OnItsWay(r) ==
  \/ \E i \in 1 .. Len(queue) : queue[i] = r
  \/ \E p \in Pipers : req[p] = r /\ piper[p] \in Awaiting \cup {"dead"}
  \/ said[r] # {}
  \/ action[r] \in autoApprove

WaitInv == \A r \in Requests : tool[r] \in Waiting /\ value[r] = Unset => OnItsWay(r)

\* A piping task is born with its step, and dies only when it is aborted; the
\* one of a running step is not.
LifeInv ==
  /\ \A p \in Pipers :
       /\ p > steps => piper[p] = "unborn" /\ ~aborted[p]
       /\ p <= steps => piper[p] # "unborn"
       /\ piper[p] = "dead" => aborted[p]
  /\ phase = "running" => steps \in Pipers /\ ~aborted[steps]

LEMMA LifeStep == TypeOK /\ LifeInv /\ [Next]_vars => LifeInv'
<1> SUFFICES ASSUME TypeOK, LifeInv, [Next]_vars PROVE LifeInv'
  OBVIOUS
<1> USE DEF TypeOK, settings, toolVars, pipeVars, turnVars
<1>1. CASE UNCHANGED <<piper, aborted, phase, steps>>
  BY <1>1 DEF LifeInv
<1>2. CASE Turn
  <2>1. CASE BeginStep
    <3>1. steps + 1 \in Pipers /\ steps' = steps + 1 /\ phase' = "running"
      BY <2>1 DEF BeginStep
    <3>2. /\ \A p \in Pipers : p = steps + 1 => piper'[p] = "fetch"
          /\ \A p \in Pipers : p # steps + 1 => piper'[p] = piper[p]
          /\ UNCHANGED aborted
      BY <2>1 DEF BeginStep
    <3>3. \A p \in Pipers : /\ p > steps + 1 => p > steps
                            /\ p <= steps + 1 => p <= steps \/ p = steps + 1
      OBVIOUS
    <3>4. ~aborted'[steps + 1]
      BY <3>1, <3>2 DEF LifeInv
    <3>5. QED
      BY <3>1, <3>2, <3>3, <3>4 DEF LifeInv
  <2>2. CASE EndStep
    BY <2>2 DEF EndStep, LifeInv
  <2>3. CASE StepStopped \/ EndTurn \/ Cancel \/ BeginTurn
    BY <2>3 DEF StepStopped, EndTurn, Cancel, BeginTurn, LifeInv
  <2>4. CASE ToggleYolo
    BY <1>1, <2>4 DEF ToggleYolo
  <2>5. QED
    BY <1>2, <2>1, <2>2, <2>3, <2>4 DEF Turn
<1>3. ASSUME NEW r \in Requests, SpawnTool(r) \/ Ask(r) PROVE LifeInv'
  BY <1>1, <1>3 DEF SpawnTool, Ask, Skip, Put, Register, FindUnset, FallAsleep, Conclude
<1>4. ASSUME NEW p \in Pipers, Pipe(p) PROVE LifeInv'
  <2>1. /\ UNCHANGED <<aborted, phase, steps>>
        /\ piper[p] # "unborn" /\ piper'[p] # "unborn"
        /\ piper'[p] = "dead" => aborted[p]
        /\ \A q \in Pipers : q # p => piper'[q] = piper[q]
    BY <1>4 DEF Pipe, Lock, AutoApprove, Forward, FindNoReply, AwaitReply, Relay, Die
  <2>2. QED
    BY <2>1 DEF LifeInv
<1>5. ASSUME NEW p \in Pipers, NEW response \in Answers, Answer(p, response)
      PROVE  LifeInv'
  <2>1. /\ UNCHANGED <<aborted, phase, steps>>
        /\ piper[p] \in Awaiting /\ piper'[p] \in Awaiting
        /\ \A q \in Pipers : q # p => piper'[q] = piper[q]
    BY <1>5 DEF Answer
  <2>2. QED
    BY <2>1 DEF LifeInv
<1>6. QED
  BY <1>1, <1>2, <1>3, <1>4, <1>5 DEF Next, SubagentApproves, vars

\* A step that leaves the queue alone and takes no request away from a piping
\* task loses none.
LEMMA WaitKept ==
  ASSUME WaitInv, UNCHANGED <<queue, req, action>>,
         autoApprove \subseteq autoApprove',
         \A r \in Requests : said[r] \subseteq said'[r],
         \A r \in Requests : tool'[r] \in Waiting /\ value'[r] = Unset =>
                               tool[r] \in Waiting /\ value[r] = Unset,
         \A p \in Pipers : piper[p] \in Awaiting \cup {"dead"} =>
                            piper'[p] \in Awaiting \cup {"dead"}
  PROVE  WaitInv'
<1> SUFFICES ASSUME NEW r \in Requests, tool'[r] \in Waiting, value'[r] = Unset
             PROVE  OnItsWay(r)'
  BY DEF WaitInv
<1>1. OnItsWay(r)
  BY DEF WaitInv
<1>2. QED
  BY <1>1 DEF OnItsWay

LEMMA WaitStep ==
  ASSUME TypeOK, HeldInv, GrantInv, LifeInv, WaitInv, [Next]_vars PROVE WaitInv'
<1> USE DEF TypeOK, settings, toolVars, pipeVars, turnVars
<1>1. CASE UNCHANGED <<queue, req, action, autoApprove, said, tool, value, piper>>
  BY <1>1 DEF WaitInv, OnItsWay
<1>2. CASE Turn
  <2>1. CASE BeginStep
    <3>1. UNCHANGED <<queue, req, action, autoApprove, said, tool, value>>
      BY <2>1 DEF BeginStep
    <3>2. \A p \in Pipers : piper[p] \in Awaiting \cup {"dead"} =>
                              piper'[p] \in Awaiting \cup {"dead"}
      BY <2>1 DEF BeginStep, LifeInv
    <3>3. QED
      BY <3>1, <3>2, WaitKept
  <2>2. QED
    BY <1>1, <1>2, <2>1 DEF Turn, BeginTurn, ToggleYolo, EndStep,
                            StepStopped, EndTurn, Cancel
<1>3. ASSUME NEW r \in Requests, SpawnTool(r) \/ Ask(r) PROVE WaitInv'
  <2>1. CASE Put(r)
    <3>1. /\ queue' = Append(queue, r) /\ tool' = [tool EXCEPT ![r] = "put"]
          /\ UNCHANGED <<piper, req, action, autoApprove, said, value>>
      BY <2>1 DEF Put
    <3>2. /\ Len(queue) + 1 \in 1 .. Len(queue') /\ queue'[Len(queue) + 1] = r
          /\ \A i \in 1 .. Len(queue) : i \in 1 .. Len(queue') /\ queue'[i] = queue[i]
      BY <3>1
    <3>3. OnItsWay(r)'
      BY <3>2 DEF OnItsWay
    <3>4. ASSUME NEW q \in Requests, q # r, tool'[q] \in Waiting, value'[q] = Unset
          PROVE  OnItsWay(q)'
      <4>1. OnItsWay(q)
        BY <3>1, <3>4 DEF WaitInv
      <4>2. QED
        BY <3>1, <3>2, <4>1 DEF OnItsWay
    <3>5. QED
      BY <3>3, <3>4 DEF WaitInv
  <2>2. CASE SpawnTool(r) \/ Skip(r) \/ Register(r) \/ FindUnset(r) \/ FallAsleep(r)
             \/ Conclude(r)
    <3>1. /\ UNCHANGED <<queue, req, action, said, piper, value>>
          /\ autoApprove \subseteq autoApprove'
      BY <2>2 DEF SpawnTool, Skip, Register, FindUnset, FallAsleep, Conclude
    <3>2. \A q \in Requests : tool'[q] \in Waiting => tool[q] \in Waiting
      BY <2>2 DEF SpawnTool, Skip, Register, FindUnset, FallAsleep, Conclude
    <3>3. QED
      BY <3>1, <3>2, WaitKept
  <2>3. QED
    BY <1>3, <2>1, <2>2 DEF Ask
<1>4. ASSUME NEW p \in Pipers, Pipe(p) PROVE WaitInv'
  <2>1. CASE AutoApprove(p) \/ Forward(p)
    <3>1. /\ piper[p] = "recv" /\ queue # <<>> /\ queue' = Tail(queue)
          /\ UNCHANGED <<action, autoApprove, said>>
          /\ \A q \in Pipers : q # p => piper'[q] = piper[q] /\ req'[q] = req[q]
      BY <2>1 DEF AutoApprove, Forward
    <3>2. \/ action[Head(queue)] \in autoApprove
          \/ req'[p] = Head(queue) /\ piper'[p] = "wait"
      BY <2>1 DEF AutoApprove, Forward
    <3>3. \A q \in Requests : tool'[q] \in Waiting /\ value'[q] = Unset =>
                              tool[q] \in Waiting /\ value[q] = Unset
      BY <2>1 DEF AutoApprove, Forward, Resolve, Unset
    <3>4. ASSUME NEW q \in Requests, tool'[q] \in Waiting, value'[q] = Unset
          PROVE  OnItsWay(q)'
      <4>1. OnItsWay(q)
        <5>1. tool[q] \in Waiting /\ value[q] = Unset
          BY <3>3, <3>4
        <5>2. QED
          BY <5>1 DEF WaitInv
      <4>2. CASE q = Head(queue)
        BY <3>1, <3>2, <4>2 DEF OnItsWay
      <4>3. CASE \E i \in 1 .. Len(queue) : queue[i] = q /\ q # Head(queue)
        <5>1. PICK i \in 1 .. Len(queue) : queue[i] = q /\ q # Head(queue)
          BY <4>3
        <5>2. i - 1 \in 1 .. Len(queue') /\ queue'[i - 1] = q
          BY <3>1, <5>1
        <5>3. QED
          BY <5>2 DEF OnItsWay
      <4>4. CASE \E w \in Pipers : req[w] = q /\ piper[w] \in Awaiting \cup {"dead"}
        BY <3>1, <4>4 DEF OnItsWay
      <4>5. QED
        BY <3>1, <4>1, <4>2, <4>3, <4>4 DEF OnItsWay
    <3>5. QED
      BY <3>4 DEF WaitInv
  <2>2. CASE Relay(p)
    <3>1. /\ UNCHANGED <<queue, req, action, said>> /\ autoApprove \subseteq autoApprove'
          /\ \A q \in Pipers : q # p => piper'[q] = piper[q]
      BY <2>2 DEF Relay
    <3>2. \A q \in Requests : tool'[q] \in Waiting /\ value'[q] = Unset =>
                              tool[q] \in Waiting /\ value[q] = Unset
      BY <2>2 DEF Relay, Resolve
    <3>3. said[req[p]] # {}
      BY <2>2 DEF Relay, GrantInv
    <3>4. ASSUME NEW q \in Requests, tool'[q] \in Waiting, value'[q] = Unset
          PROVE  OnItsWay(q)'
      <4>1. OnItsWay(q)
        BY <3>2, <3>4 DEF WaitInv
      <4>2. CASE q = req[p]
        BY <3>1, <3>3, <4>2 DEF OnItsWay
      <4>3. CASE q # req[p]
        BY <3>1, <4>1, <4>3 DEF OnItsWay
      <4>4. QED
        BY <4>2, <4>3
    <3>5. QED
      BY <3>4 DEF WaitInv
  <2>3. CASE Lock(p) \/ FindNoReply(p) \/ AwaitReply(p) \/ Die(p)
    <3>1. /\ UNCHANGED <<queue, req, action, autoApprove, said, tool, value>>
          /\ \A q \in Pipers : piper[q] \in Awaiting \cup {"dead"} =>
                               piper'[q] \in Awaiting \cup {"dead"}
      BY <2>3 DEF Lock, FindNoReply, AwaitReply, Die
    <3>2. QED
      BY <3>1, WaitKept
  <2>4. QED
    BY <1>4, <2>1, <2>2, <2>3 DEF Pipe
<1>5. ASSUME NEW p \in Pipers, NEW response \in Answers, Answer(p, response)
      PROVE  WaitInv'
  <2>1. /\ UNCHANGED <<queue, req, action, autoApprove, tool, value>>
        /\ \A q \in Pipers : piper[q] \in Awaiting \cup {"dead"} =>
                             piper'[q] \in Awaiting \cup {"dead"}
    BY <1>5 DEF Answer
  <2>2. QED
    BY <2>1, SaidGrows, WaitKept
<1>6. ASSUME NEW a \in Actions, SubagentApproves(a) PROVE WaitInv'
  <2>1. /\ UNCHANGED <<queue, req, action, said, tool, value, piper>>
        /\ autoApprove \subseteq autoApprove'
    BY <1>6 DEF SubagentApproves
  <2>2. QED
    BY <2>1, WaitKept
<1>7. QED
  BY <1>1, <1>2, <1>3, <1>4, <1>5, <1>6 DEF Next, vars

\* No approval that a tool waits for is lost, other than in the ways that the
\* property names, and a running step has a task that serves the queue.
THEOREM NoneIsLost == Spec => []Accounted
<1>1. Init => TypeOK /\ VerdictInv
  BY InitTypeOK, InitVerdict
<1>2. Init => LifeInv /\ WaitInv
  <2>1. Init => LifeInv
    BY DEF Init, LifeInv
  <2>2. Init => WaitInv
    BY DEF Init, WaitInv
  <2>3. QED
    BY <2>1, <2>2
<1>3. TypeOK /\ LifeInv /\ WaitInv => Accounted
  <2>1. WaitInv => \A r \in Requests : tool[r] \in Waiting /\ value[r] = Unset => OnItsWay(r)
    BY DEF WaitInv
  <2>2. TypeOK /\ LifeInv /\ phase = "running" => piper[steps] \in {"fetch", "recv"} \cup Awaiting
    BY DEF TypeOK, LifeInv
  <2>3. QED
    BY <2>1, <2>2 DEF OnItsWay, Accounted
<1>4. QED
  BY <1>1, <1>2, <1>3, TypeStep, VerdictStep, LifeStep, WaitStep, PTL DEF Spec, VerdictInv
=============================================================================
