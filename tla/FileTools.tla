----------------------------- MODULE FileTools -----------------------------
(* The tools that read and change files: WriteFile, StrReplaceFile, ReadFile
   and ReadMediaFile (tools/file/) over the local file system or SFTP (kaos).

   The tool calls of one step run as tasks in parallel, and a task is not
   stopped when its turn is. A tool that changes a file reads it, shows the
   client what it would become, waits for the answer however long that takes,
   and then writes what it computed before: nothing tells it that the file
   has changed since. A write truncates the file first and fills it then.

   One file is modelled. Its text is a sequence of pieces, each named by the
   call that wrote it (0 for the text that was there before); a piece is a
   line. Raw stands for old bytes that are no UTF-8: whoever reads the file as
   text gets Mark, U+FFFD, in their place, and cannot tell. What kind of file
   it is depends on its name and on its first piece.                        *)
EXTENDS SequencesExt, Naturals

CONSTANTS
  Calls,      \* the tool calls
  Jobs,       \* what the calls may ask for
  Hints,      \* what the file's name may say of its kind
  Magics,     \* what the old text may begin with
  Texts,      \* what the file may hold at first; Missing when there is none
  Failures,   \* the operations that may fail: "read", "open", "write", "flush"
  MaxLines,   \* ReadFile's MAX_LINES
  MaxLength,  \* its MAX_LINE_LENGTH
  MaxBytes,   \* its MAX_BYTES
  Size,       \* how long each piece is, as ReadFile counts
  MaxSize,    \* the most that ReadMediaFile reads, in pieces
  Raw, Mark, Missing

Pieces == Calls \cup {0, Raw, Mark}
Kinds == {"text", "image", "unknown"}   \* video is treated as images are

ASSUME FileToolsAssumption ==
  /\ 0 \notin Calls /\ {Raw, Mark} \cap (Calls \cup {0}) = {} /\ Raw # Mark
  /\ {MaxLines, MaxLength, MaxBytes} \subseteq Nat \ {0} /\ MaxSize \in Nat
  /\ Size \in [Pieces -> Nat]
  /\ Texts \ {Missing} \subseteq Seq({0, Raw}) /\ Missing \notin Seq(Pieces)
  /\ Hints \subseteq Kinds \cup {"none"} /\ Magics \subseteq Kinds
  /\ \A job \in Jobs : \A c \in Calls :
       /\ job[c].kind \in {"overwrite", "append", "replace", "read", "media"}
       /\ job[c].kind = "replace" => job[c].all \in BOOLEAN
       /\ job[c].kind = "read" => job[c].from \in Nat \ {0} /\ job[c].n \in Nat \ {0}

VARIABLES
  job,        \* what each call asks for
  hint,       \* what the file's name says of its kind
  magic,      \* what the old text begins with
  remote,     \* the files are on a host reached over SSH
  file,       \* the text of the file
  pc, existed, seen, new,
  got, at,    \* what is read: the pieces, and the position in the file
  bytes, cut, \* the bytes of the lines read, and the lines that were cut short
  told,       \* what the message says of why the reading ended
  inflight,   \* appends that tokio holds and has not written
  dropped,    \* appends that failed after their call had returned
  log,        \* history: every text the file had, and who made it so
  readAt,     \* history: how long the log was when a call read the file
  blind       \* history: the call read nothing of what there was, or a write half done

seenVars == <<existed, seen, new, readAt, blind>>
readerVars == <<got, at, bytes, cut, told>>
fileVars == <<file, log>>
given == <<job, hint, magic, remote>>
allVars == <<given, file, pc, existed, seen, new, readerVars, inflight, dropped,
             log, readAt, blind>>

Changers == {c \in Calls : job[c].kind \in {"overwrite", "append", "replace"}}
Readers  == Calls \ Changers

TextOf(f) == IF f = Missing THEN <<>> ELSE f

\* String::from_utf8_lossy, of a whole file or of a whole line.
Lossy(text) == [i \in DOMAIN text |-> IF text[i] = Raw THEN Mark ELSE text[i]]

Busy == {c \in Calls : pc[c] = "fill"}

FileInit ==
  /\ remote \in BOOLEAN /\ job \in Jobs
  /\ hint \in Hints /\ magic \in Magics
  /\ file \in Texts
  /\ pc = [c \in Calls |-> "idle"]
  /\ existed = [c \in Calls |-> FALSE]
  /\ seen = [c \in Calls |-> <<>>] /\ new = [c \in Calls |-> <<>>]
  /\ got = [c \in Calls |-> <<>>] /\ at = [c \in Calls |-> 0]
  /\ bytes = [c \in Calls |-> 0] /\ cut = [c \in Calls |-> {}]
  /\ told = [c \in Calls |-> "nothing"]
  /\ inflight = {} /\ dropped = {}
  /\ log = <<[by |-> 0, text |-> file]>>
  /\ readAt = [c \in Calls |-> 0]
  /\ blind = [c \in Calls |-> FALSE]

\* The file becomes f, by the hand of call c.
Become(c, f) ==
  /\ file' = f
  /\ log' = Append(log, [by |-> c, text |-> f])

Goto(c, where) == pc' = [pc EXCEPT ![c] = where]

\* sniff_media_from_magic, and the zero bytes of what is no text.
Magic(text) == IF text # <<>> /\ text[1] \in {0, Raw} THEN magic ELSE "text"

\* detect_file_type: a name that says image is believed, a name that says text
\* is if the bytes do not contradict it, any other only if they are no media.
KindOf(text) ==
  CASE hint = "image" -> "image"
    [] hint # "image" /\ Magic(text) # "text" ->
         IF Magic(text) = "image" /\ hint # "text" THEN "image" ELSE "unknown"
    [] OTHER -> IF hint = "unknown" THEN "unknown" ELSE "text"

-----------------------------------------------------------------------------
(* The tools that change a file.                                            *)

\* Paths that no tool takes, and StrReplaceFile on a file that is not there.
Refuse(c) ==
  /\ pc[c] = "idle"
  /\ job[c].kind \notin {"overwrite", "append"} /\ file = Missing
  /\ Goto(c, "failed")
  /\ UNCHANGED <<given, fileVars, seenVars, readerVars, inflight, dropped>>

\* KaosPath::exists and is_file.
IsThere == file # Missing

\* The read that follows is another operation.
Look(c) ==
  /\ pc[c] = "idle"
  /\ job[c].kind \notin {"overwrite", "append"} => IsThere
  /\ existed' = [existed EXCEPT ![c] = IsThere]
  /\ Goto(c, "looked")
  /\ UNCHANGED <<given, fileVars, seen, new, readAt, blind, readerVars, inflight, dropped>>

\* What the tool means to make of a text: str::replace, or replacen(.., 1).
Edited(c, text) ==
  CASE job[c].kind = "overwrite" -> <<c>>
    [] job[c].kind = "append"    -> Append(text, c)
    [] job[c].kind = "replace"   ->
         [i \in DOMAIN text |->
            IF /\ text[i] = job[c].old
               /\ job[c].all \/ \A j \in 1 .. i - 1 : text[j] # job[c].old
            THEN c ELSE text[i]]

\* The call has the text it works on, and shows its client what becomes of it.
\* An edit that changes nothing ends here.
Propose(c, text, unsure) ==
  /\ seen' = [seen EXCEPT ![c] = text]
  /\ new' = [new EXCEPT ![c] = Edited(c, text)]
  /\ readAt' = [readAt EXCEPT ![c] = Len(log)]
  /\ blind' = [blind EXCEPT ![c] = unsure]
  /\ Goto(c, IF Edited(c, text) = text THEN "failed" ELSE "ask")

\* read_text_lossy: what is no UTF-8 is replaced in the text that the tool works
\* on, so an edit writes marks over bytes that it never showed; an append does not.
ReadOld(c) ==
  /\ c \in Changers /\ pc[c] = "looked"
  /\ Propose(c, IF existed[c] THEN Lossy(TextOf(file)) ELSE <<>>,
             Busy # {} \/ (file # Missing /\ ~existed[c]))
  /\ UNCHANGED <<given, fileVars, existed, readerVars, inflight, dropped>>

\* WriteFile takes a file that it cannot read for an empty one.
ReadOldFails(c) ==
  /\ c \in Changers /\ pc[c] = "looked" /\ existed[c]
  /\ "read" \in Failures
  /\ IF job[c].kind = "replace"
     THEN Goto(c, "failed") /\ UNCHANGED <<seen, new, readAt, blind>>
     ELSE Propose(c, <<>>, TRUE)
  /\ UNCHANGED <<given, fileVars, existed, readerVars, inflight, dropped>>

\* Approval::request, which Approval models.
Approve(c) ==
  /\ pc[c] = "ask"
  /\ Goto(c, "write")
  /\ UNCHANGED <<given, fileVars, seenVars, readerVars, inflight, dropped>>

Reject(c) ==
  /\ pc[c] = "ask"
  /\ Goto(c, "rejected")
  /\ UNCHANGED <<given, fileVars, seenVars, readerVars, inflight, dropped>>

\* Faulty variant: the file is opened without truncating it.
Open_Keeps(c) ==
  /\ pc[c] = "write" /\ job[c].kind # "append"
  /\ Become(c, TextOf(file))
  /\ Goto(c, "fill")
  /\ UNCHANGED <<given, seenVars, readerVars, inflight, dropped>>

\* KaosPath::write_text opens the file, creating or truncating it.
Open(c) ==
  /\ pc[c] = "write" /\ job[c].kind # "append"
  /\ Become(c, <<>>)
  /\ Goto(c, "fill")
  /\ UNCHANGED <<given, seenVars, readerVars, inflight, dropped>>

\* It then writes from the start, over what another call wrote meanwhile.
Fill(c) ==
  /\ pc[c] = "fill"
  /\ Become(c, new[c] \o SubSeq(TextOf(file), Len(new[c]) + 1, Len(TextOf(file))))
  /\ Goto(c, "ok")
  /\ UNCHANGED <<given, seenVars, readerVars, inflight, dropped>>

\* A call that cannot open the file changed nothing; one that cannot write to it
\* leaves it empty.
WriteFails(c) ==
  /\ \/ pc[c] = "write" /\ "open" \in Failures
     \/ pc[c] = "fill" /\ "write" \in Failures
  /\ Goto(c, "failed")
  /\ UNCHANGED <<given, fileVars, seenVars, readerVars, inflight, dropped>>

\* Faulty variant: the file is opened to be written, not appended to.
AppendRemote_Truncates(c) ==
  /\ pc[c] = "write" /\ job[c].kind = "append" /\ remote
  /\ Become(c, <<c>>)
  /\ Goto(c, "ok")
  /\ UNCHANGED <<given, seenVars, readerVars, inflight, dropped>>

\* SFTP: the call returns when the host has the addition.
AppendRemote(c) ==
  /\ pc[c] = "write" /\ job[c].kind = "append" /\ remote
  /\ Become(c, Append(TextOf(file), c))
  /\ Goto(c, "ok")
  /\ UNCHANGED <<given, seenVars, readerVars, inflight, dropped>>

\* tokio's File takes the addition and writes it on another thread; nobody
\* flushes the file, and the call reports success.
AppendLocal(c) ==
  /\ pc[c] = "write" /\ job[c].kind = "append" /\ ~remote
  /\ IF file = Missing THEN Become(c, <<>>) ELSE UNCHANGED fileVars
  /\ inflight' = inflight \cup {c}
  /\ Goto(c, "ok")
  /\ UNCHANGED <<given, seenVars, readerVars, dropped>>

Land(c) ==
  /\ c \in inflight
  /\ inflight' = inflight \ {c}
  /\ \/ Become(c, Append(TextOf(file), c)) /\ UNCHANGED dropped
     \/ "flush" \in Failures /\ dropped' = dropped \cup {c} /\ UNCHANGED fileVars
  /\ UNCHANGED <<given, pc, seenVars, readerVars>>

Change(c) ==
  Refuse(c) \/ Look(c) \/ ReadOld(c) \/ ReadOldFails(c) \/ Approve(c) \/ Reject(c)
  \/ Open(c) \/ Fill(c) \/ WriteFails(c) \/ AppendRemote(c) \/ AppendLocal(c) \/ Land(c)

-----------------------------------------------------------------------------
(* The tools that read a file. Its first bytes tell which of them it is for. *)

Sniff(c) ==
  /\ c \in Readers /\ pc[c] = "looked"
  /\ Goto(c, IF KindOf(TextOf(file)) = IF job[c].kind = "read" THEN "text" ELSE "image"
             THEN "typed" ELSE "failed")
  /\ readAt' = [readAt EXCEPT ![c] = Len(log)]
  /\ UNCHANGED <<given, fileVars, existed, seen, new, blind, readerVars, inflight, dropped>>

\* Any of the operations that read may fail.
ReadFails(c) ==
  /\ c \in Readers /\ pc[c] \in {"looked", "typed", "sized", "stream"}
  /\ "read" \in Failures
  /\ Goto(c, "failed")
  /\ UNCHANGED <<given, fileVars, seenVars, readerVars, inflight, dropped>>

\* ReadMediaFile asks for the size first; what it reads then is as it is.
Measure(c) ==
  /\ job[c].kind = "media" /\ pc[c] = "typed"
  /\ IF Len(TextOf(file)) \in 1 .. MaxSize
     THEN Goto(c, "sized") /\ at' = [at EXCEPT ![c] = Len(TextOf(file))]
     ELSE Goto(c, "failed") /\ UNCHANGED at
  /\ UNCHANGED <<given, fileVars, seenVars, got, bytes, cut, told, inflight, dropped>>

LoadMedia(c) ==
  /\ pc[c] = "sized"
  /\ got' = [got EXCEPT ![c] = TextOf(file)]
  /\ told' = [told EXCEPT ![c] = "image"]
  /\ Goto(c, "ok")
  /\ UNCHANGED <<given, fileVars, seenVars, at, bytes, cut, inflight, dropped>>

ReadMediaFile(c) == Measure(c) \/ LoadMedia(c)

\* ReadFile takes the lines one by one from the open file.
OpenStream(c) ==
  /\ job[c].kind = "read" /\ pc[c] = "typed"
  /\ Goto(c, "stream")
  /\ UNCHANGED <<given, fileVars, seenVars, readerVars, inflight, dropped>>

\* What the line stream reads next, if anything: the file as it is by then.
NextLine(c) == IF at[c] < Len(TextOf(file)) THEN <<Lossy(TextOf(file))[at[c] + 1]>> ELSE <<>>

\* Lines before the offset are passed over.
Wanted(c) == at[c] + 1 >= job[c].from

SkipLine(c) ==
  /\ pc[c] = "stream" /\ NextLine(c) # <<>> /\ ~Wanted(c)
  /\ at' = [at EXCEPT ![c] = @ + 1]
  /\ UNCHANGED <<given, fileVars, pc, seenVars, got, bytes, cut, told, inflight, dropped>>

TooLong(line) == Size[line] > MaxLength

\* truncate_line: what is shown of a line that is too long ends with dots.
BytesOf(line) == IF TooLong(line) THEN MaxLength ELSE Size[line]

\* Why no line is taken after n of them, of so many bytes, and what the message
\* says of it: nothing of a call that got all the lines that it asked for.
Full(c, n, size) ==
  CASE n >= job[c].n                     -> "nothing"
    [] n < job[c].n /\ n >= MaxLines     -> "lines"
    [] n < job[c].n /\ n < MaxLines /\ size >= MaxBytes -> "bytes"
    [] OTHER                             -> "no"

TakeLine(c) ==
  /\ pc[c] = "stream" /\ NextLine(c) # <<>> /\ Wanted(c)
  /\ LET line == NextLine(c)[1]
         size == bytes[c] + BytesOf(line)
         full == Full(c, Len(got[c]) + 1, size)
     IN /\ got' = [got EXCEPT ![c] = Append(@, line)]
        /\ bytes' = [bytes EXCEPT ![c] = size]
        /\ cut' = [cut EXCEPT ![c] = IF TooLong(line) THEN @ \cup {at[c] + 1} ELSE @]
        /\ at' = [at EXCEPT ![c] = @ + 1]
        /\ Goto(c, IF full = "no" THEN "stream" ELSE "ok")
        /\ told' = [told EXCEPT ![c] = IF full = "no" THEN @ ELSE full]
  /\ UNCHANGED <<given, fileVars, seenVars, inflight, dropped>>

\* truncate_line cuts between bytes, and panics inside of a letter; the toolset
\* makes an error of it.
CutPanics(c) ==
  /\ pc[c] = "stream" /\ NextLine(c) # <<>> /\ Wanted(c) /\ TooLong(NextLine(c)[1])
  /\ Goto(c, "failed")
  /\ UNCHANGED <<given, fileVars, seenVars, readerVars, inflight, dropped>>

StreamEnds(c) ==
  /\ pc[c] = "stream" /\ NextLine(c) = <<>>
  /\ told' = [told EXCEPT ![c] = "end"]
  /\ Goto(c, "ok")
  /\ UNCHANGED <<given, fileVars, seenVars, got, at, bytes, cut, inflight, dropped>>

ReadFile(c) ==
  OpenStream(c) \/ SkipLine(c) \/ TakeLine(c) \/ CutPanics(c) \/ StreamEnds(c)

FileNext ==
  \E c \in Calls : Change(c) \/ Sniff(c) \/ ReadFails(c) \/ ReadMediaFile(c) \/ ReadFile(c)

FileSpec == FileInit /\ [][FileNext]_allVars

-----------------------------------------------------------------------------
Steps(c) == {i \in DOMAIN log : log[i].by = c}
LastStep(c) == CHOOSE i \in Steps(c) : \A j \in Steps(c) : j <= i

\* What call d did to the file came after c was done with it, and d told its
\* client that c's piece goes, could not know of it, or failed half-way.
Overrode(d, c) ==
  /\ Steps(d) # {} /\ LastStep(d) > LastStep(c)
  /\ \/ readAt[d] < LastStep(c)
     \/ c \in ToSet(seen[d]) /\ c \notin ToSet(new[d])
     \/ blind[d]
     \/ pc[d] \in {"fill", "failed"}

\* A change that was reported as made is in the file as long as no later call
\* overrode it: one whose client saw it go, that had read the file before, or
\* whose own write broke. An append on the local disk may also be on its way,
\* or be lost in the background. (replace.rs:133-180, write.rs:84-141)
ReportedIsKept ==
  \A c \in Changers : pc[c] = "ok" /\ c \notin ToSet(TextOf(file)) =>
    \/ c \in inflight \cup dropped
    \/ \E d \in Changers \ {c} : Overrode(d, c)

\* A call that finds the file as it showed it, and is not disturbed while it
\* writes, does what its client approved: an append adds its text to the bytes
\* that were there, any other call leaves exactly the text that it showed (with
\* marks for the bytes that were no UTF-8, which no diff shows as a change).
\* (build_diff_blocks and write_text, replace.rs:153-180, write.rs:84-141)
ApprovedIsDone ==
  \A c \in Changers : pc[c] = "ok" /\ Steps(c) # {} /\ c \notin inflight \cup dropped =>
    LET last == LastStep(c)
        first == CHOOSE i \in Steps(c) : \A j \in Steps(c) : i <= j
        old == TextOf(log[first - 1].text)
    IN (\A i \in first .. last : log[i].by = c) /\ Lossy(old) = seen[c]
         => log[last].text = IF job[c].kind = "append" THEN Append(old, c) ELSE new[c]

\* What ReadFile returns of a file that nobody changes meanwhile are the lines
\* it was asked for, as text; it names those of them that it cut short, and no
\* other; it says that the file ends only where it does, and otherwise why it
\* returns less than it was asked for: there are MAX_LINES lines, or there are
\* fewer, none longer than MAX_LINE_LENGTH, and they make up MAX_BYTES bytes.
\* (ReadFile::call_typed, read.rs:165-239)
ReadIsTrue ==
  \A c \in Readers : job[c].kind = "read" /\ pc[c] = "ok" /\ readAt[c] = Len(log) =>
    LET from == job[c].from
        last == from + Len(got[c]) - 1
    IN /\ got[c] = SubSeq(Lossy(TextOf(file)), from, last)
       /\ cut[c] = {i \in from .. last : TooLong(Lossy(TextOf(file))[i])}
       /\ told[c] = "end" => last >= Len(TextOf(file))
       /\ told[c] = "nothing" => Len(got[c]) = job[c].n
       /\ told[c] = "lines" => Len(got[c]) = MaxLines
       /\ told[c] = "bytes" => /\ Len(got[c]) < MaxLines
                               /\ MaxBytes <= bytes[c] /\ bytes[c] <= Len(got[c]) * MaxLength

\* What ReadMediaFile shows, if nobody changes the file meanwhile, is all of an
\* image that is not too large, and of the size that it says.
\* (ReadMediaFile::read_media, read_media.rs:62-114)
MediaIsTrue ==
  \A c \in Readers : job[c].kind = "media" /\ pc[c] = "ok" /\ readAt[c] = Len(log) =>
    /\ got[c] = TextOf(file) /\ KindOf(got[c]) = "image"
    /\ Len(got[c]) = at[c] /\ at[c] <= MaxSize

\* What a file tool tells its client of its call is so, if nobody got between.
FilesAreAsTold == ApprovedIsDone /\ ReadIsTrue /\ MediaIsTrue
=============================================================================
