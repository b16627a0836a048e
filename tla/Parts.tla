------------------------------- MODULE Parts --------------------------------
(***************************************************************************)
(* The parts of a streamed answer and how kosong puts them together:       *)
(* merge_in_place of message.rs and append_part of generate.rs.            *)
(*                                                                         *)
(* A text is a sequence of letters. The answer's n-th block has the        *)
(* letters <<n, 1>>, <<n, 2>>, ...: no two are alike, so a letter that is  *)
(* lost, doubled, out of order or in the wrong block shows; one that was   *)
(* torn is another letter, of which only we know what it was. Arguments    *)
(* that are absent and arguments that are the empty string are the same:   *)
(* every merge treats them alike.                                          *)
(***************************************************************************)
EXTENDS Integers, SequencesExt

NoId   == <<>>  \* tool_call_id: None
NoSign == 0     \* encrypted: None. A signature is the number of its block.

NoLetter == <<>>
Torn(letter) == Append(letter, "torn")

\* What letters were before they were torn.
Mended(letters) == [k \in DOMAIN letters |-> SubSeq(letters[k], 1, 2)]

Text(letters)        == [kind |-> "text",  body |-> letters, sign |-> NoSign, id |-> NoId]
Think(letters, sign) == [kind |-> "think", body |-> letters, sign |-> sign,   id |-> NoId]
Call(id, letters)    == [kind |-> "call",  body |-> letters, sign |-> NoSign, id |-> id]
Piece(id, letters)   == [kind |-> "piece", body |-> letters, sign |-> NoSign, id |-> id]

\* Empty strings make no parts.
OrNothing(letters, part) == IF letters = <<>> THEN <<>> ELSE <<part>>

\* Faulty variant: a thought that is signed takes more in.
X_Joins(left, right) ==
  \/ left.kind = "text"  /\ right.kind = "text"
  \/ left.kind = "think" /\ right.kind = "think"
  \/ left.kind = "call"  /\ right.kind = "piece" /\ right.id \in {NoId, left.id}
  \/ left.kind = "piece" /\ right.kind = "piece"
       /\ (NoId \in {left.id, right.id} \/ left.id = right.id)

\* A part takes the next one in: texts; thoughts up to a signature; a call its
\* own pieces; a piece another of the same call.
Joins(left, right) ==
  \/ left.kind = "text"  /\ right.kind = "text"
  \/ left.kind = "think" /\ right.kind = "think" /\ left.sign = NoSign
  \/ left.kind = "call"  /\ right.kind = "piece" /\ right.id \in {NoId, left.id}
  \/ left.kind = "piece" /\ right.kind = "piece"
       /\ (NoId \in {left.id, right.id} \/ left.id = right.id)

Join(left, right) ==
  [left EXCEPT !.body = @ \o right.body,
               !.sign = IF @ = NoSign THEN right.sign ELSE @,
               !.id   = IF @ = NoId THEN right.id ELSE @]

-----------------------------------------------------------------------------
\* A message under assembly; orphans are the pieces whose call has not come.
EmptyMessage == [content |-> <<>>, calls |-> <<>>, orphans |-> {}]

\* The place of the call that a piece belongs to: the last call with its id, the
\* last of all if it has none, and 0 if there is no such call.
Owner(message, piece) ==
  LET mine == {n \in DOMAIN message.calls : piece.id \in {NoId, message.calls[n].id}}
  IN  IF mine = {} THEN 0 ELSE Max(mine)

\* Arguments that came before their call are a prefix of what the call brings,
\* the whole of it, or what goes before it.
MergeOrphan(call, orphan) ==
  IF IsPrefix(orphan.body, call.body) THEN call
  ELSE IF IsPrefix(call.body, orphan.body) THEN [call EXCEPT !.body = orphan.body]
  ELSE [call EXCEPT !.body = orphan.body \o @]

AppendCall(message, call) ==
  LET mine == {o \in message.orphans : o.id = call.id}
      whole == IF mine = {} THEN call ELSE MergeOrphan(call, CHOOSE o \in mine : TRUE)
  IN  [message EXCEPT !.orphans = @ \ mine, !.calls = Append(@, whole)]

\* A piece without a call and without an id is dropped.
KeepOrphan(message, piece) ==
  LET mine == {o \in message.orphans : o.id = piece.id}
  IN  IF piece.id = NoId THEN message
      ELSE IF mine = {} THEN [message EXCEPT !.orphans = @ \cup {piece}]
      ELSE [message EXCEPT !.orphans = (@ \ mine) \cup {Join(o, piece) : o \in mine}]

AppendPiece(message, piece) ==
  LET n == Owner(message, piece)
  IN  IF n = 0 THEN KeepOrphan(message, piece)
      ELSE [message EXCEPT !.calls[n] = Join(@, piece)]

AppendPart(message, part) ==
  CASE part.kind = "call"  -> AppendCall(message, part)
    [] part.kind = "piece" -> AppendPiece(message, part)
    [] OTHER               -> [message EXCEPT !.content = Append(@, part)]
=============================================================================
