--------------------------- MODULE EventSourceParser --------------------------
(***************************************************************************)
(* The parser of a server-sent-events stream,                              *)
(* configdirector/_eventsource/parser.py, as operators on its state.       *)
(*                                                                         *)
(* A text is a sequence of characters.  A character is a string: the ones  *)
(* the parser looks at are named below, and a word (a field's name, a      *)
(* payload) counts as one character.                                       *)
(***************************************************************************)
EXTENDS Naturals, Sequences, SequencesExt

CONSTANTS
  None,            \* Python's None
  MaxLineChars,    \* max_line_chars
  MaxEventChars    \* max_event_chars

ASSUME ParserAssumption == MaxLineChars \in Nat /\ MaxEventChars \in Nat

CR == "CR"
LF == "LF"
Colon == ":"
Space == " "
Null == "NUL"
Digits == {"5"}                  \* the ASCII ones
Bom == "BOM"                     \* U+FEFF
DecodedBom == <<"EF", "BB", "BF">>

NewParser ==
  [first |-> TRUE, line |-> <<>>, pendingLf |-> FALSE, type |-> None,
   data |-> <<>>, id |-> None, broken |-> FALSE, out |-> <<>>]

(* A callback: on_event, on_comment or on_retry.                           *)
Calls(p, call) == [p EXCEPT !.out = Append(@, call)]

FieldValue(line, start) ==
  LET value == SubSeq(line, start, Len(line))
  IN IF value # <<>> /\ Head(value) = Space THEN Tail(value) ELSE value

ResetEvent(p) == [p EXCEPT !.type = None, !.data = <<>>]

(* The data lines joined by LF; what joins to the empty string is dropped. *)
EmitEvent(p) ==
  ResetEvent(IF p.data \in {<<>>, <<<<>>>>} THEN p
             ELSE Calls(p, [is |-> "event", data |-> p.data, type |-> p.type,
                            id |-> p.id]))

DataLen(values) == FoldLeft(LAMBDA n, v : n + Len(v) + 1, 0, values)

ApplyField(p, field, value) ==
  CASE field = <<"event">> -> [p EXCEPT !.type = value]
    [] field = <<"data">> ->
         IF DataLen(Append(p.data, value)) > MaxEventChars
           THEN [p EXCEPT !.broken = TRUE]
           ELSE [p EXCEPT !.data = Append(@, value)]
    [] field = <<"id">> /\ ~Contains(value, Null) -> [p EXCEPT !.id = value]
    [] field = <<"retry">> /\ value # <<>> /\ ToSet(value) \subseteq Digits ->
         Calls(p, [is |-> "retry", delay |-> value])
    [] OTHER -> p

DispatchLine(p, line) ==
  LET colon == SelectInSeq(line, LAMBDA c : c = Colon)
  IN CASE line = <<>> -> EmitEvent(p)
       [] colon = 1 -> Calls(p, [is |-> "comment", text |-> FieldValue(line, 2)])
       [] colon > 1 -> ApplyField(p, SubSeq(line, 1, colon - 1),
                                  FieldValue(line, colon + 1))
       [] OTHER -> ApplyField(p, line, <<>>)

FinishLine(p, fragment) ==
  IF p.broken THEN p
  ELSE DispatchLine([p EXCEPT !.line = <<>>], p.line \o fragment)

(* Nothing to keep is no fragment; a broken stream has raised already.     *)
BufferLine(p, fragment) ==
  IF p.broken THEN p
  ELSE IF Len(p.line) + Len(fragment) > MaxLineChars
         THEN [p EXCEPT !.broken = TRUE]
         ELSE [p EXCEPT !.line = @ \o fragment]

StripBom(chunk) ==
  CASE IsPrefix(<<Bom>>, chunk) -> Tail(chunk)
    [] IsPrefix(DecodedBom, chunk) -> SubSeq(chunk, 4, Len(chunk))
    [] OTHER -> chunk

(* The LFs of a chunk that belong to a CR before them, after lf: whether   *)
(* the chunk before ended on a CR.                                         *)
SecondHalves(chunk, lf) ==
  {i \in DOMAIN chunk : /\ chunk[i] = LF
                        /\ IF i = 1 THEN lf ELSE chunk[i - 1] = CR}

\* Mutant of PendingLf: a CR that ends a chunk ends its line for good.
PendingLf_Never(chunk) == FALSE

PendingLf(chunk) == Last(chunk) = CR

(* Every line of the chunk is finished in turn; the rest is kept.          *)
FeedText(p, chunk) ==
  LET halves == SecondHalves(chunk, p.pendingLf)
      breaks == {i \in DOMAIN chunk : chunk[i] \in {CR, LF}}
      StartOf(i) == 1 + Max({0} \cup {j \in breaks : j < i})
      finish(q, i) == FinishLine(q, SubSeq(chunk, StartOf(i), i - 1))
      q == FoldLeft(finish, p, SetToSortSeq(breaks \ halves, <))
      rest == SubSeq(chunk, StartOf(Len(chunk) + 1), Len(chunk))
  IN BufferLine([q EXCEPT !.pendingLf = PendingLf(chunk)], rest)

Feed(p, chunk) ==
  LET text == IF p.first THEN StripBom(chunk) ELSE chunk
      q == [p EXCEPT !.first = FALSE]
  IN IF text = <<>> THEN q ELSE FeedText(q, text)

(* Whatever is buffered when the stream ends is discarded.                 *)
Finish(p) == ResetEvent([p EXCEPT !.line = <<>>, !.pendingLf = FALSE])
=============================================================================
