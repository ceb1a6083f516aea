---------------------------- MODULE StreamMessages ----------------------------
(***************************************************************************)
(* From the bytes of a stream to the configs the client serves: the reader *)
(* loop of configdirector/_eventsource/client.py, its parser, the message  *)
(* handler of configdirector/_transport/streaming.py, parse_bundle, and    *)
(* the state _on_bundle() replaces.                                        *)
(*                                                                         *)
(* One thread reads one stream.  The server's text is cut into chunks      *)
(* anywhere; between the bytes of one character the decoder has nothing to *)
(* hand over and the chunk is empty.                                       *)
(***************************************************************************)
EXTENDS EventSourceParser, Bundle, FiniteSetsExt

CONSTANTS
  Texts,           \* the texts a server may send
  Documents,       \* payload -> the JSON document it spells
  Keys,            \* config keys
  MarkMayBeCut     \* whether a chunk may end within a byte order mark

ASSUME StreamAssumption == MarkMayBeCut \in BOOLEAN

VARIABLES
  text,       \* what the server sends on this stream
  pos,        \* how much of it has been read
  parser,     \* the parser's state
  lastId,     \* the client's _last_event_id
  served,     \* the client's _configs, known by their ids; None before
  segments,   \* the ids in the client's _segments
  ended       \* the reader has returned

vars == <<text, pos, parser, lastId, served, segments, ended>>

(* A payload of several lines, or of anything but one document, is no JSON. *)
DocumentOf(data) ==
  IF Len(data) = 1 /\ Len(data[1]) = 1 /\ data[1][1] \in DOMAIN Documents
    THEN Documents[data[1][1]] ELSE [is |-> "text"]

\* Mutant of OnBundle: a full bundle drops what it could not read.
OnBundle_Drops(state, bundle) ==
  IF state.served = None \/ bundle.kind = "full"
    THEN [state EXCEPT !.served = bundle.configs, !.segments = bundle.segments]
    ELSE [state EXCEPT !.served = bundle.configs @@ @,
                       !.segments = @ \cup bundle.segments]

OnBundle(state, bundle) ==
  LET kept == IF state.served = None THEN {}
              ELSE bundle.unreadable \cap DOMAIN state.served
  IN IF state.served = None \/ bundle.kind = "full"
       THEN [state EXCEPT !.served = bundle.configs @@ [k \in kept |-> @[k]],
                          !.segments = bundle.segments]
       ELSE [state EXCEPT !.served = bundle.configs @@ @,
                          !.segments = @ \cup bundle.segments]

(* A message that gives no bundle is logged and skipped, whatever          *)
(* exception said so: _notify() catches the ones on_message does not.      *)
OnMessage(state, call) ==
  LET bundle == ParseBundle(DocumentOf(call.data))
  IN IF bundle.is = "bundle" THEN OnBundle(state, bundle) ELSE state

HandleEvent(state, call) ==
  OnMessage([state EXCEPT !.lastId = IF call.id = None THEN @ ELSE call.id], call)

(* How far a chunk may reach: not at all within a character of several     *)
(* bytes, and past a byte order mark unless that may be cut.               *)
Mark == IF IsPrefix(<<Bom>>, text) THEN 1
        ELSE IF IsPrefix(DecodedBom, text) THEN 3 ELSE 0

MayEndAt(n) ==
  /\ n = pos => n < Len(text) /\ text[n + 1] = Bom
  /\ n < Mark => MarkMayBeCut

ReadChunk(n) ==
  LET p == Feed([parser EXCEPT !.out = <<>>], SubSeq(text, pos + 1, n))
      events == SelectSeq(p.out, LAMBDA call : call.is = "event")
      state == FoldLeft(HandleEvent, [served |-> served, segments |-> segments,
                                      lastId |-> lastId], events)
  IN /\ ~ended
     /\ n \in pos..Len(text)
     /\ MayEndAt(n)
     /\ parser' = [p EXCEPT !.out = parser.out \o @]
     /\ served' = state.served
     /\ segments' = state.segments
     /\ lastId' = state.lastId
     /\ pos' = n
     /\ ended' = p.broken
     /\ text' = text

(* The stream ends, wherever it was: what is buffered goes.                *)
StreamEnds ==
  /\ ~ended
  /\ ended' = TRUE
  /\ parser' = Finish(parser)
  /\ UNCHANGED <<text, pos, lastId, served, segments>>

Init ==
  /\ text \in Texts
  /\ pos = 0
  /\ parser = NewParser
  /\ lastId = None
  /\ served = None
  /\ segments = {}
  /\ ended = FALSE

Next == StreamEnds \/ \E n \in 0..Len(text) : ReadChunk(n)

Spec == Init /\ [][Next]_vars

-----------------------------------------------------------------------------
(* What the text read so far means, line by line and without chunks.       *)

Body == LET read == SubSeq(text, 1, pos) IN
        IF pos < Mark THEN <<>> ELSE SubSeq(read, Mark + 1, pos)

Lines ==
  LET body == Body
      half == {i \in DOMAIN body : i > 1 /\ body[i] = LF /\ body[i - 1] = CR}
      breaks == {i \in DOMAIN body : body[i] \in {CR, LF}}
      ends == SetToSortSeq(breaks \ half, <)
  IN [n \in DOMAIN ends |->
        LET before == {i \in breaks : i < ends[n]}
        IN SubSeq(body, 1 + Max({0} \cup before), ends[n] - 1)]

(* The values of a field in a sequence of lines, in order.                 *)
ValuesOf(lines, name) ==
  LET named == SelectSeq(lines, LAMBDA l : l = <<name>> \/ IsPrefix(<<name, Colon>>, l))
  IN [i \in DOMAIN named |-> FieldValue(named[i], 3)]

LastOr(seq, default) == IF seq = <<>> THEN default ELSE Last(seq)

(* The events: one at every blank line, made of the lines since the blank  *)
(* line before it, with the last id so far.                                *)
Events ==
  LET lines == Lines
      blanks == {n \in DOMAIN lines : lines[n] = <<>>}
      Since(n) == SubSeq(lines, 1 + Max({0} \cup {m \in blanks : m < n}), n - 1)
      Event(n) ==
        [is |-> "event",
         data |-> ValuesOf(Since(n), "data"),
         type |-> LastOr(ValuesOf(Since(n), "event"), None),
         id |-> LastOr(SelectSeq(ValuesOf(SubSeq(lines, 1, n), "id"),
                                 LAMBDA v : ~Contains(v, Null)), None)]
      at == SetToSortSeq({n \in blanks : Event(n).data \notin {<<>>, <<<<>>>>}}, <)
  IN [i \in DOMAIN at |-> Event(at[i])]

Handed == SelectSeq(parser.out, LAMBDA call : call.is = "event")

TooLarge ==
  LET body == Body
      lines == Lines
  IN \/ \E i \in DOMAIN body :
          /\ i + MaxLineChars \in DOMAIN body
          /\ \A m \in i..(i + MaxLineChars) : body[m] \notin {CR, LF}
     \/ \E a \in DOMAIN lines : \E b \in a..Len(lines) :
          /\ \A m \in a..b : lines[m] # <<>>
          /\ DataLen(ValuesOf(SubSeq(lines, a, b), "data")) > MaxEventChars

-----------------------------------------------------------------------------
(* Properties                                                              *)

(* EventSourceParser: the events handed over are those of the text read so *)
(* far, each once, complete and in order, however the network cut it; a    *)
(* stream is refused as too large only when a line or an event of it is,   *)
(* and until then never buffers more than max_line_chars of a line.        *)
CutsDoNotMatter ==
  /\ ~parser.broken => Handed = Events
  /\ parser.broken => TooLarge /\ IsPrefix(Handed, Events)
  /\ Len(parser.line) <= MaxLineChars

(* What the events in a set mean for key k: the last one with a definition *)
(* of it that can be read decides, unless a full bundle without k came     *)
(* later.                                                                  *)
Sent(i) == DocumentOf(Handed[i].data)
SentConfigs(i) == Get(Sent(i), "configs")
SentFor(k, i) == Get(SentConfigs(i), k)

Means(k, events) ==
  LET reads == {i \in events : ParseConfig(SentFor(k, i)) = "ok"}
      drops == {i \in events : /\ ~IsA(Get(Sent(i), "kind"), "string", "delta")
                               /\ k \notin DOMAIN SentConfigs(i).val}
  IN IF reads = {} \/ Max({0} \cup drops) > Max({0} \cup reads) THEN None
     ELSE Get(SentFor(k, Max(reads)), "id").val

BundlesSent == {i \in DOMAIN Handed : SentConfigs(i).is = "dict"}
Overflows(i) == \E l \in DOMAIN SentConfigs(i).val : ParseConfig(SentFor(l, i)) = "overflow"

ServesMeaningOf(events) ==
  \A k \in Keys :
    Means(k, events) = IF served # None /\ k \in DOMAIN served THEN served[k] ELSE None

(* _parse_configs says that one unreadable config must not cost the        *)
(* application every other config of its bundle (_bundle.py:79): every key *)
(* serves the last definition of it that could be read.                    *)
LastReadableServed == ServesMeaningOf(BundlesSent)

(* _on_message, parse_bundle and _on_bundle, bundles left out in which a   *)
(* number overflows int() or float(): after any sequence of messages, junk *)
(* and partly unreadable bundles included, every key serves the last       *)
(* definition of it that could be read.  An unreadable definition costs    *)
(* neither the other configs of its bundle nor the one served before; an   *)
(* overflow costs its own bundle, whole, and nothing of the others.        *)
OthersServed == ServesMeaningOf({i \in BundlesSent : ~Overflows(i)})
=============================================================================
