--------------------------- MODULE MCStreamMessages ---------------------------
(* An instance of StreamMessages for TLC: documents and the texts that     *)
(* carry them.                                                             *)
EXTENDS StreamMessages

Config(id, rules) ==
  JDict([id |-> JString(id), key |-> JString("a"), type |-> JString("string"),
         target |-> JDict([rules |-> rules])])

Attribute(extra) ==
  JDict([id |-> JNumber("one"), attribute |-> JString("email"),
         operator |-> JString("equals"), targetType |-> JString("string")] @@ extra)

Rule(fields) == JList(<<JDict([id |-> JString("r")] @@ fields)>>)
Conditional(condition) == Rule([conditions |-> JList(<<condition>>)])
Share(percentage) ==
  Rule([type |-> JString("percentage"), order |-> JNumber("one"),
        percentages |-> JList(<<JDict([id |-> JString("p"),
                                       percentage |-> percentage])>>)])

Good(id) ==
  Config(id, Conditional(Attribute([targetValues |-> JString("x")])))

Readables ==
  <<Good("good"), Config("empty", JNull), Config("share", Share(JString("50"))),
    Config("zero", JNumber("zero")),
    Config("seg", Conditional(JDict([kind |-> JString("segment"), id |-> JNull,
              operator |-> JString("in"), segmentId |-> JString("s")]))),
    JDict(Config("vars", JString("")).val @@
          [variations |-> JList(<<JDict([value |-> JNull])>>),
           typeConstraints |-> JDict([valueType |-> JString("string"),
                                      values |-> JDict([x |-> JNull])])])>>

Unreadables ==
  <<JNull, JList(<<Good("in a list")>>), JDict([id |-> JString("no target")]),
    Config("rules", JNumber("one")), Config("text", JString("rules")),
    Config("dict", JDict([x |-> JNull])), Config("share", Share(JNull)),
    Config("order", Rule([order |-> JNumber("nan")])),
    Config("kind", Conditional(JDict([kind |-> JString("cohort")]))),
    Config("values", Conditional(Attribute([targetValues |-> JNumber("one")]))),
    JDict(Good("vars").val @@ [variations |-> JBool(TRUE)]),
    JDict(Good("constraints").val @@
          [typeConstraints |-> JDict([valueType |-> JNull, values |-> JBool(TRUE)])])>>

Overflowing ==
  <<Config("inf", Rule([order |-> JNumber("inf")])),
    Config("huge", Share(JNumber("huge")))>>

Bundles(kind, configs) ==
  JDict([kind |-> JString(kind), configs |-> JDict(configs)])

Segments == JDict([s |-> JDict([groups |-> JList(<<JList(<<Attribute([trait |-> JNull])>>)>>)]),
                   t |-> JDict([groups |-> JNull])])

(* The definitions that can, and cannot, be read, by the name of a payload *)
(* that carries them.                                                      *)
Named(names, seq) == [n \in ToSet(names) |-> seq[SelectInSeq(names, LAMBDA m : m = n)]]

Definitions ==
  Named(<<"r1", "r2", "r3", "r4", "r5", "r6">>, Readables)
  @@ Named(<<"u1", "u2", "u3", "u4", "u5", "u6", "u7", "u8", "u9", "u10", "u11",
             "u12">>, Unreadables)
  @@ Named(<<"o1", "o2">>, Overflowing)

ASSUME ParserCases ==
  /\ \A i \in DOMAIN Readables : ParseConfig(Readables[i]) = "ok"
  /\ \A i \in DOMAIN Unreadables : ParseConfig(Unreadables[i]) = "unreadable"
  /\ \A i \in DOMAIN Overflowing : ParseConfig(Overflowing[i]) = "overflow"

MCDocuments ==
  [p1 |-> JDict(Bundles("full", [a |-> Good("a1"), b |-> Good("b1")]).val
                @@ [segments |-> Segments]),
   p2 |-> Bundles("delta", [a |-> JNull, b |-> Good("b2")]),
   p3 |-> Bundles("full", [a |-> Config("a3", JNumber("one"))]),
   p4 |-> Bundles("delta", [a |-> Good("a4"), b |-> Overflowing[1]]),
   p5 |-> JDict([configs |-> JNull]),
   p6 |-> JList(<<>>)]
  @@ [n \in DOMAIN Definitions |->
        Bundles("delta", [a |-> Definitions[n], b |-> Good(n)])]

DataLine(p) == <<"data", Colon, Space, p>>

(* Streams of up to three messages, and every definition after a good one. *)
Message(p) == DataLine(p) \o <<LF, LF>>
MessageTexts ==
  {FlattenSeq([i \in DOMAIN s |-> Message(s[i])]) :
     s \in {<<"p1", n>> : n \in DOMAIN MCDocuments}
           \cup [1..3 -> {"p1", "p2", "p3"}]}

(* Every stream of up to three lines, whatever ends them, and a few longer *)
(* ones.                                                                   *)
SomeLines ==
  {<<>>, DataLine("p1"), <<"data">>, <<"event", Colon, "x">>, <<"id", Colon, "7">>,
   <<"id", Colon, Null>>}

LongStreams ==
  {<<DataLine("p1"), <<>>, <<"id", Colon, "7">>, DataLine("p2"), <<>>, DataLine("p3"), <<>>>>,
   <<<<Colon, "x">>, <<"retry", Colon, "5">>, <<"retry", Colon, "x">>, <<"other">>>>,
   <<DataLine("p1"), DataLine("p2"), DataLine("p3"), <<>>>>,
   <<DataLine("p1") \o <<"p1", "p1">>, <<>>, DataLine("p2"), <<>>>>}

Terminators == {<<CR>>, <<LF>>, <<CR, LF>>}
Marks == {<<>>, <<Bom>>, DecodedBom}

(* Odd and even lines end in their own way.                                *)
Stream(mark, lines, odd, even) ==
  mark \o FlattenSeq([i \in DOMAIN lines |->
                        lines[i] \o IF i % 2 = 1 THEN odd ELSE even])

LineTexts ==
  {Stream(m, l, o, e) : m \in Marks, o \in Terminators, e \in Terminators,
                        l \in LongStreams}
  \cup {Stream(<<>>, l, o, e) : o \in Terminators, e \in Terminators,
                                l \in [1..3 -> SomeLines]}

MCTexts == MessageTexts \cup LineTexts
=============================================================================
