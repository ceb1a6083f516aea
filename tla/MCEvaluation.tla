----------------------------- MODULE MCEvaluation -----------------------------
(***************************************************************************)
(* Inputs for module Evaluation.  The tables say of each text what Python  *)
(* says of it; "10**400", "10**22", "2**53" and "2**53+1" stand for the    *)
(* digits of those numbers, 9990, 9010 and 9020 for the last three: they   *)
(* are further apart than the others, which no table depends on.           *)
(***************************************************************************)
EXTENDS OfflineClient, ProviderContext

\* Numbers are written times ten.
MCDecimalOf == (0 :> "0") @@ (10 :> "1") @@ (260 :> "26") @@ (265 :> "26.5") @@ (1000 :> "100")
               @@ (9010 :> "2**53") @@ (9020 :> "2**53+1") @@ (9990 :> "10**22")
               @@ (Huge :> "10**400") @@ (NotFinite :> "Infinity")
MCNearestFloat == [n \in DOMAIN MCDecimalOf |-> IF n = 9020 THEN 9010 ELSE n]
MCExponentOf == (9990 :> "1e+22")

Floats == ("0" :> 0) @@ ("1" :> 10) @@ ("26" :> 260) @@ ("26.0" :> 260) @@ ("26.5" :> 265)
       @@ ("100" :> 1000) @@ ("1e2" :> 1000) @@ ("2**53" :> 9010) @@ ("2**53+1" :> 9010)
       @@ ("10**22" :> 9990) @@ ("1e+22" :> 9990) @@ ("10**400" :> NotFinite)
       @@ ("Infinity" :> NotFinite)

Dates == ("2024-01-01" :> [offset |-> None, inRange |-> TRUE, minutes |-> 0])
      @@ ("2024-01-01T01:00+02:00" :> [offset |-> 120, inRange |-> TRUE, minutes |-> 60])
      @@ ("2024-01-01T00:00+24:00" :> [offset |-> 1440, inRange |-> TRUE, minutes |-> 0])
      @@ ("2024-13-01" :> [offset |-> None, inRange |-> FALSE, minutes |-> 0])

Versions == ("0" :> <<0>>) @@ ("1" :> <<1>>) @@ ("26" :> <<26>>) @@ ("26.0" :> <<26, 0>>)
         @@ ("26.5" :> <<26, 5>>) @@ ("100" :> <<100>>) @@ ("1e2" :> <<1>>)
         @@ ("2**53" :> <<9010>>) @@ ("2**53+1" :> <<9020>>) @@ ("1e+22" :> <<1>>) @@ ("v1.2" :> <<1, 2>>)
         @@ ("1.2.0" :> <<1, 2, 0>>) @@ ("1.10.0" :> <<1, 10, 0>>)
         @@ [t \in DOMAIN Dates |-> <<2024>>]

\* Ten identifiers; the hash assigns them slots 0 to 0.9.
Digit == ("u0" :> 0) @@ ("u1" :> 1) @@ ("u2" :> 2) @@ ("u3" :> 3) @@ ("u4" :> 4)
      @@ ("u5" :> 5) @@ ("u6" :> 6) @@ ("u7" :> 7) @@ ("u8" :> 8) @@ ("u9" :> 9)

MCTexts == {"", " ", "true", "false", "True", "user", "org", "Org!", "a", "ab", "b", "{}", "[]"}
           \cup DOMAIN Digit \cup DOMAIN Floats \cup DOMAIN Dates \cup DOMAIN Versions

Table(known) == [t \in MCTexts |-> IF t \in DOMAIN known THEN known[t] ELSE None]
Pairs(known) == known \cup {<<t, t>> : t \in MCTexts} \cup {<<t, "">> : t \in MCTexts}

MCFloatOf == Table(Floats)
MCDecimalTexts == {"", "0", "1", "26", "26.0", "26.5", "1e2", "100", "2**53", "2**53+1", "10**22",
                   "1e+22", "10**400", "1.2.0", "1.10.0", "2024-01-01", "2024-13-01"}
MCVersionOf == Table(Versions @@ [t \in DOMAIN Digit |-> <<Digit[t]>>])
MCDateOf == Table(Dates)
MCIndexOf == Table(("0" :> 0) @@ ("1" :> 1) @@ ("26" :> 26) @@ ("100" :> 100)
                   @@ [t \in {"2**53", "2**53+1", "10**22", "10**400"} |-> 9999])
MCIntOf == Table(("0" :> 0) @@ ("1" :> 10) @@ ("26" :> 260) @@ ("100" :> 1000)
                 @@ ("2**53" :> 9010) @@ ("2**53+1" :> 9020) @@ ("10**22" :> 9990)
                 @@ ("10**400" :> Huge))
MCJsonOf == Table(("{}" :> "object") @@ ("[]" :> "list")
                  @@ [t \in {"true", "false"} \cup DOMAIN Floats |-> "other"])
MCStartsWith == Pairs({<<"ab", "a">>, <<"26.0", "26">>, <<"26.5", "26">>, <<"1e2", "1">>,
                       <<"100", "1">>, <<"10**22", "1">>, <<"10**22", "100">>,
                       <<"1e+22", "1">>, <<"10**400", "1">>, <<"10**400", "100">>,
                       <<"10**400", "10**22">>, <<"1.2.0", "1">>,
                       <<"1.10.0", "1">>, <<"2024-01-01T01:00+02:00", "2024-01-01">>,
                       <<"2024-01-01T00:00+24:00", "2024-01-01">>})
MCEndsWith == Pairs({<<"ab", "b">>, <<"u0", "0">>, <<"u1", "1">>}
                    \cup ({"26.0", "100", "10**22", "10**400", "1.2.0", "1.10.0", "2024-01-01T01:00+02:00",
                           "2024-01-01T00:00+24:00"} \X {"0"})
                    \cup ({"2024-01-01", "2024-13-01"} \X {"1"}))

\* Another kind is another slot.
MCSlot(h) == 10 * ((Digit[h[1]] + IF Len(h) = 3 THEN 5 ELSE 0) % 10)

\* The sums of up to three shares of 0 to 0.5 that rounding takes off their tenth, as IEEE
\* doubles add: 0.1 + 0.2 is above 0.3, 0.6 + 0.3 below 0.9.
Rounded == (<<10, 20>> :> 31) @@ (<<20, 10>> :> 31) @@ (<<20, 40>> :> 61) @@ (<<31, 10>> :> 40)
        @@ (<<31, 20>> :> 50) @@ (<<31, 50>> :> 80) @@ (<<40, 20>> :> 61) @@ (<<60, 30>> :> 89)
        @@ (<<61, 20>> :> 80) @@ (<<61, 40>> :> 100) @@ (<<61, 50>> :> 110) @@ (<<70, 10>> :> 79)
        @@ (<<70, 20>> :> 89) @@ (<<80, 40>> :> 121)
MCPlus(a, b) == IF <<a, b>> \in DOMAIN Rounded THEN Rounded[<<a, b>>] ELSE a + b

\* Rounding keeps the order of sums.
ASSUME SumsAreOrdered ==
    \A a \in -20..150, b \in -20..60 :
      MCPlus(a, b) <= MCPlus(a, b + 1) /\ (b <= 0 => MCPlus(a, b) <= a)

-----------------------------------------------------------------------------
(* Contexts, conditions, rules, and the inputs made of them. *)

TruthValue(b) == [tag |-> "bool", bool |-> b]
WholeNumber(n) == [tag |-> "int", num |-> n]
RealNumber(n) == [tag |-> "float", num |-> n]
List(items) == [tag |-> "list", items |-> items]
Object(fields) == [tag |-> "object", fields |-> fields]
Null == [tag |-> "null"]
Server(x) == [server |-> x]

Ctx(identifier, kind, traits) ==
    [identifier |-> identifier, name |-> None, kind |-> kind, traits |-> traits]
Metadata == [appName |-> None, appVersion |-> "1.2.0"]

Attribute(attribute, trait, type, operator, targets) ==
    [kind |-> "attribute", attribute |-> attribute, trait |-> trait, type |-> type,
     operator |-> operator, targets |-> targets]
InSeg(segment, operator) == [kind |-> "segment", segment |-> segment, operator |-> operator]

Bucket(share, value) == [share |-> share, value |-> value, id |-> IF share = 20 THEN None ELSE Server(value)]
Rule(type, order, conditions, target, value, percentages) ==
    [type |-> type, order |-> order, conditions |-> conditions, target |-> target,
     value |-> value, id |-> Server(value), percentages |-> percentages]

Input(rules, segments, context) ==
    [config |-> [id |-> "c", type |-> "string", rules |-> rules, value |-> "26",
                 valueId |-> Server("26")],
     segments |-> segments, context |-> context, metadata |-> Metadata, default |-> Text("a")]

Yes == Attribute("identifier", <<>>, "text", "equals", <<"u0">>)
No == Attribute("identifier", <<>>, "text", "equals", <<"b">>)
Fails == Attribute("name", <<>>, "datetime", "is before", <<"2024-01-01T00:00+24:00">>)

\* One condition on an attribute, of every type, on every kind of value.
TraitValues == {Text(t) : t \in {"", " ", "a", "ab", "26", "26.0", "1e2", "v1.2", "1.10.0",
                                 "Infinity"} \cup DOMAIN Dates}
               \cup {TruthValue(TRUE), WholeNumber(260), RealNumber(260), RealNumber(265), WholeNumber(9020),
                     WholeNumber(Huge), RealNumber(NotFinite), Null,
                     List(<<Text("a"), Null>>), List(<<WholeNumber(260), TruthValue(TRUE)>>), Object(<<>>)}
Documents == {Object("x" :> v) : v \in TraitValues} \cup {Object(<<>>), Null}
TargetLists == {<<>>, <<"">>, <<"26">>, <<"100">>, <<"2**53">>, <<"a", "1.2.0">>, <<"1.2.0">>, <<"2024-01-01">>,
                <<"2024-01-01T00:00+24:00">>, <<"true", "b">>}
Operators == [text |-> {"equals", "starts with any of", "does NOT end with any of"},
              number |-> {"=", "!=", "<="}, datetime |-> {"is before", "is after"},
              semver |-> {"=", "is NOT one of", ">"}, array |-> {"contains any of"},
              colour |-> {"equals"}]
TypedOperators == UNION {{type} \X Operators[type] : type \in DOMAIN Operators}
Sources == {<<"traits", <<"x">>, document>> : document \in Documents}
           \cup ({"identifier", "name", "kind", "appName", "appVersion", "shoe size"} \X {<<>>} \X {Null})

ConditionInputs ==
    {Input(<<Rule("conditional", 1, <<Attribute(s[1], s[2], o[1], o[2], targets)>>, "value",
                  WholeNumber(260), <<>>)>>,
           <<>>, Ctx("u1", None, s[3])) :
        s \in Sources, o \in TypedOperators, targets \in TargetLists}

\* Pointers into nested traits.
PointerInputs ==
    {Input(<<Rule("conditional", 1, <<Attribute("traits", pointer, "text", op, <<"a">>)>>, "value", WholeNumber(260), <<>>)>>,
           <<>>, Ctx("u1", None, Object("x" :> List(<<Text("b"), Object("x" :> Text("a"))>>)))) :
        op \in {"equals", "does NOT equal"},
        pointer \in {None, <<"x">>, <<"x", "0">>, <<"x", "1", "x">>, <<"x", "26">>, <<"x", "a">>,
                     <<"x", "0", "x">>}}

\* Every segment of up to two groups of up to two conditions that hold, fail or raise.
Groups == SeqOf({Yes, No, Fails}, 2)
SegmentInputs ==
    {Input(<<Rule("conditional", None, <<InSeg(s, op)>>, "value", Text("b"), <<>>)>>,
           "s" :> groups, Ctx("u0", None, NoTraits)) :
        s \in {"s", "gone"}, op \in {"in", "NOT in", "near"}, groups \in SeqOf(Groups, 2)}

\* Three rules that match, do not, raise, are unknown or have buckets, in every order.
RuleShapes(order) ==
    {Rule("conditional", order, <<Yes>>, "value", Text("b"), <<>>),
     Rule("conditional", order, <<Yes, Fails>>, "value", Text("b"), <<>>),
     Rule("conditional", order, <<>>, "percentage", None, <<Bucket(10, TruthValue(TRUE))>>),
     Rule("percentage", order, <<>>, "percentage", None, <<Bucket(0, Text("b")), Bucket(10, None)>>),
     Rule("colour", order, <<>>, "value", Text("b"), <<>>)}
RuleInputs ==
    {Input(rules, <<>>, Ctx("u0", None, NoTraits)) :
        rules \in SeqOf(UNION {RuleShapes(order) : order \in {None, 0, 1}}, 3)}

\* Three buckets with shares of 0 to 0.4, and every slot around them.
PercentageInputs ==
    {Input(<<Rule("percentage", 1, <<>>, "percentage", None,
                  <<Bucket(s[1], Text("a")), Bucket(s[2], Text("b")), Bucket(s[3], WholeNumber(260))>>)>>,
           <<>>, context) :
        s \in [1..3 -> {0, 10, 20, 30, 40}],
        context \in {None} \cup {Ctx(u, kind, NoTraits) : u \in {None, "u1", "u3"}, kind \in {"org", "Org!"}}
                    \cup {Ctx(u, None, NoTraits) : u \in DOMAIN Digit}}

\* Every text as every type of config, read as every type of default.
ParseInputs ==
    {[config |-> [id |-> "c", type |-> type, rules |-> <<>>, value |-> t, valueId |-> id],
      segments |-> <<>>, context |-> None, metadata |-> Metadata, default |-> default] :
        type \in {"string", "boolean", "integer", "json"}, t \in MCTexts,
        id \in {None, Server("t")},
        default \in {Text("b"), TruthValue(FALSE), WholeNumber(1000), RealNumber(265), [tag |-> "object", json |-> "{}"],
                     [tag |-> "list", json |-> "[]"]}}

\* What the OpenFeature provider makes of its contexts: attributes of every type, as the name
\* and as a trait, and kinds that are no text.
MCStrOfFloat == (260 :> "26.0") @@ (265 :> "26.5")
Date == [tag |-> "datetime", iso |-> "2024-01-01T01:00+02:00"]
Attributes == {Text("a"), Text("26"), TruthValue(TRUE), WholeNumber(260), RealNumber(260),
               RealNumber(265), Date, [tag |-> "bytes"], List(<<Date, Text("a")>>),
               Object("x" :> Date), Object(<<>>), Null}
Of(key, attributes) == [targetingKey |-> key, attributes |-> attributes]
ProviderContexts ==
    {None} \cup {Of(None, <<>>), Of("u1", "id" :> Text("u2"))}
    \cup {Of(None, ("id" :> Text("u1")) @@ ("name" :> v) @@ ("traits" :> t)) :
            v \in Attributes, t \in {Object("x" :> v) : v \in Attributes} \cup Attributes}
    \cup {Of("u1", ("kind" :> v) @@ ("traits" :> Object("x" :> Text("a")))) : v \in Attributes}
ProviderInputs ==
    {Input(<<Rule("conditional", 1, <<Attribute(a[1], a[2], o[1], o[2], o[3])>>, "value",
                  WholeNumber(260), <<>>)>>, <<>>, ToContext(ec)) :
        ec \in ProviderContexts, a \in {<<"name", <<>>>>, <<"traits", <<"x">>>>},
        o \in {<<"text", "equals", <<"26">>>>, <<"semver", "=", <<"26">>>>,
               <<"number", "=", <<"26">>>>, <<"datetime", "is after", <<"2024-01-01">>>>,
               <<"array", "contains any of", <<"a">>>>}}

\* The cases of the provider's test_context.py.
ASSUME ContextCases ==
    /\ ToContext(None) = None
    /\ ToContext(Of(None, <<>>)) = Ctx(None, None, NoTraits)
    /\ ToContext(Of("u1", "id" :> Text("u2"))).identifier = "u1"
    /\ ToContext(Of(None, "id" :> Text("u2"))).identifier = "u2"
    /\ LET Written(v) == ToContext(Of(None, ("id" :> v) @@ ("name" :> v)))
       IN \A c \in {<<WholeNumber(260), "26">>, <<RealNumber(265), "26.5">>,
                    <<TruthValue(TRUE), "true">>, <<Date, Date.iso>>, <<Object("x" :> Date), None>>,
                    <<List(<<Date>>), None>>} :
            Written(c[1]) = [Ctx(c[2], None, NoTraits) EXCEPT !.name = c[2]]
    /\ \A t \in {Object(<<>>), Text("a"), List(<<Text("a")>>), WholeNumber(260), Null} :
         ToContext(Of("u1", "traits" :> t)) = Ctx("u1", None, NoTraits)
    /\ ToContext(Of("u1", "traits" :> Object(("x" :> Date) @@ ("y" :> List(<<List(<<Date>>)>>)))))
         = Ctx("u1", None, Object(("x" :> Text(Date.iso)) @@ ("y" :> List(<<List(<<Text(Date.iso)>>)>>))))

Native(value, contents) == [value |-> value, contents |-> contents]
Plain(value) == Native(value, {"ok"})

\* Defaults, and values to put in a file or in the code.
MCDefaults == {Text("b"), TruthValue(TRUE), WholeNumber(1000), RealNumber(265),
               [tag |-> "object", json |-> "{}"], [tag |-> "list", json |-> "[]"]}
Encodables == {Text(""), Text("a"), Text("26"), TruthValue(FALSE), WholeNumber(260),
               WholeNumber(9020), WholeNumber(Huge), RealNumber(260), RealNumber(265),
               RealNumber(9990), [tag |-> "object", json |-> "{}"], [tag |-> "list", json |-> "[]"]}
Unencodables == {Plain(RealNumber(NotFinite)), Plain(WholeNumber(TooLong)), Plain(Null),
                 Plain([tag |-> "tuple"])}
                \cup {Native([tag |-> "object", json |-> "{}"], {"ok", bad}) :
                         bad \in {"not finite", "too long", "bad key", "bad type"}}
Natives == {Plain(v) : v \in Encodables} \cup Unencodables

\* Every value in the code, by that value, and a few values together.
Together == {Text("one"), Text("two"), Text("blank")}
MCValuesOf == [v \in Natives |-> "k" :> v]
              @@ [n \in Together |->
                    CASE n = Text("one")   -> "k" :> Plain(Text("a"))
                      [] n = Text("two")   -> ("k" :> Plain(Text("a"))) @@ ("l" :> Plain(Null))
                      [] n = Text("blank") -> " " :> Plain(Text("a"))]

\* Every value a file of JSON can hold, and a file that cannot be read.
Files == {Plain(v) : v \in Encodables} \cup {Plain(RealNumber(NotFinite)), Plain(Null)}
MCFileOf == [f \in Files |-> "k" :> f] @@ (Null :> None)

Offline == [mode |-> "offline", sdkKey |-> None, file |-> None, values |-> None, url |-> None]
MCOptions ==
    {[Offline EXCEPT !.file = f] : f \in DOMAIN MCFileOf}
    \cup {[Offline EXCEPT !.values = v] : v \in DOMAIN MCValuesOf}
    \cup [mode: {"offline", "streaming", "polling", "colour"}, sdkKey: {None, " ", "a"},
          file: {None, Null}, values: {None} \cup Together, url: {None, "relative"}]

MCInputs == {ConditionInputs, PointerInputs, SegmentInputs, RuleInputs, PercentageInputs,
             ParseInputs, ProviderInputs}
=============================================================================
