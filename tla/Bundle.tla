-------------------------------- MODULE Bundle --------------------------------
(***************************************************************************)
(* parse_bundle and the parsers it calls, configdirector/_bundle.py: which *)
(* definitions of a document are read, and which exception the others      *)
(* raise.  What a definition says is left as it was sent.                  *)
(*                                                                         *)
(* A JSON value is a record of its type and its content; of a number only  *)
(* what a conversion can trip over is kept.                                *)
(***************************************************************************)
EXTENDS Naturals, Sequences, SequencesExt

JNull == [is |-> "null"]
JBool(b) == [is |-> "bool", val |-> b]
JNumber(n) == [is |-> "number", val |-> n]
JString(s) == [is |-> "string", val |-> s]
JList(s) == [is |-> "list", val |-> s]
JDict(f) == [is |-> "dict", val |-> f]

(* float() takes a string that spells a number.                            *)
NumericTexts == {"50"}

IsA(raw, type, val) == raw.is = type /\ raw.val = val

Get(raw, f) == IF raw.is = "dict" /\ f \in DOMAIN raw.val THEN raw.val[f] ELSE JNull

OrEmpty(raw) ==
  IF raw.is = "null" \/ IsA(raw, "bool", FALSE) \/ IsA(raw, "number", "zero")
    THEN JList(<<>>) ELSE raw

-----------------------------------------------------------------------------
(* An outcome is "ok", "unreadable" (AttributeError, KeyError, TypeError   *)
(* or ValueError) or "overflow" (OverflowError).  The first failure of a   *)
(* sequence of steps is the outcome of all.                                *)

First(outcomes) ==
  LET failures == SelectSeq(outcomes, LAMBDA o : o # "ok")
  IN IF failures = <<>> THEN "ok" ELSE Head(failures)

Check(holds) == IF holds THEN "ok" ELSE "unreadable"

Item(raw, f) == Check(raw.is = "dict" /\ f \in DOMAIN raw.val)
ItemsOf(raw, fields) == First([i \in DOMAIN fields |-> Item(raw, fields[i])])
HasGet(raw) == Check(raw.is = "dict")

(* Iterating a string or a dict yields strings, none when it is empty.     *)
Each(Outcome(_), raw) ==
  CASE raw.is = "list" -> First([i \in DOMAIN raw.val |-> Outcome(raw.val[i])])
    [] raw.is = "string" -> IF raw.val = "" THEN "ok" ELSE Outcome(raw)
    [] raw.is = "dict" -> First([i \in 1..Len(SetToSeq(DOMAIN raw.val)) |->
                                   Outcome(JString(SetToSeq(DOMAIN raw.val)[i]))])
    [] OTHER -> "unreadable"

(* Every JSON value has a text.                                            *)
AsString(raw) == "ok"

OptionalInt(raw) ==
  CASE IsA(raw, "number", "inf") -> "overflow"
    [] IsA(raw, "number", "nan") -> "unreadable"
    [] OTHER -> "ok"

Float(raw) ==
  IF IsA(raw, "number", "huge") THEN "overflow"
  ELSE Check(\/ raw.is \in {"number", "bool"}
             \/ raw.is = "string" /\ raw.val \in NumericTexts)

ParsePercentage(raw) ==
  First(<<ItemsOf(raw, <<"id", "percentage">>), Float(Get(raw, "percentage"))>>)

ParseVariation(raw) == HasGet(raw)

ParseTypeConstraints(raw) ==
  IF Item(raw, "valueType") = "ok"
    THEN Each(AsString, OrEmpty(Get(raw, "values"))) ELSE "ok"

ConditionKind(raw) ==
  IF Item(raw, "kind") = "ok" THEN Get(raw, "kind") ELSE JString("attribute")

ParseAttributeCondition(raw) ==
  First(<<HasGet(raw), Check(IsA(ConditionKind(raw), "string", "attribute")),
          ItemsOf(raw, <<"id", "attribute", "operator", "targetType">>),
          Each(AsString, OrEmpty(Get(raw, "targetValues")))>>)

ParseCondition(raw) ==
  First(<<HasGet(raw),
          CASE IsA(ConditionKind(raw), "string", "attribute") ->
                 ParseAttributeCondition(raw)
            [] IsA(ConditionKind(raw), "string", "segment") ->
                 ItemsOf(raw, <<"id", "operator", "segmentId">>)
            [] OTHER -> "unreadable">>)

ParseRule(raw) ==
  First(<<HasGet(raw), Each(ParsePercentage, OrEmpty(Get(raw, "percentages"))),
          Item(raw, "id"), OptionalInt(Get(raw, "order")),
          IF IsA(Get(raw, "type"), "string", "percentage") THEN "ok"
            ELSE Each(ParseCondition, OrEmpty(Get(raw, "conditions")))>>)

ParseConfig(raw) ==
  LET target == Get(raw, "target")
  IN First(<<ItemsOf(raw, <<"target", "id", "key", "type">>), HasGet(target),
             Each(ParseRule, OrEmpty(Get(target, "rules"))),
             Each(ParseVariation, OrEmpty(Get(raw, "variations"))),
             ParseTypeConstraints(Get(raw, "typeConstraints"))>>)

ParseGroup(raw) == Each(ParseAttributeCondition, raw)

ParseSegment(raw) ==
  First(<<Item(raw, "groups"), Each(ParseGroup, Get(raw, "groups"))>>)

-----------------------------------------------------------------------------
(* The names in a dict whose definitions are read: the others cost nothing *)
(* but themselves.  Segments that are no dict are none.                    *)
ReadableConfigs(raw) == {k \in DOMAIN raw.val : ParseConfig(raw.val[k]) = "ok"}
ReadableSegments(raw) ==
  IF raw.is = "dict" THEN {s \in DOMAIN raw.val : ParseSegment(raw.val[s]) = "ok"} ELSE {}

(* What they are read as: a definition is known by its id.                 *)
Read(raw, names) == [k \in names |-> Get(Get(raw, k), "id").val]

(* The bundle of a document, or the reason there is none: ValueError,      *)
(* NotAConfigBundleError, or an OverflowError no parser catches.           *)
ParseBundle(document) ==
  LET configs == Get(document, "configs")
  IN CASE document.is # "dict" -> [is |-> "refused"]
       [] configs.is # "dict" -> [is |-> "not a bundle"]
       [] \E k \in DOMAIN configs.val : ParseConfig(configs.val[k]) = "overflow" ->
            [is |-> "raised"]
       [] OTHER ->
            [is |-> "bundle",
             configs |-> Read(configs, ReadableConfigs(configs)),
             unreadable |-> DOMAIN configs.val \ ReadableConfigs(configs),
             segments |-> ReadableSegments(Get(document, "segments")),
             kind |-> IF IsA(Get(document, "kind"), "string", "delta")
                        THEN "delta" ELSE "full"]
=============================================================================
