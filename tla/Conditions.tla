------------------------------ MODULE Conditions ------------------------------
(***************************************************************************)
(* Whether a targeting condition holds of a context: the operators of      *)
(* _evaluation/condition_evaluator.py, segment_evaluator.py and the five   *)
(* comparisons.  A text is a member of Texts; what float(), int(), the     *)
(* version and date patterns, startswith and endswith make of a text is    *)
(* given by constant functions and relations.                              *)
(*                                                                         *)
(* A JSON value is a record with a tag: text, bool, int, float, list,      *)
(* object or null.  Python raises from a few of these operators, and an    *)
(* exception is not the same as a condition that fails, so an outcome is   *)
(* "yes", "no" or "raises".                                                *)
(***************************************************************************)
EXTENDS Integers, Sequences, FiniteSetsExt, SequencesExt

CONSTANTS
    Texts,        \* texts; "", "true", "false" and "user" among them
    None,         \* Python's None
    Raises,       \* what a parser returns that raises instead
    Huge,         \* an integer beyond the range of a float
    NotFinite,    \* a float that is infinite
    DecimalOf,    \* number -> the text it is written as
    ExponentOf,   \* number -> what str() writes, for floats of 1e21 and more
    DecimalTexts, \* the texts made of the characters of decimal literals
    FloatOf,      \* text -> what float() makes of it, None when that is an error
    NearestFloat, \* number -> what float() makes of it, another number for a long integer
    VersionOf,    \* text -> the one to three components of the version in it, or None
    DateOf,       \* text -> the parts of the date it is, or None
    IndexOf,      \* text -> the array index it is, or None
    Blank,        \* texts of white space only
    StartsWith,   \* <<t, u>>: t starts with u
    EndsWith      \* <<t, u>>: t ends with u

Numbers == DOMAIN DecimalOf
FloatNumbers == {n \in Numbers \ {Huge} : NearestFloat[n] = n}

ASSUME TextsAssumption ==
    /\ {"", "true", "false", "user"} \subseteq Texts
    /\ "" \in Blank /\ Blank \subseteq Texts /\ DecimalTexts \subseteq Texts
    /\ None # Raises /\ None \notin Numbers
    /\ {Huge, NotFinite} \subseteq Numbers /\ Numbers \ {Huge, NotFinite} \subseteq Int
    /\ DecimalOf \in [Numbers -> Texts]
    /\ DOMAIN ExponentOf \subseteq Numbers /\ Range(ExponentOf) \subseteq Texts
    /\ FloatOf \in [Texts -> FloatNumbers \cup {None}] /\ FloatOf[""] = None
    /\ \A n \in Numbers \ {Huge, NotFinite} :
          /\ NearestFloat[n] \in FloatNumbers \ {NotFinite}
          /\ DecimalOf[n] \in DecimalTexts /\ FloatOf[DecimalOf[n]] = NearestFloat[n]
    /\ \A t \in Texts : VersionOf[t] # None =>
          \A i \in DOMAIN VersionOf[t] : VersionOf[t][i] \in Nat
    /\ DOMAIN VersionOf = Texts /\ DOMAIN DateOf = Texts /\ DOMAIN IndexOf = Texts
    /\ StartsWith \subseteq Texts \X Texts /\ EndsWith \subseteq Texts \X Texts
    /\ \A t \in Texts : {<<t, t>>, <<t, "">>} \subseteq StartsWith \cap EndsWith

-----------------------------------------------------------------------------
(* JSON values. *)

Text(t) == [tag |-> "text", text |-> t]
Absent == [tag |-> "absent"]
UnknownAttribute == [tag |-> "unknown"]
Missing == [tag |-> "missing"]

Scalars == {"text", "bool", "int", "float"}

\* Text of a scalar: 26 and 26.0 are written alike, as JSON has one kind of number.
ToJsonString(v) ==
    CASE v.tag = "text"             -> v.text
      [] v.tag = "bool"             -> IF v.bool THEN "true" ELSE "false"
      [] v.tag = "float" /\ v.num \in DOMAIN ExponentOf -> ExponentOf[v.num]
      [] v.tag \in {"int", "float"} -> DecimalOf[v.num]

\* Lists and objects have no text, and neither has an attribute that is not there.
Render(v) == IF v.tag \in Scalars THEN ToJsonString(v) ELSE ""

\* One token of a JSON pointer.  Missing stays missing: the code returns at once.
Step(current, token) ==
    CASE current.tag = "object" /\ token \in DOMAIN current.fields -> current.fields[token]
      [] /\ current.tag = "list"
         /\ IndexOf[token] # None
         /\ IndexOf[token] < Len(current.items) -> current.items[IndexOf[token] + 1]
      [] OTHER -> Missing

\* A pointer is the sequence of its tokens, or None when it is not a pointer.
FindByPointer(pointer, document) ==
    IF pointer = None THEN Missing ELSE FoldLeft(Step, document, pointer)

-----------------------------------------------------------------------------
(* Comparisons.  Operators arrive as the dashboard writes them. *)

LowerCase ==
    [o \in {"does NOT equal", "is NOT one of", "does NOT start with any of",
            "does NOT end with any of", "does NOT contain any of", "NOT in"} |->
       CASE o = "does NOT equal"             -> "does not equal"
         [] o = "is NOT one of"              -> "is not one of"
         [] o = "does NOT start with any of" -> "does not start with any of"
         [] o = "does NOT end with any of"   -> "does not end with any of"
         [] o = "does NOT contain any of"    -> "does not contain any of"
         [] o = "NOT in"                     -> "not in"]

\* Mutant of Lower: operators are compared as they are written.
Lower_Not(operator) == operator

Lower(operator) == IF operator \in DOMAIN LowerCase THEN LowerCase[operator] ELSE operator

CompareText(value, operator, targets) ==
    LET op == Lower(operator)
        given == targets # <<>>
        oneOf == value \in Range(targets)
        starts == \E t \in Range(targets) : <<value, t>> \in StartsWith
        ends == \E t \in Range(targets) : <<value, t>> \in EndsWith
    IN \/ op \in {"=", "equals"} /\ given /\ value = targets[1]
       \/ op \in {"!=", "does not equal"} /\ given /\ value # targets[1]
       \/ op = "is one of" /\ oneOf
       \/ op = "is not one of" /\ ~oneOf
       \/ op = "starts with any of" /\ starts
       \/ op = "does not start with any of" /\ ~starts
       \/ op = "ends with any of" /\ ends
       \/ op = "does not end with any of" /\ ~ends

CompareArray(v, operator, targets) ==
    LET op == Lower(operator)
        elements == {ToJsonString(e) : e \in {f \in Range(v.items) : f.tag \in Scalars}}
        contains == v.tag = "list" /\ elements \cap Range(targets) # {}
    IN \/ op = "contains any of" /\ contains
       \/ op = "does not contain any of" /\ ~contains

Outcome(holds) == IF holds THEN "yes" ELSE "no"

\* float() takes more than decimal literals ("inf", " 5", "1_000"), and 1e999 is infinite.
ParseFloat(t) ==
    IF t \in DecimalTexts /\ FloatOf[t] # NotFinite THEN FloatOf[t] ELSE None

\* Booleans are not numbers.  isfinite() raises for an integer no float can hold.
ParseFinite(v) ==
    CASE v.tag \in {"int", "float"} -> IF v.num = Huge THEN Raises
                                       ELSE IF v.num = NotFinite THEN None
                                       ELSE NearestFloat[v.num]
      [] v.tag = "text"             -> ParseFloat(v.text)
      [] OTHER                      -> None

CompareNumeric(v, operator, targets) ==
    LET op == Lower(operator)
        n == ParseFinite(v)
        target == IF targets = <<>> THEN None ELSE ParseFloat(targets[1])
    IN CASE n = Raises -> "raises"
         [] n = None   -> Outcome(op \in {"!=", "does not equal"})
         [] n # Raises /\ n # None /\ target = None -> "no"
         [] OTHER -> Outcome(\/ op \in {"=", "equals"} /\ n = target
                             \/ op \in {"!=", "does not equal"} /\ n # target
                             \/ op = "<" /\ n < target
                             \/ op = "<=" /\ n <= target
                             \/ op = ">" /\ n > target
                             \/ op = ">=" /\ n >= target)

\* Components that are not written are 0.
Coerce(t) ==
    IF VersionOf[t] = None THEN None
    ELSE [i \in 1..3 |-> IF i \in DOMAIN VersionOf[t] THEN VersionOf[t][i] ELSE 0]

Precedes(v, w) ==
    \E i \in 1..3 : v[i] < w[i] /\ \A j \in 1..(i - 1) : v[j] = w[j]

CompareSemver(value, operator, targets) ==
    LET op == Lower(operator)
        version == Coerce(value)
        first == IF targets = <<>> THEN None ELSE Coerce(targets[1])
        oneOf == version # None /\ \E t \in Range(targets) : Coerce(t) = version
    IN IF value \in Blank THEN op = "is not one of"
       ELSE \/ op = "is one of" /\ oneOf
            \/ op = "is not one of" /\ ~oneOf
            \/ /\ version # None /\ first # None
               /\ \/ op \in {"=", "<=", ">="} /\ version = first
                  \/ op \in {"<", "<="} /\ Precedes(version, first)
                  \/ op \in {">", ">="} /\ Precedes(first, version)

\* A date without an offset is in UTC.  An offset of a day or more raises, before the
\* parts are looked at; parts out of range make no date.
ParseDate(t) ==
    LET d == DateOf[t]
        offset == IF d.offset = None THEN 0 ELSE d.offset
    IN IF d = None THEN None
       ELSE IF offset >= 1440 \/ offset <= -1440 THEN Raises
       ELSE IF ~d.inRange THEN None
       ELSE d.minutes - offset

\* Both sides are parsed before either is looked at.  The operator's case matters here.
CompareDate(value, operator, targets) ==
    IF targets = <<>> THEN "no"
    ELSE LET d == ParseDate(value)
             t == ParseDate(targets[1])
         IN IF Raises \in {d, t} THEN "raises"
            ELSE Outcome(/\ d # None /\ t # None
                         /\ \/ operator = "is after" /\ d > t
                            \/ operator = "is before" /\ d < t)

-----------------------------------------------------------------------------
(* Conditions.  A request carries a context, or None, and the application's metadata. *)

EffectiveKind(context) ==
    IF context = None THEN "user" ELSE IF context.kind = None THEN "user" ELSE context.kind

OrAbsent(t) == IF t = None THEN Absent ELSE Text(t)

OfContext(context, field) == IF context = None THEN Absent ELSE OrAbsent(context[field])

Trait(pointer, context) ==
    IF pointer = <<>> \/ context = None THEN Absent
    ELSE LET found == FindByPointer(pointer, context.traits)
         IN IF found.tag \in {"missing", "null"} THEN Absent ELSE found

Resolve(condition, context, metadata) ==
    CASE condition.attribute = "identifier" -> OfContext(context, "identifier")
      [] condition.attribute = "name"       -> OfContext(context, "name")
      [] condition.attribute = "kind"       -> Text(EffectiveKind(context))
      [] condition.attribute = "appName"    -> OrAbsent(metadata.appName)
      [] condition.attribute = "appVersion" -> OrAbsent(metadata.appVersion)
      [] condition.attribute = "traits"     -> Trait(condition.trait, context)
      [] OTHER                              -> UnknownAttribute

EvaluateCondition(condition, context, metadata) ==
    LET v == Resolve(condition, context, metadata)
        op == condition.operator
        targets == condition.targets
    IN IF v = UnknownAttribute THEN "no"
       ELSE CASE condition.type = "text"     -> Outcome(CompareText(Render(v), op, targets))
              [] condition.type = "number"   -> CompareNumeric(v, op, targets)
              [] condition.type = "datetime" -> CompareDate(Render(v), op, targets)
              [] condition.type = "semver"   -> Outcome(CompareSemver(Render(v), op, targets))
              [] condition.type = "array"    -> Outcome(CompareArray(v, op, targets))
              [] OTHER                       -> "no"

\* all() and any() stop at the first outcome that decides, an exception included.
FirstOther(outcomes, o) ==
    LET others == {i \in DOMAIN outcomes : outcomes[i] # o}
    IN IF others = {} THEN o ELSE outcomes[Min(others)]

AllOf(outcomes) == FirstOther(outcomes, "yes")
AnyOf(outcomes) == FirstOther(outcomes, "no")

InSegment(groups, context, metadata) ==
    AnyOf([g \in DOMAIN groups |->
          AllOf([c \in DOMAIN groups[g] |-> EvaluateCondition(groups[g][c], context, metadata)])])

\* Mutant of Negated: an error in a segment is taken for not being in it.
Negated_Unraised(o) == IF o = "yes" THEN "no" ELSE "yes"

Negated(o) == CASE o = "yes" -> "no" [] o = "no" -> "yes" [] o = "raises" -> "raises"

EvaluateSegmentCondition(condition, segments, context, metadata) ==
    IF condition.segment \notin DOMAIN segments THEN "no"
    ELSE LET member == InSegment(segments[condition.segment], context, metadata)
             op == Lower(condition.operator)
         IN IF op = "in" THEN member
            ELSE IF op = "not in" THEN Negated(member)
            ELSE IF member = "raises" THEN "raises" ELSE "no"

ConditionHolds(condition, segments, context, metadata) ==
    IF condition.kind = "segment"
    THEN EvaluateSegmentCondition(condition, segments, context, metadata)
    ELSE EvaluateCondition(condition, context, metadata)
=============================================================================
