------------------------------ MODULE Evaluation ------------------------------
(***************************************************************************)
(* One evaluation: ConfigDirectorClient._evaluate with the loop over rules *)
(* of _evaluation/config_evaluator.py and _value_parser.py.  Conditions    *)
(* are those of module Conditions.                                         *)
(*                                                                         *)
(* An input is the definition found for a key, the segments it was read    *)
(* with, the context and the default the caller passed, and the            *)
(* application's metadata.  Between two evaluations somebody may raise the *)
(* share of a bucket in the dashboard (RaiseShare).                        *)
(*                                                                         *)
(* Shares and slots are floats.  A float is an integer here, ordered as    *)
(* floats are: k tenths of a percent is 10 * k, and a sum that rounding    *)
(* takes off its tenth is a little more or less than that.                 *)
(***************************************************************************)
EXTENDS Conditions

CONSTANTS
    Inputs,      \* the inputs considered, a set of sets
    ValidKinds,  \* texts that are valid as a kind of context
    TrueTexts,   \* texts that are "true" in lower case
    FalseTexts,  \* texts that are "false" in lower case
    IntOf,       \* decimal text -> what int() makes of it, None when that is an error
    JsonOf,      \* text -> "object", "list" or "other", None when it is not JSON
    Slot(_),     \* the tenth of a percent a text to hash is assigned
    Plus(_, _),  \* addition of floats
    MaxEdits     \* bound: how often a share is raised

\* A context of an invalid kind is ignored.
ContextToEvaluate(supplied) ==
    IF supplied = None THEN None
    ELSE IF supplied.kind = None \/ supplied.kind \in ValidKinds THEN supplied
    ELSE None

IsSequence(s) == Len(s) \in Nat /\ DOMAIN s = 1..Len(s)

\* Rules, their conditions and buckets, the groups of a segment and theirs are lists.
IsBucket(b) == {"share", "value", "id"} \subseteq DOMAIN b /\ b.share \in Int

IsRule(rule) ==
    /\ {"type", "order", "conditions", "target", "value", "id", "percentages"} \subseteq DOMAIN rule
    /\ rule.order = None \/ rule.order \in Int
    /\ IsSequence(rule.conditions)
    /\ IsSequence(rule.percentages)
    /\ \A k \in DOMAIN rule.percentages : IsBucket(rule.percentages[k])

\* The condition can be read, its targets are texts, and so is, or a number, what it finds.
IsValue(v) ==
    /\ v.tag = "text" => v.text \in Texts
    /\ v.tag = "int" => v.num \in Numbers
    /\ v.tag = "float" => v.num \in FloatNumbers

IsCondition(c, context, metadata) ==
    c.kind = "attribute" =>
      /\ {"attribute", "trait", "type", "operator", "targets"} \subseteq DOMAIN c
      /\ IsSequence(c.targets) /\ Range(c.targets) \subseteq Texts
      /\ IsValue(Resolve(c, ContextToEvaluate(context), metadata))

IsInput(x) ==
    /\ {"config", "segments", "context", "metadata", "default"} \subseteq DOMAIN x
    /\ {"id", "rules"} \subseteq DOMAIN x.config /\ IsSequence(x.config.rules)
    /\ \A i \in DOMAIN x.config.rules :
         /\ IsRule(x.config.rules[i])
         /\ \A c \in DOMAIN x.config.rules[i].conditions :
              IsCondition(x.config.rules[i].conditions[c], x.context, x.metadata)
    /\ \A s \in DOMAIN x.segments :
         /\ IsSequence(x.segments[s])
         /\ \A g \in DOMAIN x.segments[s] : IsSequence(x.segments[s][g])

\* What int() can return.
Wholes == Range(IntOf) \ {None}

ASSUME EvaluationAssumption ==
    /\ \A family \in Inputs : \A x \in family : IsInput(x)
    /\ ValidKinds \subseteq Texts /\ "user" \in ValidKinds
    /\ TrueTexts \cap FalseTexts = {} /\ "true" \in TrueTexts /\ "false" \in FalseTexts
    /\ DOMAIN JsonOf = Texts /\ JsonOf[""] \notin {"object", "list"}
    /\ DecimalTexts \subseteq DOMAIN IntOf /\ IntOf[""] = None
    /\ \A n \in Wholes : DecimalOf[n] \in DecimalTexts /\ IntOf[DecimalOf[n]] = n
    /\ MaxEdits \in Nat

VARIABLES
    input,   \* what is evaluated
    todo,    \* positions of the rules not tried yet
    choice,  \* the value chosen, its ID and where it came from, or None
    result,  \* what _evaluate() returns and reports, or None
    before,  \* the previous evaluation's choice and the bucket raised since, or None
    edits,   \* how many shares were raised
    pc       \* "rules", "parse" or "done"

vars == <<input, todo, choice, result, before, edits, pc>>

-----------------------------------------------------------------------------
(* Rules. *)

Context == ContextToEvaluate(input.context)
Rules == input.config.rules

\* Mutant of TriedBefore: rules are tried in the order they were sent.
TriedBefore_AsSent(i, j) == i < j

\* sorted() is stable; a rule without an order comes last.
TriedBefore(i, j) ==
    LET a == Rules[i].order
        b == Rules[j].order
    IN IF a = b THEN i < j ELSE a # None /\ (b # None => a < b)

\* The next element of the sorted list.
IsNext(i) == i \in todo /\ \A j \in todo \ {i} : TriedBefore(i, j)

NoMatch == None
Match(value, id, rule, bucket) ==
    [value |-> ToJsonString(value), id |-> id, rule |-> rule, bucket |-> bucket]

\* The kind is hashed unless it is the default one.
HashInput(config, identifier, kind) ==
    IF kind = "user" THEN <<identifier, config>> ELSE <<identifier, config, kind>>

AssignPercentage ==
    IF OfContext(Context, "identifier") = Absent THEN 0
    ELSE Slot(HashInput(input.config.id, Context.identifier, EffectiveKind(Context)))

\* The buckets of a rule end where these running totals say.
Totals(percentages) ==
    LET total[k \in 0..Len(percentages)] ==
          IF k = 0 THEN 0 ELSE Plus(total[k - 1], percentages[k].share)
    IN total

\* Mutant of InBucket: a slot on a boundary belongs to the bucket that ends there.
InBucket_Closed(slot, total) == slot <= total

InBucket(slot, total) == slot < total

\* Mutant of BucketOf: the buckets are laid out from the last one.
BucketOf_Backwards(percentages) ==
    LET reached == {k \in DOMAIN percentages :
                      InBucket(AssignPercentage, Totals(Reverse(percentages))[k])}
    IN IF reached = {} THEN 0 ELSE Len(percentages) + 1 - Min(reached)

BucketOf(percentages) ==
    LET reached == {k \in DOMAIN percentages :
                      InBucket(AssignPercentage, Totals(percentages)[k])}
    IN IF reached = {} THEN 0 ELSE Min(reached)

EvaluatePercentage(i) ==
    LET percentages == Rules[i].percentages
        k == BucketOf(percentages)
    IN IF k = 0 THEN NoMatch
       ELSE IF percentages[k].value = None THEN NoMatch
       ELSE Match(percentages[k].value, percentages[k].id, i, k)

Outcomes(i) ==
    [c \in DOMAIN Rules[i].conditions |->
       ConditionHolds(Rules[i].conditions[c], input.segments, Context, input.metadata)]

EvaluateConditionalRule(i) ==
    LET rule == Rules[i]
    IN IF AllOf(Outcomes(i)) # "yes" THEN NoMatch
       ELSE IF rule.target = "value" /\ rule.value # None THEN Match(rule.value, rule.id, i, 0)
       ELSE IF rule.target = "percentage" THEN EvaluatePercentage(i)
       ELSE NoMatch

\* A rule of a kind this version does not know, and one that raises, is disregarded.
EvaluateRule(i) ==
    CASE Rules[i].type = "percentage"  -> EvaluatePercentage(i)
      [] Rules[i].type = "conditional" -> EvaluateConditionalRule(i)
      [] OTHER                         -> NoMatch

-----------------------------------------------------------------------------
(* The value that was chosen, read as the type the caller asked for. *)

ParseBoolean(t) ==
    CASE t \in TrueTexts  -> [tag |-> "bool", bool |-> TRUE]
      [] t \in FalseTexts -> [tag |-> "bool", bool |-> FALSE]
      [] OTHER            -> None

\* Mutant of ParseInteger: every integer is read as a float first.
ParseInteger_ThroughFloat(t) ==
    IF ParseFloat(t) = None THEN None
    ELSE IF ParseFloat(t) % 10 = 0 THEN [tag |-> "int", num |-> ParseFloat(t)]
    ELSE None

\* Numbers are written times ten.  26.0 is an integer too.
ParseInteger(t) ==
    IF t \notin DecimalTexts THEN None
    ELSE IF IntOf[t] # None THEN [tag |-> "int", num |-> IntOf[t]]
    ELSE IF ParseFloat(t) = None THEN None
    ELSE IF ParseFloat(t) % 10 = 0 THEN [tag |-> "int", num |-> ParseFloat(t)]
    ELSE None

ParseNumber(t) == IF ParseFloat(t) = None THEN None ELSE [tag |-> "float", num |-> ParseFloat(t)]

ParseJson(t, shape) == IF JsonOf[t] = shape THEN [tag |-> shape, json |-> t] ELSE None

\* The requested type is that of the default.  A bool is an int in Python, so it is asked
\* for first.
Requested(default) == default.tag

Parse(raw, type, requested) ==
    CASE requested = "bool"  -> ParseBoolean(raw)
      [] requested = "text"  -> IF type \in {"boolean", "integer", "float"} THEN None ELSE Text(raw)
      [] requested = "int"   -> ParseInteger(raw)
      [] requested = "float" -> ParseNumber(raw)
      [] requested \in {"object", "list"} -> ParseJson(raw, requested)

Unreadable(requested) ==
    CASE requested = "bool"              -> "invalid-boolean"
      [] requested = "text"              -> "type-mismatch"
      [] requested \in {"int", "float"}  -> "invalid-number"
      [] requested \in {"object", "list"} -> "invalid-json"

\* The ID a value has when the server gave none: a digest of its text, which is in quotes
\* when a text is read from a JSON config.
ValueIdFor(value) ==
    [digest |-> IF value.tag \in Scalars THEN ToJsonString(value) ELSE value.json,
     quoted |-> value.tag = "text" /\ input.config.type = "json"]

UseDefault(reason) ==
    [value |-> input.default, usedDefault |-> TRUE, reason |-> reason,
     id |-> ValueIdFor(input.default)]

ParseConfigValue(raw, id) ==
    LET requested == Requested(input.default)
        parsed == Parse(raw, input.config.type, requested)
    IN IF raw = "" THEN UseDefault("value-missing")
       ELSE IF parsed = None THEN UseDefault(Unreadable(requested))
       ELSE [value |-> parsed, usedDefault |-> FALSE, reason |-> "found-match",
             id |-> IF id = None THEN ValueIdFor(parsed) ELSE id]

-----------------------------------------------------------------------------
(* Steps of an evaluation. *)

Init ==
    /\ \E family \in Inputs : input \in family
    /\ todo = DOMAIN Rules
    /\ choice = None /\ result = None /\ before = None
    /\ edits = 0
    /\ pc = "rules"

TryRule(i) ==
    /\ pc = "rules" /\ IsNext(i)
    /\ LET match == EvaluateRule(i)
       IN \/ /\ match # NoMatch
             /\ choice' = match
             /\ pc' = "parse"
             /\ UNCHANGED todo
          \/ /\ match = NoMatch
             /\ todo' = todo \ {i}
             /\ UNCHANGED <<choice, pc>>
    /\ UNCHANGED <<input, result, before, edits>>

NoRuleMatched ==
    /\ pc = "rules" /\ todo = {}
    /\ choice' = [value |-> input.config.value, id |-> input.config.valueId,
                  rule |-> 0, bucket |-> 0]
    /\ pc' = "parse"
    /\ UNCHANGED <<input, todo, result, before, edits>>

Return ==
    /\ pc = "parse"
    /\ result' = ParseConfigValue(choice.value, choice.id)
    /\ pc' = "done"
    /\ UNCHANGED <<input, todo, choice, before, edits>>

\* Somebody gives bucket k of rule i a larger share, and the same caller evaluates again.
RaiseShare(i, k) ==
    /\ pc = "done" /\ edits < MaxEdits
    /\ input' = [input EXCEPT !.config.rules[i].percentages[k].share = @ + 10]
    /\ before' = [choice |-> choice, rule |-> i, bucket |-> k]
    /\ edits' = edits + 1
    /\ todo' = DOMAIN Rules
    /\ choice' = None /\ result' = None
    /\ pc' = "rules"

Next ==
    \/ \E i \in todo : TryRule(i)
    \/ NoRuleMatched \/ Return
    \/ \E i \in DOMAIN Rules : \E k \in DOMAIN Rules[i].percentages : RaiseShare(i, k)

Spec == Init /\ [][Next]_vars

-----------------------------------------------------------------------------
(* What evaluations promise. *)

\* The value comes from the matching rule with the smallest order, among equals from the one
\* the server sent first, from a rule without an order only when none with an order matches, and
\* from the default only when no rule does; rules that raise or are of an unknown kind take no
\* part (config_evaluator.py, _get_config_value).
FirstMatchWins ==
    choice # None =>
      LET matching == {i \in DOMAIN Rules : EvaluateRule(i) # NoMatch}
          Order(i) == Rules[i].order
      IN IF choice.rule = 0 THEN matching = {}
         ELSE /\ choice.rule \in matching
              /\ \A i \in matching :
                    /\ Order(i) # None => Order(choice.rule) # None /\ Order(choice.rule) <= Order(i)
                    /\ Order(i) = Order(choice.rule) => choice.rule <= i

\* A condition that certainly holds: no exception is passed over, and to be outside a segment
\* every one of its groups must have a condition that certainly fails.
CertainlyHolds(c) ==
    LET Says(d, o) == EvaluateCondition(d, Context, input.metadata) = o
        groups == input.segments[c.segment]
    IN IF c.kind # "segment" THEN Says(c, "yes")
       ELSE /\ c.segment \in DOMAIN input.segments
            /\ IF Lower(c.operator) = "in"
               THEN \E g \in Range(groups) : \A d \in Range(g) : Says(d, "yes")
               ELSE \A g \in Range(groups) : \E d \in Range(g) : Says(d, "no")

\* A conditional rule serves its value only when all its conditions certainly hold, whatever
\* raises on the way: a malformed date or a number too large never puts a context in or out
\* of a segment (config_evaluator.py, _evaluate_rule; segment_evaluator.py).
ServedOnlyWhenConditionsHold ==
    choice # None =>
      (choice.rule # 0 =>
         (Rules[choice.rule].type = "conditional" =>
            \A c \in Range(Rules[choice.rule].conditions) : CertainlyHolds(c)))

\* Nobody is served a bucket of no share (config_evaluator.py, the comment in
\* _evaluate_percentage).
ZeroShareUnreachable ==
    choice # None =>
      (choice.bucket # 0 => Rules[choice.rule].percentages[choice.bucket].share > 0)

\* Raising a bucket's share takes no context out of it or out of the buckets before it: who was
\* served one of them still is (config_evaluator.py, _evaluate_percentage; percent_hashing.py).
RolloutKeepsItsContexts ==
    before # None /\ choice # None =>
      (before.choice.rule = before.rule /\ before.choice.bucket \in 1..before.bucket
         => choice = before.choice)

\* An operator and its opposite, for the type of condition they belong to
\* (_evaluation/types.py).
Opposites ==
    {<<"text", "equals", "does NOT equal">>, <<"text", "is one of", "is NOT one of">>,
     <<"text", "starts with any of", "does NOT start with any of">>,
     <<"text", "ends with any of", "does NOT end with any of">>,
     <<"semver", "is one of", "is NOT one of">>, <<"number", "=", "!=">>,
     <<"array", "contains any of", "does NOT contain any of">>}

\* Every attribute condition of the input.
AttributeConditions ==
    {c \in UNION {Range(Rules[i].conditions) : i \in DOMAIN Rules} : c.kind = "attribute"}

Under(c, operator) == EvaluateCondition([c EXCEPT !.operator = operator], Context, input.metadata)

\* One of the two holds, unless both raise.
NegationsComplement ==
    \A c \in AttributeConditions, p \in Opposites :
      /\ c.type = p[1] /\ c.targets # <<>>
      /\ c.type = "number" => ParseFloat(c.targets[1]) # None
      /\ Resolve(c, Context, input.metadata) # UnknownAttribute
      => {Under(c, p[2]), Under(c, p[3])} \in {{"yes", "no"}, {"raises"}}

\* Of <, = and > exactly one holds, and <= and >= are the opposites of > and <.
ComparisonsAreOrders ==
    \A c \in AttributeConditions :
      LET v == Resolve(c, Context, input.metadata)
          readable ==
            \/ /\ c.type = "number" /\ ParseFinite(v) \notin {None, Raises}
               /\ ParseFloat(c.targets[1]) # None
            \/ /\ c.type = "semver" /\ Render(v) \notin Blank
               /\ Coerce(Render(v)) # None /\ Coerce(c.targets[1]) # None
      IN c.type \in {"number", "semver"} /\ c.targets # <<>> /\ v # UnknownAttribute =>
           (readable =>
              /\ \E o \in {"<", "=", ">"} : {op \in {"<", "=", ">"} : Under(c, op) = "yes"} = {o}
              /\ (Under(c, "<=") = "yes") = (Under(c, ">") = "no")
              /\ (Under(c, ">=") = "yes") = (Under(c, "<") = "no"))

\* Of an operator and its opposite, in the dashboard's spelling, exactly one holds of any value,
\* one that is absent, a list or unreadable included, unless both raise; and versions and
\* numbers that can be read are ordered (condition_evaluator.py and the comparisons).
ComparisonsConsistent == NegationsComplement /\ ComparisonsAreOrders
=============================================================================
