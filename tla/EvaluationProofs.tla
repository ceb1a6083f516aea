-------------------------- MODULE EvaluationProofs --------------------------
(***************************************************************************)
(* Proofs about Evaluation and OfflineClient, for every config, segment,   *)
(* context and default, and whatever the operators on texts say.           *)
(***************************************************************************)
EXTENDS OfflineClient, WellFoundedInduction, TLAPS

-----------------------------------------------------------------------------
(* Outcomes of conditions.                                                 *)

Possible == {"yes", "no", "raises"}

(* A set of positions has a first one.                                     *)
LEMMA FirstPosition ==
  ASSUME NEW S, S \subseteq Nat, S # {}
  PROVE  Min(S) \in S /\ \A y \in S : Min(S) <= y
<1> DEFINE R == {p \in Nat \X Nat : p[1] < p[2]}
<1>1. IsWellFoundedOn(R, Nat)
  BY NatLessThanWellFounded, Zenon DEF OpToRel
<1>2. PICK x \in S : \A y \in S : ~(<<y, x>> \in R)
  BY <1>1, WFMin
<1>3. ASSUME NEW y \in S PROVE x <= y
  <2>1. x \in Nat /\ y \in Nat /\ ~(<<y, x>> \in R)
    BY <1>2
  <2>2. ~(y < x)
    BY <2>1
  <2>. QED
    BY <2>1, <2>2
<1>. QED
  BY <1>2, <1>3 DEF Min

LEMMA FirstOtherFacts ==
  ASSUME NEW outcomes, DOMAIN outcomes \subseteq Nat, NEW o
  PROVE  \/ FirstOther(outcomes, o) = o /\ \A i \in DOMAIN outcomes : outcomes[i] = o
         \/ \E i \in DOMAIN outcomes : /\ FirstOther(outcomes, o) = outcomes[i]
                                       /\ outcomes[i] # o
<1> DEFINE others == {i \in DOMAIN outcomes : outcomes[i] # o}
<1>1. CASE others = {}
  BY <1>1 DEF FirstOther
<1>2. CASE others # {}
  <2>1. Min(others) \in others
    BY <1>2, FirstPosition
  <2>. QED
    BY <1>2, <2>1 DEF FirstOther
<1>. QED
  BY <1>1, <1>2

(* A condition holds, fails or raises.                                     *)
LEMMA ConditionOutcome ==
  ASSUME NEW c, NEW context, NEW metadata
  PROVE  EvaluateCondition(c, context, metadata) \in Possible
<1>1. ASSUME NEW b PROVE Outcome(b) \in Possible
  BY DEF Outcome, Possible
<1>2. ASSUME NEW v, NEW op, NEW targets PROVE CompareNumeric(v, op, targets) \in Possible
  BY <1>1 DEF CompareNumeric, Possible
<1>3. ASSUME NEW v, NEW op, NEW targets PROVE CompareDate(v, op, targets) \in Possible
  BY <1>1 DEF CompareDate, Possible
<1>. QED
  BY <1>1, <1>2, <1>3 DEF EvaluateCondition, Possible

-----------------------------------------------------------------------------
(* What a rule makes of an input.                                          *)

LEMMA SameInput ==
  ASSUME input' = input, NEW i
  PROVE  EvaluateRule(i)' = EvaluateRule(i)
<1>1. Rules' = Rules /\ Context' = Context
  BY DEF Rules, Context
<1>2. AssignPercentage' = AssignPercentage
  BY <1>1 DEF AssignPercentage
<1>3. ASSUME NEW p PROVE BucketOf(p)' = BucketOf(p)
  BY <1>2, Zenon DEF BucketOf
<1>4. EvaluatePercentage(i)' = EvaluatePercentage(i)
  BY <1>1, <1>3, Zenon DEF EvaluatePercentage
<1>5. Outcomes(i)' = Outcomes(i)
  BY <1>1, Zenon DEF Outcomes
<1>6. EvaluateConditionalRule(i)' = EvaluateConditionalRule(i)
  BY <1>1, <1>4, <1>5, Zenon DEF EvaluateConditionalRule
<1>. QED
  BY <1>1, <1>4, <1>6, Zenon DEF EvaluateRule

(* A match names the rule it is of.                                        *)
LEMMA MatchNamesRule ==
  ASSUME NEW i, EvaluateRule(i) # NoMatch
  PROVE  EvaluateRule(i).rule = i
<1>1. EvaluatePercentage(i) = NoMatch \/ EvaluatePercentage(i).rule = i
  BY DEF EvaluatePercentage, Match
<1>2. EvaluateConditionalRule(i) = NoMatch \/ EvaluateConditionalRule(i).rule = i
  BY <1>1 DEF EvaluateConditionalRule, Match
<1>. QED
  BY <1>1, <1>2, Zenon DEF EvaluateRule

(* One by percentage names the bucket of the context.                      *)
LEMMA MatchNamesBucket ==
  ASSUME NEW i, EvaluateRule(i) # NoMatch, EvaluateRule(i).bucket # 0
  PROVE  /\ EvaluateRule(i) = EvaluatePercentage(i)
         /\ EvaluateRule(i).bucket = BucketOf(Rules[i].percentages)
<1>1. \/ EvaluatePercentage(i) = NoMatch
      \/ EvaluatePercentage(i).bucket = BucketOf(Rules[i].percentages)
  BY DEF EvaluatePercentage, Match
<1>2. \/ EvaluateConditionalRule(i) = NoMatch
      \/ EvaluateConditionalRule(i).bucket = 0
      \/ EvaluateConditionalRule(i) = EvaluatePercentage(i)
  BY DEF EvaluateConditionalRule, Match
<1>3. EvaluateRule(i) \in {EvaluatePercentage(i), EvaluateConditionalRule(i)}
  BY Zenon DEF EvaluateRule
<1>. QED
  BY <1>1, <1>2, <1>3

-----------------------------------------------------------------------------
(* The inductive invariant: rules that were tried did not match, and what  *)
(* was chosen is the match of the first rule that is left.                 *)

ChosenIsNext ==
  choice # None =>
    IF choice.rule = 0 THEN todo = {} /\ choice.bucket = 0
    ELSE /\ IsNext(choice.rule)
         /\ choice = EvaluateRule(choice.rule)

EvalInv ==
  /\ IsInput(input)
  /\ todo \subseteq DOMAIN Rules
  /\ \A i \in DOMAIN Rules \ todo : EvaluateRule(i) = NoMatch
  /\ pc \notin {"parse", "done"} => choice = None
  /\ ChosenIsNext

(* The configs an offline client serves have no rules.                     *)
IsPlain(config) == {"id", "rules"} \subseteq DOMAIN config /\ config.rules = <<>>

OfflineInv ==
  /\ EvalInv
  /\ pc \in {"new", "created"} => DOMAIN client = {"options", "plan", "configs"}
  /\ pc = "serving" => \A key \in DOMAIN client.configs : IsPlain(client.configs[key])

Raised(x, i, k) == [x EXCEPT !.config.rules[i].percentages[k].share = @ + 10]

DiffersInShare(x, y, i, k) ==
  LET u == x.config.rules
      v == y.config.rules
      p == u[i].percentages
      q == v[i].percentages
  IN /\ y.config.id = x.config.id /\ y.segments = x.segments
     /\ y.context = x.context /\ y.metadata = x.metadata
     /\ DOMAIN v = DOMAIN u
     /\ \A j \in DOMAIN u : j # i => v[j] = u[j]
     /\ \A f \in {"type", "order", "conditions", "target", "value", "id"} : v[i][f] = u[i][f]
     /\ DOMAIN q = DOMAIN p
     /\ \A l \in DOMAIN p : l # k => q[l] = p[l]
     /\ q[k].share = p[k].share + 10 /\ q[k].value = p[k].value /\ q[k].id = p[k].id

(* Raising a share leaves everything else of an input as it was.           *)
LEMMA RaisedInput ==
  ASSUME NEW x, IsInput(x), NEW i \in DOMAIN x.config.rules,
         NEW k \in DOMAIN x.config.rules[i].percentages
  PROVE  IsInput(Raised(x, i, k)) /\ DiffersInShare(x, Raised(x, i, k), i, k)
<1> DEFINE p == x.config.rules[i].percentages
           bucket == [p[k] EXCEPT !.share = @ + 10]
           q == [p EXCEPT ![k] = bucket]
           rule == [x.config.rules[i] EXCEPT !.percentages = q]
           rules == [x.config.rules EXCEPT ![i] = rule]
           config == [x.config EXCEPT !.rules = rules]
           y == [x EXCEPT !.config = config]
<1>0. /\ {"config", "segments", "context", "metadata", "default"} \subseteq DOMAIN x
      /\ {"id", "rules"} \subseteq DOMAIN x.config
      /\ IsRule(x.config.rules[i])
  BY DEF IsInput
<1>1. IsBucket(p[k]) /\ IsSequence(p)
  BY <1>0 DEF IsRule
<1>2. /\ DOMAIN bucket = DOMAIN p[k] /\ bucket.share = p[k].share + 10
      /\ bucket.value = p[k].value /\ bucket.id = p[k].id
  BY <1>1 DEF IsBucket
<1>3. IsBucket(bucket)
  BY <1>1, <1>2 DEF IsBucket
<1>4. DOMAIN q = DOMAIN p /\ q[k] = bucket /\ \A l \in DOMAIN p : l # k => q[l] = p[l]
  OBVIOUS
<1>5. /\ DOMAIN rule = DOMAIN x.config.rules[i] /\ rule.percentages = q
      /\ \A f \in {"type", "order", "conditions", "target", "value", "id"} :
           rule[f] = x.config.rules[i][f]
  BY <1>0 DEF IsRule
<1>6. /\ DOMAIN rules = DOMAIN x.config.rules
      /\ rules[i] = rule /\ \A j \in DOMAIN rules : j # i => rules[j] = x.config.rules[j]
  OBVIOUS
<1>7. DOMAIN config = DOMAIN x.config /\ config.rules = rules /\ config.id = x.config.id
  BY <1>0
<1>8. /\ DOMAIN y = DOMAIN x /\ y.config = config /\ y.segments = x.segments
      /\ y.context = x.context /\ y.metadata = x.metadata
  BY <1>0
<1>9. y = Raised(x, i, k)
  BY DEF Raised
<1>. HIDE DEF bucket, q, rule, rules, config, y
<1>10. IsSequence(q)
  BY <1>1, <1>4 DEF IsSequence
<1>11. IsRule(rule)
  <2>1. /\ rule.order = x.config.rules[i].order
        /\ rule.conditions = x.config.rules[i].conditions
    BY <1>5
  <2>2. \A l \in DOMAIN q : IsBucket(q[l])
    BY <1>0, <1>3, <1>4 DEF IsRule
  <2>. QED
    BY <1>0, <1>5, <1>10, <2>1, <2>2 DEF IsRule
<1>12. IsSequence(rules) /\ \A j \in DOMAIN rules : IsRule(rules[j])
  BY <1>6, <1>11 DEF IsInput, IsSequence
<1>13. IsInput(y)
  <2>1. \A j \in DOMAIN rules : rules[j].conditions = x.config.rules[j].conditions
    BY <1>5, <1>6
  <2>2. \A j \in DOMAIN rules : \A c \in DOMAIN rules[j].conditions :
          IsCondition(rules[j].conditions[c], x.context, x.metadata)
    BY <1>6, <2>1 DEF IsInput
  <2>. QED
    BY <1>7, <1>8, <1>12, <2>2 DEF IsInput
<1>14. DiffersInShare(x, y, i, k)
  BY <1>2, <1>4, <1>5, <1>6, <1>7, <1>8 DEF DiffersInShare
<1>. QED
  BY <1>9, <1>13, <1>14

LEMMA SameNext ==
  ASSUME input' = input, todo' = todo, NEW i
  PROVE  IsNext(i)' = IsNext(i)
BY DEF IsNext, TriedBefore, Rules

(* A step that neither tries a rule nor changes the input.                 *)
LEMMA Idles ==
  ASSUME EvalInv, input' = input, todo' = todo, choice' = choice,
         pc' \notin {"parse", "done"} => choice = None
  PROVE  EvalInv'
<1>1. Rules' = Rules /\ IsInput(input)' /\ \A i : EvaluateRule(i)' = EvaluateRule(i)
  BY SameInput DEF Rules, EvalInv
<1>2. ChosenIsNext'
  BY <1>1, SameNext DEF EvalInv, ChosenIsNext
<1>. QED
  BY <1>1, <1>2 DEF EvalInv

LEMMA TryRuleStep ==
  ASSUME EvalInv, NEW i \in todo, TryRule(i)
  PROVE  EvalInv'
<1>1. /\ pc = "rules" /\ IsNext(i) /\ input' = input /\ choice = None
      /\ i \in DOMAIN Rules /\ i # 0
  BY DEF TryRule, EvalInv, IsInput, IsSequence, Rules
<1>2. /\ Rules' = Rules /\ IsInput(input)'
      /\ \A j : EvaluateRule(j)' = EvaluateRule(j)
  BY <1>1, SameInput DEF Rules, EvalInv
<1>3. CASE /\ EvaluateRule(i) # NoMatch
           /\ choice' = EvaluateRule(i) /\ pc' = "parse" /\ todo' = todo
  <2>1. choice'.rule = i
    BY <1>3, MatchNamesRule
  <2>2. IsNext(i)'
    BY <1>1, <1>3, SameNext
  <2>3. ChosenIsNext'
    BY <1>1, <1>2, <1>3, <2>1, <2>2 DEF ChosenIsNext
  <2>. QED
    BY <1>2, <1>3, <2>3 DEF EvalInv
<1>4. CASE /\ EvaluateRule(i) = NoMatch
           /\ todo' = todo \ {i} /\ choice' = choice /\ pc' = pc
  <2>1. ChosenIsNext'
    BY <1>1, <1>4 DEF ChosenIsNext
  <2>. QED
    BY <1>1, <1>2, <1>4, <2>1 DEF EvalInv
<1>. QED
  BY <1>3, <1>4 DEF TryRule

LEMMA NoRuleMatchedStep ==
  ASSUME EvalInv, NoRuleMatched
  PROVE  EvalInv'
<1>1. /\ input' = input /\ todo' = todo /\ todo = {} /\ pc' = "parse"
      /\ choice'.rule = 0 /\ choice'.bucket = 0
  BY DEF NoRuleMatched
<1>2. /\ Rules' = Rules /\ IsInput(input)'
      /\ \A j : EvaluateRule(j)' = EvaluateRule(j)
  BY <1>1, SameInput DEF Rules, EvalInv
<1>3. ChosenIsNext'
  BY <1>1 DEF ChosenIsNext
<1>. QED
  BY <1>1, <1>2, <1>3 DEF EvalInv

LEMMA RaiseShareStep ==
  ASSUME EvalInv, NEW i \in DOMAIN Rules, NEW k \in DOMAIN Rules[i].percentages,
         RaiseShare(i, k)
  PROVE  EvalInv'
<1>1. /\ choice' = None /\ todo' = DOMAIN Rules
      /\ input' = Raised(input, i, k)
  BY DEF RaiseShare, Raised
<1>2. IsInput(input) /\ i \in DOMAIN input.config.rules
      /\ k \in DOMAIN input.config.rules[i].percentages
  BY DEF EvalInv, Rules
<1>3. IsInput(input)' /\ DOMAIN Rules' = DOMAIN Rules
  BY <1>1, <1>2, RaisedInput DEF Rules, DiffersInShare
<1>4. ChosenIsNext'
  BY <1>1 DEF ChosenIsNext
<1>. QED
  BY <1>1, <1>3, <1>4 DEF EvalInv

LEMMA EvalStep ==
  ASSUME EvalInv, Next
  PROVE  EvalInv'
<1>1. CASE Return
  BY <1>1, Idles DEF Return
<1>. QED
  BY <1>1, TryRuleStep, NoRuleMatchedStep, RaiseShareStep DEF Next

-----------------------------------------------------------------------------
(* The steps of an offline client.                                         *)

LEMMA PlainInput ==
  ASSUME NEW x, {"config", "segments", "context", "metadata", "default"} \subseteq DOMAIN x,
         IsPlain(x.config), x.segments = <<>>
  PROVE  IsInput(x) /\ DOMAIN x.config.rules = {}
BY DEF IsInput, IsSequence, IsPlain

(* Before any rule is tried of a config that has none.                     *)
LEMMA NothingToTry ==
  ASSUME IsInput(input), DOMAIN Rules = {}, todo = {}, choice = None
  PROVE  EvalInv
BY DEF EvalInv, ChosenIsNext

LEMMA OfflineInit == InitAll => OfflineInv
<1>1. ASSUME Init, client = None PROVE OfflineInv
  <2>1. IsInput(input)
    BY <1>1, EvaluationAssumption DEF Init
  <2>. QED
    BY <1>1, <2>1 DEF Init, OfflineInv, EvalInv, ChosenIsNext
<1>2. ASSUME NEW o \in Options, client = [options |-> o, plan |-> None, configs |-> None],
             input = NoInput, todo = {}, choice = None, pc = "new"
      PROVE  OfflineInv
  <2>1. IsInput(input) /\ DOMAIN Rules = {}
    BY <1>2, PlainInput DEF NoInput, IsPlain, Rules
  <2>2. EvalInv
    BY <1>2, <2>1, NothingToTry
  <2>. QED
    BY <1>2, <2>2 DEF OfflineInv
<1>. QED
  BY <1>1, <1>2 DEF InitAll

LEMMA OfflineStep == OfflineInv /\ [NextAll]_allVars => OfflineInv'
<1>. SUFFICES ASSUME OfflineInv, [NextAll]_allVars PROVE OfflineInv'
  OBVIOUS
<1>0. EvalInv
  BY DEF OfflineInv
<1>1. ASSUME Next PROVE OfflineInv'
  <2>1. pc' \in {"rules", "parse", "done"}
    BY <1>1 DEF Next, TryRule, NoRuleMatched, Return, RaiseShare
  <2>2. EvalInv'
    BY <1>0, <1>1, EvalStep
  <2>. QED
    BY <2>1, <2>2 DEF OfflineInv
<1>2. ASSUME Create PROVE OfflineInv'
  <2>1. /\ pc = "new" /\ input' = input /\ todo' = todo /\ choice' = choice
        /\ \E p : client' = [client EXCEPT !.plan = p]
    BY <1>2 DEF Create
  <2>2. choice = None /\ DOMAIN client' = {"options", "plan", "configs"}
    BY <2>1 DEF OfflineInv, EvalInv
  <2>3. pc' # "serving"
    <3>1. PlanConnection(client.options).does \in {"raise", "connect", "stay offline"}
      BY DEF PlanConnection
    <3>. QED
      BY <1>2, <3>1 DEF Create
  <2>4. EvalInv'
    BY <1>0, <2>1, <2>2, Idles
  <2>. QED
    BY <2>2, <2>3, <2>4 DEF OfflineInv
<1>3. ASSUME Initialize PROVE OfflineInv'
  <2>1. pc = "created" /\ input' = input /\ todo' = todo /\ choice' = choice
    BY <1>3 DEF Initialize
  <2>2. choice = None /\ DOMAIN client = {"options", "plan", "configs"}
    BY <2>1 DEF OfflineInv, EvalInv
  <2>3. EvalInv'
    BY <1>0, <2>1, <2>2, Idles
  <2>4. CASE pc' = "refused"
    BY <2>3, <2>4 DEF OfflineInv
  <2>5. CASE /\ pc' = "serving"
             /\ \E given :
                  client' = [client EXCEPT !.configs =
                    [key \in DOMAIN given |-> UnconditionalConfig(key, given[key].value)]]
    <3>1. PICK given :
            client' = [client EXCEPT !.configs =
                    [key \in DOMAIN given |-> UnconditionalConfig(key, given[key].value)]]
      BY <2>5
    <3>2. client'.configs = [key \in DOMAIN given |-> UnconditionalConfig(key, given[key].value)]
      BY <2>2, <3>1
    <3>3. ASSUME NEW key, NEW v PROVE IsPlain(UnconditionalConfig(key, v))
      BY DEF IsPlain, UnconditionalConfig
    <3>4. \A key \in DOMAIN client'.configs : IsPlain(client'.configs[key])
      BY <3>2, <3>3
    <3>. QED
      BY <2>3, <2>5, <3>4 DEF OfflineInv
  <2>. QED
    BY <1>3, <2>4, <2>5 DEF Initialize
<1>4. ASSUME pc = "serving", NEW key \in DOMAIN client.configs, NEW default,
             GetValue(key, default)
      PROVE  OfflineInv'
  <2>1. /\ input' = [config |-> client.configs[key], segments |-> <<>>, context |-> None,
                     metadata |-> input.metadata, default |-> default]
        /\ todo' = {} /\ pc' = "rules" /\ choice' = choice
    BY <1>4 DEF GetValue
  <2>2. choice' = None /\ IsPlain(input'.config)
    BY <1>4, <2>1 DEF OfflineInv, EvalInv
  <2>3. IsInput(input') /\ DOMAIN Rules' = {}
    BY <2>1, <2>2, PlainInput DEF Rules
  <2>4. EvalInv'
    BY <2>1, <2>2, <2>3 DEF EvalInv, ChosenIsNext
  <2>. QED
    BY <2>1, <2>4 DEF OfflineInv
<1>5. CASE UNCHANGED allVars
  <2>1. EvalInv'
    BY <1>0, <1>5, Idles DEF allVars, vars, EvalInv
  <2>. QED
    BY <1>5, <2>1 DEF allVars, vars, OfflineInv
<1>. QED
  BY <1>1, <1>2, <1>3, <1>4, <1>5 DEF NextAll

LEMMA OfflineAlways == SpecAll => []OfflineInv
BY OfflineInit, OfflineStep, PTL DEF SpecAll

-----------------------------------------------------------------------------
(* What is chosen.                                                         *)

LEMMA ChosenFirst ==
  ASSUME EvalInv
  PROVE  FirstMatchWins
<1>. SUFFICES ASSUME choice # None PROVE FirstMatchWins
  BY DEF FirstMatchWins
<1> DEFINE matching == {i \in DOMAIN Rules : EvaluateRule(i) # NoMatch}
<1>0. matching \subseteq todo
  BY DEF EvalInv
<1>1. CASE choice.rule = 0
  BY <1>0, <1>1 DEF EvalInv, ChosenIsNext, FirstMatchWins
<1>2. CASE choice.rule # 0
  <2> DEFINE r == choice.rule
  <2>1. IsNext(r) /\ EvaluateRule(r) # NoMatch /\ r \in matching
    BY <1>2 DEF EvalInv, ChosenIsNext, IsNext, NoMatch
  <2>2. ASSUME NEW i \in matching
        PROVE  /\ Rules[i].order # None => /\ Rules[r].order # None
                                         /\ Rules[r].order <= Rules[i].order
               /\ Rules[i].order = Rules[r].order => r <= i
    <3>1. i \in Nat /\ r \in Nat
      BY <2>1 DEF EvalInv, IsInput, IsSequence, Rules
    <3>2. /\ Rules[i].order = None \/ Rules[i].order \in Int
          /\ Rules[r].order = None \/ Rules[r].order \in Int
      BY <2>1 DEF EvalInv, IsInput, IsRule, Rules
    <3>3. CASE i = r
      BY <3>1, <3>2, <3>3
    <3>4. CASE i # r
      <4>1. TriedBefore(r, i)
        BY <1>0, <2>1, <3>4 DEF IsNext
      <4>. QED
        BY <3>1, <3>2, <4>1 DEF TriedBefore
    <3>. QED
      BY <3>3, <3>4
  <2>. QED
    BY <1>2, <2>1, <2>2 DEF FirstMatchWins
<1>. QED
  BY <1>1, <1>2

(* Whatever the order the rules were sent in, whatever they contain and    *)
(* whatever raises, the value is that of the matching rule with the        *)
(* smallest order, and the default only when no rule matches               *)
(* (config_evaluator.py, _get_config_value).                               *)
THEOREM FirstRuleWins == SpecAll => []FirstMatchWins
<1>1. OfflineInv => FirstMatchWins
  BY ChosenFirst DEF OfflineInv
<1>. QED
  BY <1>1, OfflineAlways, PTL

-----------------------------------------------------------------------------
(* When a conditional rule serves.                                         *)

(* What the code's all() and any() say of the outcomes they are given.     *)
LEMMA AllOfFacts ==
  ASSUME NEW outcomes, DOMAIN outcomes \subseteq Nat
  PROVE  /\ AllOf(outcomes) = "yes" => \A i \in DOMAIN outcomes : outcomes[i] = "yes"
         /\ AllOf(outcomes) # "yes" => \E i \in DOMAIN outcomes : outcomes[i] = AllOf(outcomes)
<1>. DEFINE o == "yes"
<1>1. \/ AllOf(outcomes) = o /\ \A i \in DOMAIN outcomes : outcomes[i] = o
      \/ \E i \in DOMAIN outcomes : AllOf(outcomes) = outcomes[i] /\ outcomes[i] # o
  BY FirstOtherFacts, Zenon DEF AllOf
<1>. QED
  BY <1>1

LEMMA AnyOfFacts ==
  ASSUME NEW outcomes, DOMAIN outcomes \subseteq Nat
  PROVE  /\ AnyOf(outcomes) = "no" => \A i \in DOMAIN outcomes : outcomes[i] = "no"
         /\ AnyOf(outcomes) # "no" => \E i \in DOMAIN outcomes : outcomes[i] = AnyOf(outcomes)
<1>. DEFINE o == "no"
<1>1. \/ AnyOf(outcomes) = o /\ \A i \in DOMAIN outcomes : outcomes[i] = o
      \/ \E i \in DOMAIN outcomes : AnyOf(outcomes) = outcomes[i] /\ outcomes[i] # o
  BY FirstOtherFacts, Zenon DEF AnyOf
<1>. QED
  BY <1>1

(* A context is in a segment when one of its groups holds altogether, and  *)
(* is outside only when every group has a condition that fails.            *)
LEMMA Membership ==
  ASSUME NEW groups, NEW context, NEW metadata,
         DOMAIN groups \subseteq Nat,
         \A g \in DOMAIN groups : DOMAIN groups[g] \subseteq Nat
  PROVE  LET member == InSegment(groups, context, metadata)
             Says(d, o) == EvaluateCondition(d, context, metadata) = o
         IN /\ member \in Possible
            /\ member = "yes" => \E g \in DOMAIN groups :
                                   \A d \in DOMAIN groups[g] : Says(groups[g][d], "yes")
            /\ member = "no" => \A g \in DOMAIN groups :
                                  \E d \in DOMAIN groups[g] : Says(groups[g][d], "no")
<1> DEFINE inner(g) == [c \in DOMAIN groups[g] |->
                          EvaluateCondition(groups[g][c], context, metadata)]
           outer == [g \in DOMAIN groups |-> AllOf(inner(g))]
<1>1. InSegment(groups, context, metadata) = AnyOf(outer)
  BY Zenon DEF InSegment
<1>2. DOMAIN outer = DOMAIN groups /\ \A g \in DOMAIN groups : outer[g] = AllOf(inner(g))
  OBVIOUS
<1>3. \A g \in DOMAIN groups :
        /\ DOMAIN inner(g) = DOMAIN groups[g]
        /\ \A c \in DOMAIN groups[g] :
             inner(g)[c] = EvaluateCondition(groups[g][c], context, metadata)
  OBVIOUS
<1>. HIDE DEF inner, outer
<1>4. ASSUME NEW g \in DOMAIN groups
      PROVE  /\ outer[g] \in Possible
             /\ outer[g] = "yes" => \A c \in DOMAIN groups[g] :
                   EvaluateCondition(groups[g][c], context, metadata) = "yes"
             /\ outer[g] = "no" => \E c \in DOMAIN groups[g] :
                   EvaluateCondition(groups[g][c], context, metadata) = "no"
  <2>1. DOMAIN inner(g) \subseteq Nat
    BY <1>3
  <2>2. /\ AllOf(inner(g)) = "yes" => \A i \in DOMAIN inner(g) : inner(g)[i] = "yes"
        /\ AllOf(inner(g)) # "yes" =>
             \E i \in DOMAIN inner(g) : inner(g)[i] = AllOf(inner(g))
    BY <2>1, AllOfFacts
  <2>. QED
    BY <1>2, <1>3, <2>2, ConditionOutcome DEF Possible
<1>5. /\ AnyOf(outer) = "no" => \A i \in DOMAIN outer : outer[i] = "no"
      /\ AnyOf(outer) # "no" => \E i \in DOMAIN outer : outer[i] = AnyOf(outer)
  BY <1>2, AnyOfFacts
<1>. QED
  BY <1>1, <1>2, <1>4, <1>5 DEF Possible

LEMMA HoldsForCertain ==
  ASSUME EvalInv, NEW c,
         ConditionHolds(c, input.segments, Context, input.metadata) = "yes"
  PROVE  CertainlyHolds(c)
<1>1. CASE c.kind # "segment"
  BY <1>1 DEF CertainlyHolds, ConditionHolds
<1>2. CASE c.kind = "segment"
  <2> DEFINE groups == input.segments[c.segment]
             member == InSegment(groups, Context, input.metadata)
             op == Lower(c.operator)
  <2>1. /\ c.segment \in DOMAIN input.segments
        /\ op = "in" => member = "yes"
        /\ op # "in" => op = "not in" /\ Negated(member) = "yes"
    BY <1>2 DEF ConditionHolds, EvaluateSegmentCondition
  <2>2. /\ DOMAIN groups \subseteq Nat
        /\ \A g \in DOMAIN groups : DOMAIN groups[g] \subseteq Nat
    <3>1. IsSequence(groups) /\ \A g \in DOMAIN groups : IsSequence(groups[g])
      BY <2>1 DEF EvalInv, IsInput
    <3>2. ASSUME NEW s, IsSequence(s) PROVE DOMAIN s \subseteq Nat
      BY <3>2 DEF IsSequence
    <3>. QED
      BY <3>1, <3>2
  <2>3. /\ member \in Possible
        /\ member = "yes" => \E g \in DOMAIN groups : \A d \in DOMAIN groups[g] :
              EvaluateCondition(groups[g][d], Context, input.metadata) = "yes"
        /\ member = "no" => \A g \in DOMAIN groups : \E d \in DOMAIN groups[g] :
              EvaluateCondition(groups[g][d], Context, input.metadata) = "no"
    BY <2>2, Membership
  <2>4. ASSUME NEW o \in Possible, Negated(o) = "yes" PROVE o = "no"
    <3>1. /\ o = "yes" => Negated(o) = "no"
          /\ o = "raises" => Negated(o) = "raises"
      BY DEF Negated
    <3>. QED
      BY <2>4, <3>1 DEF Possible
  <2>. HIDE DEF member
  <2>5. CASE op = "in"
    <3>1. \E g \in Range(groups) : \A d \in Range(g) :
             EvaluateCondition(d, Context, input.metadata) = "yes"
      BY <2>1, <2>3, <2>5 DEF Range
    <3>. QED
      BY <1>2, <2>1, <2>5, <3>1 DEF CertainlyHolds
  <2>6. CASE op # "in"
    <3>1. \A g \in Range(groups) : \E d \in Range(g) :
             EvaluateCondition(d, Context, input.metadata) = "no"
      BY <2>1, <2>3, <2>4, <2>6 DEF Range
    <3>. QED
      BY <1>2, <2>1, <2>6, <3>1 DEF CertainlyHolds
  <2>. QED
    BY <2>5, <2>6
<1>. QED
  BY <1>1, <1>2

LEMMA ConditionsHeld ==
  ASSUME EvalInv
  PROVE  ServedOnlyWhenConditionsHold
<1>. SUFFICES ASSUME choice # None, choice.rule # 0,
                     Rules[choice.rule].type = "conditional",
                     NEW c \in Range(Rules[choice.rule].conditions)
              PROVE  CertainlyHolds(c)
  BY DEF ServedOnlyWhenConditionsHold
<1> DEFINE r == choice.rule
           conditions == Rules[r].conditions
<1>1. EvaluateRule(r) # NoMatch /\ r \in DOMAIN Rules
  BY DEF EvalInv, ChosenIsNext, IsNext, NoMatch
<1>2. EvaluateRule(r) = EvaluateConditionalRule(r)
  <2>1. "conditional" # "percentage"
    OBVIOUS
  <2>. QED
    BY <2>1, Zenon DEF EvaluateRule
<1>3. AllOf(Outcomes(r)) = "yes"
  BY <1>1, <1>2 DEF EvaluateConditionalRule
<1>4. DOMAIN conditions \subseteq Nat
  BY <1>1 DEF EvalInv, IsInput, IsRule, IsSequence, Rules
<1>5. /\ DOMAIN Outcomes(r) = DOMAIN conditions
      /\ \A i \in DOMAIN conditions : Outcomes(r)[i] =
            ConditionHolds(conditions[i], input.segments, Context, input.metadata)
  BY DEF Outcomes
<1>6. \A i \in DOMAIN Outcomes(r) : Outcomes(r)[i] = "yes"
  BY <1>3, <1>4, <1>5, AllOfFacts
<1>7. PICK i \in DOMAIN conditions : c = conditions[i]
  BY DEF Range
<1>. QED
  BY <1>5, <1>6, <1>7, HoldsForCertain

(* A conditional rule serves a value only when each of its conditions      *)
(* certainly holds; an exception in a segment never stands for being in it *)
(* or out of it (config_evaluator.py, _evaluate_rule;                      *)
(* segment_evaluator.py).                                                  *)
THEOREM ServedWhenHeld == SpecAll => []ServedOnlyWhenConditionsHold
<1>1. OfflineInv => ServedOnlyWhenConditionsHold
  BY ConditionsHeld DEF OfflineInv
<1>. QED
  BY <1>1, OfflineAlways, PTL

-----------------------------------------------------------------------------
(* Running totals.  What is true of floats: a sum is no less than another  *)
(* when its second part is not, and adding nothing, or less, does not make *)
(* a number larger.  A slot is not negative.                               *)
FloatsAdd ==
  \A a, b, c \in Int :
    /\ Plus(a, b) \in Int
    /\ b <= c => Plus(a, b) <= Plus(a, c)
    /\ b <= 0 => Plus(a, b) <= a

SlotsCount == \A h : Slot(h) \in Nat

(* f is the function of running totals of the first n buckets.             *)
IsTotal(f, n, p) ==
  f = [k \in 0..n |-> IF k = 0 THEN 0 ELSE Plus(f[k - 1], p[k].share)]

LEMMA TotalExists ==
  ASSUME NEW n \in Nat, NEW p
  PROVE  \E f : IsTotal(f, n, p)
<1> DEFINE Without == {m \in Nat : ~ \E f : IsTotal(f, m, p)}
<1>1. ASSUME Without # {} PROVE FALSE
  <2>1. PICK m \in Without : \A l \in Without : m <= l
    BY <1>1, FirstPosition
  <2>2. m # 0
    <3>1. IsTotal([k \in 0..0 |-> 0], 0, p)
      BY DEF IsTotal
    <3>. QED
      BY <2>1, <3>1
  <2>3. m - 1 \in Nat /\ m - 1 \notin Without
    BY <2>1, <2>2
  <2>4. PICK g : IsTotal(g, m - 1, p)
    BY <2>3
  <2> DEFINE f == [k \in 0..m |-> IF k = m THEN Plus(g[m - 1], p[m].share) ELSE g[k]]
  <2>5. ASSUME NEW k \in 0..m
        PROVE  f[k] = IF k = 0 THEN 0 ELSE Plus(f[k - 1], p[k].share)
    <3>1. CASE k = m
      BY <2>2, <2>3, <3>1
    <3>2. CASE k # m
      <4>1. k \in 0..(m - 1) /\ f[k] = g[k] /\ (k # 0 => f[k - 1] = g[k - 1])
        BY <2>3, <3>2
      <4>2. g[k] = IF k = 0 THEN 0 ELSE Plus(g[k - 1], p[k].share)
        BY <2>4, <4>1 DEF IsTotal
      <4>. QED
        BY <4>1, <4>2
    <3>. QED
      BY <3>1, <3>2
  <2>6. IsTotal(f, m, p)
    <3>1. f = [k \in 0..m |-> f[k]]
      OBVIOUS
    <3>. HIDE DEF f
    <3>. QED
      BY <2>5, <3>1 DEF IsTotal
  <2>. QED
    BY <2>1, <2>6
<1>. QED
  BY <1>1

LEMMA TotalsUnfold ==
  ASSUME NEW p, IsSequence(p)
  PROVE  /\ Totals(p)[0] = 0
         /\ \A k \in DOMAIN p : Totals(p)[k] = Plus(Totals(p)[k - 1], p[k].share)
<1>1. IsTotal(Totals(p), Len(p), p)
  <2>1. \E f : IsTotal(f, Len(p), p)
    BY TotalExists DEF IsSequence
  <2>. QED
    BY <2>1 DEF IsTotal, Totals
<1>2. \A k \in 0..Len(p) :
        Totals(p)[k] = IF k = 0 THEN 0 ELSE Plus(Totals(p)[k - 1], p[k].share)
  BY <1>1 DEF IsTotal
<1>. QED
  BY <1>2 DEF IsSequence

IsBuckets(p) == IsSequence(p) /\ \A k \in DOMAIN p : IsBucket(p[k])

LEMMA TotalsAreNumbers ==
  ASSUME FloatsAdd, NEW p, IsBuckets(p), NEW k \in 0..Len(p)
  PROVE  Totals(p)[k] \in Int
<1> DEFINE Odd == {m \in 0..Len(p) : Totals(p)[m] \notin Int}
<1>0. IsSequence(p) /\ Len(p) \in Nat /\ DOMAIN p = 1..Len(p)
  BY DEF IsBuckets, IsSequence
<1>1. ASSUME Odd # {} PROVE FALSE
  <2>0. Odd \subseteq Nat
    BY <1>0
  <2>1. PICK m \in Odd : \A l \in Odd : m <= l
    <3>. HIDE DEF Odd
    <3>. QED
      BY <1>1, <2>0, FirstPosition
  <2>2. Totals(p)[0] = 0
    BY <1>0, TotalsUnfold
  <2>3. m \in DOMAIN p /\ m - 1 \in 0..Len(p) /\ m - 1 \notin Odd
    BY <1>0, <2>1, <2>2
  <2>4. Totals(p)[m] = Plus(Totals(p)[m - 1], p[m].share)
    BY <1>0, <2>3, TotalsUnfold
  <2>5. Totals(p)[m - 1] \in Int /\ p[m].share \in Int
    BY <2>3 DEF IsBuckets, IsBucket
  <2>6. Totals(p)[m] \in Int
    BY <2>4, <2>5 DEF FloatsAdd
  <2>. QED
    BY <2>1, <2>6
<1>. QED
  BY <1>1

(* The totals before a bucket depend on the buckets before it only.        *)
LEMMA TotalsAgree ==
  ASSUME NEW p, NEW q, IsSequence(p), IsSequence(q), DOMAIN q = DOMAIN p,
         NEW k \in DOMAIN p,
         \A l \in DOMAIN p : l # k => q[l] = p[l]
  PROVE  \A l \in 0..(k - 1) : Totals(q)[l] = Totals(p)[l]
<1> DEFINE Odd == {m \in 0..(k - 1) : Totals(q)[m] # Totals(p)[m]}
<1>0. k \in Nat /\ Len(p) \in Nat /\ DOMAIN p = 1..Len(p)
  BY DEF IsSequence
<1>1. ASSUME Odd # {} PROVE FALSE
  <2>0. Odd \subseteq Nat
    BY <1>0
  <2>1. PICK m \in Odd : \A l \in Odd : m <= l
    <3>. HIDE DEF Odd
    <3>. QED
      BY <1>1, <2>0, FirstPosition
  <2>2. Totals(p)[0] = 0 /\ Totals(q)[0] = 0
    BY TotalsUnfold
  <2>3. m \in DOMAIN p /\ m # k /\ m - 1 \in 0..(k - 1) /\ m - 1 \notin Odd
    BY <1>0, <2>1, <2>2
  <2>4. /\ Totals(p)[m] = Plus(Totals(p)[m - 1], p[m].share)
        /\ Totals(q)[m] = Plus(Totals(q)[m - 1], q[m].share)
    BY <2>3, TotalsUnfold
  <2>. QED
    BY <2>1, <2>3, <2>4
<1>. QED
  BY <1>1

LEMMA SlotIsNumber ==
  ASSUME SlotsCount
  PROVE  AssignPercentage \in Nat
BY DEF SlotsCount, AssignPercentage

(* The bucket of a context is the first whose total is beyond its slot.    *)
LEMMA BucketFacts ==
  ASSUME SlotsCount, FloatsAdd, NEW p, IsBuckets(p), BucketOf(p) # 0
  PROVE  /\ BucketOf(p) \in DOMAIN p
         /\ AssignPercentage < Totals(p)[BucketOf(p)]
         /\ \A l \in DOMAIN p : l < BucketOf(p) => ~(AssignPercentage < Totals(p)[l])
<1> DEFINE reached == {k \in DOMAIN p : AssignPercentage < Totals(p)[k]}
<1>1. DOMAIN p \subseteq Nat
  BY DEF IsBuckets, IsSequence
<1>2. reached # {} /\ BucketOf(p) = Min(reached)
  BY DEF BucketOf, InBucket
<1>3. Min(reached) \in reached /\ \A l \in reached : Min(reached) <= l
  BY <1>1, <1>2, FirstPosition
<1>4. ASSUME NEW l \in DOMAIN p, l < Min(reached) PROVE l \notin reached
  <2>1. l \in Nat /\ Min(reached) \in Nat
    BY <1>1, <1>3
  <2>. QED
    BY <1>3, <1>4, <2>1
<1>. QED
  BY <1>2, <1>3, <1>4

(* And there is only one such bucket.                                      *)
LEMMA BucketUnique ==
  ASSUME NEW p, IsBuckets(p), NEW b \in DOMAIN p,
         AssignPercentage < Totals(p)[b],
         \A l \in DOMAIN p : l < b => ~(AssignPercentage < Totals(p)[l])
  PROVE  BucketOf(p) = b
<1> DEFINE reached == {k \in DOMAIN p : AssignPercentage < Totals(p)[k]}
<1>1. DOMAIN p \subseteq Nat
  BY DEF IsBuckets, IsSequence
<1>2. b \in reached
  OBVIOUS
<1>3. Min(reached) \in reached /\ \A l \in reached : Min(reached) <= l
  BY <1>1, <1>2, FirstPosition
<1>4. Min(reached) \in Nat /\ b \in Nat /\ Min(reached) <= b /\ ~(Min(reached) < b)
  BY <1>1, <1>2, <1>3
<1>5. Min(reached) = b
  BY <1>4
<1>. QED
  BY <1>2, <1>5 DEF BucketOf, InBucket

LEMMA ServedHasShare ==
  ASSUME SlotsCount, FloatsAdd, NEW p, IsBuckets(p), BucketOf(p) # 0
  PROVE  p[BucketOf(p)].share > 0
<1> DEFINE b == BucketOf(p)
           slot == AssignPercentage
<1>1. /\ b \in DOMAIN p /\ slot < Totals(p)[b]
      /\ \A l \in DOMAIN p : l < b => ~(slot < Totals(p)[l])
  BY BucketFacts
<1>2. /\ IsSequence(p) /\ DOMAIN p = 1..Len(p) /\ Len(p) \in Nat /\ slot \in Nat
      /\ p[b].share \in Int
  BY <1>1, SlotIsNumber DEF IsBuckets, IsSequence, IsBucket
<1>3. /\ Totals(p)[b] \in Int /\ Totals(p)[b - 1] \in Int /\ Totals(p)[0] = 0
      /\ Totals(p)[b] = Plus(Totals(p)[b - 1], p[b].share)
  BY <1>1, <1>2, TotalsAreNumbers, TotalsUnfold
<1>4. Totals(p)[b - 1] <= slot
  <2>1. CASE b = 1
    BY <1>2, <1>3, <2>1
  <2>2. CASE b # 1
    <3>1. b - 1 \in DOMAIN p /\ b - 1 < b
      BY <1>1, <1>2, <2>2
    <3>. QED
      BY <1>1, <1>2, <1>3, <3>1
  <2>. QED
    BY <2>1, <2>2
<1>5. p[b].share <= 0 => Totals(p)[b] <= Totals(p)[b - 1]
  BY <1>2, <1>3, ZenonT(60) DEF FloatsAdd
<1>. HIDE DEF b, slot
<1>6. p[b].share > 0
  BY <1>1, <1>2, <1>3, <1>4, <1>5
<1>. QED
  BY <1>6 DEF b

LEMMA ChosenHasShare ==
  ASSUME SlotsCount, FloatsAdd, EvalInv
  PROVE  ZeroShareUnreachable
<1>. SUFFICES ASSUME choice # None, choice.bucket # 0
              PROVE  Rules[choice.rule].percentages[choice.bucket].share > 0
  BY DEF ZeroShareUnreachable
<1> DEFINE r == choice.rule
<1>1. r \in DOMAIN Rules /\ choice = EvaluateRule(r) /\ EvaluateRule(r) # NoMatch
  BY DEF EvalInv, ChosenIsNext, IsNext, NoMatch
<1>2. choice.bucket = BucketOf(Rules[r].percentages)
  BY <1>1, MatchNamesBucket
<1>3. IsBuckets(Rules[r].percentages)
  BY <1>1 DEF EvalInv, IsInput, IsRule, IsBuckets, Rules
<1>. QED
  BY <1>2, <1>3, ServedHasShare

(* Nobody is served a bucket of no share, however many buckets there are,  *)
(* whatever their shares and however the totals are rounded                *)
(* (config_evaluator.py, _evaluate_percentage).                            *)
THEOREM NoShareNoService ==
  ASSUME SlotsCount, FloatsAdd
  PROVE  SpecAll => []ZeroShareUnreachable
<1>1. OfflineInv => ZeroShareUnreachable
  BY ChosenHasShare DEF OfflineInv
<1>. QED
  BY <1>1, OfflineAlways, PTL

-----------------------------------------------------------------------------
(* Raising a share.                                                        *)

(* The bucket of a context stays the same when that bucket, or a later     *)
(* one, is given more.                                                     *)
LEMMA BucketKept ==
  ASSUME SlotsCount, FloatsAdd, NEW p, NEW q, IsBuckets(p), IsBuckets(q), DOMAIN q = DOMAIN p,
         NEW k \in DOMAIN p, \A l \in DOMAIN p : l # k => q[l] = p[l],
         q[k].share = p[k].share + 10,
         BucketOf(p) \in 1..k
  PROVE  BucketOf(q) = BucketOf(p)
<1> DEFINE b == BucketOf(p)
           slot == AssignPercentage
<1>0. /\ IsSequence(p) /\ IsSequence(q) /\ slot \in Nat
      /\ Len(p) \in Nat /\ DOMAIN p = 1..Len(p) /\ Len(q) = Len(p)
      /\ k \in Nat /\ b \in Nat /\ b # 0
  <2>1. /\ IsSequence(p) /\ IsSequence(q) /\ Len(p) \in Nat /\ Len(q) \in Nat
        /\ DOMAIN p = 1..Len(p) /\ DOMAIN q = 1..Len(q)
    BY DEF IsBuckets, IsSequence
  <2>2. ASSUME NEW m \in Nat, NEW n \in Nat, 1..m = 1..n PROVE m = n
    <3>1. (m \in 1..m => m <= n) /\ (n \in 1..n => n <= m)
      BY <2>2
    <3>. QED
      BY <3>1
  <2>3. k \in Nat
    BY <2>1
  <2>4. b \in Nat /\ b # 0
    BY <2>3
  <2>5. Len(q) = Len(p)
    BY <2>1, <2>2
  <2>. QED
    BY <2>1, <2>3, <2>4, <2>5, SlotIsNumber
<1>1. /\ b \in DOMAIN p /\ slot < Totals(p)[b]
      /\ \A l \in DOMAIN p : l < b => ~(slot < Totals(p)[l])
  BY <1>0, BucketFacts
<1>2. \A l \in 0..(k - 1) : Totals(q)[l] = Totals(p)[l]
  BY <1>0, TotalsAgree
<1>3. Totals(p)[k] <= Totals(q)[k]
  <2>1. /\ Totals(p)[k] = Plus(Totals(p)[k - 1], p[k].share)
        /\ Totals(q)[k] = Plus(Totals(q)[k - 1], q[k].share)
    BY <1>0, TotalsUnfold
  <2>2. Totals(q)[k - 1] = Totals(p)[k - 1]
    BY <1>0, <1>2
  <2>3. Totals(p)[k - 1] \in Int
    BY <1>0, TotalsAreNumbers
  <2>4. p[k].share \in Int /\ q[k].share \in Int /\ p[k].share <= q[k].share
    BY DEF IsBuckets, IsBucket
  <2>. QED
    BY <2>1, <2>2, <2>3, <2>4 DEF FloatsAdd
<1>4. slot < Totals(q)[b]
  <2>1. CASE b = k
    <3>1. Totals(p)[k] \in Int /\ Totals(q)[k] \in Int
      BY <1>0, TotalsAreNumbers
    <3>. HIDE DEF b, slot
    <3>. QED
      BY <1>0, <1>1, <1>3, <2>1, <3>1
  <2>2. CASE b # k
    <3>1. b \in 0..(k - 1)
      BY <1>0, <2>2
    <3>. QED
      BY <1>1, <1>2, <3>1
  <2>. QED
    BY <2>1, <2>2
<1>5. ASSUME NEW l \in DOMAIN q, l < b PROVE ~(slot < Totals(q)[l])
  <2>1. l \in 0..(k - 1) /\ l \in DOMAIN p
    BY <1>0, <1>5
  <2>. QED
    BY <1>1, <1>2, <1>5, <2>1
<1>. HIDE DEF b, slot
<1>6. b \in DOMAIN q
  BY <1>1
<1>7. BucketOf(q) = b
  <2>1. /\ AssignPercentage < Totals(q)[b]
        /\ \A l \in DOMAIN q : l < b => ~(AssignPercentage < Totals(q)[l])
    BY <1>4, <1>5 DEF slot
  <2>. QED
    BY <1>6, <2>1, BucketUnique, Zenon
<1>. QED
  BY <1>7 DEF b

(* What the edit leaves of the rules.                                      *)
LEMMA RaisedRules ==
  ASSUME SlotsCount, FloatsAdd, EvalInv, NEW i \in DOMAIN Rules,
         NEW k \in DOMAIN Rules[i].percentages, RaiseShare(i, k)
  PROVE  /\ DOMAIN Rules' = DOMAIN Rules
         /\ \A j \in DOMAIN Rules : Rules'[j].order = Rules[j].order
         /\ \A j \in DOMAIN Rules : j # i => EvaluateRule(j)' = EvaluateRule(j)
         /\ EvaluateRule(i) # NoMatch /\ EvaluateRule(i).bucket \in 1..k
              => EvaluateRule(i)' = EvaluateRule(i)
<1> DEFINE p == Rules[i].percentages
<1>0. PICK q : q = Rules'[i].percentages
  OBVIOUS
<1>1. PICK y : y = Raised(input, i, k) /\ y = input'
  BY DEF RaiseShare, Raised
<1>2. /\ IsInput(input) /\ i \in DOMAIN input.config.rules
      /\ k \in DOMAIN input.config.rules[i].percentages
  BY DEF EvalInv, Rules
<1>3. /\ IsInput(input')
      /\ input'.config.id = input.config.id /\ input'.segments = input.segments
      /\ input'.context = input.context /\ input'.metadata = input.metadata
      /\ DOMAIN Rules' = DOMAIN Rules
      /\ \A j \in DOMAIN Rules : j # i => Rules'[j] = Rules[j]
      /\ \A f \in {"type", "order", "conditions", "target", "value", "id"} :
           Rules'[i][f] = Rules[i][f]
      /\ DOMAIN q = DOMAIN p
      /\ \A l \in DOMAIN p : l # k => q[l] = p[l]
      /\ q[k].share = p[k].share + 10 /\ q[k].value = p[k].value /\ q[k].id = p[k].id
  <2>1. IsInput(y) /\ DiffersInShare(input, y, i, k)
    BY <1>1, <1>2, RaisedInput
  <2>2. Rules = input.config.rules /\ Rules' = y.config.rules
    BY <1>1 DEF Rules
  <2>. QED
    BY <1>0, <1>1, <2>1, <2>2, Zenon DEF DiffersInShare
<1>4. /\ Rules'[i].type = Rules[i].type /\ Rules'[i].order = Rules[i].order
      /\ Rules'[i].conditions = Rules[i].conditions /\ Rules'[i].target = Rules[i].target
      /\ Rules'[i].value = Rules[i].value /\ Rules'[i].id = Rules[i].id
  BY <1>3
<1>5. Context' = Context
  BY <1>3 DEF Context
<1>6. AssignPercentage' = AssignPercentage
  BY <1>3, <1>5 DEF AssignPercentage
<1>7. ASSUME NEW r PROVE BucketOf(r)' = BucketOf(r)
  BY <1>6, Zenon DEF BucketOf
<1>8. ASSUME NEW j \in DOMAIN Rules, j # i PROVE EvaluateRule(j)' = EvaluateRule(j)
  <2>1. Rules'[j] = Rules[j]
    BY <1>3, <1>8
  <2>2. EvaluatePercentage(j)' = EvaluatePercentage(j)
    BY <1>7, <2>1, Zenon DEF EvaluatePercentage
  <2>3. Outcomes(j)' = Outcomes(j)
    BY <1>3, <1>5, <2>1, Zenon DEF Outcomes
  <2>4. EvaluateConditionalRule(j)' = EvaluateConditionalRule(j)
    BY <2>1, <2>2, <2>3, Zenon DEF EvaluateConditionalRule
  <2>. QED
    BY <2>1, <2>2, <2>4, Zenon DEF EvaluateRule
<1>9. ASSUME EvaluateRule(i) # NoMatch, EvaluateRule(i).bucket \in 1..k
      PROVE  EvaluateRule(i)' = EvaluateRule(i)
  <2>1. IsBuckets(p) /\ IsBuckets(q)
    BY <1>0, <1>3 DEF EvalInv, IsInput, IsRule, IsBuckets, Rules
  <2>2. k \in Nat /\ EvaluateRule(i).bucket # 0
    BY <1>9, <2>1 DEF IsBuckets, IsSequence
  <2>3. EvaluateRule(i).bucket = BucketOf(p)
    BY <1>9, <2>2, MatchNamesBucket
  <2>4. BucketOf(q) = BucketOf(p)
    BY <1>3, <1>9, <2>1, <2>3, BucketKept
  <2>5. BucketOf(p) \in DOMAIN p
    BY <2>1, <2>2, <2>3, BucketFacts
  <2>6. /\ q[BucketOf(p)].value = p[BucketOf(p)].value
        /\ q[BucketOf(p)].id = p[BucketOf(p)].id
    BY <1>3, <2>5
  <2>7. BucketOf(q)' = BucketOf(p)
    BY <1>7, <2>4
  <2>8. EvaluatePercentage(i)' = EvaluatePercentage(i)
    BY <1>0, <2>6, <2>7, Zenon DEF EvaluatePercentage, Match
  <2>9. Outcomes(i)' = Outcomes(i)
    BY <1>3, <1>4, <1>5, Zenon DEF Outcomes
  <2>10. EvaluateConditionalRule(i)' = EvaluateConditionalRule(i)
    BY <1>4, <2>8, <2>9, Zenon DEF EvaluateConditionalRule, Match
  <2>. QED
    BY <1>4, <2>8, <2>10, Zenon DEF EvaluateRule
<1>. QED
  BY <1>3, <1>4, <1>8, <1>9

(* Who was served a bucket that is not after the one raised: its rule      *)
(* gives the same match as before, and those tried before it still none.   *)
StillFirst ==
  before # None =>
    (before.choice.rule = before.rule /\ before.choice.bucket \in 1..before.bucket =>
       /\ before.rule \in DOMAIN Rules
       /\ before.choice # None
       /\ EvaluateRule(before.rule) = before.choice
       /\ \A j \in DOMAIN Rules : TriedBefore(j, before.rule) => EvaluateRule(j) = NoMatch)

RolloutInv ==
  /\ OfflineInv
  /\ pc \in {"parse", "done"} => choice # None \/ choice.rule = 0
  /\ pc \notin {"rules", "parse", "done"} => before = None
  /\ StillFirst

(* The order of two rules is one way only.                                 *)
LEMMA TriedOneWay ==
  ASSUME EvalInv, NEW i \in DOMAIN Rules, NEW j \in DOMAIN Rules, TriedBefore(j, i)
  PROVE  i # j /\ ~TriedBefore(i, j)
<1>1. i \in Nat /\ j \in Nat
  BY DEF EvalInv, IsInput, IsSequence, Rules
<1>2. /\ Rules[i].order = None \/ Rules[i].order \in Int
      /\ Rules[j].order = None \/ Rules[j].order \in Int
  BY DEF EvalInv, IsInput, IsRule, Rules
<1>. QED
  BY <1>1, <1>2 DEF TriedBefore

LEMMA RaiseKeeps ==
  ASSUME SlotsCount, FloatsAdd, RolloutInv, NEW i \in DOMAIN Rules,
         NEW k \in DOMAIN Rules[i].percentages, RaiseShare(i, k)
  PROVE  StillFirst'
<1>0. EvalInv /\ pc = "done"
  BY DEF RolloutInv, OfflineInv, RaiseShare
<1>1. before'.choice = choice /\ before'.rule = i /\ before'.bucket = k
  BY DEF RaiseShare
<1>. SUFFICES ASSUME choice.rule = i, choice.bucket \in 1..k
              PROVE  /\ i \in DOMAIN Rules'
                     /\ choice # None
                     /\ EvaluateRule(i)' = choice
                     /\ \A j \in DOMAIN Rules' : TriedBefore(j, i)' => EvaluateRule(j)' = NoMatch
  BY <1>1 DEF StillFirst
<1>2. i # 0 /\ choice # None
  BY <1>0 DEF RolloutInv, EvalInv, IsInput, IsSequence, Rules
<1>3. IsNext(i) /\ choice = EvaluateRule(i)
  BY <1>0, <1>2 DEF EvalInv, ChosenIsNext
<1>4. /\ DOMAIN Rules' = DOMAIN Rules
      /\ \A j \in DOMAIN Rules : Rules'[j].order = Rules[j].order
      /\ \A j \in DOMAIN Rules : j # i => EvaluateRule(j)' = EvaluateRule(j)
      /\ EvaluateRule(i)' = EvaluateRule(i)
  BY <1>0, <1>2, <1>3, RaisedRules DEF NoMatch
<1>5. ASSUME NEW j \in DOMAIN Rules, TriedBefore(j, i)' PROVE EvaluateRule(j)' = NoMatch
  <2>1. TriedBefore(j, i)
    BY <1>4, <1>5 DEF TriedBefore
  <2>2. i # j /\ ~TriedBefore(i, j)
    BY <1>0, <2>1, TriedOneWay
  <2>3. j \notin todo
    BY <1>3, <2>2 DEF IsNext
  <2>. QED
    BY <1>0, <1>4, <2>2, <2>3 DEF EvalInv
<1>. QED
  BY <1>2, <1>3, <1>4, <1>5

(* A step that changes neither the input nor what was served before.       *)
LEMMA SameStillFirst ==
  ASSUME StillFirst, input' = input, before' = before
  PROVE  StillFirst'
<1>1. Rules' = Rules /\ \A j : EvaluateRule(j)' = EvaluateRule(j)
  BY SameInput DEF Rules
<1>2. \A i, j : TriedBefore(i, j)' = TriedBefore(i, j)
  BY <1>1 DEF TriedBefore
<1>. QED
  BY <1>1, <1>2 DEF StillFirst

LEMMA RolloutInit == InitAll => RolloutInv
BY OfflineInit DEF InitAll, Init, RolloutInv, StillFirst

LEMMA RolloutStep ==
  ASSUME SlotsCount, FloatsAdd
  PROVE  RolloutInv /\ [NextAll]_allVars => RolloutInv'
<1>. SUFFICES ASSUME RolloutInv, [NextAll]_allVars PROVE RolloutInv'
  OBVIOUS
<1> DEFINE Where == /\ pc' \in {"parse", "done"} => choice' # None \/ choice'.rule = 0
                    /\ pc' \notin {"rules", "parse", "done"} => before' = None
<1>0. OfflineInv' /\ EvalInv
  BY OfflineStep DEF RolloutInv, OfflineInv
<1>. SUFFICES Where /\ StillFirst'
  BY <1>0 DEF RolloutInv
<1>1. ASSUME NEW i \in todo, TryRule(i) PROVE Where /\ StillFirst'
  <2>1. /\ input' = input /\ before' = before /\ pc' \in {"rules", "parse"}
        /\ pc' = "parse" => choice' # None
    BY <1>1 DEF TryRule, NoMatch
  <2>. QED
    BY <2>1, SameStillFirst DEF RolloutInv
<1>2. CASE NoRuleMatched
  <2>1. input' = input /\ before' = before /\ pc' = "parse" /\ choice'.rule = 0
    BY <1>2 DEF NoRuleMatched
  <2>. QED
    BY <2>1, SameStillFirst DEF RolloutInv
<1>3. CASE Return
  <2>1. /\ input' = input /\ before' = before /\ pc = "parse" /\ pc' = "done"
        /\ choice' = choice
    BY <1>3 DEF Return
  <2>. QED
    BY <2>1, SameStillFirst DEF RolloutInv
<1>4. ASSUME NEW i \in DOMAIN Rules, NEW k \in DOMAIN Rules[i].percentages, RaiseShare(i, k)
      PROVE  Where /\ StillFirst'
  <2>1. pc' = "rules"
    BY <1>4 DEF RaiseShare
  <2>. QED
    BY <1>4, <2>1, RaiseKeeps
<1>5. CASE Create
  <2>1. PlanConnection(client.options).does \in {"raise", "connect", "stay offline"}
    BY DEF PlanConnection
  <2>2. pc = "new" /\ input' = input /\ before' = before /\ pc' \notin {"parse", "done"}
    BY <1>5, <2>1 DEF Create
  <2>. QED
    BY <2>2, SameStillFirst DEF RolloutInv
<1>6. CASE Initialize
  <2>1. pc = "created" /\ input' = input /\ before' = before /\ pc' \in {"serving", "refused"}
    BY <1>6 DEF Initialize
  <2>. QED
    BY <2>1, SameStillFirst DEF RolloutInv
<1>7. ASSUME NEW key, NEW default, GetValue(key, default) PROVE Where /\ StillFirst'
  <2>1. pc = "serving" /\ before' = before /\ pc' = "rules"
    BY <1>7 DEF GetValue
  <2>2. before = None
    BY <2>1 DEF RolloutInv
  <2>. QED
    BY <2>1, <2>2 DEF StillFirst
<1>8. CASE UNCHANGED allVars
  <2>1. input' = input /\ before' = before /\ pc' = pc /\ choice' = choice
    BY <1>8 DEF allVars, vars
  <2>. QED
    BY <2>1, SameStillFirst DEF RolloutInv
<1>. QED
  BY <1>1, <1>2, <1>3, <1>4, <1>5, <1>6, <1>7, <1>8 DEF NextAll, Next

LEMMA ServedAsBefore ==
  ASSUME RolloutInv
  PROVE  RolloutKeepsItsContexts
<1>. SUFFICES ASSUME before # None, choice # None, before.choice.rule = before.rule,
                     before.choice.bucket \in 1..before.bucket
              PROVE  choice = before.choice
  BY DEF RolloutKeepsItsContexts
<1> DEFINE i == before.rule
           r == choice.rule
<1>0. EvalInv
  BY DEF RolloutInv, OfflineInv
<1>1. /\ i \in DOMAIN Rules /\ EvaluateRule(i) = before.choice /\ EvaluateRule(i) # NoMatch
      /\ \A j \in DOMAIN Rules : TriedBefore(j, i) => EvaluateRule(j) = NoMatch
  BY DEF RolloutInv, StillFirst, NoMatch
<1>2. i \in todo
  BY <1>0, <1>1 DEF EvalInv
<1>3. IsNext(r) /\ choice = EvaluateRule(r) /\ EvaluateRule(r) # NoMatch
  BY <1>0, <1>2 DEF EvalInv, ChosenIsNext, NoMatch
<1>4. r # i => TriedBefore(r, i) /\ r \in DOMAIN Rules
  BY <1>0, <1>2, <1>3 DEF IsNext, EvalInv
<1>. QED
  BY <1>1, <1>3, <1>4

(* Raising the share of a bucket takes nobody out of it or out of the      *)
(* buckets before it, whatever the other rules and however the totals are  *)
(* rounded, edit after edit (config_evaluator.py, _evaluate_percentage).   *)
THEOREM RolloutOnlyGrows ==
  ASSUME SlotsCount, FloatsAdd
  PROVE  SpecAll => []RolloutKeepsItsContexts
<1>1. RolloutInv => RolloutKeepsItsContexts
  BY ServedAsBefore
<1>. QED
  BY <1>1, RolloutInit, RolloutStep, PTL DEF SpecAll

-----------------------------------------------------------------------------
(* Comparisons: what a condition says under one operator or another.       *)

LEMMA ConditionIsTyped ==
  ASSUME IsInput(input), NEW c \in AttributeConditions
  PROVE  /\ c.kind = "attribute"
         /\ {"attribute", "trait", "type", "operator", "targets"} \subseteq DOMAIN c
         /\ IsSequence(c.targets) /\ Range(c.targets) \subseteq Texts
         /\ IsValue(Resolve(c, Context, input.metadata))
<1>1. PICK i \in DOMAIN Rules : c \in Range(Rules[i].conditions) /\ c.kind = "attribute"
  BY DEF AttributeConditions
<1>2. PICK k \in DOMAIN Rules[i].conditions : c = Rules[i].conditions[k]
  BY <1>1 DEF Range
<1>3. IsCondition(c, input.context, input.metadata)
  BY <1>1, <1>2 DEF IsInput, Rules
<1>. QED
  BY <1>1, <1>3 DEF IsCondition, Context

(* An operator that is not one of the negated ones is its own lower case.  *)
LEMMA LowerFacts ==
  /\ \A o \in {"equals", "is one of", "starts with any of", "ends with any of", "=", "!=",
               "contains any of", "<", "<=", ">", ">="} : Lower(o) = o
  /\ Lower("does NOT equal") = "does not equal"
  /\ Lower("is NOT one of") = "is not one of"
  /\ Lower("does NOT start with any of") = "does not start with any of"
  /\ Lower("does NOT end with any of") = "does not end with any of"
  /\ Lower("does NOT contain any of") = "does not contain any of"
<1> DEFINE written == {"does NOT equal", "is NOT one of", "does NOT start with any of",
                       "does NOT end with any of", "does NOT contain any of", "NOT in"}
<1>1. DOMAIN LowerCase = written
  BY DEF LowerCase
<1>2. \A o \in {"equals", "is one of", "starts with any of", "ends with any of", "=", "!=",
                "contains any of", "<", "<=", ">", ">="} : o \notin written
  OBVIOUS
<1>3. /\ LowerCase["does NOT equal"] = "does not equal"
      /\ LowerCase["is NOT one of"] = "is not one of"
      /\ LowerCase["does NOT start with any of"] = "does not start with any of"
      /\ LowerCase["does NOT end with any of"] = "does not end with any of"
      /\ LowerCase["does NOT contain any of"] = "does not contain any of"
  BY DEF LowerCase
<1>. QED
  BY <1>1, <1>2, <1>3 DEF Lower

(* What a condition says under an operator is what its comparison says.    *)
LEMMA UnderOperator ==
  ASSUME IsInput(input), NEW c \in AttributeConditions, NEW o,
         Resolve(c, Context, input.metadata) # UnknownAttribute
  PROVE  LET v == Resolve(c, Context, input.metadata)
         IN /\ c.type = "text"   => Under(c, o) = Outcome(CompareText(Render(v), o, c.targets))
            /\ c.type = "number" => Under(c, o) = CompareNumeric(v, o, c.targets)
            /\ c.type = "semver" => Under(c, o) = Outcome(CompareSemver(Render(v), o, c.targets))
            /\ c.type = "array"  => Under(c, o) = Outcome(CompareArray(v, o, c.targets))
<1> DEFINE d == [c EXCEPT !.operator = o]
           v == Resolve(c, Context, input.metadata)
<1>1. /\ d.operator = o /\ d.type = c.type /\ d.targets = c.targets
      /\ d.attribute = c.attribute /\ d.trait = c.trait
  BY ConditionIsTyped
<1> HIDE DEF d
<1>2. Resolve(d, Context, input.metadata) = v
  BY <1>1, Zenon DEF Resolve
<1>3. Under(c, o) = EvaluateCondition(d, Context, input.metadata)
  BY DEF Under, d
<1> HIDE DEF v
<1>4. v # UnknownAttribute
  BY DEF v
<1>5. c.type = "text" => Under(c, o) = Outcome(CompareText(Render(v), o, c.targets))
  BY <1>1, <1>2, <1>3, <1>4 DEF EvaluateCondition
<1>6. c.type = "number" => Under(c, o) = CompareNumeric(v, o, c.targets)
  BY <1>1, <1>2, <1>3, <1>4 DEF EvaluateCondition
<1>7. c.type = "semver" => Under(c, o) = Outcome(CompareSemver(Render(v), o, c.targets))
  BY <1>1, <1>2, <1>3, <1>4 DEF EvaluateCondition
<1>8. c.type = "array"  => Under(c, o) = Outcome(CompareArray(v, o, c.targets))
  BY <1>1, <1>2, <1>3, <1>4 DEF EvaluateCondition
<1>. QED
  BY <1>5, <1>6, <1>7, <1>8 DEF v

(* Whatever the texts and versions say, an operator and its opposite never *)
(* say the same.                                                           *)
LEMMA TextNegations ==
  ASSUME NEW value, NEW targets, targets # <<>>
  PROVE  /\ CompareText(value, "does NOT equal", targets)
              <=> ~CompareText(value, "equals", targets)
         /\ CompareText(value, "is NOT one of", targets)
              <=> ~CompareText(value, "is one of", targets)
         /\ CompareText(value, "does NOT start with any of", targets)
              <=> ~CompareText(value, "starts with any of", targets)
         /\ CompareText(value, "does NOT end with any of", targets)
              <=> ~CompareText(value, "ends with any of", targets)
BY LowerFacts DEF CompareText

LEMMA OtherNegations ==
  ASSUME NEW value, NEW targets
  PROVE  /\ CompareSemver(value, "is NOT one of", targets)
              <=> ~CompareSemver(value, "is one of", targets)
         /\ CompareArray(value, "does NOT contain any of", targets)
              <=> ~CompareArray(value, "contains any of", targets)
<1>1. CompareSemver(value, "is NOT one of", targets)
        <=> ~CompareSemver(value, "is one of", targets)
  BY LowerFacts DEF CompareSemver
<1>2. CompareArray(value, "does NOT contain any of", targets)
        <=> ~CompareArray(value, "contains any of", targets)
  BY LowerFacts DEF CompareArray
<1>. QED
  BY <1>1, <1>2

(* What CompareNumeric says of two numbers that can be read.               *)
NumbersCompare(n, op, target) ==
  \/ op \in {"=", "equals"} /\ n = target
  \/ op \in {"!=", "does not equal"} /\ n # target
  \/ op = "<" /\ n < target
  \/ op = "<=" /\ n <= target
  \/ op = ">" /\ n > target
  \/ op = ">=" /\ n >= target

LEMMA NumericFacts ==
  ASSUME NEW v, NEW o, NEW targets, targets # <<>>, ParseFloat(targets[1]) # None
  PROVE  /\ ParseFinite(v) = Raises => CompareNumeric(v, o, targets) = "raises"
         /\ ParseFinite(v) = None =>
              CompareNumeric(v, o, targets) = Outcome(Lower(o) \in {"!=", "does not equal"})
         /\ ParseFinite(v) \notin {None, Raises} =>
              CompareNumeric(v, o, targets) =
                Outcome(NumbersCompare(ParseFinite(v), Lower(o), ParseFloat(targets[1])))
<1>0. None # Raises
  BY TextsAssumption
<1>1. ParseFinite(v) = Raises => CompareNumeric(v, o, targets) = "raises"
  BY <1>0 DEF CompareNumeric
<1>2. ParseFinite(v) = None =>
        CompareNumeric(v, o, targets) = Outcome(Lower(o) \in {"!=", "does not equal"})
  BY <1>0 DEF CompareNumeric
<1>3. ParseFinite(v) \notin {None, Raises} =>
        CompareNumeric(v, o, targets) =
          Outcome(NumbersCompare(ParseFinite(v), Lower(o), ParseFloat(targets[1])))
  BY <1>0 DEF CompareNumeric, NumbersCompare
<1>. QED
  BY <1>1, <1>2, <1>3

LEMMA OpposedOutcomes ==
  ASSUME NEW x, NEW y,
         \/ x = "yes" /\ y = "no"
         \/ x = "no" /\ y = "yes"
         \/ x = "raises" /\ y = "raises"
  PROVE  {x, y} \in {{"yes", "no"}, {"raises"}}
OBVIOUS

LEMMA OppositePairs ==
  ASSUME NEW p \in Opposites
  PROVE  \/ p[1] = "text" /\ p[2] = "equals" /\ p[3] = "does NOT equal"
         \/ p[1] = "text" /\ p[2] = "is one of" /\ p[3] = "is NOT one of"
         \/ p[1] = "text" /\ p[2] = "starts with any of" /\ p[3] = "does NOT start with any of"
         \/ p[1] = "text" /\ p[2] = "ends with any of" /\ p[3] = "does NOT end with any of"
         \/ p[1] = "semver" /\ p[2] = "is one of" /\ p[3] = "is NOT one of"
         \/ p[1] = "number" /\ p[2] = "=" /\ p[3] = "!="
         \/ p[1] = "array" /\ p[2] = "contains any of" /\ p[3] = "does NOT contain any of"
<1>1. \/ p = <<"text", "equals", "does NOT equal">>
      \/ p = <<"text", "is one of", "is NOT one of">>
      \/ p = <<"text", "starts with any of", "does NOT start with any of">>
      \/ p = <<"text", "ends with any of", "does NOT end with any of">>
      \/ p = <<"semver", "is one of", "is NOT one of">>
      \/ p = <<"number", "=", "!=">>
      \/ p = <<"array", "contains any of", "does NOT contain any of">>
  BY Zenon DEF Opposites
<1>2. CASE p = <<"text", "equals", "does NOT equal">>
  BY <1>2
<1>3. CASE p = <<"text", "is one of", "is NOT one of">>
  BY <1>3
<1>4. CASE p = <<"text", "starts with any of", "does NOT start with any of">>
  BY <1>4
<1>5. CASE p = <<"text", "ends with any of", "does NOT end with any of">>
  BY <1>5
<1>6. CASE p = <<"semver", "is one of", "is NOT one of">>
  BY <1>6
<1>7. CASE p = <<"number", "=", "!=">>
  BY <1>7
<1>8. CASE p = <<"array", "contains any of", "does NOT contain any of">>
  BY <1>8
<1>. QED
  BY <1>1, <1>2, <1>3, <1>4, <1>5, <1>6, <1>7, <1>8

LEMMA NegationsHold ==
  ASSUME IsInput(input)
  PROVE  NegationsComplement
<1> SUFFICES ASSUME NEW c \in AttributeConditions, NEW p \in Opposites,
                    c.type = p[1], c.targets # <<>>,
                    c.type = "number" => ParseFloat(c.targets[1]) # None,
                    Resolve(c, Context, input.metadata) # UnknownAttribute
             PROVE  {Under(c, p[2]), Under(c, p[3])} \in {{"yes", "no"}, {"raises"}}
  BY DEF NegationsComplement
<1> DEFINE v == Resolve(c, Context, input.metadata)
<1>1. CASE c.type = "text"
  <2>1. \A o : Under(c, o) = Outcome(CompareText(Render(v), o, c.targets))
    BY <1>1, UnderOperator
  <2> HIDE DEF v
  <2>2. CompareText(Render(v), p[3], c.targets) <=> ~CompareText(Render(v), p[2], c.targets)
    BY <1>1, OppositePairs, TextNegations
  <2>3. \/ Under(c, p[2]) = "yes" /\ Under(c, p[3]) = "no"
        \/ Under(c, p[2]) = "no" /\ Under(c, p[3]) = "yes"
    BY <2>1, <2>2, Zenon DEF Outcome
  <2>. QED
    BY <2>3, OpposedOutcomes
<1>2. CASE c.type = "semver"
  <2>1. \A o : Under(c, o) = Outcome(CompareSemver(Render(v), o, c.targets))
    BY <1>2, UnderOperator
  <2> HIDE DEF v
  <2>2. p[2] = "is one of" /\ p[3] = "is NOT one of"
    BY <1>2, OppositePairs
  <2>3. \/ Under(c, p[2]) = "yes" /\ Under(c, p[3]) = "no"
        \/ Under(c, p[2]) = "no" /\ Under(c, p[3]) = "yes"
    BY <2>1, <2>2, OtherNegations, Zenon DEF Outcome
  <2>. QED
    BY <2>3, OpposedOutcomes
<1>3. CASE c.type = "array"
  <2>1. \A o : Under(c, o) = Outcome(CompareArray(v, o, c.targets))
    BY <1>3, UnderOperator
  <2> HIDE DEF v
  <2>2. p[2] = "contains any of" /\ p[3] = "does NOT contain any of"
    BY <1>3, OppositePairs
  <2>3. \/ Under(c, p[2]) = "yes" /\ Under(c, p[3]) = "no"
        \/ Under(c, p[2]) = "no" /\ Under(c, p[3]) = "yes"
    BY <2>1, <2>2, OtherNegations, Zenon DEF Outcome
  <2>. QED
    BY <2>3, OpposedOutcomes
<1>4. CASE c.type = "number"
  <2>1. \A o : Under(c, o) = CompareNumeric(v, o, c.targets)
    BY <1>4, UnderOperator
  <2> HIDE DEF v
  <2>2. p[2] = "=" /\ p[3] = "!="
    BY <1>4, OppositePairs
  <2>3. Lower("=") = "=" /\ Lower("!=") = "!="
    BY LowerFacts
  <2>4. ParseFloat(c.targets[1]) # None
    BY <1>4
  <2>5. CASE ParseFinite(v) = Raises
    <3>1. Under(c, p[2]) = "raises" /\ Under(c, p[3]) = "raises"
      BY <2>1, <2>4, <2>5, NumericFacts
    <3>. QED
      BY <3>1, OpposedOutcomes
  <2>6. CASE ParseFinite(v) = None
    <3>1. Under(c, "=") = "no" /\ Under(c, "!=") = "yes"
      BY <2>1, <2>3, <2>4, <2>6, NumericFacts DEF Outcome
    <3>. QED
      BY <2>2, <3>1, OpposedOutcomes
  <2>7. CASE ParseFinite(v) \notin {None, Raises}
    <3> DEFINE target == ParseFloat(c.targets[1])
    <3>1. /\ Under(c, "=") = Outcome(NumbersCompare(ParseFinite(v), "=", target))
          /\ Under(c, "!=") = Outcome(NumbersCompare(ParseFinite(v), "!=", target))
      BY <2>1, <2>3, <2>4, <2>7, NumericFacts
    <3>2. NumbersCompare(ParseFinite(v), "!=", target)
            <=> ~NumbersCompare(ParseFinite(v), "=", target)
      BY DEF NumbersCompare
    <3>3. \/ Under(c, p[2]) = "yes" /\ Under(c, p[3]) = "no"
          \/ Under(c, p[2]) = "no" /\ Under(c, p[3]) = "yes"
      BY <2>2, <3>1, <3>2, Zenon DEF Outcome
    <3>. QED
      BY <3>3, OpposedOutcomes
  <2>. QED
    BY <2>5, <2>6, <2>7
<1>5. c.type \in {"text", "semver", "array", "number"}
  BY OppositePairs
<1>. QED
  BY <1>1, <1>2, <1>3, <1>4, <1>5

(* Numbers and versions that can be read.                                  *)
LEMMA NumbersAreInts ==
  /\ \A t \in Texts : ParseFloat(t) # None => ParseFloat(t) \in Int
  /\ \A v : IsValue(v) /\ ParseFinite(v) \notin {None, Raises} => ParseFinite(v) \in Int
<1>1. ASSUME NEW t \in Texts, ParseFloat(t) # None PROVE ParseFloat(t) \in Int
  <2>1. ParseFloat(t) = FloatOf[t] /\ FloatOf[t] # NotFinite
    BY <1>1 DEF ParseFloat
  <2>2. FloatOf[t] \in FloatNumbers \cup {None}
    BY TextsAssumption
  <2>3. FloatNumbers \ {NotFinite} \subseteq Int
    BY TextsAssumption DEF FloatNumbers
  <2>. QED
    BY <1>1, <2>1, <2>2, <2>3
<1>2. ASSUME NEW v, IsValue(v), ParseFinite(v) \notin {None, Raises}
      PROVE  ParseFinite(v) \in Int
  <2>1. CASE v.tag \in {"int", "float"}
    <3>1. ParseFinite(v) = IF v.num = Huge THEN Raises
                           ELSE IF v.num = NotFinite THEN None ELSE NearestFloat[v.num]
      BY <2>1 DEF ParseFinite
    <3>2. /\ v.num \in Numbers /\ v.num \notin {Huge, NotFinite}
          /\ ParseFinite(v) = NearestFloat[v.num]
      BY <1>2, <2>1, <3>1 DEF IsValue, FloatNumbers
    <3>3. NearestFloat[v.num] \in Numbers \ {Huge, NotFinite}
      BY <3>2, TextsAssumption DEF FloatNumbers
    <3>. QED
      BY <3>2, <3>3, TextsAssumption
  <2>2. CASE v.tag = "text"
    <3>1. ParseFinite(v) = ParseFloat(v.text) /\ v.text \in Texts
      BY <1>2, <2>2 DEF ParseFinite, IsValue
    <3>. QED
      BY <1>1, <1>2, <3>1
  <2>3. CASE v.tag \notin {"int", "float", "text"}
    BY <1>2, <2>3 DEF ParseFinite
  <2>. QED
    BY <2>1, <2>2, <2>3
<1>. QED
  BY <1>1, <1>2

LEMMA RenderedIsText ==
  ASSUME NEW v, IsValue(v)
  PROVE  Render(v) \in Texts
<1>0. {"", "true", "false", "user"} \subseteq Texts
  BY TextsAssumption
<1>1. CASE v.tag \notin Scalars
  BY <1>0, <1>1 DEF Render
<1>2. CASE v.tag = "text"
  BY <1>2 DEF Render, ToJsonString, IsValue, Scalars
<1>3. CASE v.tag = "bool"
  BY <1>0, <1>3 DEF Render, ToJsonString, Scalars
<1>4. CASE v.tag \in {"int", "float"}
  <2>1. v.num \in Numbers
    BY <1>4 DEF IsValue, FloatNumbers
  <2>2. DecimalOf[v.num] \in Texts
    BY <2>1, TextsAssumption
  <2>3. v.num \in DOMAIN ExponentOf => ExponentOf[v.num] \in Texts
    <3>1. Range(ExponentOf) \subseteq Texts
      BY TextsAssumption
    <3>2. v.num \in DOMAIN ExponentOf => ExponentOf[v.num] \in Range(ExponentOf)
      BY DEF Range
    <3>. QED
      BY <3>1, <3>2
  <2>4. Render(v) \in {DecimalOf[v.num]} \cup
                      (IF v.num \in DOMAIN ExponentOf THEN {ExponentOf[v.num]} ELSE {})
    BY <1>4 DEF Render, ToJsonString, Scalars
  <2>. QED
    BY <2>2, <2>3, <2>4
<1>. QED
  BY <1>1, <1>2, <1>3, <1>4 DEF Scalars

LEMMA VersionIsNumbers ==
  ASSUME NEW t \in Texts, Coerce(t) # None
  PROVE  Coerce(t) \in [1..3 -> Nat]
<1>1. VersionOf[t] # None
  BY DEF Coerce
<1>2. \A i \in DOMAIN VersionOf[t] : VersionOf[t][i] \in Nat
  BY <1>1, TextsAssumption
<1>. QED
  BY <1>1, <1>2 DEF Coerce

(* Versions are ordered: of two, one precedes the other or they are the    *)
(* same.                                                                   *)
LEMMA VersionsAreOrdered ==
  ASSUME NEW v \in [1..3 -> Nat], NEW w \in [1..3 -> Nat]
  PROVE  \/ v = w /\ ~Precedes(v, w) /\ ~Precedes(w, v)
         \/ v # w /\ Precedes(v, w) /\ ~Precedes(w, v)
         \/ v # w /\ ~Precedes(v, w) /\ Precedes(w, v)
<1>1. 1..3 = {1, 2, 3} /\ 1..0 = {} /\ 1..1 = {1} /\ 1..2 = {1, 2}
  OBVIOUS
<1>2. ASSUME NEW a \in [1..3 -> Nat], NEW b \in [1..3 -> Nat]
      PROVE  Precedes(a, b) <=> \/ a[1] < b[1]
                                \/ a[1] = b[1] /\ a[2] < b[2]
                                \/ a[1] = b[1] /\ a[2] = b[2] /\ a[3] < b[3]
  <2>1. Precedes(a, b) <=> \/ a[1] < b[1] /\ \A j \in 1..0 : a[j] = b[j]
                           \/ a[2] < b[2] /\ \A j \in 1..1 : a[j] = b[j]
                           \/ a[3] < b[3] /\ \A j \in 1..2 : a[j] = b[j]
    BY <1>1 DEF Precedes
  <2>. QED
    BY <1>1, <2>1
<1>3. v = w <=> v[1] = w[1] /\ v[2] = w[2] /\ v[3] = w[3]
  BY <1>1
<1>4. /\ v[1] \in Nat /\ v[2] \in Nat /\ v[3] \in Nat
      /\ w[1] \in Nat /\ w[2] \in Nat /\ w[3] \in Nat
  BY <1>1
<1>. QED
  BY <1>2, <1>3, <1>4

(* Three outcomes of which one holds, and the two that are opposites.      *)
Ordered(c) ==
  /\ \E o \in {"<", "=", ">"} : {op \in {"<", "=", ">"} : Under(c, op) = "yes"} = {o}
  /\ (Under(c, "<=") = "yes") = (Under(c, ">") = "no")
  /\ (Under(c, ">=") = "yes") = (Under(c, "<") = "no")

LEMMA OneHolds ==
  ASSUME NEW c,
         \/ /\ Under(c, "<") = "yes" /\ Under(c, "=") = "no" /\ Under(c, ">") = "no"
            /\ Under(c, "<=") = "yes" /\ Under(c, ">=") = "no"
         \/ /\ Under(c, "<") = "no" /\ Under(c, "=") = "yes" /\ Under(c, ">") = "no"
            /\ Under(c, "<=") = "yes" /\ Under(c, ">=") = "yes"
         \/ /\ Under(c, "<") = "no" /\ Under(c, "=") = "no" /\ Under(c, ">") = "yes"
            /\ Under(c, "<=") = "no" /\ Under(c, ">=") = "yes"
  PROVE  Ordered(c)
BY DEF Ordered

LEMMA NumbersOrdered ==
  ASSUME IsInput(input), NEW c \in AttributeConditions, c.type = "number", c.targets # <<>>,
         Resolve(c, Context, input.metadata) # UnknownAttribute,
         ParseFinite(Resolve(c, Context, input.metadata)) \notin {None, Raises},
         ParseFloat(c.targets[1]) # None
  PROVE  Ordered(c)
<1> DEFINE v == Resolve(c, Context, input.metadata)
           n == ParseFinite(v)
           target == ParseFloat(c.targets[1])
<1>1. IsValue(v) /\ c.targets[1] \in Texts
  BY ConditionIsTyped DEF IsSequence, Range
<1>2. n \in Int /\ target \in Int
  BY <1>1, NumbersAreInts
<1>3. \A o \in {"<", "=", ">", "<=", ">="} : Under(c, o) = Outcome(NumbersCompare(n, o, target))
  <2>1. \A o : Under(c, o) = CompareNumeric(v, o, c.targets)
    BY UnderOperator
  <2> HIDE DEF v
  <2>2. \A o : CompareNumeric(v, o, c.targets) = Outcome(NumbersCompare(n, Lower(o), target))
    BY NumericFacts DEF v
  <2>. QED
    BY <2>1, <2>2, LowerFacts
<1> HIDE DEF v, n, target
<1>4. /\ NumbersCompare(n, "<", target) <=> n < target
      /\ NumbersCompare(n, "=", target) <=> n = target
      /\ NumbersCompare(n, ">", target) <=> n > target
      /\ NumbersCompare(n, "<=", target) <=> n <= target
      /\ NumbersCompare(n, ">=", target) <=> n >= target
  BY DEF NumbersCompare
<1>5. /\ Under(c, "<") = IF n < target THEN "yes" ELSE "no"
      /\ Under(c, "=") = IF n = target THEN "yes" ELSE "no"
      /\ Under(c, ">") = IF n > target THEN "yes" ELSE "no"
      /\ Under(c, "<=") = IF n <= target THEN "yes" ELSE "no"
      /\ Under(c, ">=") = IF n >= target THEN "yes" ELSE "no"
  BY <1>3, <1>4 DEF Outcome
<1>. QED
  BY <1>2, <1>5, OneHolds

LEMMA VersionsOrdered ==
  ASSUME IsInput(input), NEW c \in AttributeConditions, c.type = "semver", c.targets # <<>>,
         Resolve(c, Context, input.metadata) # UnknownAttribute,
         Render(Resolve(c, Context, input.metadata)) \notin Blank,
         Coerce(Render(Resolve(c, Context, input.metadata))) # None,
         Coerce(c.targets[1]) # None
  PROVE  Ordered(c)
<1> DEFINE v == Resolve(c, Context, input.metadata)
           text == Render(v)
           version == Coerce(text)
           first == Coerce(c.targets[1])
<1>1. IsValue(v) /\ c.targets[1] \in Texts
  BY ConditionIsTyped DEF IsSequence, Range
<1>2. version \in [1..3 -> Nat] /\ first \in [1..3 -> Nat]
  BY <1>1, RenderedIsText, VersionIsNumbers
<1>3. \A o : Under(c, o) = Outcome(CompareSemver(text, o, c.targets))
  BY UnderOperator
<1>4. text \notin Blank /\ version # None /\ first # None
  OBVIOUS
<1> HIDE DEF v, text
<1>5. \A o \in {"<", "=", ">", "<=", ">="} :
        CompareSemver(text, o, c.targets) <=>
          \/ o \in {"=", "<=", ">="} /\ version = first
          \/ o \in {"<", "<="} /\ Precedes(version, first)
          \/ o \in {">", ">="} /\ Precedes(first, version)
  BY <1>4, LowerFacts, ZenonT(60) DEF CompareSemver
<1> HIDE DEF version, first
<1>6. /\ Under(c, "<") = IF Precedes(version, first) THEN "yes" ELSE "no"
      /\ Under(c, "=") = IF version = first THEN "yes" ELSE "no"
      /\ Under(c, ">") = IF Precedes(first, version) THEN "yes" ELSE "no"
      /\ Under(c, "<=") = IF version = first \/ Precedes(version, first) THEN "yes" ELSE "no"
      /\ Under(c, ">=") = IF version = first \/ Precedes(first, version) THEN "yes" ELSE "no"
  BY <1>3, <1>5 DEF Outcome
<1>. QED
  BY <1>2, <1>6, VersionsAreOrdered, OneHolds

LEMMA OrdersHold ==
  ASSUME IsInput(input)
  PROVE  ComparisonsAreOrders
BY NumbersOrdered, VersionsOrdered DEF ComparisonsAreOrders, Ordered

(* Of an operator and its opposite exactly one holds, unless both raise,   *)
(* and numbers and versions that can be read are ordered: for any context, *)
(* trait, target and text, whatever float(), the version pattern,          *)
(* startswith and endswith make of it (condition_evaluator.py).            *)
THEOREM ComparisonsAgree == SpecAll => []ComparisonsConsistent
<1>1. OfflineInv => ComparisonsConsistent
  BY NegationsHold, OrdersHold DEF OfflineInv, EvalInv, ComparisonsConsistent
<1>. QED
  BY <1>1, OfflineAlways, PTL

-----------------------------------------------------------------------------
(* Values given to an offline client.                                      *)

(* What is written can be read: as a value of the type it was written from *)
(* it is that value.                                                       *)
LEMMA WrittenIsRead ==
  ASSUME NEW n, IsNative(n.value), Encodable(n), n.value # Text("")
  PROVE  /\ Encode(n.value).text # ""
         /\ Parse(Encode(n.value).text, Encode(n.value).type, n.value.tag) = n.value
<1> DEFINE v == n.value
<1>1. CASE v.tag = "bool"
  <2>1. v \in [tag: {"bool"}, bool: BOOLEAN]
    BY <1>1 DEF IsNative
  <2>2. /\ Encode(v).text = IF v.bool THEN "true" ELSE "false"
    BY <1>1 DEF Encode
  <2>3. ASSUME NEW raw, NEW type PROVE Parse(raw, type, v.tag) = ParseBoolean(raw)
    BY <1>1 DEF Parse
  <2>4. /\ ParseBoolean("true") = [tag |-> "bool", bool |-> TRUE]
        /\ ParseBoolean("false") = [tag |-> "bool", bool |-> FALSE]
    BY EvaluationAssumption DEF ParseBoolean
  <2>5. CASE v.bool
    <3>1. v = [tag |-> "bool", bool |-> TRUE]
      BY <2>1, <2>5
    <3>. QED
      BY <2>2, <2>3, <2>4, <2>5, <3>1
  <2>6. CASE ~v.bool
    <3>1. v = [tag |-> "bool", bool |-> FALSE]
      BY <2>1, <2>6
    <3>. QED
      BY <2>2, <2>3, <2>4, <2>6, <3>1
  <2>. QED
    BY <2>5, <2>6
<1>2. CASE v.tag = "text"
  <2>1. v \in [tag: {"text"}, text: Texts]
    BY <1>2 DEF IsNative
  <2>2. v = Text(v.text)
    BY <2>1 DEF Text
  <2>3. Encode(v).text = v.text /\ Encode(v).type = "string"
    BY <1>2 DEF Encode
  <2>4. v.text # ""
    BY <2>2
  <2>5. ASSUME NEW raw PROVE Parse(raw, "string", v.tag) = Text(raw)
    BY <1>2 DEF Parse
  <2>. QED
    BY <2>2, <2>3, <2>4, <2>5
<1>3. CASE v.tag = "int"
  <2>1. v \in [tag: {"int"}, num: Wholes \cup {TooLong}] /\ v.num # TooLong
    BY <1>3 DEF IsNative, Encodable
  <2>2. v.num \in Wholes /\ v = [tag |-> "int", num |-> v.num]
    BY <2>1
  <2> DEFINE raw == DecimalOf[v.num]
  <2>3. Encode(v).text = raw
    BY <1>3 DEF Encode
  <2>4. raw \in DecimalTexts /\ IntOf[raw] = v.num /\ IntOf[""] = None
    BY <2>2, EvaluationAssumption
  <2>5. v.num # None
    BY <2>2 DEF Wholes
  <2> HIDE DEF raw
  <2>6. ParseInteger(raw) = [tag |-> "int", num |-> v.num]
    BY <2>4, <2>5 DEF ParseInteger
  <2>7. ASSUME NEW type PROVE Parse(raw, type, v.tag) = ParseInteger(raw)
    BY <1>3 DEF Parse
  <2>. QED
    BY <2>2, <2>3, <2>4, <2>5, <2>6, <2>7
<1>4. CASE v.tag = "float"
  <2>1. v \in [tag: {"float"}, num: FloatNumbers] /\ v.num # NotFinite
    BY <1>4 DEF IsNative, Encodable
  <2>2. /\ v.num \in Numbers \ {Huge, NotFinite} /\ NearestFloat[v.num] = v.num
        /\ v = [tag |-> "float", num |-> v.num]
    BY <2>1 DEF FloatNumbers
  <2> DEFINE raw == DecimalOf[v.num]
  <2>3. Encode(v).text = raw
    BY <1>4 DEF Encode
  <2>4. raw \in DecimalTexts /\ FloatOf[raw] = v.num /\ FloatOf[""] = None /\ v.num # None
    BY <2>2, TextsAssumption
  <2> HIDE DEF raw
  <2>5. ParseFloat(raw) = v.num
    BY <2>2, <2>4 DEF ParseFloat
  <2>6. ASSUME NEW type PROVE Parse(raw, type, v.tag) = ParseNumber(raw)
    BY <1>4 DEF Parse
  <2>7. ParseNumber(raw) = [tag |-> "float", num |-> v.num]
    BY <2>4, <2>5 DEF ParseNumber
  <2>. QED
    BY <2>2, <2>3, <2>4, <2>6, <2>7
<1>5. CASE v.tag \in {"object", "list"}
  <2>1. v \in [tag: {JsonOf[v.json]}, json: Texts]
    BY <1>5 DEF IsNative
  <2>2. v = [tag |-> v.tag, json |-> v.json] /\ JsonOf[v.json] = v.tag
    BY <2>1
  <2>3. Encode(v).text = v.json
    BY <1>5 DEF Encode
  <2>4. v.json # ""
    BY <1>5, <2>2, EvaluationAssumption
  <2>5. ASSUME NEW raw, NEW type PROVE Parse(raw, type, v.tag) = ParseJson(raw, v.tag)
    BY <1>5 DEF Parse
  <2>6. ParseJson(v.json, v.tag) = [tag |-> v.tag, json |-> v.json]
    BY <2>2 DEF ParseJson
  <2>. QED
    BY <2>2, <2>3, <2>4, <2>5, <2>6
<1>. QED
  BY <1>1, <1>2, <1>3, <1>4, <1>5 DEF Encodable

LEMMA NoElements == DOMAIN <<>> = {}
OBVIOUS

LEMMA PlainFields ==
  ASSUME NEW key, NEW v
  PROVE  /\ UnconditionalConfig(key, v).id[2] = key
         /\ UnconditionalConfig(key, v).type = Encode(v).type
         /\ UnconditionalConfig(key, v).value = Encode(v).text
         /\ DOMAIN UnconditionalConfig(key, v).rules = {}
<1>1. /\ UnconditionalConfig(key, v).type = Encode(v).type
      /\ UnconditionalConfig(key, v).value = Encode(v).text
      /\ UnconditionalConfig(key, v).id = <<"offline", key>>
      /\ UnconditionalConfig(key, v).rules = <<>>
  BY DEF UnconditionalConfig
<1>. QED
  BY <1>1, NoElements

(* Where the values of a plan come from.                                   *)
LEMMA GivenIsNative ==
  ASSUME NEW o \in Options, PlanConnection(o).does = "stay offline",
         Given(PlanConnection(o).source) # None,
         NEW key \in DOMAIN Given(PlanConnection(o).source)
  PROVE  IsNative(Given(PlanConnection(o).source)[key].value)
<1> DEFINE source == PlanConnection(o).source
           given == Given(source)
<1>1. source \in {OfflineSourceOf(o), [from |-> "rejected"]}
  BY DEF PlanConnection
<1>2. \/ source = [from |-> "rejected"]
      \/ source = [from |-> "nowhere"]
      \/ o.file # None /\ source = [from |-> "file", name |-> o.file]
      \/ o.values # None /\ source = [from |-> "values", name |-> o.values]
  BY <1>1 DEF OfflineSourceOf
<1>3. \/ given = None
      \/ given = <<>>
      \/ o.file # None /\ given = FileOf[o.file]
      \/ o.values # None /\ given = ValuesOf[o.values]
  <2> HIDE DEF source
  <2>1. CASE source = [from |-> "rejected"]
    BY <2>1 DEF Given
  <2>2. CASE source = [from |-> "nowhere"]
    BY <2>2 DEF Given
  <2>3. CASE o.file # None /\ source = [from |-> "file", name |-> o.file]
    BY <2>3 DEF Given
  <2>4. CASE o.values # None /\ source = [from |-> "values", name |-> o.values]
    BY <2>4 DEF Given
  <2>. QED
    BY <1>2, <2>1, <2>2, <2>3, <2>4
<1>4. given \in Range(FileOf) \cup Range(ValuesOf) \cup {None, <<>>}
  <2>1. /\ o.file = None \/ o.file \in DOMAIN FileOf
        /\ o.values = None \/ o.values \in DOMAIN ValuesOf
    BY OfflineAssumption
  <2> HIDE DEF given
  <2>. QED
    BY <1>3, <2>1 DEF Range
<1>5. given # <<>>
  <2>1. key \in DOMAIN given
    OBVIOUS
  <2> HIDE DEF given
  <2>. QED
    BY <2>1, NoElements, Zenon
<1> HIDE DEF given
<1>6. given \in Range(FileOf) \cup Range(ValuesOf) /\ given # None /\ key \in DOMAIN given
  BY <1>4, <1>5 DEF given
<1>. QED
  BY <1>6, OfflineAssumption DEF given

(* The inductive invariant: an offline client has made its plan, loaded    *)
(* what the plan names, serves it key by key without rules, and is reading *)
(* one of those values or has read it.                                     *)
Loaded == /\ client.plan = PlanConnection(client.options)
          /\ client.plan.does = "stay offline"
          /\ Loads(Given(client.plan.source))

Serves(key) ==
  /\ key \in DOMAIN Given(client.plan.source)
  /\ input.config = UnconditionalConfig(key, Given(client.plan.source)[key].value)

ReadInv ==
  /\ pc \in {"new", "created", "serving"} =>
       DOMAIN client = {"options", "plan", "configs"} /\ client.options \in Options
  /\ pc = "created" => /\ client.plan = PlanConnection(client.options)
                       /\ client.plan.does = "stay offline"
  /\ pc = "serving" =>
       /\ Loaded
       /\ client.configs = [key \in DOMAIN Given(client.plan.source) |->
            UnconditionalConfig(key, Given(client.plan.source)[key].value)]
  /\ pc \in {"rules", "parse", "done"} /\ client # None =>
       /\ client.options \in Options /\ Loaded /\ todo = {}
       /\ \E key : Serves(key)
       /\ pc # "rules" => choice.value = input.config.value
       /\ pc = "done" => result = ParseConfigValue(choice.value, choice.id)

LEMMA ReadInit == InitAll => ReadInv
<1>1. ASSUME Init, client = None PROVE ReadInv
  BY <1>1 DEF Init, ReadInv
<1>2. ASSUME NEW o \in Options, client = [options |-> o, plan |-> None, configs |-> None],
             pc = "new"
      PROVE  ReadInv
  BY <1>2 DEF ReadInv
<1>. QED
  BY <1>1, <1>2 DEF InitAll

LEMMA ReadStep == ReadInv /\ [NextAll]_allVars => ReadInv'
<1>. SUFFICES ASSUME ReadInv, [NextAll]_allVars PROVE ReadInv'
  OBVIOUS
<1>1. ASSUME Next, client' = client PROVE ReadInv'
  <2>1. pc \in {"rules", "parse", "done"} /\ pc' \in {"rules", "parse", "done"}
    BY <1>1 DEF Next, TryRule, NoRuleMatched, Return, RaiseShare
  <2>2. CASE client = None
    BY <1>1, <2>1, <2>2 DEF ReadInv
  <2>3. CASE client # None
    <3>1. PICK key : Serves(key)
      BY <2>1, <2>3 DEF ReadInv
    <3>2. todo = {} /\ DOMAIN Rules = {} /\ client.options \in Options /\ Loaded
      <4>1. todo = {} /\ client.options \in Options /\ Loaded
        BY <2>1, <2>3 DEF ReadInv
      <4>2. DOMAIN Rules = {}
        BY <3>1, PlainFields DEF Serves, Rules
      <4>. QED
        BY <4>1, <4>2
    <3>3. NoRuleMatched \/ Return
      BY <1>1, <3>2 DEF Next
    <3>4. input' = input /\ todo' = todo
      BY <3>3 DEF NoRuleMatched, Return
    <3>5. Serves(key)' /\ Loaded'
      BY <1>1, <3>1, <3>2, <3>4 DEF Serves, Loaded
    <3>6. CASE NoRuleMatched
      <4>1. pc' = "parse" /\ choice'.value = input.config.value
        BY <3>6 DEF NoRuleMatched
      <4>. QED
        BY <1>1, <3>2, <3>4, <3>5, <4>1 DEF ReadInv
    <3>7. CASE Return
      <4>1. /\ pc = "parse" /\ pc' = "done" /\ choice' = choice
            /\ result' = ParseConfigValue(choice.value, choice.id)
        BY <3>7 DEF Return
      <4>2. ParseConfigValue(choice.value, choice.id)'
              = ParseConfigValue(choice.value, choice.id)
        BY <3>4, <4>1, Zenon DEF ParseConfigValue, UseDefault, ValueIdFor
      <4>3. choice.value = input.config.value
        BY <2>3, <4>1 DEF ReadInv
      <4>. QED
        BY <1>1, <3>2, <3>4, <3>5, <4>1, <4>2, <4>3 DEF ReadInv
    <3>. QED
      BY <3>3, <3>6, <3>7
  <2>. QED
    BY <2>2, <2>3
<1>2. ASSUME Create PROVE ReadInv'
  <2> DEFINE plan == PlanConnection(client.options)
  <2>1. /\ pc = "new" /\ client' = [client EXCEPT !.plan = plan]
        /\ pc' = CASE plan.does = "raise"        -> "raised"
                   [] plan.does = "connect"      -> "live"
                   [] plan.does = "stay offline" -> "created"
    BY <1>2 DEF Create
  <2>2. plan.does \in {"raise", "connect", "stay offline"}
    BY DEF PlanConnection
  <2>3. DOMAIN client = {"options", "plan", "configs"} /\ client.options \in Options
    BY <2>1 DEF ReadInv
  <2> HIDE DEF plan
  <2>4. /\ pc' \in {"raised", "live", "created"}
        /\ pc' = "created" => plan.does = "stay offline"
    BY <2>1, <2>2
  <2>5. /\ DOMAIN client' = {"options", "plan", "configs"}
        /\ client'.options = client.options /\ client'.plan = plan
    BY <2>1, <2>3
  <2>. QED
    BY <2>3, <2>4, <2>5 DEF ReadInv, plan
<1>3. ASSUME Initialize PROVE ReadInv'
  <2> DEFINE given == Given(client.plan.source)
             configs == [key \in DOMAIN given |-> UnconditionalConfig(key, given[key].value)]
  <2>1. /\ pc = "created"
        /\ \/ pc' = "refused"
           \/ Loads(given) /\ pc' = "serving" /\ client' = [client EXCEPT !.configs = configs]
    BY <1>3 DEF Initialize
  <2>2. /\ DOMAIN client = {"options", "plan", "configs"} /\ client.options \in Options
        /\ client.plan = PlanConnection(client.options) /\ client.plan.does = "stay offline"
    BY <2>1 DEF ReadInv
  <2>3. CASE pc' = "refused"
    BY <2>3 DEF ReadInv
  <2>4. CASE Loads(given) /\ pc' = "serving" /\ client' = [client EXCEPT !.configs = configs]
    <3> HIDE DEF configs
    <3>1. /\ DOMAIN client' = {"options", "plan", "configs"}
          /\ client'.options = client.options /\ client'.plan = client.plan
          /\ client'.configs = configs
      BY <2>2, <2>4
    <3>2. Loaded'
      BY <2>2, <2>4, <3>1 DEF Loaded
    <3>. QED
      BY <2>2, <2>4, <3>1, <3>2 DEF ReadInv, configs
  <2>. QED
    BY <2>1, <2>3, <2>4
<1>4. ASSUME pc = "serving", NEW key \in DOMAIN client.configs, NEW default,
             GetValue(key, default)
      PROVE  ReadInv'
  <2>1. /\ input'.config = client.configs[key]
        /\ todo' = {} /\ pc' = "rules" /\ client' = client
    BY <1>4 DEF GetValue
  <2>2. /\ client.options \in Options /\ Loaded
        /\ client.configs = [k \in DOMAIN Given(client.plan.source) |->
             UnconditionalConfig(k, Given(client.plan.source)[k].value)]
    BY <1>4 DEF ReadInv
  <2>3. Serves(key)'
    BY <1>4, <2>1, <2>2 DEF Serves
  <2>4. Loaded'
    BY <2>1, <2>2 DEF Loaded
  <2>. QED
    BY <2>1, <2>2, <2>3, <2>4 DEF ReadInv
<1>5. CASE UNCHANGED allVars
  <2>1. UNCHANGED <<input, todo, choice, result, pc, client>>
    BY <1>5 DEF allVars, vars
  <2>2. ParseConfigValue(choice.value, choice.id)' = ParseConfigValue(choice.value, choice.id)
    BY <2>1, Zenon DEF ParseConfigValue, UseDefault, ValueIdFor
  <2>3. (Loaded' <=> Loaded) /\ \A key : Serves(key)' <=> Serves(key)
    BY <2>1 DEF Loaded, Serves
  <2>. QED
    BY <2>1, <2>2, <2>3 DEF ReadInv
<1>. QED
  BY <1>1, <1>2, <1>3, <1>4, <1>5 DEF NextAll

LEMMA ReadBack ==
  ASSUME ReadInv
  PROVE  OfflineValuesComeBack
<1> DEFINE served == input.config.id[2]
           values == Given(client.plan.source)
           given == values[served].value
<1> SUFFICES ASSUME pc = "done", client # None, input.default.tag = given.tag,
                    given # Text("")
             PROVE  result.value = given /\ ~result.usedDefault
  BY DEF OfflineValuesComeBack
<1>1. PICK key : Serves(key)
  BY DEF ReadInv
<1>2. /\ client.options \in Options /\ Loaded /\ choice.value = input.config.value
      /\ result = ParseConfigValue(choice.value, choice.id)
  BY DEF ReadInv
<1>3. key \in DOMAIN values /\ input.config = UnconditionalConfig(key, values[key].value)
  BY <1>1 DEF Serves
<1>4. /\ input.config.id[2] = key
      /\ input.config.type = Encode(values[key].value).type
      /\ input.config.value = Encode(values[key].value).text
  <2>1. PICK v : v = values[key].value
    OBVIOUS
  <2> HIDE DEF values, served, given
  <2>2. input.config = UnconditionalConfig(key, v)
    BY <1>3, <2>1, Zenon
  <2>3. /\ UnconditionalConfig(key, v).id[2] = key
        /\ UnconditionalConfig(key, v).type = Encode(v).type
        /\ UnconditionalConfig(key, v).value = Encode(v).text
    BY PlainFields
  <2>4. /\ input.config.id[2] = key
        /\ input.config.type = Encode(v).type
        /\ input.config.value = Encode(v).text
    BY <2>2, <2>3
  <2>. QED
    BY <2>1, <2>4
<1>5. served = key
  BY <1>4
<1>6. IsNative(values[key].value) /\ Encodable(values[key])
  BY <1>2, <1>3, GivenIsNative DEF Loaded, Loads
<1>7. /\ Encode(given).text # ""
      /\ Parse(Encode(given).text, Encode(given).type, given.tag) = given
  BY <1>5, <1>6, WrittenIsRead
<1>8. given # None
  BY <1>5, <1>6 DEF IsNative
<1> HIDE DEF given
<1>9. choice.value = Encode(given).text /\ input.config.type = Encode(given).type
  BY <1>2, <1>4, <1>5 DEF given
<1>10. ASSUME NEW raw, NEW id, raw # "", Parse(raw, input.config.type, input.default.tag) = given
       PROVE  /\ ParseConfigValue(raw, id).value = given
              /\ ParseConfigValue(raw, id).usedDefault = FALSE
  BY <1>8, <1>10 DEF ParseConfigValue, Requested
<1>. QED
  BY <1>2, <1>7, <1>9, <1>10

(* A value an offline client was given, in the code or in a file, and      *)
(* could write is what get_value() returns for a default of its type, the  *)
(* empty text aside: for any files and options, and any values that json   *)
(* and the limit on digits let it write; the assumptions on the texts say  *)
(* that int() reads what str() wrote, and float() what repr() wrote        *)
(* (_native_values.py, _value_parser.py).                                  *)
THEOREM GivenValuesComeBack == SpecAll => []OfflineValuesComeBack
<1>1. InitAll => ReadInv
  BY ReadInit
<1>. QED
  BY <1>1, ReadStep, ReadBack, PTL DEF SpecAll
=============================================================================
