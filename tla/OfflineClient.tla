---------------------------- MODULE OfflineClient ----------------------------
(***************************************************************************)
(* From the connection options to a value: plan_connection of              *)
(* _connection_plan.py, the offline transport of _transport/offline.py,    *)
(* the encoding of native values of _native_values.py, and the evaluation  *)
(* of what comes of it, which is that of module Evaluation.                *)
(*                                                                         *)
(* A native value is the value and what a walk of its contents finds:      *)
(* "ok", "not finite", "too long", "bad key" or "bad type".                *)
(***************************************************************************)
EXTENDS Evaluation

CONSTANTS
    TooLong,    \* an integer of more digits than Python writes or reads
    Options,    \* the options considered
    FileOf,     \* file -> its values by key, None when it is not there or no JSON object
    ValuesOf,   \* name of inline values -> the values by key
    Defaults    \* defaults a caller passes

\* Native values as Python has them: an int is what int() returns unless it is too long, a
\* float is its own nearest float, and what json.dumps writes is JSON of the same shape.
IsNative(v) ==
    /\ v # None
    /\ v.tag = "text" => v \in [tag: {"text"}, text: Texts]
    /\ v.tag = "bool" => v \in [tag: {"bool"}, bool: BOOLEAN]
    /\ v.tag = "int" => v \in [tag: {"int"}, num: Wholes \cup {TooLong}]
    /\ v.tag = "float" => v \in [tag: {"float"}, num: FloatNumbers]
    /\ v.tag \in {"object", "list"} => v \in [tag: {JsonOf[v.json]}, json: Texts]

ASSUME OfflineAssumption ==
    /\ TooLong \notin Numbers
    /\ \A o \in Options : /\ o.file = None \/ o.file \in DOMAIN FileOf
                          /\ o.values = None \/ o.values \in DOMAIN ValuesOf
    /\ \A given \in Range(FileOf) \cup Range(ValuesOf) : given # None =>
         \A key \in DOMAIN given : IsNative(given[key].value)

VARIABLE client \* the options, the plan made of them and the configs served

allVars == <<vars, client>>

-----------------------------------------------------------------------------
(* The plan. *)

OfflineSourceOf(o) ==
    CASE o.file # None /\ o.values # None -> [from |-> "rejected"]
      [] o.file # None                    -> [from |-> "file", name |-> o.file]
      [] o.values # None                  -> [from |-> "values", name |-> o.values]
      [] OTHER                            -> [from |-> "nowhere"]

HasContent(text) == text # None /\ text \notin Blank

PlanConnection(o) ==
    IF o.mode = "offline" THEN [does |-> "stay offline", source |-> OfflineSourceOf(o)]
    ELSE IF o.mode \notin {"streaming", "polling"} \/ ~HasContent(o.sdkKey)
         THEN [does |-> "raise"]
    ELSE IF o.file # None \/ o.values # None
         THEN [does |-> "stay offline", source |-> [from |-> "rejected"]]
    ELSE IF o.url = "relative" THEN [does |-> "raise"]
    ELSE [does |-> "connect", mode |-> o.mode]

-----------------------------------------------------------------------------
(* Native values. *)

\* The walk of the contents refuses what is not JSON, and json.dumps integers that are too long.
JsonContentsWritten(n) == n.contents \subseteq {"ok"}

Encodable(n) ==
    \/ n.value.tag \in {"bool", "text"}
    \/ n.value.tag = "int" /\ n.value.num # TooLong
    \/ n.value.tag = "float" /\ n.value.num # NotFinite
    \/ n.value.tag \in {"object", "list"} /\ JsonContentsWritten(n)

\* A float is written without an exponent too.
Encode(v) ==
    CASE v.tag = "bool"  -> [type |-> "boolean", text |-> IF v.bool THEN "true" ELSE "false"]
      [] v.tag = "int"   -> [type |-> "integer", text |-> DecimalOf[v.num]]
      [] v.tag = "float" -> [type |-> "float", text |-> DecimalOf[v.num]]
      [] v.tag = "text"  -> [type |-> "string", text |-> v.text]
      [] v.tag \in {"object", "list"} -> [type |-> "json", text |-> v.json]

UnconditionalConfig(key, v) ==
    [id |-> <<"offline", key>>, type |-> Encode(v).type, rules |-> <<>>,
     value |-> Encode(v).text, valueId |-> None]

-----------------------------------------------------------------------------
(* The client. *)

\* The values a source gives, None when it cannot be read.
Given(source) ==
    CASE source.from = "nowhere"  -> <<>>
      [] source.from = "values"   -> ValuesOf[source.name]
      [] source.from = "file"     -> FileOf[source.name]
      [] source.from = "rejected" -> None

\* One value that cannot be encoded refuses them all.
Loads(given) ==
    given # None /\ \A key \in DOMAIN given : HasContent(key) /\ Encodable(given[key])

Create ==
    /\ pc = "new"
    /\ LET plan == PlanConnection(client.options)
       IN /\ client' = [client EXCEPT !.plan = plan]
          /\ pc' = CASE plan.does = "raise"        -> "raised"
                     [] plan.does = "connect"      -> "live"
                     [] plan.does = "stay offline" -> "created"
    /\ UNCHANGED <<input, todo, choice, result, before, edits>>

\* connect() of the offline transport; initialize() raises what it raises.
Initialize ==
    /\ pc = "created"
    /\ LET given == Given(client.plan.source)
       IN IF Loads(given)
          THEN /\ client' = [client EXCEPT !.configs =
                               [key \in DOMAIN given |-> UnconditionalConfig(key, given[key].value)]]
               /\ pc' = "serving"
          ELSE /\ pc' = "refused"
               /\ UNCHANGED client
    /\ UNCHANGED <<input, todo, choice, result, before, edits>>

\* get_value() of a key that is served; its rules are none.
GetValue(key, default) ==
    /\ pc = "serving"
    /\ input' = [config |-> client.configs[key], segments |-> <<>>, context |-> None,
                 metadata |-> input.metadata, default |-> default]
    /\ todo' = {}
    /\ pc' = "rules"
    /\ UNCHANGED <<choice, result, before, edits, client>>

-----------------------------------------------------------------------------
NoInput == [config |-> [id |-> None, type |-> "string", rules |-> <<>>, value |-> "",
                        valueId |-> None],
            segments |-> <<>>, context |-> None,
            metadata |-> [appName |-> None, appVersion |-> None], default |-> Text("")]

\* A client that is created and one that serves what a server sent.
InitAll ==
    \/ Init /\ client = None
    \/ /\ \E o \in Options : client = [options |-> o, plan |-> None, configs |-> None]
       /\ input = NoInput /\ todo = {}
       /\ choice = None /\ result = None /\ before = None
       /\ edits = 0
       /\ pc = "new"

NextAll ==
    \/ Next /\ UNCHANGED client
    \/ Create \/ Initialize
    \/ pc = "serving" /\ \E key \in DOMAIN client.configs, default \in Defaults :
                           GetValue(key, default)

SpecAll == InitAll /\ [][NextAll]_allVars

-----------------------------------------------------------------------------
\* A value an offline client was given and could write is what get_value() returns for a
\* default of its type: through the text in between no bool is taken for the int it is in
\* Python, and no digit of an integer is lost to a float (_native_values.py, _encode;
\* _value_parser.py).  The empty text counts as no value.
OfflineValuesComeBack ==
    pc = "done" /\ client # None =>
      LET key == input.config.id[2]
          given == Given(client.plan.source)[key].value
      IN input.default.tag = given.tag /\ given # Text("")
           => result.value = given /\ ~result.usedDefault
=============================================================================
