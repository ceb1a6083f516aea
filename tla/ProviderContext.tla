--------------------------- MODULE ProviderContext ---------------------------
(***************************************************************************)
(* The context the OpenFeature provider evaluates a flag with:             *)
(* _context.py and _values.py of configdirector_openfeature.  An           *)
(* OpenFeature context has a targeting key and attributes, whose values    *)
(* are JSON values, dates with a time (tag "datetime") and bytes (tag      *)
(* "bytes").  Tuples and lists are lists here, keys are texts.  Whether a  *)
(* context is anonymous is told to telemetry only, and left out.           *)
(***************************************************************************)
EXTENDS Evaluation

CONSTANT StrOfFloat   \* float -> what str() writes

ASSUME StrOfFloatAssumption == DOMAIN StrOfFloat \subseteq Numbers

NoTraits == [tag |-> "null"]

\* A date becomes its ISO text, however deep it is.
RECURSIVE ToPlain(_)
ToPlain(v) ==
    CASE v.tag = "object"   -> [v EXCEPT !.fields = [k \in DOMAIN @ |-> ToPlain(@[k])]]
      [] v.tag = "list"     -> [v EXCEPT !.items = [i \in DOMAIN @ |-> ToPlain(@[i])]]
      [] v.tag = "datetime" -> Text(v.iso)
      [] OTHER              -> v

Attr(ec, name) ==
    IF name \in DOMAIN ec.attributes THEN ec.attributes[name] ELSE [tag |-> "null"]

\* A float keeps the ".0" that a trait loses: this is str(), not JSON.
AttributeText(v) ==
    CASE v.tag \in {"null", "object", "list", "bytes"} -> None
      [] v.tag = "float" -> StrOfFloat[v.num]
      [] OTHER           -> ToJsonString(ToPlain(v))

Identifier(ec) ==
    IF ec.targetingKey # None THEN ec.targetingKey ELSE AttributeText(Attr(ec, "id"))

\* A kind is passed on whatever it is.  One that is not a text is no valid kind, and neither
\* is the empty text, which stands for it.
KindOf(v) == CASE v.tag = "null" -> None
               [] v.tag = "text" -> v.text
               [] OTHER          -> ""

ToContext(ec) ==
    IF ec = None THEN None
    ELSE LET traits == Attr(ec, "traits")
         IN [identifier |-> Identifier(ec),
             name |-> AttributeText(Attr(ec, "name")),
             kind |-> KindOf(Attr(ec, "kind")),
             traits |-> IF traits.tag = "object" /\ DOMAIN traits.fields # {}
                          THEN ToPlain(traits) ELSE NoTraits]
=============================================================================
