--------------------------- MODULE MCConfigClient ---------------------------
(* Instances of ConfigClient for TLC.                                      *)
EXTENDS ConfigClientRefinement

CONSTANT k1

MCWatchKey == [w \in Watchers |-> k1]
MCHandlerEvent == [h \in Handlers |-> "configs_updated"]

(* A bundle in which the definitions there are all use every segment.      *)
Bundle(kind, defined, carried, unread) ==
  [kind |-> kind, configs |-> [k \in Keys |-> IF k \in defined THEN Segs ELSE None],
   segments |-> carried, unreadable |-> unread]

(* Definitions with and without the segments they use, segments alone,     *)
(* nothing at all, and definitions that cannot be read.  (With one key and *)
(* one segment, a full bundle of both does what the delta does.)           *)
SomeShapes ==
  {Bundle("delta", Keys, Segs, {}), Bundle("delta", Keys, {}, {}), Bundle("delta", {}, Segs, {}),
   Bundle("full", Keys, {}, {}), Bundle("full", {}, {}, {}), Bundle("full", {}, {}, Keys)}
=============================================================================
