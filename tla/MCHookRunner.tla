---------------------------- MODULE MCHookRunner ----------------------------
(* Instances of HookRunner: the first rule takes every event, the second   *)
(* only those of devices; the third is refused for its relative path.  Sensor  *)
(* "p" is persistent; "s" comes, goes and changes.                        *)
EXTENDS HookRunner, TLC

MCRules ==
  << [events |-> Kinds, absolute |-> TRUE],
     [events |-> {"device_created", "device_removed"}, absolute |-> TRUE],
     [events |-> Kinds, absolute |-> FALSE] >>

MCLayouts == {"s" :> 1, "s" :> 2 @@ "p" :> 1, "p" :> 1}
MCPersistent == {"p"}
=============================================================================
