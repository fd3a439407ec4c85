------------------------------ MODULE MCSteward ------------------------------
(* Five events, one per way through routing and policy: pay and tip run,      *)
(* exec waits for a human (execution.requested in policy v1), orphan has a    *)
(* route to a handler nobody registered, noise has a route but is not an      *)
(* allowed kind.                                                              *)
EXTENDS Steward

MCKindOf == [t \in Tasks |-> t]

MCRoutes ==
  [k \in {"pay", "tip", "exec", "orphan", "noise"} |->
     [capability |-> IF k = "exec" THEN "execution" ELSE "observe",
      handler    |-> IF k = "orphan" THEN "gone" ELSE "worker"]]
==============================================================================
