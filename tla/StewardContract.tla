--------------------------- MODULE StewardContract ---------------------------
(* What the Autonomous Steward promises about one logical event, whatever     *)
(* file it keeps its tasks in: the lifecycle drawn in                         *)
(* docs/autonomous-steward.md (pending -> claimed -> acked | uncertain ...),  *)
(* with the outside world - did a handler start, did its effect happen -      *)
(* made explicit.  Steward.tla is shown to implement it when the calls on a   *)
(* ledger do not overlap.                                                     *)
EXTENDS Naturals

CONSTANTS Tasks,      \* logical events, named by their task_id
          Entry       \* [Tasks -> {"pending", "human_review", "rejected"}]

VARIABLES state,      \* the state a reader of the ledger sees
          runs,       \* how many times a handler was started for the task
          effect      \* has the external effect of the task happened?

vars == <<state, runs, effect>>

Init ==
  /\ state = [t \in Tasks |-> "absent"]
  /\ runs = [t \in Tasks |-> 0]
  /\ effect = [t \in Tasks |-> FALSE]

Become(t, s) == state' = [state EXCEPT ![t] = s]

\* An accepted event becomes a task once.
Admit(t) ==
  /\ state[t] = "absent"
  /\ Entry[t] # "rejected"
  /\ Become(t, Entry[t])
  /\ UNCHANGED <<runs, effect>>

Claim(t) ==
  /\ state[t] = "pending"
  /\ Become(t, "claimed")
  /\ UNCHANGED <<runs, effect>>

\* A handler is started at most once, and only for a claimed task.
Run(t) ==
  /\ state[t] = "claimed"
  /\ runs[t] = 0
  /\ runs' = [runs EXCEPT ![t] = 1]
  /\ UNCHANGED <<state, effect>>

Perform(t) ==
  /\ state[t] = "claimed"
  /\ runs[t] = 1
  /\ effect' = [effect EXCEPT ![t] = TRUE]
  /\ UNCHANGED <<state, runs>>

\* Losing track of a claimed or settled-by-hand task is always allowed ...
Doubt(t) ==
  /\ state[t] \in {"claimed", "failed"}
  /\ Become(t, "uncertain")
  /\ UNCHANGED <<runs, effect>>

\* ... but a verdict must agree with what happened outside.
Settle(t) ==
  /\ state[t] \in {"claimed", "failed", "uncertain"}
  /\ Become(t, IF effect[t] THEN "acked" ELSE "failed")
  /\ UNCHANGED <<runs, effect>>

Next == \E t \in Tasks :
  Admit(t) \/ Claim(t) \/ Run(t) \/ Perform(t) \/ Doubt(t) \/ Settle(t)

Spec == Init /\ [][Next]_vars
==============================================================================
