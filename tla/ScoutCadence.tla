----------------------------- MODULE ScoutCadence ----------------------------
(* plan_scout_cadence (planning/scout_cadence.py): a daily budget of scans is *)
(* shared out among the sources one scan at a time, always to the source that *)
(* is furthest below its proportional target, between a floor and a cap.      *)
(*                                                                            *)
(* Shares and targets are Decimal quotients in the code.  The model compares  *)
(* the same quantities multiplied by the total weight, so they are integers:  *)
(*   target - allocated  =  (weight * budget - allocated * total) / total     *)
(* Two different weights whose distances are equal as fractions may compare   *)
(* either way after Decimal has rounded them to 28 digits, so the model       *)
(* leaves that choice open; equal weights have equal roundings and the name   *)
(* decides, as in the code.                                                   *)
EXTENDS Integers, FiniteSets, Functions, ScoutPolicy

CONSTANTS
  Sources,      \* names of sources, as numbers in alphabetical order
  Shares,       \* attention_share_pct values
  Policies      \* the policies to plan for

VARIABLES
  sources,      \* the candidates of this call
  policy,
  share,        \* attention_share_pct of each candidate
  status,       \* "start", "planning", or the status of the answer
  allocations,  \* scans per day so far
  remaining     \* scans of the budget still to give

vars == <<sources, policy, share, status, allocations, remaining>>
inputs == <<sources, policy, share>>

ASSUME SourcesAreNumbers == Sources \subseteq Nat /\ IsFiniteSet(Sources)
ASSUME SharesAreNat == Shares \subseteq Nat
ASSUME PoliciesAreValid ==
  /\ Policies \subseteq [budget : Nat, floor : Nat, cap : Nat]
  /\ \A p \in Policies : ValidPolicy(p)

------------------------------------------------------------------------------
\* _normalized_shares: without any positive share everyone weighs the same.
TotalShare == SumFunction(share)
Weight(s) == IF TotalShare > 0 THEN share[s] ELSE 1
TotalWeight == IF TotalShare > 0 THEN TotalShare ELSE Cardinality(sources)

EligibleAtCapToo == {s \in sources : allocations[s] <= policy.cap}
Eligible == {s \in sources : allocations[s] < policy.cap}

DistanceOfScansAlone(s) == - (allocations[s] * TotalWeight)
DistanceNeverUpdated(s) == Weight(s) * policy.budget
\* The distance from target, times the total weight.
Distance(s) == Weight(s) * policy.budget - allocations[s] * TotalWeight

\* s is not outbid by t in the code's max(eligible, key=...).
NotOutbid(s, t) ==
  \/ Distance(t) < Distance(s)
  \/ Distance(t) = Distance(s) /\ (Weight(t) # Weight(s) \/ t <= s)

------------------------------------------------------------------------------

Init ==
  /\ sources \in SUBSET Sources
  /\ policy \in Policies
  /\ share \in [sources -> Shares]
  /\ status = "start"
  /\ allocations = [s \in sources |-> 0]
  /\ remaining = 0

NoSources ==
  /\ status = "start"
  /\ sources = {}
  /\ status' = "NO_SOURCES"
  /\ UNCHANGED <<inputs, allocations, remaining>>

BudgetTooSmall ==
  /\ status = "start"
  /\ sources # {}
  /\ ~FloorsFit(policy, sources)
  /\ status' = "BUDGET_TOO_SMALL"
  /\ UNCHANGED <<inputs, allocations, remaining>>

ReserveFloorUnchecked ==
  /\ status = "start"
  /\ sources # {}
  /\ status' = "planning"
  /\ allocations' = [s \in sources |-> policy.floor]
  /\ remaining' = policy.budget - Cardinality(sources) * policy.floor
  /\ UNCHANGED inputs

ReserveFloor ==
  /\ status = "start"
  /\ sources # {}
  /\ FloorsFit(policy, sources)
  /\ status' = "planning"
  /\ allocations' = [s \in sources |-> policy.floor]
  /\ remaining' = policy.budget - Cardinality(sources) * policy.floor
  /\ UNCHANGED inputs

\* One turn of the while loop.
Grant(s) ==
  /\ status = "planning"
  /\ remaining > 0
  /\ s \in Eligible
  /\ \A t \in Eligible : NotOutbid(s, t)
  /\ allocations' = [allocations EXCEPT ![s] = @ + 1]
  /\ remaining' = remaining - 1
  /\ UNCHANGED <<inputs, status>>

FinishOnlyWhenSpent ==
  /\ status = "planning"
  /\ remaining = 0
  /\ status' = "READY"
  /\ UNCHANGED <<inputs, allocations, remaining>>

Finish ==
  /\ status = "planning"
  /\ remaining = 0 \/ Eligible = {}
  /\ status' = "READY"
  /\ UNCHANGED <<inputs, allocations, remaining>>

Next ==
  \/ NoSources \/ BudgetTooSmall \/ ReserveFloor
  \/ \E s \in sources : Grant(s)
  \/ Finish

\* The planner is a sequential function: it is fair that it goes on.
Spec == Init /\ [][Next]_vars /\ WF_vars(Next)

------------------------------------------------------------------------------
(* Properties                                                                 *)

Statuses == {"start", "planning", "READY", "NO_SOURCES", "BUDGET_TOO_SMALL"}

\* Every variable keeps its shape; in particular the budget is never
\* overdrawn while scans are being given out.
TypeOK ==
  /\ sources \subseteq Sources
  /\ policy \in Policies
  /\ share \in [sources -> Shares]
  /\ status \in Statuses
  /\ allocations \in [sources -> Nat]
  /\ remaining \in Nat

\* A READY answer is a plan within floor, cap and budget, and it leaves scans
\* unallocated only when every source is at its cap.
PlanIsReady == status = "READY" => allocations \in ReadyPlans(policy, sources)

\* More attention never means fewer scans: floors, caps and the order in
\* which the scans were given out cannot invert two sources.
NoInversion ==
  \A s, t \in sources : share[s] > share[t] => allocations[s] >= allocations[t]

\* Above its floor no source is given a scan beyond its rounded up target,
\* unless a capped source has left the competition.
NoOverserving ==
  (\A s \in sources : allocations[s] < policy.cap) =>
     \A s \in sources : allocations[s] > policy.floor =>
        (allocations[s] - 1) * TotalWeight < Weight(s) * policy.budget

\* Without floor and caps in the way the plan is an apportionment that keeps
\* quota: every source ends within one scan of its proportional target.
KeepsQuota ==
  (status = "READY" /\ policy.floor = 0 /\ policy.cap > policy.budget) =>
     \A s \in sources :
        LET off == allocations[s] * TotalWeight - Weight(s) * policy.budget
        IN - TotalWeight < off /\ off < TotalWeight

\* The loop ends whatever the caps: with an answer, never spinning on a
\* budget nobody can take.
Answers == <>(status \in {"READY", "NO_SOURCES", "BUDGET_TOO_SMALL"})
==============================================================================
