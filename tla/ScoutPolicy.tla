----------------------------- MODULE ScoutPolicy -----------------------------
(* What a daily scan plan must be, whoever computes it: the vocabulary shared *)
(* by the planner (ScoutCadence.tla) and by the cycle that stores its plan    *)
(* (ScoutCycle.tla).  A policy is a record [budget, floor, cap] for the three *)
(* fields of ScoutCadencePolicy in planning/scout_cadence.py.                 *)
LOCAL INSTANCE Integers
LOCAL INSTANCE FiniteSets
LOCAL INSTANCE Functions

\* _validate_policy raises on anything else.
ValidPolicy(p) ==
  /\ p.budget >= 1
  /\ p.floor >= 0
  /\ p.cap >= 1
  /\ p.cap >= p.floor

FloorsFit(p, sources) == Cardinality(sources) * p.floor <= p.budget

TotalScans(alloc) == SumFunction(alloc)

\* The plans a READY answer may carry: floor and cap for every source, never
\* more than the budget, and a rest only when no source could take more.
ReadyPlans(p, sources) ==
  {alloc \in [sources -> p.floor .. p.cap] :
     /\ TotalScans(alloc) <= p.budget
     /\ \/ TotalScans(alloc) = p.budget
        \/ \A s \in sources : alloc[s] = p.cap}

\* Python's round: a half goes to the even neighbour.
RoundHalfEven(n, d) ==
  LET q == n \div d
      twice == 2 * (n % d)
  IN IF twice > d \/ (twice = d /\ q % 2 = 1) THEN q + 1 ELSE q

\* target_interval_minutes for a number of scans in a day of that length.
Interval(day, scans) ==
  IF scans = 0 THEN day
  ELSE LET minutes == RoundHalfEven(day, scans)
       IN IF minutes < 1 THEN 1 ELSE minutes
==============================================================================
