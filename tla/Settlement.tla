------------------------------ MODULE Settlement -----------------------------
(* planning/settlement.py: can what a source offers reach its payout minimum? *)
(* A task has currency, fixedReward, reward, slots (NotStated or a number),   *)
(* and what its source publishes with it: minimum, budget and cap (0: nothing *)
(* published) and shared, when all its templates draw on one budget.          *)
EXTENDS Estimation, SequencesExt

CeilDiv(a, b) == (a + b - 1) \div b

HasSlots(o) == o.slots # NotStated /\ o.slots > 0

Eligible(tasks) ==
  {i \in DOMAIN tasks : /\ tasks[i].fixedReward /\ HasSlots(tasks[i])
                        /\ tasks[i].reward > 0}

\* The positive values the tasks I publish in a field, and the one value they
\* agree on (0 when they do not).
PublishedIn(tasks, I, field) == {tasks[i][field] : i \in I} \ {0}
Agreed(values) == IF Cardinality(values) = 1 THEN CHOOSE v \in values : TRUE ELSE 0

\* A bound that is not stated bounds nothing.
Capped(n, bound) == IF bound = NotStated THEN n ELSE Min({n, bound})
Less(bound, n) == IF bound = NotStated THEN NotStated ELSE bound - n
Within(n, bound) == bound # NotStated => n <= bound

\* The loops take the tasks in the order of their rewards, the highest first:
\* of the tasks D they take this one last.
LastByRewardLowestFirst(tasks, D) ==
  CHOOSE i \in D : \A j \in D : tasks[j].reward <= tasks[i].reward
LastByReward(tasks, D) ==
  CHOOSE i \in D : \A j \in D : tasks[i].reward <= tasks[j].reward

\* _minimum_actions_to_threshold, one task of the loop.
TakeOfPool(left, task, cap) ==
  LET room == Capped(task.slots, Less(cap, left.actions))
      used == Min({room, CeilDiv(left.remaining, task.reward)})
  IN IF left.remaining <= 0 THEN left
     ELSE [remaining |-> left.remaining - task.reward * used,
           actions |-> left.actions + used]

MinimumActions(tasks, I, threshold, cap) ==
  LET end == MapThenFoldSet(LAMBDA i, left : TakeOfPool(left, tasks[i], cap),
                            [remaining |-> threshold, actions |-> 0],
                            LAMBDA i : i, LAMBDA D : LastByReward(tasks, D), I)
  IN IF end.remaining <= 0 THEN end.actions ELSE NotStated

TemplateGross(tasks, I) ==
  SumFunction([i \in I |-> tasks[i].reward * tasks[i].slots])
TemplateActions(tasks, I) == SumFunction([i \in I |-> tasks[i].slots])

\* A shared budget binds the templates, and so does the number of paid
\* actions the source publishes with it.
PoolGross(tasks, I, shared) ==
  IF shared
  THEN Min({TemplateGross(tasks, I), Agreed(PublishedIn(tasks, I, "budget"))})
  ELSE TemplateGross(tasks, I)
PoolCap(tasks, I, shared) ==
  LET caps == PublishedIn(tasks, I, "cap")
  IN CASE ~shared -> NotStated
       [] shared /\ caps = {} -> TemplateActions(tasks, I)
       [] OTHER -> Min({TemplateActions(tasks, I), Agreed(caps)})

\* What makes the verdict UNKNOWN: the sources contradict themselves, or the
\* amounts are not comparable.
PoolUnclear(tasks, I, shared) ==
  \/ shared /\ Agreed(PublishedIn(tasks, I, "budget")) = 0
  \/ shared /\ Cardinality(PublishedIn(tasks, I, "cap")) > 1
  \/ {tasks[i].currency : i \in I} # {"USD"}
  \/ Agreed(PublishedIn(tasks, I, "minimum")) = 0

PoolSummary(tasks) ==
  LET I == Eligible(tasks)
      shared == \E i \in I : tasks[i].shared
      threshold == Agreed(PublishedIn(tasks, I, "minimum"))
      actions == IF PoolGross(tasks, I, shared) >= threshold
                 THEN MinimumActions(tasks, I, threshold, PoolCap(tasks, I, shared))
                 ELSE NotStated
      verdict(status, n) == [status |-> status, actions |-> n]
  IN CASE I = {} -> verdict("NOT_APPLICABLE", NotStated)
       [] I # {} /\ PoolUnclear(tasks, I, shared) -> verdict("UNKNOWN", NotStated)
       [] I # {} /\ ~PoolUnclear(tasks, I, shared) /\ actions # NotStated ->
            verdict("REACHABLE", actions)
       [] OTHER -> verdict("NOT_REACHABLE", NotStated)

(* What schedules there are: how often to do each of the tasks I.             *)
Schedules(tasks, I) ==
  {s \in [I -> UNION {0 .. tasks[i].slots : i \in I}] :
     \A i \in I : s[i] <= tasks[i].slots}
ScheduleActions(s) == SumFunction(s)
ScheduleGross(tasks, s) ==
  SumFunction([i \in DOMAIN s |-> tasks[i].reward * s[i]])
==============================================================================
