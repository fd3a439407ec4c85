------------------------------ MODULE Portfolio ------------------------------
(* cog settlement-summary and cog portfolio (planning/portfolio.py): which    *)
(* microtasks pay on the declared workers, and a path of actions from the     *)
(* current balance to the payout minimum.  The path takes the highest reward  *)
(* first, one candidate per step of the loop.                                 *)
EXTENDS Settlement

CONSTANTS
  Tasks,        \* the tasks sources may offer
  MaxTasks,     \* bound on the tasks of one report
  Inventories,  \* lists of workers
  Balances      \* starting_balance_usd

\* Amounts and numbers are not negative; what a task publishes is a positive
\* number or 0, nothing; the text of a task matches known rules.
ASSUME TasksAssumption ==
  \A task \in Tasks :
    /\ task.words \subseteq DOMAIN RuleBook
    /\ task.reward \in Nat /\ task.slots \in Nat \cup {NotStated}
    /\ task.minimum \in Nat /\ task.budget \in Nat /\ task.cap \in Nat

ASSUME InventoriesAssumption ==
  \A inventory \in Inventories :
    \A w \in DOMAIN inventory : inventory[w].hourly \in Nat \cup {NotStated}

ASSUME BalancesAssumption == Balances \subseteq Nat

VARIABLES
  ptasks,       \* the tasks of the report
  pworkers,     \* the inventory
  pbalance,
  psummary,     \* the verdict of settlement-summary
  ptodo,        \* candidates the loop has not looked at, while it runs
  pleft,        \* remaining, budget_left and actions_left
  psteps,       \* settlement_steps so far: task and number of actions
  pplan         \* status of the plan; "planning" while the loop runs

portfolioVars ==
  <<ptasks, pworkers, pbalance, psummary, ptodo, pleft, psteps, pplan>>

NothingLeft == [remaining |-> 0, budget |-> 0, actions |-> 0]

(* ------------------------------- candidates ------------------------------ *)

\* The net value per minute in hundredths of a cent, rounded to the nearest.
Rate(o, e) == (200 * e.netLow + Minutes(o).high) \div (2 * Minutes(o).high)

\* The best of the workers the task pays on: the first with the highest rate.
BestWorker(o, inventory) ==
  LET paying == PayingWorkers(o, inventory)
      rate(w) == Rate(o, Estimate(o, inventory[w]))
      best == {w \in paying : \A v \in paying : rate(v) <= rate(w)}
  IN Min(best)

IsCandidate(o, inventory) ==
  /\ o.risk \notin {"PENAL_REVIEW", "REJECT"}
  /\ HasSlots(o)
  /\ PayingWorkers(o, inventory) # {}

Candidates(tasks, inventory) ==
  {i \in DOMAIN tasks : IsCandidate(tasks[i], inventory)}

CandidateRate(i) ==
  LET w == BestWorker(ptasks[i], pworkers)
  IN Rate(ptasks[i], Estimate(ptasks[i], pworkers[w]))

\* What the whole report agrees on; a contradiction counts as no bound.
PublishedBound(tasks, field) ==
  LET value == Agreed(PublishedIn(tasks, DOMAIN tasks, field))
  IN IF value = 0 THEN NotStated ELSE value

\* _public_gross_capacity
TakeOfCapacity(left, task) ==
  LET used == Capped(task.slots, left.actions)
  IN [gross |-> left.gross + task.reward * used,
      actions |-> Less(left.actions, used)]
PublicCapacity(tasks, C) ==
  LET end == MapThenFoldSet(LAMBDA i, left : TakeOfCapacity(left, tasks[i]),
                            [gross |-> 0, actions |-> PublishedBound(tasks, "cap")],
                            LAMBDA i : i, LAMBDA D : LastByReward(tasks, D), C)
  IN Capped(end.gross, PublishedBound(tasks, "budget"))

(* -------------------------------- commands ------------------------------- *)

PortfolioInit ==
  /\ ptasks = << >> /\ pworkers = << >> /\ pbalance = 0
  /\ psummary = [status |-> "NOT_APPLICABLE", actions |-> NotStated]
  /\ ptodo = {} /\ pleft = NothingLeft /\ psteps = << >> /\ pplan = "none"

SettlementSummary ==
  /\ ptasks = << >>
  /\ \E n \in 1 .. MaxTasks : ptasks' \in [1 .. n -> Tasks]
  /\ psummary' = PoolSummary(ptasks')
  /\ UNCHANGED <<pworkers, pbalance, ptodo, pleft, psteps, pplan>>

\* The commands keep nothing: the next one asks the source again.
ForgetTasks ==
  /\ ptasks # << >> /\ pplan # "planning"
  /\ ptasks' = << >> /\ pworkers' = << >> /\ pbalance' = 0
  /\ psummary' = [status |-> "NOT_APPLICABLE", actions |-> NotStated]
  /\ ptodo' = {} /\ pleft' = NothingLeft /\ psteps' = << >> /\ pplan' = "none"

\* What can be said before any path is built.
StatusBeforePath(tasks, inventory, balance) ==
  LET C == Candidates(tasks, inventory)
      minimum == Agreed(PublishedIn(tasks, DOMAIN tasks, "minimum"))
  IN CASE inventory = << >> -> "NO_INVENTORY"
       [] inventory # << >> /\ C = {} -> "NO_PROFITABLE_CANDIDATES"
       [] inventory # << >> /\ C # {} /\ minimum = 0 -> "THRESHOLD_UNKNOWN"
       [] inventory # << >> /\ C # {} /\ minimum > 0 /\ balance >= minimum ->
            "THRESHOLD_MET"
       [] inventory # << >> /\ C # {} /\ minimum > balance
          /\ PublicCapacity(tasks, C) < minimum - balance ->
            "SETTLEMENT_UNREACHABLE"
       [] OTHER -> "planning"

BeginPortfolio ==
  /\ ptasks # << >> /\ pplan = "none"
  /\ \E inventory \in Inventories : pworkers' = inventory
  /\ pbalance' \in Balances
  /\ pplan' = StatusBeforePath(ptasks, pworkers', pbalance')
  /\ ptodo' = IF pplan' = "planning" THEN Candidates(ptasks, pworkers') ELSE {}
  /\ pleft' = IF pplan' = "planning"
              THEN [remaining |-> Agreed(PublishedIn(ptasks, DOMAIN ptasks, "minimum"))
                                  - pbalance',
                    budget |-> PublishedBound(ptasks, "budget"),
                    actions |-> PublishedBound(ptasks, "cap")]
              ELSE NothingLeft
  /\ psteps' = << >>
  /\ UNCHANGED <<ptasks, psummary>>

\* The next candidate: by reward, then by rate; a tie may go either way.
TakenBefore(i, j) ==
  \/ ptasks[i].reward > ptasks[j].reward
  \/ ptasks[i].reward = ptasks[j].reward /\ CandidateRate(i) > CandidateRate(j)

UsableSlotsIgnoringBudget(i) == Capped(ptasks[i].slots, pleft.actions)
UsableSlots(i) ==
  LET byBudget == IF pleft.budget = NotStated THEN NotStated
                  ELSE pleft.budget \div ptasks[i].reward
  IN Capped(Capped(ptasks[i].slots, pleft.actions), byBudget)

TakeCandidate ==
  /\ pplan = "planning" /\ ptodo # {} /\ pleft.remaining > 0
  /\ \E i \in ptodo :
       /\ \A j \in ptodo : ~TakenBefore(j, i)
       /\ LET reward == ptasks[i].reward
              used == Min({UsableSlots(i), CeilDiv(pleft.remaining, reward)})
          IN IF used > 0
             THEN /\ psteps' = Append(psteps, [task |-> i, actions |-> used])
                  /\ pleft' =
                       [remaining |-> pleft.remaining - reward * used,
                        budget |-> Less(pleft.budget, reward * used),
                        actions |-> Less(pleft.actions, used)]
             ELSE UNCHANGED <<psteps, pleft>>
       /\ ptodo' = ptodo \ {i}
  /\ UNCHANGED <<ptasks, pworkers, pbalance, psummary, pplan>>

EndPortfolio ==
  /\ pplan = "planning" /\ (ptodo = {} \/ pleft.remaining <= 0)
  /\ IF pleft.remaining <= 0
     THEN pplan' = "READY" /\ UNCHANGED psteps
     ELSE pplan' = "SETTLEMENT_UNREACHABLE" /\ psteps' = << >>
  /\ ptodo' = {} /\ pleft' = NothingLeft
  /\ UNCHANGED <<ptasks, pworkers, pbalance, psummary>>

PortfolioNext ==
  SettlementSummary \/ BeginPortfolio \/ TakeCandidate \/ EndPortfolio
  \/ ForgetTasks

PortfolioSpec == PortfolioInit /\ [][PortfolioNext]_portfolioVars

------------------------------------------------------------------------------
PathSchedule(C) ==
  [i \in C |-> SumFunction([k \in {l \in DOMAIN psteps : psteps[l].task = i} |->
                             psteps[k].actions])]

Affordable(s) ==
  /\ Within(ScheduleActions(s), PublishedBound(ptasks, "cap"))
  /\ Within(ScheduleGross(ptasks, s), PublishedBound(ptasks, "budget"))

\* A READY plan can be carried out within the slots, the actions and the money
\* the source publishes, and reaches the minimum; where no budget binds, no
\* other schedule of the candidates needs fewer actions
\* ("settlement_path_minimizes_actions", portfolio.py:492), and none reaches
\* the minimum when the plan says unreachable.
SettlementPathIsReal ==
  LET C == Candidates(ptasks, pworkers)
      all == Schedules(ptasks, C)
      need == Agreed(PublishedIn(ptasks, DOMAIN ptasks, "minimum")) - pbalance
      path == PathSchedule(C)
      reaching == {s \in all : ScheduleGross(ptasks, s) >= need /\ Affordable(s)}
      unbudgeted == PublishedBound(ptasks, "budget") = NotStated
  IN /\ pplan = "READY" =>
          /\ path \in reaching
          /\ unbudgeted =>
               \A s \in reaching : ScheduleActions(path) <= ScheduleActions(s)
     /\ pplan = "SETTLEMENT_UNREACHABLE" /\ unbudgeted => reaching = {}

\* settlement-summary never calls reachable payout unreachable; and REACHABLE
\* comes with the least number of actions that any schedule needs, which one
\* within the published number of paid actions attains.
PoolVerdictIsExact ==
  LET I == Eligible(ptasks)
      need == Agreed(PublishedIn(ptasks, I, "minimum"))
      shared == \E i \in I : ptasks[i].shared
      reaching == {s \in Schedules(ptasks, I) : ScheduleGross(ptasks, s) >= need}
      published(field) == Agreed(PublishedIn(ptasks, I, field))
      withinCap(s) == shared /\ published("cap") # 0 =>
                        ScheduleActions(s) <= published("cap")
      payable(s) == /\ withinCap(s)
                    /\ shared => ScheduleGross(ptasks, s) <= published("budget")
  IN /\ psummary.status = "NOT_REACHABLE" => {s \in reaching : payable(s)} = {}
     /\ psummary.status = "REACHABLE" =>
          /\ \E s \in reaching : withinCap(s) /\ ScheduleActions(s) = psummary.actions
          /\ \A s \in reaching : ScheduleActions(s) >= psummary.actions
==============================================================================
