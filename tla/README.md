# Coins on the ground: a verification development

*Coins on the ground* looks for small paid opportunities: Scouts ask providers
for open work, planners decide from evidence which work is worth doing and how
often each provider is asked, and an Autonomous Steward turns events into tasks
and starts their handlers. Almost everything it remembers is a JSON file that
one process reads whole, changes and writes whole. This directory holds TLA+
modules for the parts of it that keep state across calls and for the reports
that are computed from that state, TLC runs that check them on small instances,
and TLAPS proofs for instances of any size.

Paths are relative to the repository; Python files named alone are under
`src/coins_on_the_ground/`.

## 1. The system

| Part | State | Operations | Talks to |
|---|---|---|---|
| Autonomous Steward (`steward.py`) | ledger JSON, one temporary file, the dictionary of each call in progress | `ingest`, `dispatch`, `reconcile`; `StewardLedger.load`, `save` | handlers (outside), which may call back; other processes, through the file |
| Cadence planner (`scout_cadence.py`) | none between calls | `plan_scout_cadence` | gets attention shares, returns scans per day |
| Scout scheduler (`scout_scheduler.py`) | state JSON: an entry per source, refresh deadline | `build_adaptive_scout_state`, `record_source_outcomes`, `due_sources`, `full_refresh_due`, `summarize_scout_health`, parse, load, write | called by the Scout cycle |
| Scout cycle and daemon (`cli.py`, `scout_daemon.py`, `adaptive-scout.yml`) | the two files above and below; the Actions cache | one cycle; sleep; restart; restore and save of the cache | Scouts (all at once), planner, scheduler, snapshot ledger |
| Snapshot ledger and replenishment (`history.py`) | append-only JSON lines with content ids | `append_opportunity_snapshots`, `load_opportunity_snapshots`, statistics | Scout cycle, source allocation |
| Source allocation (`source_allocation.py`) | none | `plan_source_allocation` | reads reviews, estimates, settlement and history; feeds the planner |
| Scouts (`scouts/`) | none, except per-run HTTP | `scan` | providers |
| Value scouts (`liquity_v1.py`, `liquity_v2.py`, `gravita.py`) | the values one scan has read so far | one scan: block, gas price, parameters, pages, gas estimates | several RPC endpoints of one chain |
| Opportunity model and review engine (`opportunity/`) | the groups of one review | review each record, deduplicate, rank | Scouts, planners |
| Evidence (`evidence/`) | records file, append-only ledger with content ids, catalog file | collect, append, analyse drift, materialise | providers, planners |
| Planning from evidence (`planning/`: gaps, acquisition, portfolio, settlement, historical confidence) | the path of one portfolio | one report each | evidence, inventory, allocation |
| Averray wallet and claim workflows (`averray_wallet.py`, `averray-*.yml`) | secrets, issues, the provider's own state | claim, submit, watch payout, notify | provider over HTTP, GitHub issues |
| Estimator, policy, bridge adapters | none | arithmetic, constants, conversion | planners |

What is hard in it:

* **Load, change, save without a lock.** A dictionary is stale as soon as
  anything else writes the file: another process, or a handler the same call
  started.
* **Effects in doubt.** A handler may raise after it acted; the process may die
  anywhere. What the ledger says must stay true of the outside world.
* **Cycles cut off.** A Scout cycle writes two files one after the other. It can
  fail at each step, die inside a write, and in Actions a failed run forgets
  everything it wrote.
* **Clocks that compete.** Refresh deadline, planned interval, exponential
  backoff and the server's Retry-After all decide when a source is asked again.
* **Two tables of names.** Schedules use a Scout's name, the command line a key.
* **Boundaries.** Floor, cap and budget of the planner meet; floors stop fitting
  when a release adds Scouts. Slots, a shared budget and a cap on actions bind a
  portfolio at once.
* **A world that moves while it is read.** A scan is many calls to endpoints with
  different heads; a catalog is made from records of terms that have changed since.
* **Samples.** History is a few snapshots of a source; what it says of inflow and
  change must be true of what happened between them.

What makes each part correct: the steward starts a handler at most once and only
for admitted events, and what its ledger says about effects is true. The planner
answers with a plan inside floor, cap and budget, in the order of attention. The
cycle contacts exactly the sources that are due, never too early, forgets none,
keeps history ahead of schedule, and recovers from failed cycles. The snapshot
ledger is spoilt by nothing but an overlap or a death. Reports say nothing false:
a scan lists what was open at its block, a history is a lower bound, a review
keeps the strongest of what it merges, a plan can be carried out on one declared
worker, and what it recommends was really on offer.

`PROJECT.json` lists every component with its status, and every hazard at its
line with the properties that cover it.

## 2. The modules

| Module | Models |
|---|---|
| `StewardContract` | abstract: the task lifecycle of `docs/autonomous-steward.md` with handler starts and effects made explicit |
| `Steward` | detailed: files, dictionaries, load and save points, crashes |
| `StewardProofs` | theorems about `Steward`, including that it implements `StewardContract` |
| `MCSteward` | events, routes and policy for the runs |
| `ScoutPolicy` | vocabulary: valid policies, the plans a READY answer may carry, the interval of a number of scans |
| `ScoutCadence` | the planner, one action per turn of its loop |
| `FiniteSums` | lemmas: sums and loops over finite sets, and the induction over subsets they need |
| `ScoutCadenceProofs`, `MCScoutCadence` | its theorems and its grid of policies |
| `ScoutScheduler` | operators: entries, backoff, next state, due sources, health |
| `ScoutCycle` | the cycle, the daemon, the Actions deployment; uses `ScoutScheduler` and `ScoutPolicy` |
| `ScoutCycleProofs`, `MCScoutCycle` | its theorems, on decisions and on time; its fleets |
| `Replenishment` | operators: capacity of an offer, snapshots, the analysis of a history |
| `SnapshotLedger` | commands that append snapshots of a changing source to one file |
| `EthereumChain` | the chain, its endpoints, and what each may answer |
| `LiquityV1Scan`, `LiquityV2Scan`, `GravitaScan` | one scan each, an action per RPC call |
| `ChainScans` | the three scans beside each other on one moving chain |
| `ChainScansProofs`, `MCChainScans` | its theorems; the protocols' states for the run |
| `OpportunityReview` | operators on one record: identifiers, score, admission |
| `Review` | `cog review`, one record per step |
| `OpportunityProofs` | the theorems about `SnapshotLedger` and `Review` |
| `Estimation` | operators: what a task needs, what a worker can do, cost and profit; the adapters |
| `Settlement`, `Portfolio` | the verdict on a source's pool; the path to the payout minimum |
| `SourceAllocation` | signals, priorities and shares of attention |
| `EconomicsProofs` | the theorems about `SourceAllocation`, `Settlement` and `Portfolio` |
| `Acquisition` | operators: gaps, status of evidence, historical confidence, ranking of options |
| `EvidencePipeline`, `AcquisitionProofs` | collect, append, analyse, materialise, plan; the theorems about the plan and the drift report |
| `MCReports` | the world, the tasks and the policies for the run of the reports |

### Steward

`ledger` and `tmp` are the two files, `pc`, `task` and `copy` the calls in
progress, called frames. `Ingest`, `Claim`, `Doubt` and `Reconcile` are the load
and decision of a call; `dispatch` starts as `Claim` or `Doubt` by the state it
finds. `WriteTmp` and `Replace` are the two halves of `save`; a dispatch passes
them twice, around `StartHandler`, `HandlerActs` and `HandlerReturns` or
`HandlerRaises`. A call the code leaves early without changing anything is not a
step. `Crash` ends a process anywhere; inside `write_text` the temporary file may
be left half written. `ReplaceFails` is the rename that finds its file gone.

`Mode` says how frames may overlap, which the code does not: *exclusive* (one
process, handlers that do not call the steward), *nested* (handlers that do) and
*concurrent* (every frame is a process). The handler's effect is one external
step. The answer to `reconcile` is assumed truthful or "unknown": the caller has
looked, or it has not; a caller that guesses is outside the model. The ghosts
`runs` and `effect` count handler starts and record effects.

The contract maps `state` to the states in the ledger file, `runs` and `effect`
to themselves: a task is what a reader of the file would see.

### Cadence planner

`Grant` is one turn of the `while` loop, the other actions its early returns and
its end. The code compares `Decimal` quotients; the model compares them
multiplied by the total weight, in integers. Two *different* weights at *equal*
distance may compare either way after rounding to 28 digits, so that choice is
left open; equal weights are rounded equally, and the name decides. That
different distances stay apart after rounding is assumed, which is so unless the
shares have far more digits than a percentage.

### Scout cycle

`disk` and `snapshots` are the two files. Instants are stored as the time that is
left until them, because comparison with the current instant is all the code
does with them; `Tick` lets time pass. `Begin` loads and chooses the mode,
`Gather` contacts and collects, `AppendSnapshots` and `Write` write, `Report`
ends the cycle with exit code 0; `LoadFails`, `AppendFails` and `PlanFails` are
the failures, `Crash` the deaths. `Resolve` is the second table of names: a name
it has no case for stands for the list of all Scouts, of which `[0]` is taken.

`Ephemeral` is the Actions deployment: the step that saves the cache is skipped
when the cycle failed, so that the next run finds what this one found. `Evict`
loses the cache, `Deploy` is a release with another fleet.

The plan of a full refresh is *any* plan of `ReadyPlans`, because the scores that
choose it come from outside; `ScoutCadence` shows that the planner's answers are
in that set (`PlanIsReady`), so what the cycle runs show holds for the plan it
would choose. Failure streaks saturate at `MaxStreak`; the assumption
`StreakBoundIsNeutral` makes sure that longer streaks have the same backoff.
Ghosts: `since` (ticks since each source was asked), `blocked` (what is left of
the time it asked for), `fails` (failures since it last answered) and `planned`
(the fleet the stored plan was made for). They are set where the world does
something, never from the state file.

### Snapshot ledger

Each process runs one command at a time: `BeginSnapshot` notes the time,
`AskScout` takes what the source offers at that moment or fails, `LoadLedger`
reads the file, `WriteLedger` appends a snapshot it does not know. `DieWriting`
leaves part of a line, or all of it but the newline, on which the next line lands
(`WithLine`). `OfferChanges` is the world; the ghosts `arrivals` and `funded`
count what it really did, `overlapped` says that two commands ever ran at once.
A snapshot's digest is the record itself: the digest covers every field.

### Value scouts

`Mine` and `Sync` move the chain and an endpoint's head between any two calls.
A call without a block is answered for the head of any endpoint, because the Scout
goes on to the next endpoint after a transport error; a call that names a block is
answered by those that have it. Each protocol's state is what its contracts would
return, and `V1Endangered`, `V2Endangered` and their like are the contracts' own
view, which the properties compare with what the Scout computed from the values
it read. A gas estimate may fail whatever the chain holds, and a tie of the final sort
may go either way. Ratios are small integers with the code's order of multiplication and floor
division.

### Review, portfolio, allocation

`ReviewRecord` is one turn of the loop of `review_and_deduplicate`,
`ListReviews` the final sort. `TakeCandidate` is one turn of the settlement path
of a portfolio; the order of two candidates that tie is free.
`settlement-summary` is one step, `SettlementSummary`. The allocation is computed
in one step from the views of its sources, with integers in place of decimals:
`RoundEven` and `RoundUp` are the two roundings of the code, applied where it
quantizes; quotients between them are exact, where the code keeps 28 digits.

### Evidence pipeline

Every command is an action that reads the files of the one before: `records`,
`eledger`, `catalog`, `printed`. The ledger is a set of entries, since its analysis
goes by source and date and never by line. The collection is not one step, because each
answer is awaited while the provider may change: `AskProvider` dates the record,
`ProviderAnswers` takes the terms of a later moment, `ProviderFails` leaves the
source out, `CollectionDies` is the price that cannot be compared. The ghost `past`
holds what was published at each moment. Catalogs may be written by hand as well,
and the inventory is adapted by `LoadObservations` from what other projects
declare.

## 3. The runs

| Run | Question | Result |
|---|---|---|
| `steward_exclusive` | Do all promises hold, and is the contract implemented, when calls never overlap but die anywhere? | yes; 61,682 states |
| `steward_concurrent` | What is left when two processes share a ledger? | admission and truthful acknowledgement; 70,832 states |
| `steward_nested_loss` | Is a task safe from the handler that adds another? | **no** |
| `steward_two_workers` | Does a handler start once when two processes dispatch? | **no** |
| `scout_cadence` | Does the planner end, with a plan that keeps policy, order and quota? | yes; 26,599 states |
| `scout_actions` | Does every Scout stay on the radar, and do cycles keep succeeding, in the hourly workflow? | yes; 537,789 states |
| `scout_daemon` | Is the schedule true of the world, and is nobody asked too early or left out? | yes; 170,300 states |
| `scout_crash` | Is the history ahead of the schedule wherever a cycle is cut off, and does a fleet that cannot be planned do without the old schedule? | yes; 515,702 states |
| `chain_scans` | Is what a value Scout reports true at the block it names, and complete, when chain and endpoints move? | yes; 103,563 states |
| `cog_reports` | Are the reports true of the files they read, of the world these sample, and feasible? | yes; 347,621 states |
| `scout_alias` | Does a due cycle contact only due sources when a Scout's name is no key? | **no** |
| `scout_torn_state` | Do cycles go on succeeding after a death inside the state file's write? | **no** |

A run with result **no** checks one claim of the documentation or of a comment
and shows the behaviour of the code that breaks it; section 5 tells the stories.

### Bounds, and why they are enough

* *Steward.* Five events, one for each way through routing and policy: two that
  run, one that waits for a human, one whose handler is not registered, one that
  is not allowed. Tasks interact only through the whole-dictionary save, for
  which two are enough. One frame suffices when calls never overlap; two show
  every way a dictionary can be stale. `MaxRuns = 2` admits the second start
  that must not happen. Crashes are not bounded. In `steward_exclusive` deadlock
  is checked: the failed task without a handler can always be reconciled. The
  other runs have no such task, or may run into `MaxRuns`, and do not check it.
* *Planner.* Up to three sources, so that one can be capped while two compete;
  shares with zero, equal and unequal values; 44 valid policies, with floors
  that fit, do not fit and use up the budget, caps that bind and do not,
  and budgets beyond all caps. It ends, so deadlock is not checked.
* *Cycle.* Two Scouts: each property relates a source to the files or to one
  other source, and a third is added by a release where its number matters. A
  day has four ticks, so intervals are 1, 2 and 4. A refresh interval of 4, or of
  5 where a due cycle must come between interval and refresh; a backoff that
  reaches its ceiling; one hint shorter and one longer than the ceiling, and in
  `scout_actions` one longer than the refresh interval. Two crashes let a torn
  write meet the next one. `MaxSince` is the refresh interval, the length of a
  cycle, and a tick for each crash that can cut a refresh off, plus one: a source
  whose ghost reaches it was forgotten.

* *Chain.* Three blocks and two endpoints: a scan can start on one block, meet a
  second, and lag behind on the other endpoint. The three states of each protocol
  differ in a price that changes who is endangered, in a Trove that is closed so
  that its neighbours move in the list, and in a pending redistribution. Three
  Troves with batches of two make a full page, a partial one and a limit inside a
  page; Liquity v2 has a second branch, Gravita a second collateral that is
  removed. Deadlock is checked: a scan can always start again.
* *Reports.* One report per behaviour (`topic`), since they share no step.
  *Snapshots*: two processes and three commands, so that two overlap and a third
  finds what they left; two changes of the offer; two deaths, so that
  lines are torn, left hanging and joined in every order. The offers publish
  slots with or without budget and actions, or slots of zero. *Review*: batches of
  three, the smallest in which a record bridges two groups, from eight records that
  overlap by claim and by evidence and cover every admission reason.
  *Portfolio*: up to three tasks from nine, with rewards that do not divide the
  minimum, caps, a shared budget, contradictory minima and budgets, and amounts
  that do not compare; three inventories and three balances. *Allocation*: up to
  three sources from nine views, each signal known and unknown. *Evidence*: one
  source with five terms, one of which cannot be compared and one of which differs
  in its set-up price only; three ticks, so that
  evidence can be fresh, expire and become stale; one change of terms; two catalogs
  written by hand, one of them invalid; inventories in which the needs are met by
  one worker, by several together, and by none. Every command of the snapshot
  ledger may have been used up, so deadlock is not checked.

`DueOnlyIsolation`, `HintHonoured` and `NotTooEarly` are checked on a fleet whose
names are keys; `scout_alias` shows what becomes of the first on one that has
`issuehunt-oss`. `HintHonoured` allows `MaxElapsed` ticks, the time the answer
took, see section 5.

### Fairness

`ScoutCadence` and `StewardContract`/`Steward`: the planner is a sequential
function, so `WF_vars(Next)`; the steward promises nothing about progress, so
none. The scans and reports are commands a person starts, and whose files only
they move on: nothing is promised to happen, so none. `ScoutCycle`:
`WF_vars(Cycle)` because every request has a time-out and `asyncio.gather` collects exceptions, so a cycle ends; `WF_vars(Tick)` because
the daemon's loop, or the cron trigger, goes on. Nothing is assumed of answers,
of plans, or of accidents except that the runs bound their number: that cycles
keep succeeding is claimed after the last accident, not between any two.

## 4. The proofs

For every set of tasks, sources, shares, policies, fleets and any number of
frames and crashes:

| Theorem | States | Assuming |
|---|---|---|
| `StewardProofs!TypeCorrect` | `TypeOK` | |
| `DenyByDefault` | `OnlyAdmittedRun` | |
| `NoFalseAck` | `AckedMeansEffect` | |
| `RunsAtMostOnce` | `AtMostOnce` | `Mode = "exclusive"` |
| `NoFalseFailure` | `FailedMeansNoEffect` | `Mode = "exclusive"` |
| `ClaimIsDurable` | `ClaimedBeforeEffect` | `Mode = "exclusive"` |
| `LedgerStaysReadable` | `LedgerIntact` | `Mode = "exclusive"` |
| `NoTaskIsLost` | `TasksNeverLost` | `Mode = "exclusive"` |
| `ImplementsContract` | `RefinesContract` | `Mode = "exclusive"` |
| `ScoutCadenceProofs!TypeCorrect` | `TypeOK` | |
| `PlansAreReady` | `PlanIsReady` | |
| `SharesKeepTheirOrder` | `NoInversion` | |
| `NoneIsOverserved` | `NoOverserving` | |
| `QuotaIsKept` | `KeepsQuota` | |
| `ScoutCycleProofs!HistoryComesFirst` | `HistoryBeforeSchedule` | |
| `DueScoutsOnly` | `DueOnlyIsolation` | `FleetsAssumption`, `NamesAreKeys` |
| `RefreshesWhenNeeded` | `RefreshExactlyWhenNeeded` | `FleetsAssumption`, `FleetsGrow` |
| `ScoutCycleProofs!TypeCorrect` | `TypeOK` | the assumptions on its constants, as the next four |
| `NoneIsForgotten` | `NoSourceForgotten` | `FilesSurvive`, `EverySourceScans` |
| `ScheduleIsTrue` | `StateMatchesWorld` | `SteadyOperation` |
| `HintIsHonoured` | `HintHonoured` | `SteadyOperation`, `EverySourceScans`, `NamesAreKeys` |
| `NoneTooEarly` | `NotTooEarly` | the same |
| `OpportunityProofs!DamageIsLimited` | `DamageIsBounded` | |
| `FiguresAreLowerBounds` | `ObservedIsLowerBound` | `OffersAssumption` |
| `StrongestIsKept` | `StrongestCovers` | `RecordsAssumption` |
| `ListingIsComplete` | `ListingRepresentsBatch` | the same |
| `ChainScansProofs!ReportsAreTrue` | `RecordsAreTrue` | the assumptions of the three scans |
| `PagingIsExact` | `NothingMissed` | the same |
| `AcquisitionProofs!RecommendationsAreGenuine` | `RecommendedWasPublished` | `SourcesAssumption`, `PlanInputsAssumption`, `HandCatalogsAssumption` |
| `PlansUniteNoWorkers` | `PlansRestOnOneWorker` | the same |
| `DriftIsReal` | `DriftIsHistory` | the same |
| `EconomicsProofs!AttentionIsFair` | `AttentionFollowsSignals` | `AllocationAssumption`, `ViewsAssumption`, `WorkersAssumption`, `NotStatedAssumption` |
| `VerdictIsTrue` | `PoolVerdictIsExact` | `TasksAssumption`, `NotStatedAssumption` |
| `PathsAreReal` | `SettlementPathIsReal` | the same, `InventoriesAssumption`, `BalancesAssumption` |

What ends in `Assumption` is an assumption on constants (what a fleet, a source, a
record, a worker or a protocol's state may be), stated as an `ASSUME` of the module
that declares them, which TLC evaluates in the runs. The other names are hypotheses
of the theorems, operating conditions that the model leaves free; they are explained
below. `PowersAreNumbers` (`ScoutScheduler`) is a fact of arithmetic, that the powers
of two the backoff uses are numbers, which none of the provers knows.

*Steward.* The promises about the ledger file are not inductive: a call in
progress carries a dictionary, and the temporary file another, that will become
the ledger. `AnyModeInv` says that *every* dictionary around is true of the world
(an acked task had its effect, an executable one was admitted), which survives
any interleaving, since effects are never undone: hence the two theorems without
an assumption on `Mode`. `ExclusiveInv` adds that there is one call, and that its
dictionary differs from the ledger in its own task only and by a legal
transition (`LegalSave`), so that a save can lose nothing and repeat nothing.
Both are proved inductive, one step per action, and the refinement maps every
step to a step of the contract or to a stutter under them.

*Planner.* `NoInversion` is inductive with `TypeOK`: the scan goes to the source
furthest below its target, and of two sources with as many scans that is never
the lighter one. The other promises rest on one sum: the distances of the sources
from their targets add up to what is left of the budget, times the total weight
(`TotalsAgree`). So while scans are left and nobody is capped someone is short
(`SomeoneIsShort`), the furthest, who takes the turn: nobody above its floor ever
gets a scan that it was not short of, which is `NoOverserving`. When the budget is
gone the distances add up to nothing, everybody is less than a scan above its
target, and `Balanced` (whoever got its last scan above the floor was the furthest
then) bounds how far below anybody else can be: `KeepsQuota`. `PlanInv` is the
conjunction of these with `BudgetInv`, floor, cap and what is left after each turn.

The sums are proved about, not assumed (`FiniteSums`). The library's fold recurses over a set in
an order nobody knows; `SumExists`, `SumIsUnique` and `SumStep` show that the
recursion has exactly one solution and that any member may be taken off first. The
induction they need takes no operator: the property is the *set* of the subsets
that have it, and the strict order of the subsets of a finite set is well founded
(`SubsetInduction`). A loop that takes the members of a set in a
given order is a fold that chooses which comes last: `FoldExists` and `FoldIsUnique`
do for it what the first two do for sums.

*Cycle.* `HistoryInv` follows the snapshots through a cycle: what the loaded state
calls scanned was in the ledger the cycle found, what the cycle heard is in the
ledger before the state is written, and while a cycle has not written, the disk
still holds what it loaded. It holds for both values of `Ephemeral`.

`DecisionInv` keeps what a cycle decided at its beginning until it acts on it, and
`FleetInv` says that a whole state has exactly one entry for each source of the
fleet its plan was made for: so the code, which compares entries with the fleet,
tells a release from the state alone. It takes all of the cycle to show it, since
a plan covers the fleet *and* whatever the ledger has ever seen. So it needs
`FleetsGrow`: a release that takes a Scout away leaves its snapshots in the ledger,
plans keep covering it, and every later cycle refreshes. `NamesAreKeys` (every
Scout's name is a key of the code's look-up) excludes the alias that `scout_alias`
shows to be wrong; it is a hypothesis of the theorem and not of the model.

*Time in the cycle.* The schedule counts from the start of a cycle and the world
from its end, so every invariant relates the two through `elapsed`. `ClockInv` says
that the time since a source was asked and the time to the next refresh add up to
no more than the refresh interval and the cycle under way, for the state on disk and
for the one a cycle has loaded; a refresh that is due is late by at most the runs
that died. `NoneIsForgotten` needs that a state can always be read again:
`FilesSurvive` (either a dead run's files are dropped, as on Actions, or nothing dies)
excludes the torn file that `scout_torn_state` shows to stop everything, and
`EverySourceScans` (`floor >= 1`, as in the default policy) the plan the parser refuses.

`WorldInv` says that an entry's streak is the world's, between cycles on disk and
within a cycle by what it has heard so far; `PaceInv` that an entry's deadline comes
neither before the interval or backoff is over nor before the hint. `Sooner` and
`Older` are not inverse at their bounds, so both are stated as inequalities that every
tick and every answer restore. They hold in a `SteadyOperation`: no run dies, fleets
only grow, the budget carries every fleet. Without it the code itself breaks them,
since what a cycle heard reaches the disk only at its end: a run that dies, or
whose plan fails, forgets the failures and hints it heard, and the next one calls on
the same sources. `scout_daemon` checks them under the same conditions.

*Snapshot ledger.* That a death costs one line at most is not inductive: it may leave
a whole line without its newline, which nobody notices until a later command joins its
own to it. `LedgerInv` counts such a line as lost already (`Hanging`); then writing, by
whatever command and however many are under way, never adds to the count, and dying
adds one (`WritingRuinsOneLine`). While no two commands have overlapped at most one is
under way, and between load and write the snapshots it loaded are exactly those of the
file; so the new line is no duplicate, and joining only takes lines away. This holds
whatever earlier deaths left in the file.

That its figures are lower bounds takes what happened since the last line into
account. `Covers(n, m, ids, gross)` says that the arrivals figured so far, together
with what is on offer now and not among `ids`, are no more than the arrivals there
were, and the same of the capacity. `SampleInv` has this of the ledger as it stands,
and of the ledger with the snapshot that a command holds but has not written
(`ShotCovers`): the offer may change in between, and what appears and vanishes
between two samples is never seen. Dates grow along the lines, as each command notes
a later time than the last one's, so sorting by date changes nothing, and an
added line adds one transition, and its share, to the two sums. Crashes do no harm:
a file with a broken line cannot be read and has no figures.

*Review.* `ReviewInv` says of every record reviewed so far that some group holds
its identifiers and a review no weaker. Groups only grow and only trade for a
stronger review, so the group that represents a record goes on doing so; the new
record is represented by the group it joins or opens. Scores are integers
(`ScoreIsInteger`), so any two compare.

For the listing, *connected* is the least closed set: a set of records is closed
if it has whatever overlaps one of its members. `BatchInv` says of each group that
every closed set which meets it has its kept review and, for each of its
identifiers, a record that bears it (`Coherent`). A record that joins keeps this,
for a closed set of the larger batch is closed in the smaller one. So the review
that stands for a record lies in every closed set around it. The final sort is a
bijection and loses no group.

*Value Scouts.* One invariant for the three scans (`ChainInv`, `V1Inv`, `V2Inv`,
`GInv`), since they share a chain. A value whose call is over equals that of the
scan's block; blocks are never rewritten, so a report stays true. The pages read so
far are a prefix of that block's Troves, ending where the next page begins
(`PagesAgree`), whatever the batch size, so after the last one they are the first
`max_troves`. The positions still to estimate and those already found divide the
endangered ones between them (`Progress`, `Exact`), and one is taken off and added
per call. Borrowers and Trove identifiers occur once in a block
(`V1StatesAssumption`, `V2StatesAssumption`: the contracts' lists and arrays), so
entries count as positions do and `Cardinality` of the listed ones is the length of
the report. The final sort is a bijection of the positions: it adds and loses none.

*Acquisition plan.* `PipelineInv` says that what is dated was published between
its date and now (`Genuine` for records, `Traced` for options made of them), for
the running collection, the records file and the catalog. The past only grows, so
this survives every change of a provider (`ProvenanceStays`). Evidence that passes
`UsableFor` is no older than it allows, and `BestOption` chooses an enabled option
that `Covers` the gap; the lemmas about `Gap` and `Covers` show that a gap means
that no worker has everything, and that a covering option completes one.

*Drift report.* Records may be dated before a change of terms and hold terms from
after it, so dates do not tell versions. `DriftInv` assigns to every record there
is, wherever it is kept, a *version*: the number of changes its source had made
when it answered. Versions never decrease with the date, equal ones have equal
terms, and the latest is what the provider publishes now; the request under way is
dated after all of them. So two neighbours that differ are of two versions, and the
later one's version belongs to no other pair: the changes counted inject into the
changes made. Where none is counted neighbours have one price, and so have all: the
earliest entry with another price would differ from its neighbour.

*Allocation.* The plan is a function of the views (`PlanInv`), so this is about
operators. An unknown signal adds to the weighted sum what a score of zero would, so
two sources compare signal by signal, and the confidence that scales the sum is a
signal too. `RoundEven` preserves order (`RoundEvenIsMonotone`), in the adjusted score
and again in the share. It is off by no more than half a unit (`RoundEvenIsClose`),
and adding that up over the sources bounds what the shares miss of the whole; no
division is left in the sum (`RoundedSharesAddUp`). When all scores are zero, so are
all shares.

*Settlement.* What the loops over rewards compute is a greedy schedule: the highest
rewards as often as their slots and the cap allow, one task at which it stops, and
nothing of those below (`Greedy`). Cutting the last task down to what is still
needed loses nothing (`Cut`), and such a cut is best (`CutIsBest`): a schedule that
did more of a lower reward would do less of a higher one, so with as many actions it
never earns more. That is the exchange argument, carried out on sums. The pool's count
is the fold of that loop (`GreedyOutcome`), and the capacity the portfolio compares
with first is the same loop with a minimum nobody reaches (`CapacityFold`), so
"reachable" and the number of actions come from one lemma. `ReportInv` says that the
verdict is that of the tasks at hand. `PathInv` adds the path under construction:
while the plan is being built the steps so far are a schedule of the candidates
already looked at, within budget and cap, that leaves the amounts the loop holds, and
a greedy one where no budget binds (`OnPath`). When it ends, READY says that the path
reaches the minimum, and without a budget with the fewest actions (`ReachesBest`), and
UNREACHABLE without a budget that no schedule does (`NoneReaches`). The proof
corrected one property: `PoolVerdictIsExact` once took minimum, budget and cap from all
tasks of a report, but the code asks the eligible ones only; with a task without
slots that publishes another minimum the earlier form is false.

Model-checked only: the liveness properties (`Answers`, `KeepsScouting`,
`KeepsSucceeding`), which are out of the prover's reach.

## 5. Where the code and its documentation part

Each of the first four is a run of its own.

* **A handler's own events are lost** (`steward_nested_loss`, `steward.py:149`).
  `dispatch` saves after the handler the dictionary it loaded before it. A task
  that the handler ingested, and was given the id of, is gone. The same stale
  save puts a task the handler dispatched back to pending, and it runs again
  (check `AtMostOnce` with `Mode = "nested"`).
* **Two processes run one task** (`steward_two_workers`, `steward.py:119`). The
  claim is a load and a save; both can load before either saves. They also share
  the name of the temporary file, so that one may rename what the other has half
  written (check `LedgerIntact` with `Mode = "concurrent"`), against "Writes are
  atomic" (`steward.py:43`).
* **`issuehunt-oss` is never due, averray is instead** (`scout_alias`,
  `cli.py:252`). The name is no key of `_scouts_for_source`, which then returns
  all Scouts; the cycle takes the first.
* **A torn state file is for ever** (`scout_torn_state`, `scout_scheduler.py:596`).
  The file is rewritten in place, and nothing replaces one that does not load.

These show up by changing constants of the runs, or follow from the modules:

* A floor of zero scans is a legal policy (`scout_cadence.py:51`) whose written
  state the parser refuses (`scout_scheduler.py:510`): set `floor |-> 0`, and
  `KeepsSucceeding` fails.
* A Scout removed by a release stays a candidate through the snapshot ledger, so
  the stored plan never equals the fleet (`cli.py:707`) and every later cycle is a
  full refresh: add a version with a smaller fleet, and `RefreshExactlyWhenNeeded`
  fails, against `docs/scout-cadence.md:205`.
* Retry-After is counted from the start of the cycle, not from the answer
  (`cli.py:743`): `HintHonoured` with `blocked[s] = 0` in place of `MaxElapsed`
  fails as soon as an answer takes a tick.
* A Retry-After beyond what a date can hold fails the cycle for all sources; the
  model's hints are bounded and do not show it.
* The settlement path is said to minimise actions
  (`portfolio.py:492`); with a budget that binds it does not, and may miss a path
  that exists. Rewards 3 and 2 with a budget and a need of 4: after one action
  of 3 the budget of 1 pays for nothing (`portfolio.py:267`). Rewards 6, 5, 5 and
  many of 1, budget and need 10: five actions in place of two. The pool's own count
  ignores the budget altogether (`settlement.py:247`). Drop `unbudgeted` from
  `SettlementPathIsReal`.
* Where a report's opportunities contradict each other on a budget or cap,
  `settlement-summary` says UNKNOWN and the portfolio counts it as no bound
  (`portfolio.py:192`).
* Unknown signals are said not to become zero silently
  (`source_allocation.py:441`); in the adjusted score, the mean of the known ones
  times their coverage (line 220), they weigh exactly like zero.
* Deduplication is said to cover overlapping evidence (`engine.py:172`); a record
  that bridges two groups joins the first and leaves the other, which overlaps it.
  The kept review may be one that is not allowed, in place of an allowed duplicate
  with a lower score (line 195). Records without `claim_url` that share evidence
  URLs, such as all pools of the Convex Scout, become one review.
* A price of `NaN` ends the collection of all sources (`collectors.py:203`).
* A net value of zero sorts behind every loss (`liquity_v1.py:471`,
  `liquity_v2.py:472`, `gravita.py:592`), as `or` takes it for absent.
* The acquisition plan judges profit without asking whether the reward is a fixed
  one (`acquisition.py:172`), which the estimator does.
* Two commands that overlap may spoil the snapshot ledger for good: both append the
  same snapshot, and every later load refuses the duplicate (`history.py:436`). Drop
  `~overlapped` from `DamageIsBounded`.

## 6. What is not modelled

* *Inside the modelled parts:* the wording of reports and rationales, fields that
  are only reported, upgrades of version 1 and 2 state files, `--max-cycles`,
  which only ends the daemon, and torn reads (a file is read in one step).
* *Scouts other than the value scouts:* parsing of HTML and JSON without state; a
  command sees a batch or an exception, chosen freely.
* *Value scouts:* ABI encoding and decoding, 18-digit scaling, chain
  reorganisations, and `oracle_failure` of Liquity v2, which the code reads and
  ignores.
* *Averray wallet and claim workflows:* whether a claim is made once is decided by
  a server outside the repository, and what a cancelled watcher leaves by the
  GitHub runner. A model would check assumptions about these, not this code.
* *Reports:* rates per day, reported dimensions and lists, the local-file kind of
  evidence source beyond what it answers, policies other than the default in the
  allocation, concurrent commands on the evidence ledger, whose append has the
  shape of the snapshot ledger's.
* *Remaining commands:* those that print what one Scout returned.

## 7. Plan

Done: the steward first, because it causes outside effects; then planner,
scheduler and cycle, the only parts that run unattended; then what they and a
person read: snapshot ledger, review, value scouts, evidence pipeline,
settlement, portfolio and allocation.

Next, in this order:

1. Composition: allocation feeding `ScoutCadence` in place of free shares, and
   `SnapshotLedger` under `ScoutCycle` in place of its set of sources.
2. Concurrent commands on the evidence ledger, over one module shared with
   `SnapshotLedger`.
