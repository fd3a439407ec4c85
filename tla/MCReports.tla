------------------------------ MODULE MCReports ------------------------------
(* The reports of cog, one per behaviour: they share no state but the files   *)
(* each of them models itself.                                                *)
EXTENDS SnapshotLedger, Review, Portfolio, SourceAllocation, EvidencePipeline

VARIABLE topic    \* the report

(* ------------------------------ replenishment ---------------------------- *)

RewardExample == [a |-> 3, b |-> 2, c |-> 7]
Offer(slots, budget, actions) ==
  [slots |-> slots, budget |-> budget, actions |-> actions]
OffersExample ==
  {Offer([a |-> 2], 0, 0), Offer([a |-> 1, b |-> 2], 5, 0),
   Offer([b |-> 0], 0, 2), Offer([b |-> 1, c |-> 3], 0, 1)}

(* --------------------------------- review -------------------------------- *)

Record(claim, evidence, score, age, slots, cost, risk) ==
  [claim |-> claim, evidence |-> evidence, title |-> "t", evidenceScore |-> score,
   authorized |-> TRUE, age |-> age, slots |-> slots, githubOpen |-> TRUE,
   cost |-> cost, reward |-> 2, fixedReward |-> TRUE, risk |-> risk]
RecordsExample ==
  {Record(NoClaim, {"u"}, 60, NotStated, NotStated, NotStated, "CIVIL_REVIEW"),
   Record(NoClaim, {"v"}, 75, 5, 1, 1, "CLEAR"),
   Record(NoClaim, {"u", "v"}, 80, 95, 0, 3, "CLEAR"),
   Record(NoClaim, {"v", "w"}, 80, 20, NotStated, 3, "CIVIL_REVIEW"),
   Record("w", {"u"}, 99, 1, 1, 2, "CLEAR"),
   Record("w", {}, 50, 200, 0, 1, "CLEAR"),
   [Record(NoClaim, {}, 50, 60, 0, 1, "CLEAR") EXCEPT !.authorized = FALSE],
   Record(NoClaim, {"u"}, 99, 0, 1, 0, "REJECT")}

(* -------------------------------- portfolio ------------------------------ *)

Task(words, category, reward, slots, minimum, budget, cap, shared) ==
  [words |-> words, category |-> category, report |-> FALSE,
   currency |-> "USD", fixedReward |-> TRUE, reward |-> reward, slots |-> slots,
   minimum |-> minimum, budget |-> budget, cap |-> cap, shared |-> shared,
   risk |-> "CIVIL_REVIEW"]
TasksExample ==
  {Task({}, "verify", 30, 2, 100, 0, 0, FALSE),
   Task({}, "discover", 50, 1, 100, 0, 0, FALSE),
   Task({"code"}, "none", 60, 2, 0, 0, 2, FALSE),
   Task({}, "organize", 20, 3, 100, 80, 4, TRUE),
   [Task({}, "organize", 20, 3, 60, 100, 0, TRUE) EXCEPT !.risk = "REJECT"],
   Task({}, "analyze", 70, NotStated, 100, 0, 3, FALSE),
   Task({"ocr", "browser"}, "none", 25, 4, 100, 110, 0, FALSE),
   [Task({}, "verify", 30, 2, 100, 0, 0, FALSE) EXCEPT !.fixedReward = FALSE],
   [Task({}, "verify", 40, 2, 100, 0, 0, FALSE) EXCEPT !.currency = "ETH"]}

Registration(name, raw) == [name |-> name, raw |-> raw]
Advertisement(name, raw, reachable) ==
  [name |-> name, raw |-> raw, reachable |-> reachable]
InventoriesExample ==
  {<< >>,
   LoadObservations(<<Registration(1, {"http.client", "reasoning"}),
                      Registration(2, {"browser", "llm.reasoning", "ocr",
                                       "filesystem"})>>, << >>, 100),
   LoadObservations(<<Registration(1, {"http", "reasoning"})>>,
                    <<Advertisement(2, {"coding", "git"},
                                    {"browser", "reasoning"})>>, 15)}

(* -------------------------------- allocation ----------------------------- *)

\* A task as a review sees it, too.
Offered(task, evidenceScore, age) ==
  [words |-> task.words, category |-> task.category, report |-> FALSE,
   currency |-> task.currency, fixedReward |-> TRUE,
   reward |-> task.reward, slots |-> task.slots, minimum |-> task.minimum,
   budget |-> task.budget, cap |-> task.cap, shared |-> task.shared,
   risk |-> task.risk, cost |-> NotStated, evidenceScore |-> evidenceScore,
   authorized |-> TRUE, age |-> age, githubOpen |-> TRUE]
History(signal, usdPerDay, newPerDay, snapshots, hours) ==
  [signal |-> signal, funding |-> usdPerDay, arrivals |-> newPerDay,
   snapshots |-> snapshots, hours |-> hours]
View(offers, history) == [offers |-> offers, history |-> history]

SmallTask == Offered(Task({}, "verify", 20, 2, 100, 0, 0, FALSE), 60, 40)
GoodTask == Offered(Task({}, "analyze", 60, 2, 100, 0, 0, FALSE), 90, 1)
OddTask == [Offered(Task({"code"}, "none", 60, NotStated, 0, 0, 0, FALSE), 75, NotStated)
              EXCEPT !.risk = "REJECT"]
NoInflow == History("NO_POSITIVE_REPLENISHMENT_OBSERVED", 0, 0, 6, 48)
SomeInflow == History("OBSERVED_REPLENISHMENT", 700, 3, 4, 23)
ShortHistory == History("INSUFFICIENT_HISTORY", 0, 0, 1, 0)
ViewsExample ==
  {View(<< >>, NotStated), View(<< >>, NoInflow),
   View(<<SmallTask>>, NotStated), View(<<SmallTask>>, ShortHistory),
   View(<<SmallTask>>, NoInflow), View(<<GoodTask>>, NotStated),
   View(<<GoodTask, SmallTask>>, SomeInflow), View(<<OddTask>>, SomeInflow),
   View(<<OddTask>>, NotStated)}
WorkersExample ==
  LoadObservations(<<Registration(1, {"http", "reasoning"})>>, << >>, 60)

(* --------------------------------- evidence ------------------------------ *)

Published1(capabilities, price, available, maxAge) ==
  [capabilities |-> capabilities, price |-> price, available |-> available,
   claims |-> {"CAPABILITY", "PRICING"}, auth |-> "none", maxAge |-> maxAge,
   lifetime |-> NotStated, confidence |-> 80, setup |-> 10, hourly |-> 6,
   wellFormed |-> TRUE]
FirstTerms == Published1({"browser"}, 5, "yes", 2)
TermsExample ==
  {FirstTerms, [FirstTerms EXCEPT !.setup = 12],
   [Published1({"browser", "code", "git"}, 9, "yes", 3) EXCEPT !.lifetime = 1],
   Published1({"browser", "code", "git"}, 9, "no", 2),
   Published1({"browser"}, NoNumber, "yes", 2)}
OneSource == <<"p">>
RulesExample ==
  <<[source |-> "p", target |-> NotStated, adds |-> FALSE, reusable |-> TRUE],
    [source |-> "q", target |-> "z", adds |-> TRUE, reusable |-> FALSE]>>
HandOption ==
  [provides |-> {"text_analysis"}, target |-> NotStated, adds |-> FALSE,
   setup |-> 0, perTask |-> 3, hourly |-> NotStated, confidence |-> 70,
   reusable |-> TRUE, enabled |-> TRUE, evidence |-> NotStated]
HandCatalogsExample ==
  {<<HandOption>>, <<HandOption, [HandOption EXCEPT !.confidence = 101]>>}
CodeTask == Task({"browser", "code"}, "none", 200, 1, 0, 0, 0, FALSE)
VerifyTask == Task({}, "verify", 20, 1, 0, 0, 0, FALSE)
Apart == LoadObservations(<<Registration(1, {"http.client"}),
                            Registration(2, {"browser"})>>,
                          <<Advertisement(3, {"llm.reasoning"}, {"browser"})>>, 100)
Together == LoadObservations(<<Registration(1, {"http", "reasoning"})>>,
                             <<Advertisement(2, {"git"}, {"coding"})>>, NotStated)
PlanInput(task, inventory, history) ==
  [task |-> task, inventory |-> inventory, history |-> history]
PlanInputsExample ==
  {PlanInput(CodeTask, << >>, FALSE), PlanInput(CodeTask, Apart, TRUE),
   PlanInput(VerifyTask, Apart, FALSE), PlanInput(VerifyTask, Together, TRUE),
   PlanInput(CodeTask, Together, FALSE)}
HistoryPolicyExample ==
  [minObservations |-> 2, maxChangePct |-> 50, maxRangePct |-> 20,
   needPrice |-> TRUE, needAvailable |-> TRUE, unavailableFails |-> TRUE]

------------------------------------------------------------------------------
Topics == {"replenishment", "review", "portfolio", "allocation", "evidence"}

Init ==
  /\ topic \in Topics
  /\ LedgerInit /\ ReviewInit /\ PortfolioInit /\ AllocationInit /\ PipelineInit
  /\ topic # "evidence" => provider = [s \in ConfigSources |-> FirstTerms]

Replenish ==
  /\ topic = "replenishment" /\ LedgerNext
  /\ UNCHANGED <<topic, reviewVars, portfolioVars, allocationVars, pipelineVars>>
ReviewBatches ==
  /\ topic = "review" /\ ReviewNext
  /\ UNCHANGED <<topic, ledgerVars, portfolioVars, allocationVars, pipelineVars>>
PlanPortfolios ==
  /\ topic = "portfolio" /\ PortfolioNext
  /\ UNCHANGED <<topic, ledgerVars, reviewVars, allocationVars, pipelineVars>>
Allocate ==
  /\ topic = "allocation" /\ AllocationNext
  /\ UNCHANGED <<topic, ledgerVars, reviewVars, portfolioVars, pipelineVars>>
Gather ==
  /\ topic = "evidence" /\ PipelineNext
  /\ UNCHANGED <<topic, ledgerVars, reviewVars, portfolioVars, allocationVars>>

Next == Replenish \/ ReviewBatches \/ PlanPortfolios \/ Allocate \/ Gather

Spec == Init /\ [][Next]_<<topic, ledgerVars, reviewVars, portfolioVars,
                           allocationVars, pipelineVars>>
==============================================================================
