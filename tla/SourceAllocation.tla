--------------------------- MODULE SourceAllocation --------------------------
(* cog source-allocation (planning/source_allocation.py): from what each      *)
(* source offers now and what its history shows to its share of the scouting  *)
(* attention, which the cadence planner then turns into scans.                *)
(*                                                                            *)
(* A source's view: offers, the opportunities it lists now, and history: the  *)
(* replenishment summary (signal, funding and arrivals per day, snapshots,    *)
(* hours), or NotStated.                                                      *)
EXTENDS Settlement

CONSTANTS
  AllocationSources,   \* the sources a report may cover
  Views,               \* what a source may look like
  Workers              \* the declared inventory

\* A report covers finitely many sources.
ASSUME AllocationAssumption == IsFiniteSet(AllocationSources)

\* Scores of sources are percentages, money and rates are amounts, and the
\* text of an offer matches known rules.
ASSUME ViewsAssumption ==
  \A view \in Views :
    /\ view.offers \in Seq(Range(view.offers))
    /\ \A i \in DOMAIN view.offers :
         LET o == view.offers[i]
         IN /\ o.evidenceScore \in 0 .. 100 /\ o.reward \in Nat
            /\ o.words \subseteq DOMAIN RuleBook
    /\ LET h == view.history
       IN h # NotStated => /\ h.funding \in Nat /\ h.arrivals \in Nat
                           /\ h.snapshots \in Nat /\ h.hours \in Nat

ASSUME WorkersAssumption ==
  /\ Workers \in Seq(Range(Workers))
  /\ \A w \in DOMAIN Workers : Workers[w].hourly \in Nat \cup {NotStated}

VARIABLES
  aview,   \* the view of each source of the report
  aplan    \* per source: adjusted and raw score, share; hundredths

allocationVars == <<aview, aplan>>

(* The default policy.  Weights are in per cent, money in cents.              *)
QualityWeight == 30
EconomicsWeight == 30
ReplenishmentWeight == 20
SettlementWeight == 10
HistoryWeight == 10
RateReference == 5             \* per minute
FundingReference == 1000       \* per day
ArrivalsReference == 10        \* per day
FullHistorySnapshots == 6
FullHistoryHours == 48

(* -------------------------------- signals -------------------------------- *)

\* Rounded half up and to even; the scores are never negative.
RoundUp(n, d) == (2 * n + d) \div (2 * d)
RoundEven(n, d) ==
  LET q == n \div d
  IN IF 2 * (n % d) > d \/ (2 * (n % d) = d /\ q % 2 = 1) THEN q + 1 ELSE q

ScaledScore(n, d) == Min({100, RoundUp(100 * n, d)})

MaxOrNotStated(S) == IF S = {} THEN NotStated ELSE Max(S)

QualityScore(view) ==
  MaxOrNotStated({Score(view.offers[i]) : i \in
                    {j \in DOMAIN view.offers : ReviewAllowed(view.offers[j])}})

\* The best worst-case net value per minute against the reference.
RateScore(view) ==
  MaxOrNotStated(
    UNION {{LET o == view.offers[i]
            IN ScaledScore(Estimate(o, Workers[w]).netLow,
                           Minutes(o).high * RateReference) :
              w \in PayingWorkers(view.offers[i], Workers)} :
           i \in DOMAIN view.offers})

ReplenishmentScore(h) ==
  CASE h = NotStated -> NotStated
    [] h # NotStated /\ h.signal = "INSUFFICIENT_HISTORY" -> 50
    [] h # NotStated /\ h.signal = "NO_POSITIVE_REPLENISHMENT_OBSERVED" -> 20
    [] OTHER -> Max({60, RoundEven(ScaledScore(h.funding, FundingReference)
                                   + ScaledScore(h.arrivals, ArrivalsReference), 2)})

\* 60 parts for the number of snapshots, 40 for the hours they span.
HistoryConfidence(h) ==
  IF h = NotStated THEN 0
  ELSE RoundUp(60 * Min({h.snapshots, FullHistorySnapshots}) * FullHistoryHours
               + 40 * Min({h.hours, FullHistoryHours}) * FullHistorySnapshots,
               FullHistorySnapshots * FullHistoryHours)

SettlementScore(status) ==
  CASE status = "REACHABLE" -> 100 [] status = "NOT_REACHABLE" -> 20 [] OTHER -> 50

\* The five signals with their weights.
SignalsOf(view) ==
  <<[score |-> QualityScore(view), weight |-> QualityWeight],
    [score |-> RateScore(view), weight |-> EconomicsWeight],
    [score |-> ReplenishmentScore(view.history), weight |-> ReplenishmentWeight],
    [score |-> SettlementScore(PoolSummary(view.offers).status),
     weight |-> SettlementWeight],
    [score |-> HistoryConfidence(view.history), weight |-> HistoryWeight]>>

(* -------------------------------- the plan ------------------------------- *)

Known(signals) == {i \in DOMAIN signals : signals[i].score # NotStated}

\* raw is the weighted mean of the known signals; the coverage of the weights
\* and half of the confidence in the history scale it down.
WeightedPriority(signals) ==
  LET weighted == SumFunction([i \in Known(signals) |->
                                 signals[i].score * signals[i].weight])
      known == SumFunction([i \in Known(signals) |-> signals[i].weight])
      total == SumFunction([i \in DOMAIN signals |-> signals[i].weight])
  IN [raw |-> RoundEven(100 * weighted, known),
      adjusted |-> RoundEven(weighted * (100 + signals[5].score), 2 * total)]

\* Hundredths of a per cent.
SharesOfRaw(priority) ==
  LET total == SumFunction([s \in DOMAIN priority |-> priority[s].adjusted])
  IN [s \in DOMAIN priority |-> IF total = 0 THEN 0
        ELSE RoundEven(10000 * priority[s].raw, total)]
AttentionShares(priority) ==
  LET total == SumFunction([s \in DOMAIN priority |-> priority[s].adjusted])
  IN [s \in DOMAIN priority |-> IF total = 0 THEN 0
        ELSE RoundEven(10000 * priority[s].adjusted, total)]

PlanAllocation(view) ==
  LET priority == [s \in DOMAIN view |-> WeightedPriority(SignalsOf(view[s]))]
      share == AttentionShares(priority)
  IN [s \in DOMAIN view |->
       [raw |-> priority[s].raw, adjusted |-> priority[s].adjusted,
        share |-> share[s]]]

AllocationInit == aview = << >> /\ aplan = << >>

\* A source is in the report for what it lists, for its history, or because
\* it is a Scout of the fleet; a report without any is empty.
AllocateAttention ==
  /\ aview = << >>
  /\ \E S \in SUBSET AllocationSources : aview' \in [S -> Views]
  /\ aplan' = PlanAllocation(aview')

ForgetAllocation ==
  /\ aview # << >>
  /\ aview' = << >> /\ aplan' = << >>

AllocationNext == AllocateAttention \/ ForgetAllocation

AllocationSpec == AllocationInit /\ [][AllocationNext]_allocationVars

------------------------------------------------------------------------------
\* A source that is at least as good on every signal, where an unknown one is
\* the worst, never gets less attention: rounding, coverage and history factor
\* together invert no order.  The shares add up to the whole but for the
\* rounding of each, as the cadence planner needs.
NoWorse(a, b) ==
  \A i \in 1 .. 5 :
    LET x == SignalsOf(a)[i].score  y == SignalsOf(b)[i].score
    IN y = NotStated \/ (x # NotStated /\ x >= y)

AttentionFollowsSignals ==
  /\ \A s, t \in DOMAIN aview :
       NoWorse(aview[s], aview[t]) => aplan[s].share >= aplan[t].share
  /\ LET total == SumFunction([s \in DOMAIN aplan |-> aplan[s].share])
     IN aplan # << >> /\ total > 0 =>
          2 * (total - 10000) \in -Cardinality(DOMAIN aplan) .. Cardinality(DOMAIN aplan)
==============================================================================
