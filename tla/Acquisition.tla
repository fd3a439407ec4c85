----------------------------- MODULE Acquisition -----------------------------
(* planning/evidence.py, gaps.py, historical_confidence.py, catalog.py and    *)
(* acquisition.py: what a task lacks on the declared workers, and which       *)
(* option of a catalog would close the gap, given evidence for the option and *)
(* the history of its source.                                                 *)
(*                                                                            *)
(* Evidence: observed and expires (or NotStated) in days, maxAge, claims,     *)
(* confidence, source.  An option: provides, target (a worker's name or       *)
(* NotStated), adds (ADD_PROFILE), setup, perTask and hourly cost,            *)
(* confidence, reusable, enabled, evidence (NotStated in a v1 catalog).       *)
EXTENDS Estimation, SequencesExt

(* ------------------------------ evidence --------------------------------- *)

\* Bounds the parsers check too, and dates that contradict each other.
Invalid(ev, now) ==
  \/ ev.maxAge < 1 \/ ev.confidence \notin 0 .. 100
  \/ ev.observed > now
  \/ ev.expires # NotStated /\ ev.expires <= ev.observed
Expired(ev, now) == ev.expires # NotStated /\ ev.expires <= now
TooOld(ev, now) == now - ev.observed > ev.maxAge

EvidenceStatus(ev, now) ==
  CASE ev = NotStated -> "UNVERIFIED"
    [] ev # NotStated /\ Invalid(ev, now) -> "INVALID"
    [] ev # NotStated /\ ~Invalid(ev, now) /\ Expired(ev, now) -> "EXPIRED"
    [] ev # NotStated /\ ~Invalid(ev, now) /\ ~Expired(ev, now)
       /\ TooOld(ev, now) -> "STALE"
    [] OTHER -> "FRESH"

UsableFor(claim, ev, now) ==
  EvidenceStatus(ev, now) = "FRESH" /\ claim \in ev.claims

(* ------------------------------ the catalog ------------------------------ *)

ValidEvidence(ev) ==
  ev.maxAge >= 1 /\ ev.claims # {} /\ ev.confidence \in 0 .. 100
ValidOption(option) ==
  /\ option.provides # {}
  /\ option.confidence \in 0 .. 100
  /\ \A cost \in {option.setup, option.perTask, option.hourly} :
       cost # NotStated => cost >= 0
\* One invalid option makes the whole catalog unusable.
CatalogParses(catalog) ==
  \A k \in DOMAIN catalog :
    /\ ValidOption(catalog[k])
    /\ catalog[k].evidence # NotStated => ValidEvidence(catalog[k].evidence)

(* -------------------------------- gaps ----------------------------------- *)

FeasibleWorkers(o, inventory) ==
  {w \in DOMAIN inventory : Feasibility(o, inventory[w]) = "FEASIBLE"}

\* What all the workers together could do.
UnionOfWorkers(inventory) ==
  UNION {inventory[w].capabilities : w \in DOMAIN inventory}

GapOfUnion(o, inventory) ==
  CASE Required(o) = {} -> "UNKNOWN_REQUIREMENTS"
    [] Required(o) # {} /\ inventory = << >> -> "NO_INVENTORY"
    [] Required(o) # {} /\ inventory # << >>
       /\ Required(o) \subseteq UnionOfWorkers(inventory) -> "NONE"
    [] OTHER -> "CAPABILITY_MISSING"
Gap(o, inventory) ==
  CASE Required(o) = {} -> "UNKNOWN_REQUIREMENTS"
    [] Required(o) # {} /\ inventory = << >> -> "NO_INVENTORY"
    [] FeasibleWorkers(o, inventory) # {} -> "NONE"
    [] Required(o) # {} /\ inventory # << >> /\ FeasibleWorkers(o, inventory) = {}
       /\ Required(o) \subseteq UnionOfWorkers(inventory) -> "COLOCATION"
    [] OTHER -> "CAPABILITY_MISSING"

\* The worker that lacks least; of equals the one whose name comes first.
NearestWorker(o, inventory) ==
  CHOOSE w \in DOMAIN inventory :
    \A v \in DOMAIN inventory :
      LET lacks(u) == Cardinality(Missing(o, inventory[u]))
      IN \/ lacks(w) < lacks(v)
         \/ lacks(w) = lacks(v) /\ inventory[w].name <= inventory[v].name

(* ----------------------- confidence in a source's history ---------------- *)

\* A summary: observations, transitions, changes (of the terms), the known
\* prices, the latest availability and price.  PASS needs enough observations,
\* few changes, a known price within its range, and availability.
PriceRangeFits(prices, maxPct) ==
  IF Min(prices) = 0 THEN Max(prices) = 0
  ELSE 100 * (Max(prices) - Min(prices)) <= maxPct * Min(prices)

HistoricalStatus(summary, policy) ==
  LET doubtful ==
        \/ summary.observations < policy.minObservations
        \/ summary.transitions = 0
        \/ 100 * summary.changes > policy.maxChangePct * summary.transitions
        \/ policy.needPrice /\ (\/ summary.latestPrice = NotStated
                                \/ ~PriceRangeFits(summary.prices, policy.maxRangePct))
        \/ policy.needAvailable /\ summary.available \in {"unknown", "no"}
  IN CASE policy.needAvailable /\ policy.unavailableFails
          /\ summary.available = "no" -> "FAIL"
       [] ~(policy.needAvailable /\ policy.unavailableFails
            /\ summary.available = "no") /\ doubtful -> "REVIEW"
       [] OTHER -> "PASS"

\* Without a policy there is no verdict; an option whose source the ledger
\* does not know is to be reviewed.
HistoricalVerdict(option, verdicts) ==
  CASE verdicts = NotStated \/ option.evidence = NotStated -> "none"
    [] verdicts # NotStated /\ option.evidence # NotStated
       /\ option.evidence.source \notin DOMAIN verdicts -> "REVIEW"
    [] OTHER -> verdicts[option.evidence.source]

(* ------------------------------ candidates ------------------------------- *)

\* The worker an option extends, the nearest one if it states none.  Either is
\* looked up by name, and a name that several workers share means the last.
TargetName(o, option, inventory) ==
  IF option.target # NotStated THEN option.target
  ELSE inventory[NearestWorker(o, inventory)].name
BaseWorker(o, option, inventory) ==
  LET named == {w \in DOMAIN inventory :
                  inventory[w].name = TargetName(o, option, inventory)}
  IN IF option.adds \/ named = {} THEN NotStated ELSE inventory[Max(named)]

\* What the worker can do once the option is acquired: the option counts only
\* on usable evidence.
Resulting(o, option, inventory, now) ==
  LET base == BaseWorker(o, option, inventory)
  IN (IF base = NotStated THEN {} ELSE base.capabilities)
     \cup IF option.evidence = NotStated \/ UsableFor("CAPABILITY", option.evidence, now)
          THEN option.provides ELSE {}

CoversOnPaper(o, option, inventory, now, verdicts) ==
  Required(o) \subseteq option.provides \cup Resulting(o, option, inventory, now)
Covers(o, option, inventory, now, verdicts) ==
  /\ Required(o) \subseteq Resulting(o, option, inventory, now)
  /\ option.target # NotStated /\ ~option.adds =>
       BaseWorker(o, option, inventory) # NotStated
  /\ HistoricalVerdict(option, verdicts) # "FAIL"

\* Setup, spread over its uses when it is reusable, and the price per task;
\* then the hours on the resulting worker.
AcquisitionCost(option, now, uses) ==
  LET usable == option.evidence = NotStated \/ UsableFor("PRICING", option.evidence, now)
      setup == IF option.reusable THEN (2 * option.setup + uses) \div (2 * uses)
               ELSE option.setup
  IN IF ~usable \/ option.setup = NotStated \/ option.perTask = NotStated
     THEN NotStated ELSE setup + option.perTask

HourlyAfter(o, option, inventory, now) ==
  LET base == BaseWorker(o, option, inventory)
      usable == option.evidence = NotStated \/ UsableFor("PRICING", option.evidence, now)
  IN CASE option.hourly # NotStated /\ usable -> option.hourly
       [] option.hourly = NotStated /\ base # NotStated -> base.hourly
       [] OTHER -> NotStated

TotalCost(covers, acquire, hourly, minutes) ==
  IF ~covers \/ acquire = NotStated \/ hourly = NotStated THEN NotStated
  ELSE Cost(minutes, hourly) + acquire

\* Other than the estimator it never asks whether the reward is a fixed one.
Judged(o, option, now, verdicts, covers, low, high) ==
  LET net(cost) == IF o.currency = "USD" THEN Net(o, cost) ELSE NotStated
      confidence == IF option.evidence = NotStated THEN option.confidence
                    ELSE Min({option.confidence, option.evidence.confidence})
  IN [covers |-> covers,
      fresh |-> EvidenceStatus(option.evidence, now) = "FRESH",
      history |-> HistoricalVerdict(option, verdicts),
      profitability |-> Profitability(net(high), net(low)),
      cost |-> high, confidence |-> confidence]

Candidate(o, option, inventory, now, uses, verdicts) ==
  LET acquire == AcquisitionCost(option, now, uses)
      hourly == HourlyAfter(o, option, inventory, now)
      covers == Covers(o, option, inventory, now, verdicts)
  IN Judged(o, option, now, verdicts, covers,
            TotalCost(covers, acquire, hourly, Minutes(o).low),
            TotalCost(covers, acquire, hourly, Minutes(o).high))

HistoryRank == [PASS |-> 3, REVIEW |-> 2, none |-> 1, FAIL |-> 0]
ProfitRank == [POSITIVE |-> 3, UNCERTAIN |-> 2, UNKNOWN |-> 1, NEGATIVE |-> 0]

\* The sort key of a covering candidate: fresh evidence, a good history, a
\* profit, a low cost, confidence; the first difference decides.
SortKey(c) ==
  <<IF c.fresh THEN 1 ELSE 0, HistoryRank[c.history], ProfitRank[c.profitability],
    IF c.cost = NotStated THEN -999999999 ELSE -c.cost, c.confidence>>
Outranks(c, d) ==
  \E k \in 1 .. 5 : /\ SortKey(c)[k] > SortKey(d)[k]
                    /\ \A j \in 1 .. (k - 1) : SortKey(c)[j] = SortKey(d)[j]

\* best_option_id: the first of the strongest covering candidates, by
\* position in the catalog (0: none).
StrongestOf(candidates, covering) ==
  LET best == {k \in covering :
                 \A j \in covering : ~Outranks(candidates[j], candidates[k])}
  IN IF best = {} THEN 0 ELSE Min(best)

BestOption(o, catalog, inventory, now, uses, verdicts) ==
  LET candidates == [k \in DOMAIN catalog |->
                       Candidate(o, catalog[k], inventory, now, uses, verdicts)]
  IN StrongestOf(candidates,
                 {k \in DOMAIN catalog : catalog[k].enabled /\ candidates[k].covers})

PlanStatus(gap, best) ==
  CASE gap = "NONE" -> "READY"
    [] gap = "UNKNOWN_REQUIREMENTS" -> "UNKNOWN_REQUIREMENTS"
    [] gap \notin {"NONE", "UNKNOWN_REQUIREMENTS"} /\ best = 0 -> "NO_OPTION"
    [] OTHER -> "OPTIONS_AVAILABLE"
==============================================================================
