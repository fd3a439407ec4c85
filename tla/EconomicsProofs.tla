--------------------------- MODULE EconomicsProofs ---------------------------
(* What attention, settlement and path are worth, for any sources, tasks and  *)
(* workers.                                                                   *)
(*                                                                            *)
(* Attention: every figure on the way is a sum over the known signals or a    *)
(* rounded quotient.  An unknown signal adds what a score of zero would, so   *)
(* sums compare signal by signal; rounding preserves order                    *)
(* (RoundEvenIsMonotone) and is off by at most half a unit                    *)
(* (RoundEvenIsClose), which bounds what the shares may miss of the whole.    *)
(*                                                                            *)
(* Settlement: the loops take the highest reward first and stop at the        *)
(* minimum or at the cap.  What they leave (Greedy) is all slots, or those of *)
(* the tasks that pay more than one, the cut, and none of those that pay      *)
(* less.  Whatever another schedule does more of pays at most the reward of   *)
(* the cut, and what it does less of at least that (CutIsBest): with as many  *)
(* actions it earns no more, with fewer it misses the minimum by an action.   *)
EXTENDS SourceAllocation, Portfolio, FiniteSums, WellFoundedInduction, TLAPS

Positive == Nat \ {0}

------------------------------------------------------------------------------
\* Quotients.

LEMMA Division ==
  ASSUME NEW n \in Int, NEW d \in Positive
  PROVE  /\ n \div d \in Int /\ n % d \in 0 .. (d - 1)
         /\ n = d * (n \div d) + (n % d)
BY DEF Positive

LEMMA ProductsKeepOrder ==
  ASSUME NEW a \in Int, NEW b \in Int, NEW d \in Nat, a <= b
  PROVE  d * a <= d * b
OBVIOUS

LEMMA RoundEvenIsClose ==
  ASSUME NEW n \in Int, NEW d \in Positive
  PROVE  /\ RoundEven(n, d) \in Int
         /\ 2 * n - d <= 2 * (d * RoundEven(n, d))
         /\ 2 * (d * RoundEven(n, d)) <= 2 * n + d
<1> DEFINE q == n \div d
           r == n % d
<1>1. q \in Int /\ r \in 0 .. (d - 1) /\ n = d * q + r /\ d \in Int
  BY Division DEF Positive
<1>2. RoundEven(n, d) = IF 2 * r > d \/ (2 * r = d /\ q % 2 = 1) THEN q + 1 ELSE q
  BY DEF RoundEven
<1> HIDE DEF q, r
<1>3. d * (q + 1) = d * q + d /\ d * q \in Int
  BY <1>1
<1> DEFINE p == d * q
           up == d * (q + 1)
<1>4. p \in Int /\ up = p + d /\ n = p + r
  BY <1>1, <1>3
<1>5. CASE RoundEven(n, d) = q /\ 2 * r <= d
  <2>1. d * RoundEven(n, d) = p
    BY <1>5
  <2> HIDE DEF p, up
  <2> QED BY <1>1, <1>4, <1>5, <2>1
<1>6. CASE RoundEven(n, d) = q + 1 /\ 2 * r >= d
  <2>1. d * RoundEven(n, d) = up
    BY <1>6
  <2> HIDE DEF p, up
  <2> QED BY <1>1, <1>4, <1>6, <2>1
<1> QED BY <1>1, <1>2, <1>5, <1>6

LEMMA RoundEvenIsMonotone ==
  ASSUME NEW n \in Int, NEW m \in Int, NEW d \in Positive, n <= m
  PROVE  RoundEven(n, d) <= RoundEven(m, d)
<1> DEFINE q == n \div d  r == n % d  u == m \div d  v == m % d
<1>1. q \in Int /\ r \in 0 .. (d - 1) /\ n = d * q + r /\ d \in Nat
  BY Division DEF Positive
<1>2. u \in Int /\ v \in 0 .. (d - 1) /\ m = d * u + v
  BY Division
<1>3. RoundEven(n, d) = IF 2 * r > d \/ (2 * r = d /\ q % 2 = 1) THEN q + 1 ELSE q
  BY DEF RoundEven
<1>4. RoundEven(m, d) = IF 2 * v > d \/ (2 * v = d /\ u % 2 = 1) THEN u + 1 ELSE u
  BY DEF RoundEven
<1> HIDE DEF q, r, u, v
<1>5. q <= u
  <2> SUFFICES ASSUME u + 1 <= q PROVE FALSE
    BY <1>1, <1>2
  <2>1. d * (u + 1) <= d * q
    BY <1>1, <1>2, ProductsKeepOrder
  <2>2. d * (u + 1) = d * u + d /\ d * u \in Int /\ d * q \in Int
    BY <1>1, <1>2
  <2> QED BY <1>1, <1>2, <2>1, <2>2
<1>6. CASE q = u
  <2>1. d * q \in Int
    BY <1>1
  <2>2. r <= v
    BY <1>1, <1>2, <1>6, <2>1
  <2> QED BY <1>1, <1>2, <1>3, <1>4, <1>6, <2>2
<1>7. CASE q < u
  BY <1>1, <1>2, <1>3, <1>4, <1>7
<1> QED BY <1>1, <1>2, <1>5, <1>6, <1>7

LEMMA RoundEvenOfNat ==
  ASSUME NEW n \in Nat, NEW d \in Positive PROVE RoundEven(n, d) \in Nat
<1>1. RoundEven(0, d) = 0
  BY DEF RoundEven, Positive
<1>2. RoundEven(0, d) <= RoundEven(n, d)
  BY RoundEvenIsMonotone
<1> QED BY <1>1, <1>2, RoundEvenIsClose

LEMMA RoundUpOfNat ==
  ASSUME NEW n \in Nat, NEW d \in Positive PROVE RoundUp(n, d) \in Nat
<1> DEFINE a == 2 * n + d  b == 2 * d  q == a \div b  r == a % b
<1>1. a \in Nat /\ b \in Positive
  BY DEF Positive
<1> HIDE DEF a, b
<1>2. q \in Int /\ r \in 0 .. (b - 1) /\ a = b * q + r
  BY <1>1, Division
<1> HIDE DEF q, r
<1>3. q >= 0
  <2> SUFFICES ASSUME q <= -1 PROVE FALSE
    BY <1>2
  <2>1. b * q <= b * (-1) /\ b \in Nat /\ b * (-1) = -b
    BY <1>1, <1>2, ProductsKeepOrder DEF Positive
  <2> QED BY <1>1, <1>2, <2>1
<1> QED BY <1>2, <1>3 DEF RoundUp, q, a, b
------------------------------------------------------------------------------
\* Greatest elements, and what the scores are.

LEMMA LeastNumber ==
  ASSUME NEW T \in SUBSET Nat, T # {}
  PROVE  \E x \in T : \A y \in T : x <= y
<1> DEFINE R == OpToRel(<, Nat)
<1>1. IsWellFoundedOn(R, Nat)
  BY NatLessThanWellFounded
<1> HIDE DEF R
<1>2. PICK x \in T : \A y \in T : ~ (<<y, x>> \in R)
  BY <1>1, WFMin
<1>3. \A y \in T : ~ (y < x)
  BY <1>2 DEF R, OpToRel
<1> QED BY <1>3

LEMMA MaxOfBounded ==
  ASSUME NEW n \in Nat, NEW T \in SUBSET (0 .. n), T # {}
  PROVE  Max(T) \in T
<1> DEFINE D == {n - x : x \in T}
<1>1. D \in SUBSET Nat /\ D # {}
  <2>1. \A x \in T : n - x \in Nat
    OBVIOUS
  <2> QED BY <2>1
<1>2. PICK d \in D : \A y \in D : d <= y
  BY <1>1, LeastNumber
<1>3. PICK x \in T : d = n - x
  BY <1>2
<1>4. \A y \in T : x >= y
  <2> SUFFICES ASSUME NEW y \in T PROVE x >= y
    OBVIOUS
  <2>1. n - y \in D
    OBVIOUS
  <2> HIDE DEF D
  <2>2. n - x <= n - y
    BY <1>2, <1>3, <2>1
  <2> QED BY <2>2
<1> QED BY <1>4 DEF Max

LEMMA MinOfTwo ==
  ASSUME NEW a \in Int, NEW b \in Int
  PROVE  Min({a, b}) \in {a, b} /\ Min({a, b}) <= a /\ Min({a, b}) <= b
BY DEF Min

LEMMA MaxOfTwo ==
  ASSUME NEW a \in Int, NEW b \in Int
  PROVE  Max({a, b}) \in {a, b}
BY DEF Max

LEMMA ScaledScoreType ==
  ASSUME NEW n \in Nat, NEW d \in Positive PROVE ScaledScore(n, d) \in 0 .. 100
<1>1. 100 * n \in Nat
  OBVIOUS
<1>2. RoundUp(100 * n, d) \in Nat
  BY <1>1, RoundUpOfNat
<1> DEFINE x == RoundUp(100 * n, d)
<1>3. x \in Nat
  BY <1>2
<1> HIDE DEF x
<1>4. Min({100, x}) \in {100, x} /\ Min({100, x}) <= 100
  BY <1>3, MinOfTwo
<1>5. Min({100, x}) \in 0 .. 100
  BY <1>3, <1>4
<1> QED BY <1>5 DEF ScaledScore, x

\* The parts of a review's score are percentages.
LEMMA ReviewScoreType ==
  ASSUME NEW r, r.evidenceScore \in 0 .. 100 PROVE Score(r) \in 0 .. 100
<1> DEFINE owner == IF r.authorized THEN 100 ELSE 0
           parts == FreshnessScore(r) + AvailabilityScore(r) + EconomicsScore(r)
           source == r.evidenceScore
           weighted == 30 * source + 25 * owner + 15 * parts
           risk == RiskPercent(r)
<1>1. FreshnessScore(r) \in {40, 100, 85, 70, 55, 35}
  BY DEF FreshnessScore
<1>2. AvailabilityScore(r) \in {100, 0, 65, 40}
  BY DEF AvailabilityScore
<1>3. EconomicsScore(r) \in {40, 100, 0}
  BY DEF EconomicsScore
<1>4. risk \in {100, 75, 0}
  BY DEF RiskPercent
<1>5. parts \in 0 .. 300 /\ owner \in 0 .. 100
  BY <1>1, <1>2, <1>3
<1> HIDE DEF parts, owner, source
<1>6. weighted \in 0 .. 10000
  <2>1. source \in 0 .. 100
    BY DEF source
  <2>2. /\ 30 * source \in 0 .. 3000 /\ 25 * owner \in 0 .. 2500
        /\ 15 * parts \in 0 .. 4500
    BY <1>5, <2>1
  <2> DEFINE a == 30 * source  b == 25 * owner  c == 15 * parts
  <2>3. a \in 0 .. 3000 /\ b \in 0 .. 2500 /\ c \in 0 .. 4500
    BY <2>2
  <2> HIDE DEF a, b, c
  <2>4. a + b + c \in 0 .. 10000
    BY <2>3
  <2> QED BY <2>4 DEF a, b, c
<1> HIDE DEF weighted, risk
<1>7. /\ weighted * risk + 5000 \in Int
      /\ weighted * risk + 5000 >= 0 /\ weighted * risk + 5000 <= 1005000
  BY <1>4, <1>6, SMT
<1>8. (weighted * risk + 5000) \div 10000 \in 0 .. 100
  <2> DEFINE n == weighted * risk + 5000
  <2>1. n \in Int /\ n >= 0 /\ n <= 1005000
    BY <1>7, SMT
  <2> HIDE DEF n
  <2>2. n \div 10000 \in 0 .. 100
    BY <2>1, SMT
  <2> QED BY <2>2, SMT DEF n
<1> QED BY <1>8, SMT DEF Score, weighted, source, risk, parts, owner

LEMMA MinutesArePositive ==
  ASSUME NEW o, o.words \subseteq DOMAIN RuleBook
  PROVE  Minutes(o).high \in Positive
<1> DEFINE rules == MatchedRules(o)
           highs == {r.high : r \in rules}
<1>1. \A w \in DOMAIN RuleBook : RuleBook[w].high \in 1 .. 180
  BY DEF RuleBook, TaskRule
<1>2. \A c \in DOMAIN CategoryRules : CategoryRules[c].high \in 1 .. 180
  BY DEF CategoryRules, TaskRule
<1>3. \A r \in rules : r.high \in 1 .. 180
  BY <1>1, <1>2 DEF MatchedRules
<1>4. CASE rules = {}
  BY <1>4 DEF Minutes, Positive
<1>5. CASE rules # {}
  <2>1. highs \in SUBSET (0 .. 180) /\ highs # {} /\ 180 \in Nat
    BY <1>3, <1>5
  <2>2. Max(highs) \in highs
    BY <2>1, MaxOfBounded
  <2>3. Max(highs) \in 1 .. 180
    BY <1>3, <2>2
  <2>4. Minutes(o).high = Max(highs) + (IF o.report THEN 10 ELSE 0)
    BY <1>5 DEF Minutes
  <2> HIDE DEF highs
  <2> QED BY <2>3, <2>4 DEF Positive
<1> QED BY <1>4, <1>5

\* What an hour of each worker costs is a number or not stated.
Priced(inventory) ==
  \A w \in DOMAIN inventory : inventory[w].hourly \in Nat \cup {NotStated}

LEMMA PayingOffers ==
  ASSUME NEW o, NEW inventory, Priced(inventory), NEW w \in PayingWorkers(o, inventory),
         o.reward \in Nat, o.words \subseteq DOMAIN RuleBook
  PROVE  Estimate(o, inventory[w]).netLow \in Nat /\ o.reward \in Positive
<1> DEFINE e == Estimate(o, inventory[w])
           minutes == Minutes(o).high
           cost == Cost(minutes, inventory[w].hourly)
<1>1. e.profitability = "POSITIVE" /\ w \in DOMAIN inventory
  BY DEF PayingWorkers
<1>2. e.profitability = Profitability(e.netLow, e.netHigh)
  BY DEF Estimate
<1>3. e.netLow # NotStated /\ e.netLow > 0
  BY <1>1, <1>2 DEF Profitability
<1>4. e.netLow \in {Net(o, cost), NotStated}
  BY DEF Estimate
<1>5. minutes \in Nat
  BY MinutesArePositive DEF Positive
<1>6. cost = NotStated \/ cost \in Nat
  <2> DEFINE h == inventory[w].hourly
  <2>1. h \in Nat \cup {NotStated}
    BY <1>1 DEF Priced
  <2> HIDE DEF h, minutes
  <2>2. CASE h = NotStated
    BY <2>2 DEF Cost, h
  <2>3. CASE h \in Nat
    <3> DEFINE n == 2 * h * minutes + 60
    <3>1. n \in Nat
      <4>1. h * minutes \in Nat
        BY <1>5, <2>3
      <4>2. 2 * h * minutes = 2 * (h * minutes)
        BY <1>5, <2>3
      <4> DEFINE m == h * minutes
      <4>3. n = 2 * m + 60 /\ m \in Nat
        BY <4>1, <4>2
      <4> HIDE DEF m, n
      <4> QED BY <4>3
    <3>2. Cost(minutes, h) = n \div 120
      BY <2>3, NotStatedAssumption DEF Cost
    <3> HIDE DEF n
    <3>3. n \div 120 \in Nat
      BY <3>1
    <3> QED BY <3>2, <3>3 DEF h
  <2> QED BY <2>1, <2>2, <2>3
<1> HIDE DEF e, cost
<1>7. e.netLow \in Int /\ e.netLow <= o.reward
  BY <1>3, <1>4, <1>6 DEF Net
<1> QED BY <1>3, <1>7 DEF e, Positive

LEMMA QualityScoreType ==
  ASSUME NEW view \in Views PROVE QualityScore(view) \in Nat \cup {NotStated}
<1> DEFINE S == {Score(view.offers[i]) : i \in
                   {j \in DOMAIN view.offers : ReviewAllowed(view.offers[j])}}
<1>1. S \in SUBSET (0 .. 100)
  BY ReviewScoreType, ViewsAssumption
<1>2. QualityScore(view) = IF S = {} THEN NotStated ELSE Max(S)
  BY DEF QualityScore, MaxOrNotStated
<1> HIDE DEF S
<1>3. S # {} => Max(S) \in S
  <2>1. 100 \in Nat
    OBVIOUS
  <2> QED BY <1>1, <2>1, MaxOfBounded
<1>4. CASE S # {}
  <2>1. Max(S) \in 0 .. 100
    BY <1>1, <1>3, <1>4
  <2>2. Max(S) \in Nat
    BY <2>1
  <2> QED BY <1>2, <1>4, <2>2
<1> QED BY <1>2, <1>4

LEMMA RateScoreType ==
  ASSUME NEW view \in Views PROVE RateScore(view) \in Nat \cup {NotStated}
<1> DEFINE Rates(i) ==
             {LET o == view.offers[i]
              IN ScaledScore(Estimate(o, Workers[w]).netLow,
                             Minutes(o).high * RateReference) :
                w \in PayingWorkers(view.offers[i], Workers)}
           S == UNION {Rates(i) : i \in DOMAIN view.offers}
<1>1. ASSUME NEW i \in DOMAIN view.offers, NEW w \in PayingWorkers(view.offers[i], Workers)
      PROVE  ScaledScore(Estimate(view.offers[i], Workers[w]).netLow,
                         Minutes(view.offers[i]).high * RateReference) \in 0 .. 100
  <2> DEFINE o == view.offers[i]
             n == Estimate(o, Workers[w]).netLow
             m == Minutes(o).high
  <2>1. o.reward \in Nat /\ o.words \subseteq DOMAIN RuleBook
    BY ViewsAssumption
  <2>2. n \in Nat
    <3>1. Priced(Workers)
      BY WorkersAssumption DEF Priced
    <3> QED BY <2>1, <3>1, PayingOffers
  <2>3. m \in Positive
    BY <2>1, MinutesArePositive
  <2> HIDE DEF n, m
  <2>4. m * RateReference \in Positive
    BY <2>3 DEF Positive, RateReference
  <2>5. ScaledScore(n, m * RateReference) \in 0 .. 100
    BY <2>2, <2>4, ScaledScoreType
  <2> QED BY <2>5 DEF n, m
<1>2. \A i \in DOMAIN view.offers : Rates(i) \subseteq 0 .. 100
  BY <1>1
<1>3. RateScore(view) = IF S = {} THEN NotStated ELSE Max(S)
  BY DEF RateScore, MaxOrNotStated
<1> HIDE DEF Rates
<1>4. S \in SUBSET (0 .. 100)
  BY <1>2
<1> HIDE DEF S
<1>5. S # {} => Max(S) \in S
  <2>1. 100 \in Nat
    OBVIOUS
  <2> QED BY <1>4, <2>1, MaxOfBounded
<1>6. CASE S # {}
  <2>1. Max(S) \in 0 .. 100
    BY <1>4, <1>5, <1>6
  <2>2. Max(S) \in Nat
    BY <2>1
  <2> QED BY <1>3, <1>6, <2>2
<1> QED BY <1>3, <1>6

LEMMA ReplenishmentScoreType ==
  ASSUME NEW view \in Views
  PROVE  ReplenishmentScore(view.history) \in Nat \cup {NotStated}
<1> DEFINE h == view.history
           funding == ScaledScore(h.funding, FundingReference)
           arrivals == ScaledScore(h.arrivals, ArrivalsReference)
           mean == RoundEven(funding + arrivals, 2)
<1>1. CASE h = NotStated
  BY <1>1 DEF ReplenishmentScore
<1>2. CASE h # NotStated
  <2>1. h.funding \in Nat /\ h.arrivals \in Nat
    BY <1>2, ViewsAssumption
  <2>2. FundingReference \in Positive /\ ArrivalsReference \in Positive /\ 2 \in Positive
    BY DEF FundingReference, ArrivalsReference, Positive
  <2>3. funding \in 0 .. 100 /\ arrivals \in 0 .. 100
    BY <2>1, <2>2, ScaledScoreType
  <2> HIDE DEF funding, arrivals
  <2>4. funding + arrivals \in Nat
    BY <2>3
  <2>5. mean \in Nat
    BY <2>2, <2>4, RoundEvenOfNat
  <2>6. ReplenishmentScore(h) \in {50, 20, Max({60, mean})}
    BY <1>2, Zenon DEF ReplenishmentScore, mean, funding, arrivals
  <2> HIDE DEF mean, h
  <2>7. Max({60, mean}) \in {60, mean}
    BY <2>5, MaxOfTwo
  <2>8. ReplenishmentScore(h) \in Nat
    BY <2>5, <2>6, <2>7
  <2> QED BY <2>8 DEF h
<1> QED BY <1>1, <1>2

LEMMA HistoryConfidenceType ==
  ASSUME NEW view \in Views PROVE HistoryConfidence(view.history) \in Nat
<1> DEFINE h == view.history
           snapshots == Min({h.snapshots, FullHistorySnapshots})
           hours == Min({h.hours, FullHistoryHours})
           n == 60 * snapshots * FullHistoryHours + 40 * hours * FullHistorySnapshots
           d == FullHistorySnapshots * FullHistoryHours
<1>1. CASE h = NotStated
  BY <1>1 DEF HistoryConfidence
<1>2. CASE h # NotStated
  <2>1. h.snapshots \in Nat /\ h.hours \in Nat
        /\ FullHistorySnapshots \in Nat /\ FullHistoryHours \in Nat
    BY <1>2, ViewsAssumption DEF FullHistorySnapshots, FullHistoryHours
  <2>2. snapshots \in Nat /\ hours \in Nat
    <3>1. \A a, b \in Nat : Min({a, b}) \in Nat
      BY MinOfTwo
    <3> QED BY <2>1, <3>1
  <2> HIDE DEF snapshots, hours
  <2>3. n \in Nat /\ d \in Positive
    BY <2>2 DEF FullHistorySnapshots, FullHistoryHours, Positive
  <2>4. HistoryConfidence(h) = RoundUp(n, d)
    BY <1>2 DEF HistoryConfidence, snapshots, hours
  <2> HIDE DEF n, d, h
  <2>5. HistoryConfidence(h) \in Nat
    BY <2>3, <2>4, RoundUpOfNat
  <2> QED BY <2>5 DEF h
<1> QED BY <1>1, <1>2

Weights == <<30, 30, 20, 10, 10>>

\* The signals of a view: the last one is always known.
LEMMA SignalsType ==
  ASSUME NEW view \in Views
  PROVE  LET signals == SignalsOf(view)
         IN /\ DOMAIN signals = 1 .. 5
            /\ \A i \in 1 .. 5 : /\ signals[i].score \in Nat \cup {NotStated}
                                 /\ signals[i].weight = Weights[i]
            /\ signals[5].score \in Nat
<1> DEFINE signals == SignalsOf(view)
<1>1. DOMAIN signals = 1 .. 5
  BY DEF SignalsOf
<1>2. /\ signals[1].score = QualityScore(view) /\ signals[1].weight = 30
      /\ signals[2].score = RateScore(view) /\ signals[2].weight = 30
      /\ signals[3].score = ReplenishmentScore(view.history) /\ signals[3].weight = 20
      /\ signals[4].score = SettlementScore(PoolSummary(view.offers).status)
      /\ signals[4].weight = 10
      /\ signals[5].score = HistoryConfidence(view.history) /\ signals[5].weight = 10
  BY DEF SignalsOf, QualityWeight, EconomicsWeight, ReplenishmentWeight,
         SettlementWeight, HistoryWeight
<1>3. \A status : SettlementScore(status) \in {100, 20, 50}
  BY Zenon DEF SettlementScore
<1>4. signals[4].score \in Nat
  BY <1>2, <1>3
<1> HIDE DEF signals
<1>5. \A i \in 1 .. 5 : signals[i].weight = Weights[i]
  BY <1>2 DEF Weights
<1>6. \A i \in 1 .. 5 : signals[i].score \in Nat \cup {NotStated}
  BY <1>2, <1>4, QualityScoreType, RateScoreType, ReplenishmentScoreType,
     HistoryConfidenceType
<1>7. signals[5].score \in Nat
  BY <1>2, HistoryConfidenceType
<1> QED BY <1>1, <1>5, <1>6, <1>7 DEF signals

------------------------------------------------------------------------------
(* The adjusted score.                                                        *)

\* What a signal adds to the weighted sum, and that sum.
Parts(view) ==
  [i \in 1 .. 5 |-> IF SignalsOf(view)[i].score = NotStated THEN 0
                    ELSE SignalsOf(view)[i].score * Weights[i]]
Weighted(view) == SumFunctionOnSet(Parts(view), 1 .. 5)
TotalWeight == SumFunctionOnSet(Weights, 1 .. 5)
Adjusted(view) == WeightedPriority(SignalsOf(view)).adjusted

LEMMA FiveSignals == IsFiniteSet(1 .. 5)
<1>1. 1 \in Int /\ 5 \in Int
  OBVIOUS
<1> QED BY <1>1, FS_Interval

LEMMA WeightsArePositive ==
  /\ \A i \in 1 .. 5 : Weights[i] \in Nat
  /\ TotalWeight \in Positive
<1>1. \A i \in 1 .. 5 : Weights[i] \in Nat
  BY DEF Weights
<1>2. Weights[1] = 30 /\ 1 \in 1 .. 5
  BY DEF Weights
<1>3. TotalWeight \in Nat /\ Weights[1] <= TotalWeight
  BY <1>1, <1>2, FiveSignals, SumBoundsMembers DEF TotalWeight
<1> QED BY <1>1, <1>2, <1>3 DEF Positive

LEMMA PartsType ==
  ASSUME NEW view \in Views
  PROVE  /\ \A i \in 1 .. 5 : Parts(view)[i] \in Nat
         /\ Weighted(view) \in Nat
<1>1. \A i \in 1 .. 5 : Parts(view)[i] \in Nat
  <2> SUFFICES ASSUME NEW i \in 1 .. 5 PROVE Parts(view)[i] \in Nat
    OBVIOUS
  <2> DEFINE x == SignalsOf(view)[i].score
             w == Weights[i]
  <2>1. x \in Nat \cup {NotStated} /\ w \in Nat
    BY SignalsType, WeightsArePositive
  <2>2. Parts(view)[i] = IF x = NotStated THEN 0 ELSE x * w
    BY DEF Parts
  <2> HIDE DEF x, w
  <2>3. CASE x = NotStated
    BY <2>2, <2>3
  <2>4. CASE x # NotStated
    <3>1. x * w \in Nat
      BY <2>1, <2>4
    <3> QED BY <2>2, <2>4, <3>1
  <2> QED BY <2>3, <2>4
<1>2. Weighted(view) \in Nat
  BY <1>1, FiveSignals, SumBoundsMembers DEF Weighted
<1> QED BY <1>1, <1>2

LEMMA AdjustedFacts ==
  ASSUME NEW view \in Views
  PROVE  /\ Adjusted(view) = RoundEven(Weighted(view) * (100 + SignalsOf(view)[5].score),
                                       2 * TotalWeight)
         /\ Adjusted(view) \in Nat
<1> DEFINE signals == SignalsOf(view)
           I == 1 .. 5
           K == Known(signals)
           known == [i \in K |-> signals[i].score * signals[i].weight]
           all == [i \in DOMAIN signals |-> signals[i].weight]
           factor == 100 + signals[5].score
<1>1. /\ DOMAIN signals = I
      /\ \A i \in I : signals[i].score \in Nat \cup {NotStated}
      /\ \A i \in I : signals[i].weight = Weights[i]
      /\ factor \in Nat
  BY SignalsType
<1> HIDE DEF signals
<1>2. K \in SUBSET I /\ \A i \in I \ K : signals[i].score = NotStated
  BY <1>1 DEF Known
<1>3. SumFunctionOnSet(known, K) = SumFunctionOnSet(Parts(view), I)
  <2>1. \A i \in I : Parts(view)[i] \in Int
    BY PartsType
  <2>2. \A i \in K : known[i] = Parts(view)[i]
    BY <1>1, <1>2 DEF Known, Parts, signals
  <2>3. \A i \in I \ K : Parts(view)[i] = 0
    BY <1>2 DEF Parts, signals
  <2>4. IsFiniteSet(I)
    BY FiveSignals
  <2> DEFINE parts == Parts(view)
  <2> HIDE DEF known, K, I, parts
  <2>5. SumFunctionOnSet(known, K) = SumFunctionOnSet(parts, I)
    <3>1. /\ \A i \in I : parts[i] \in Int
          /\ \A i \in K : known[i] = parts[i]
          /\ \A i \in I \ K : parts[i] = 0
      BY <2>1, <2>2, <2>3 DEF parts
    <3> QED BY <1>2, <2>4, <3>1, SumOfPart
  <2> QED BY <2>5 DEF parts
<1>4. SumFunction(known) = Weighted(view)
  <2>1. DOMAIN known = K
    OBVIOUS
  <2> HIDE DEF known, K
  <2> QED BY <1>3, <2>1 DEF SumFunction, Weighted
<1>5. SumFunction(all) = TotalWeight
  <2>1. DOMAIN all = I /\ \A i \in I : all[i] = Weights[i] /\ all[i] \in Int
    BY <1>1, WeightsArePositive
  <2> HIDE DEF all, I
  <2>2. SumFunctionOnSet(all, I) = SumFunctionOnSet(Weights, I)
    BY <2>1, FiveSignals, SumsAgree DEF I
  <2> QED BY <2>1, <2>2 DEF SumFunction, TotalWeight, I
<1>6. Adjusted(view) = RoundEven(SumFunction(known) * factor, 2 * SumFunction(all))
  BY DEF Adjusted, WeightedPriority, signals
<1> HIDE DEF known, all
<1>7. Adjusted(view) = RoundEven(Weighted(view) * factor, 2 * TotalWeight)
  BY <1>4, <1>5, <1>6
<1> HIDE DEF factor
<1>8. Weighted(view) * factor \in Nat /\ 2 * TotalWeight \in Positive
  BY <1>1, PartsType, WeightsArePositive DEF Positive
<1>9. Adjusted(view) \in Nat
  BY <1>7, <1>8, RoundEvenOfNat
<1> QED BY <1>7, <1>9 DEF factor, signals

\* At least as good on every signal, at least as high a score.
LEMMA AdjustedFollowsSignals ==
  ASSUME NEW a \in Views, NEW b \in Views, NoWorse(a, b)
  PROVE  Adjusted(b) <= Adjusted(a)
<1> DEFINE u == Weighted(a)  v == Weighted(b)
           p == SignalsOf(a)[5].score  q == SignalsOf(b)[5].score
<1>1. \A i \in 1 .. 5 : Parts(b)[i] <= Parts(a)[i]
  <2> SUFFICES ASSUME NEW i \in 1 .. 5 PROVE Parts(b)[i] <= Parts(a)[i]
    OBVIOUS
  <2> DEFINE x == SignalsOf(a)[i].score
             y == SignalsOf(b)[i].score
             w == Weights[i]
  <2>1. /\ x \in Nat \cup {NotStated} /\ y \in Nat \cup {NotStated} /\ w \in Nat
        /\ y = NotStated \/ (x # NotStated /\ x >= y)
    BY SignalsType, WeightsArePositive DEF NoWorse
  <2>2. /\ Parts(a)[i] = IF x = NotStated THEN 0 ELSE x * w
        /\ Parts(b)[i] = IF y = NotStated THEN 0 ELSE y * w
    BY DEF Parts
  <2>3. Parts(a)[i] \in Nat
    BY PartsType
  <2> HIDE DEF x, y, w
  <2>4. CASE y = NotStated
    BY <2>2, <2>3, <2>4
  <2>5. CASE y # NotStated
    <3>1. x \in Nat /\ y \in Nat /\ y <= x /\ x # NotStated
      BY <2>1, <2>5
    <3>2. w * y <= w * x /\ w * y = y * w /\ w * x = x * w
      BY <2>1, <3>1, ProductsKeepOrder
    <3> QED BY <2>2, <2>5, <3>1, <3>2
  <2> QED BY <2>4, <2>5
<1>2. u \in Nat /\ v \in Nat
  BY PartsType
<1>3. v <= u
  <2>1. \A i \in 1 .. 5 : /\ Parts(b)[i] \in Int /\ Parts(a)[i] \in Int
                          /\ 1 * Parts(b)[i] <= 1 * Parts(a)[i]
    BY <1>1, PartsType
  <2>2. 1 * v <= 1 * u
    BY <2>1, FiveSignals, SumsCompare DEF Weighted
  <2> HIDE DEF u, v
  <2> QED BY <1>2, <2>2
<1>4. p \in Nat /\ q \in Nat /\ q <= p
  <2>1. p \in Nat /\ q \in Nat /\ 5 \in 1 .. 5
    BY SignalsType
  <2>2. q = NotStated \/ p >= q
    BY <2>1 DEF NoWorse
  <2> HIDE DEF p, q
  <2> QED BY <2>1, <2>2, NotStatedAssumption
<1> HIDE DEF u, v, p, q
<1>5. v * (100 + q) \in Int /\ u * (100 + p) \in Int /\ v * (100 + q) <= u * (100 + p)
  <2>1. v * (100 + q) <= v * (100 + p)
    BY <1>2, <1>4, ProductsKeepOrder
  <2>2. (100 + p) * v <= (100 + p) * u
    BY <1>2, <1>3, <1>4, ProductsKeepOrder
  <2>3. (100 + p) * v = v * (100 + p) /\ (100 + p) * u = u * (100 + p)
    BY <1>2, <1>4
  <2>4. v * (100 + q) \in Int /\ v * (100 + p) \in Int /\ u * (100 + p) \in Int
    BY <1>2, <1>4
  <2> QED BY <2>1, <2>2, <2>3, <2>4
<1>6. 2 * TotalWeight \in Positive
  BY WeightsArePositive DEF Positive
<1>7. RoundEven(v * (100 + q), 2 * TotalWeight) <= RoundEven(u * (100 + p), 2 * TotalWeight)
  BY <1>5, <1>6, RoundEvenIsMonotone
<1> QED BY <1>7, AdjustedFacts DEF u, v, p, q

------------------------------------------------------------------------------
(* The shares.                                                                *)

\* A plan is that of its views.
PlanInv ==
  /\ aplan = PlanAllocation(aview)
  /\ \E S \in SUBSET AllocationSources : aview \in [S -> Views]

Whole == 10000   \* hundredths of a per cent
AdjustedOf(view) == [s \in DOMAIN view |-> Adjusted(view[s])]
TotalAdjusted(view) == SumFunctionOnSet(AdjustedOf(view), DOMAIN view)

LEMMA PlanFacts ==
  ASSUME NEW S \in SUBSET AllocationSources, NEW view \in [S -> Views]
  PROVE  LET plan == PlanAllocation(view)
             total == TotalAdjusted(view)
         IN /\ IsFiniteSet(S) /\ DOMAIN plan = S
            /\ total \in Nat
            /\ \A s \in S :
                 /\ Adjusted(view[s]) \in Nat
                 /\ plan[s].share = IF total = 0 THEN 0
                                    ELSE RoundEven(Whole * Adjusted(view[s]), total)
<1> DEFINE priority == [s \in DOMAIN view |-> WeightedPriority(SignalsOf(view[s]))]
           adjusted == [s \in DOMAIN priority |-> priority[s].adjusted]
           plan == PlanAllocation(view)
           total == TotalAdjusted(view)
<1>1. IsFiniteSet(S) /\ DOMAIN view = S /\ DOMAIN plan = S
  BY AllocationAssumption, FS_Subset DEF PlanAllocation
<1>2. \A s \in S : Adjusted(view[s]) \in Nat
  BY AdjustedFacts
<1>3. adjusted = AdjustedOf(view)
  BY DEF AdjustedOf, Adjusted
<1>4. DOMAIN adjusted = S
  BY <1>1
<1>5. SumFunction(adjusted) = total
  BY <1>1, <1>3, <1>4 DEF SumFunction, TotalAdjusted
<1>6. total \in Nat
  <2>1. \A s \in S : AdjustedOf(view)[s] \in Nat
    BY <1>1, <1>2 DEF AdjustedOf
  <2> QED BY <1>1, <2>1, SumBoundsMembers DEF TotalAdjusted
<1>7. \A s \in S : plan[s].share = AttentionShares(priority)[s]
  BY <1>1 DEF PlanAllocation
<1>8. \A s \in S : priority[s].adjusted = Adjusted(view[s])
  BY <1>1 DEF Adjusted
<1>9. DOMAIN priority = S
  BY <1>1
<1> HIDE DEF priority, plan, total
<1>10. ASSUME NEW s \in S
       PROVE  AttentionShares(priority)[s] =
                IF total = 0 THEN 0 ELSE RoundEven(Whole * priority[s].adjusted, total)
  BY <1>5, <1>9, <1>10, SMT DEF AttentionShares, Whole
<1> QED BY <1>1, <1>2, <1>6, <1>7, <1>8, <1>10 DEF plan, total

LEMMA FactorsCompare ==
  ASSUME NEW a \in Int, NEW b \in Int, NEW d \in Positive, d * a <= d * b
  PROVE  a <= b
<1> SUFFICES ASSUME b + 1 <= a PROVE FALSE
  OBVIOUS
<1>1. d * (b + 1) <= d * a
  BY ProductsKeepOrder DEF Positive
<1>2. d * (b + 1) = d * b + d /\ d * b \in Int /\ d * a \in Int /\ d > 0
  BY DEF Positive
<1> QED BY <1>1, <1>2 DEF Positive

\* Roundings of w * x[s] / t, each off by half a unit, where t is all the x[s].
LEMMA RoundedSharesAddUp ==
  ASSUME NEW S, IsFiniteSet(S), NEW x, NEW y, NEW t \in Positive, NEW w \in Nat,
         SumFunctionOnSet(x, S) = t,
         \A s \in S : /\ x[s] \in Nat /\ y[s] \in Int
                      /\ 2 * (w * x[s]) - t <= 2 * (t * y[s])
                      /\ 2 * (t * y[s]) <= 2 * (w * x[s]) + t
  PROVE  /\ SumFunctionOnSet(y, S) \in Int
         /\ 2 * (SumFunctionOnSet(y, S) - w) \in -Cardinality(S) .. Cardinality(S)
<1> DEFINE low == [s \in S |-> (2 * w) * x[s] + (-t)]
           high == [s \in S |-> (2 * w) * x[s] + t]
           sum == SumFunctionOnSet(y, S)
           n == Cardinality(S)
           lows == SumFunctionOnSet(low, S)
           highs == SumFunctionOnSet(high, S)
<1>1. /\ t \in Nat /\ t > 0 /\ n \in Nat /\ t \in Int /\ -t \in Int
      /\ 2 * w \in Int /\ 2 * t \in Int /\ 1 \in Int
  BY FS_CardinalityType DEF Positive
<1>2. ASSUME NEW s \in S
      PROVE  /\ x[s] \in Int /\ y[s] \in Int /\ low[s] \in Int /\ high[s] \in Int
             /\ low[s] = (2 * w) * x[s] + (-t)
             /\ high[s] = (2 * w) * x[s] + t
             /\ 1 * low[s] <= (2 * t) * y[s]
             /\ (2 * t) * y[s] <= 1 * high[s]
  <2> DEFINE a == x[s]  b == y[s]
  <2>1. /\ a \in Nat /\ b \in Int
        /\ 2 * (w * a) - t <= 2 * (t * b) /\ 2 * (t * b) <= 2 * (w * a) + t
    OBVIOUS
  <2>2. low[s] = (2 * w) * a + (-t) /\ high[s] = (2 * w) * a + t
    OBVIOUS
  <2> HIDE DEF a, b, low, high
  <2>3. /\ (2 * w) * a = 2 * (w * a) /\ w * a \in Int
        /\ (2 * t) * b = 2 * (t * b) /\ t * b \in Int
    BY <1>1, <2>1
  <2>4. /\ low[s] \in Int /\ high[s] \in Int
        /\ 1 * low[s] <= (2 * t) * b /\ (2 * t) * b <= 1 * high[s]
    BY <1>1, <2>1, <2>2, <2>3
  <2> QED BY <2>1, <2>2, <2>4 DEF a, b
<1> HIDE DEF low, high
<1>3. lows = (2 * w) * t + n * (-t)
  <2>1. \A s \in S : x[s] \in Int /\ low[s] = (2 * w) * x[s] + (-t)
    BY <1>2
  <2> DEFINE a == 2 * w  b == -t
  <2>2. a \in Int /\ b \in Int /\ \A s \in S : x[s] \in Int /\ low[s] = a * x[s] + b
    BY <1>1, <2>1
  <2> HIDE DEF a, b
  <2>3. lows = a * SumFunctionOnSet(x, S) + n * b
    BY <2>2, SumOfAffine
  <2> QED BY <2>3 DEF a, b
<1>4. highs = (2 * w) * t + n * t
  <2>1. \A s \in S : x[s] \in Int /\ high[s] = (2 * w) * x[s] + t
    BY <1>2
  <2> DEFINE a == 2 * w  b == t
  <2>2. a \in Int /\ b \in Int /\ \A s \in S : x[s] \in Int /\ high[s] = a * x[s] + b
    BY <1>1, <2>1
  <2> HIDE DEF a, b
  <2>3. highs = a * SumFunctionOnSet(x, S) + n * b
    BY <2>2, SumOfAffine
  <2> QED BY <2>3 DEF a, b
<1>5. sum \in Int
  <2>1. \A s \in S : y[s] \in Int
    BY <1>2
  <2> QED BY <2>1, SumType
<1>6. 1 * lows <= (2 * t) * sum
  <2>1. \A s \in S : low[s] \in Int /\ y[s] \in Int /\ 1 * low[s] <= (2 * t) * y[s]
    BY <1>2
  <2> QED BY <1>1, <2>1, SumsCompare
<1>7. (2 * t) * sum <= 1 * highs
  <2>1. \A s \in S : y[s] \in Int /\ high[s] \in Int /\ (2 * t) * y[s] <= 1 * high[s]
    BY <1>2
  <2> QED BY <1>1, <2>1, SumsCompare
<1> HIDE DEF sum, n, lows, highs
<1>8. /\ (2 * w) * t + n * (-t) = t * (2 * w - n)
      /\ (2 * w) * t + n * t = t * (2 * w + n)
      /\ (2 * t) * sum = t * (2 * sum)
  BY <1>1, <1>5
<1>9. 2 * w - n \in Int /\ 2 * w + n \in Int /\ 2 * sum \in Int
  BY <1>1, <1>5
<1>10. t * (2 * w - n) \in Int /\ t * (2 * w + n) \in Int /\ t * (2 * sum) \in Int
  BY <1>1, <1>9
<1>11. t * (2 * w - n) <= t * (2 * sum)
  <2>1. lows = t * (2 * w - n)
    BY <1>3, <1>8
  <2>2. 1 * lows <= t * (2 * sum)
    BY <1>6, <1>8
  <2> QED BY <1>10, <2>1, <2>2
<1>12. t * (2 * sum) <= t * (2 * w + n)
  <2>1. highs = t * (2 * w + n)
    BY <1>4, <1>8
  <2>2. t * (2 * sum) <= 1 * highs
    BY <1>7, <1>8
  <2> QED BY <1>10, <2>1, <2>2
<1>13. 2 * w - n <= 2 * sum /\ 2 * sum <= 2 * w + n
  BY <1>9, <1>11, <1>12, FactorsCompare
<1>14. 2 * (sum - w) \in -n .. n
  BY <1>1, <1>5, <1>13
<1> QED BY <1>5, <1>14 DEF sum, n

\* Each share is off by no more than half a hundredth of a per cent.
LEMMA SharesAreClose ==
  ASSUME NEW S \in SUBSET AllocationSources, NEW view \in [S -> Views],
         TotalAdjusted(view) # 0
  PROVE  LET plan == PlanAllocation(view)
             sum == SumFunctionOnSet([s \in S |-> plan[s].share], S)
         IN 2 * (sum - Whole) \in -Cardinality(S) .. Cardinality(S)
<1> DEFINE plan == PlanAllocation(view)
           total == TotalAdjusted(view)
           share == [s \in S |-> plan[s].share]
           weight == AdjustedOf(view)
<1>1. IsFiniteSet(S) /\ total \in Positive /\ DOMAIN view = S
  BY PlanFacts DEF Positive
<1>2. Whole \in Nat
  BY SMT DEF Whole
<1>3. total = SumFunctionOnSet(weight, S)
  BY <1>1 DEF TotalAdjusted
<1>4. ASSUME NEW s \in S
      PROVE  /\ weight[s] \in Nat /\ share[s] \in Int
             /\ 2 * (Whole * weight[s]) - total <= 2 * (total * share[s])
             /\ 2 * (total * share[s]) <= 2 * (Whole * weight[s]) + total
  <2>1. weight[s] = Adjusted(view[s])
    BY <1>1, <1>4 DEF AdjustedOf
  <2>2. /\ weight[s] \in Nat
        /\ share[s] = RoundEven(Whole * weight[s], total)
    BY <1>4, <2>1, PlanFacts
  <2> HIDE DEF weight, share, total
  <2>3. Whole * weight[s] \in Int
    BY <1>2, <2>2
  <2> QED BY <1>1, <2>2, <2>3, RoundEvenIsClose
<1> HIDE DEF total, share, weight
<1>5. 2 * (SumFunctionOnSet(share, S) - Whole) \in -Cardinality(S) .. Cardinality(S)
  BY <1>1, <1>2, <1>3, <1>4, RoundedSharesAddUp
<1> QED BY <1>5 DEF share

LEMMA SharesFollowSignals ==
  ASSUME NEW S \in SUBSET AllocationSources, NEW view \in [S -> Views],
         NEW s \in S, NEW r \in S, NoWorse(view[s], view[r])
  PROVE  PlanAllocation(view)[s].share >= PlanAllocation(view)[r].share
<1> DEFINE total == TotalAdjusted(view)
           a == Adjusted(view[s])  b == Adjusted(view[r])
           p == PlanAllocation(view)[s].share  q == PlanAllocation(view)[r].share
<1>1. /\ total \in Nat /\ a \in Nat /\ b \in Nat
      /\ p = IF total = 0 THEN 0 ELSE RoundEven(Whole * a, total)
      /\ q = IF total = 0 THEN 0 ELSE RoundEven(Whole * b, total)
  BY PlanFacts
<1>2. b <= a /\ Whole \in Nat
  BY AdjustedFollowsSignals, SMT DEF Whole
<1> HIDE DEF total, a, b, p, q
<1>3. ASSUME total = 0 PROVE p >= q
  BY <1>1, <1>3
<1>4. ASSUME total # 0 PROVE p >= q
  <2>1. Whole * b \in Int /\ Whole * a \in Int /\ Whole * b <= Whole * a
    BY <1>1, <1>2, ProductsKeepOrder
  <2>2. RoundEven(Whole * b, total) <= RoundEven(Whole * a, total)
    BY <1>1, <1>4, <2>1, RoundEvenIsMonotone DEF Positive
  <2>3. RoundEven(Whole * b, total) \in Int /\ RoundEven(Whole * a, total) \in Int
    BY <1>1, <1>4, <2>1, RoundEvenIsClose DEF Positive
  <2> QED BY <1>1, <1>4, <2>2, <2>3
<1>5. p >= q
  BY <1>3, <1>4
<1> QED BY <1>5 DEF p, q

LEMMA PlanInvInit == AllocationInit => PlanInv
<1> SUFFICES ASSUME AllocationInit PROVE PlanInv
  OBVIOUS
<1>1. aview \in [{} -> Views] /\ {} \in SUBSET AllocationSources /\ DOMAIN aview = {}
  BY DEF AllocationInit
<1>2. DOMAIN PlanAllocation(aview) = {}
  BY <1>1 DEF PlanAllocation
<1>3. PlanAllocation(aview) = << >>
  BY <1>1 DEF PlanAllocation
<1> QED BY <1>1, <1>3 DEF PlanInv, AllocationInit

LEMMA PlanInvStep == PlanInv /\ [AllocationNext]_allocationVars => PlanInv'
<1> SUFFICES ASSUME PlanInv, [AllocationNext]_allocationVars PROVE PlanInv'
  OBVIOUS
<1>1. CASE AllocateAttention
  BY <1>1 DEF AllocateAttention, PlanInv
<1>2. CASE ForgetAllocation
  <2>1. AllocationInit'
    BY <1>2 DEF ForgetAllocation, AllocationInit
  <2> QED BY <2>1, PlanInvInit, PTL
<1>3. CASE UNCHANGED allocationVars
  BY <1>3 DEF allocationVars, PlanInv
<1> QED BY <1>1, <1>2, <1>3 DEF AllocationNext

\* The allocation of attention inverts no order of the signals, and the shares
\* add up but for their rounding (source_allocation.py:204, 434).
THEOREM AttentionIsFair == AllocationSpec => []AttentionFollowsSignals
<1>1. ASSUME PlanInv PROVE AttentionFollowsSignals
  <2>1. PICK S \in SUBSET AllocationSources : aview \in [S -> Views]
    BY <1>1 DEF PlanInv
  <2>2. aplan = PlanAllocation(aview) /\ DOMAIN aview = S /\ DOMAIN aplan = S
    BY <1>1, <2>1, PlanFacts DEF PlanInv
  <2>3. \A s, t \in DOMAIN aview :
          NoWorse(aview[s], aview[t]) => aplan[s].share >= aplan[t].share
    BY <2>1, <2>2, SharesFollowSignals
  <2> DEFINE share == [s \in S |-> aplan[s].share]
             sum == SumFunctionOnSet(share, S)
  <2>4. SumFunction([s \in DOMAIN aplan |-> aplan[s].share]) = sum
    BY <2>2 DEF SumFunction
  <2>5. CASE TotalAdjusted(aview) = 0
    <3>1. \A s \in S : share[s] = 0
      BY <2>1, <2>2, <2>5, PlanFacts
    <3>2. IsFiniteSet(S) /\ 0 \in Int
      BY <2>1, PlanFacts
    <3> HIDE DEF share
    <3>3. sum = Cardinality(S) * 0 /\ Cardinality(S) \in Nat
      BY <3>1, <3>2, SumOfConstant, FS_CardinalityType
    <3>4. sum = 0
      BY <3>3
    <3> QED BY <2>3, <2>4, <3>4 DEF AttentionFollowsSignals
  <2>6. CASE TotalAdjusted(aview) # 0
    <3>1. 2 * (sum - Whole) \in -Cardinality(S) .. Cardinality(S)
      BY <2>1, <2>2, <2>6, SharesAreClose
    <3> HIDE DEF sum
    <3> QED BY <2>2, <2>3, <2>4, <3>1, SMT DEF AttentionFollowsSignals, Whole
  <2> QED BY <2>5, <2>6
<1> QED BY <1>1, PlanInvInit, PlanInvStep, PTL DEF AllocationSpec

------------------------------------------------------------------------------
(* ------------------------------- schedules ------------------------------- *)

\* What the loops are given: finitely many tasks, each with a positive reward
\* and some slots.
PaidTasks(tasks, I) ==
  /\ IsFiniteSet(I)
  /\ \A i \in I : tasks[i].reward \in Positive /\ tasks[i].slots \in Nat

Gross(tasks, I, x) == SumFunctionOnSet([i \in I |-> tasks[i].reward * x[i]], I)
Actions(I, x) == SumFunctionOnSet(x, I)

\* How the loops leave the tasks D: all slots are used, or those of every task
\* that pays more than k and none of one that pays less.
Filled(tasks, D, x) == \A i \in D : x[i] = tasks[i].slots
Cut(tasks, D, x, k) ==
  /\ k \in D
  /\ \A i \in D : /\ tasks[i].reward > tasks[k].reward => x[i] = tasks[i].slots
                  /\ tasks[i].reward < tasks[k].reward => x[i] = 0

LEMMA SchedulesAre ==
  ASSUME NEW tasks, NEW I, PaidTasks(tasks, I)
  PROVE  \A x : x \in Schedules(tasks, I) <=>
           x \in [I -> Nat] /\ \A i \in I : x[i] <= tasks[i].slots
<1> DEFINE U == UNION {0 .. tasks[i].slots : i \in I}
<1>1. Schedules(tasks, I) = {x \in [I -> U] : \A i \in I : x[i] <= tasks[i].slots}
  BY DEF Schedules
<1>2. U \subseteq Nat
  BY DEF PaidTasks
<1>3. \A i \in I : \A n \in Nat : n <= tasks[i].slots => n \in U
  BY DEF PaidTasks
<1> HIDE DEF U
<1> QED BY <1>1, <1>2, <1>3

LEMMA SumsOfSchedule ==
  ASSUME NEW tasks, NEW I, PaidTasks(tasks, I), NEW x \in Schedules(tasks, I)
  PROVE  /\ x \in [I -> Nat] /\ DOMAIN x = I
         /\ Gross(tasks, I, x) \in Nat /\ Actions(I, x) \in Nat
         /\ ScheduleGross(tasks, x) = Gross(tasks, I, x)
         /\ ScheduleActions(x) = Actions(I, x)
<1> DEFINE pay == [i \in I |-> tasks[i].reward * x[i]]
<1>1. x \in [I -> Nat] /\ DOMAIN x = I /\ IsFiniteSet(I)
  BY SchedulesAre DEF PaidTasks
<1>2. \A i \in I : pay[i] \in Nat
  <2> SUFFICES ASSUME NEW i \in I PROVE pay[i] \in Nat
    OBVIOUS
  <2>1. tasks[i].reward \in Nat /\ x[i] \in Nat
    BY <1>1 DEF PaidTasks, Positive
  <2>2. tasks[i].reward * x[i] \in Nat
    BY <2>1
  <2> QED BY <2>2
<1>3. DOMAIN pay = I
  OBVIOUS
<1>4. ScheduleGross(tasks, x) = Gross(tasks, I, x)
  BY <1>1 DEF ScheduleGross, Gross, SumFunction
<1>5. ScheduleActions(x) = Actions(I, x)
  BY <1>1 DEF ScheduleActions, Actions, SumFunction
<1>6. Actions(I, x) \in Nat
  BY <1>1, SumBoundsMembers DEF Actions
<1>7. Gross(tasks, I, x) \in Nat
  <2>1. SumFunctionOnSet(pay, I) \in Nat
    <3> HIDE DEF pay
    <3> QED BY <1>1, <1>2, SumBoundsMembers
  <2> QED BY <2>1 DEF Gross
<1> QED BY <1>1, <1>4, <1>5, <1>6, <1>7

LEMMA FilledIsMost ==
  ASSUME NEW tasks, NEW I, PaidTasks(tasks, I), NEW x \in Schedules(tasks, I),
         NEW s \in Schedules(tasks, I), Filled(tasks, I, x)
  PROVE  /\ Gross(tasks, I, s) <= Gross(tasks, I, x)
         /\ Actions(I, s) <= Actions(I, x)
<1> DEFINE pay == [i \in I |-> tasks[i].reward * x[i]]
           get == [i \in I |-> tasks[i].reward * s[i]]
<1>1. IsFiniteSet(I) /\ 1 \in Int
  BY DEF PaidTasks
<1>2. \A i \in I : /\ tasks[i].reward \in Nat /\ x[i] \in Nat /\ s[i] \in Nat
                   /\ s[i] <= x[i]
  BY SchedulesAre DEF PaidTasks, Filled, Positive
<1>3. \A i \in I : pay[i] \in Int /\ get[i] \in Int /\ 1 * get[i] <= 1 * pay[i]
  <2> SUFFICES ASSUME NEW i \in I
               PROVE  pay[i] \in Int /\ get[i] \in Int /\ 1 * get[i] <= 1 * pay[i]
    OBVIOUS
  <2> DEFINE r == tasks[i].reward
  <2>1. r \in Nat /\ x[i] \in Int /\ s[i] \in Int /\ s[i] <= x[i]
    BY <1>2
  <2>2. pay[i] = r * x[i] /\ get[i] = r * s[i]
    OBVIOUS
  <2> HIDE DEF r, pay, get
  <2>3. r * s[i] <= r * x[i] /\ r * s[i] \in Int /\ r * x[i] \in Int
    BY <2>1, ProductsKeepOrder
  <2> QED BY <2>2, <2>3
<1>4. \A i \in I : x[i] \in Int /\ s[i] \in Int /\ 1 * s[i] <= 1 * x[i]
  BY <1>2
<1>5. 1 * SumFunctionOnSet(get, I) <= 1 * SumFunctionOnSet(pay, I)
  <2> HIDE DEF pay, get
  <2> QED BY <1>1, <1>3, SumsCompare
<1>6. 1 * SumFunctionOnSet(s, I) <= 1 * SumFunctionOnSet(x, I)
  BY <1>1, <1>4, SumsCompare
<1>7. /\ Gross(tasks, I, s) \in Nat /\ Gross(tasks, I, x) \in Nat
      /\ Actions(I, s) \in Nat /\ Actions(I, x) \in Nat
  BY SumsOfSchedule
<1>8. 1 * Gross(tasks, I, s) <= 1 * Gross(tasks, I, x)
  BY <1>5 DEF Gross
<1>9. 1 * Actions(I, s) <= 1 * Actions(I, x)
  BY <1>6 DEF Actions
<1> QED BY <1>7, <1>8, <1>9

\* What another schedule does more of pays at most the reward of the cut, and
\* what it does less of at least that.
LEMMA CutIsBest ==
  ASSUME NEW tasks, NEW I, PaidTasks(tasks, I), NEW x \in Schedules(tasks, I),
         NEW s \in Schedules(tasks, I), NEW k, Cut(tasks, I, x, k)
  PROVE  Gross(tasks, I, s) + tasks[k].reward * Actions(I, x)
         <= Gross(tasks, I, x) + tasks[k].reward * Actions(I, s)
<1> DEFINE pay == [i \in I |-> tasks[i].reward * x[i]]
           get == [i \in I |-> tasks[i].reward * s[i]]
           p == tasks[k].reward
           low == [i \in I |-> 1 * get[i] + p * x[i]]
           high == [i \in I |-> 1 * pay[i] + p * s[i]]
<1>1. IsFiniteSet(I) /\ 1 \in Int /\ p \in Int
  BY DEF PaidTasks, Cut, Positive
<1>2. ASSUME NEW i \in I
      PROVE  /\ x[i] \in Int /\ s[i] \in Int /\ pay[i] \in Int /\ get[i] \in Int
             /\ low[i] = 1 * get[i] + p * x[i] /\ high[i] = 1 * pay[i] + p * s[i]
             /\ low[i] \in Int /\ high[i] \in Int /\ 1 * low[i] <= 1 * high[i]
  <2> DEFINE r == tasks[i].reward  a == x[i]  b == s[i]  m == tasks[i].slots
  <2>1. /\ r \in Nat /\ p \in Nat /\ a \in Nat /\ b \in Nat /\ m \in Nat
        /\ a <= m /\ b <= m /\ (r > p => a = m) /\ (r < p => a = 0)
    BY <1>2, SchedulesAre DEF PaidTasks, Cut, Positive
  <2>2. /\ pay[i] = r * a /\ get[i] = r * b
        /\ low[i] = 1 * get[i] + p * a /\ high[i] = 1 * pay[i] + p * b
    BY <1>2
  <2> HIDE DEF r, a, b, m, p, pay, get, low, high
  <2>3. r * a \in Int /\ r * b \in Int /\ p * a \in Int /\ p * b \in Int
    BY <2>1
  <2>4. r * b + p * a <= r * a + p * b
    <3>1. CASE r > p
      <4>1. r - p \in Nat /\ b <= a
        BY <2>1, <3>1
      <4>2. (r - p) * b <= (r - p) * a
        BY <2>1, <4>1, ProductsKeepOrder
      <4>3. (r - p) * b = r * b - p * b /\ (r - p) * a = r * a - p * a
        BY <2>1
      <4> QED BY <2>3, <4>2, <4>3
    <3>2. CASE r < p
      <4>1. p - r \in Nat /\ a <= b
        BY <2>1, <3>2
      <4>2. (p - r) * a <= (p - r) * b
        BY <2>1, <4>1, ProductsKeepOrder
      <4>3. (p - r) * b = p * b - r * b /\ (p - r) * a = p * a - r * a
        BY <2>1
      <4> QED BY <2>3, <4>2, <4>3
    <3>3. CASE r = p
      BY <2>3, <3>3
    <3> QED BY <2>1, <3>1, <3>2, <3>3
  <2>5. low[i] = r * b + p * a /\ high[i] = r * a + p * b
    BY <2>2, <2>3
  <2>6. x[i] \in Int /\ s[i] \in Int
    BY <2>1 DEF a, b
  <2>7. 1 * low[i] <= 1 * high[i] /\ low[i] \in Int /\ high[i] \in Int
    BY <2>3, <2>4, <2>5
  <2> QED BY <2>2, <2>3, <2>6, <2>7 DEF a, b
<1>3. IsMix(low, I, 1, get, p, x) /\ IsMix(high, I, 1, pay, p, s)
  <2> HIDE DEF pay, get, low, high, p
  <2> QED BY <1>2 DEF IsMix
<1>4. /\ SumFunctionOnSet(low, I) = 1 * SumFunctionOnSet(get, I) + p * SumFunctionOnSet(x, I)
      /\ SumFunctionOnSet(high, I) = 1 * SumFunctionOnSet(pay, I) + p * SumFunctionOnSet(s, I)
  <2> HIDE DEF pay, get, low, high, p
  <2> QED BY <1>1, <1>3, SumOfBoth
<1>5. 1 * SumFunctionOnSet(low, I) <= 1 * SumFunctionOnSet(high, I)
  <2>1. \A i \in I : low[i] \in Int /\ high[i] \in Int /\ 1 * low[i] <= 1 * high[i]
    BY <1>2
  <2> HIDE DEF low, high
  <2> QED BY <1>1, <2>1, SumsCompare
<1>6. /\ Gross(tasks, I, s) = SumFunctionOnSet(get, I)
      /\ Gross(tasks, I, x) = SumFunctionOnSet(pay, I)
      /\ Actions(I, s) = SumFunctionOnSet(s, I) /\ Actions(I, x) = SumFunctionOnSet(x, I)
  BY DEF Gross, Actions
<1>7. /\ Gross(tasks, I, s) \in Int /\ Gross(tasks, I, x) \in Int
      /\ Actions(I, s) \in Int /\ Actions(I, x) \in Int
  BY SumsOfSchedule
<1> DEFINE gs == Gross(tasks, I, s)  gx == Gross(tasks, I, x)
           as == Actions(I, s)  ax == Actions(I, x)
<1>8. gs \in Int /\ gx \in Int /\ as \in Int /\ ax \in Int
  BY <1>7
<1> DEFINE u == p * ax  v == p * as
<1>9. 1 * (1 * gs + u) <= 1 * (1 * gx + v)
  <2> HIDE DEF pay, get, low, high, p
  <2>1. SumFunctionOnSet(low, I) = 1 * gs + u
    BY <1>4, <1>6
  <2>2. SumFunctionOnSet(high, I) = 1 * gx + v
    BY <1>4, <1>6
  <2> HIDE DEF u, v, gs, gx
  <2> QED BY <1>5, <2>1, <2>2
<1> HIDE DEF gs, gx, as, ax, p
<1>10. u \in Int /\ v \in Int
  BY <1>1, <1>8
<1> HIDE DEF u, v
<1>11. gs + u <= gx + v
  BY <1>8, <1>9, <1>10
<1> QED BY <1>11 DEF gs, gx, as, ax, p, u, v

LEMMA Exchange ==
  ASSUME NEW a \in Nat, NEW b \in Nat, NEW m \in Nat, NEW n \in Nat, NEW p \in Nat,
         a + p * n <= b + p * m
  PROVE  (m <= n => a <= b) /\ (m < n => a <= b - p)
<1> DEFINE u == p * m  v == p * n
<1>1. u \in Int /\ v \in Int /\ a + v <= b + u
  OBVIOUS
<1>2. m <= n => u <= v
  BY ProductsKeepOrder
<1>3. m + 1 <= n => u + p <= v
  <2>1. m + 1 <= n => p * (m + 1) <= v
    BY ProductsKeepOrder
  <2>2. p * (m + 1) = u + p
    OBVIOUS
  <2> HIDE DEF u, v
  <2> QED BY <1>1, <2>1, <2>2
<1> HIDE DEF u, v
<1> QED BY ONLY <1>1, <1>2, <1>3, a \in Nat, b \in Nat, m \in Nat, n \in Nat, p \in Nat

LEMMA CutBounds ==
  ASSUME NEW tasks, NEW I, PaidTasks(tasks, I), NEW x \in Schedules(tasks, I),
         NEW s \in Schedules(tasks, I), NEW k, Cut(tasks, I, x, k)
  PROVE  /\ Actions(I, s) <= Actions(I, x) => Gross(tasks, I, s) <= Gross(tasks, I, x)
         /\ Actions(I, s) < Actions(I, x) =>
              Gross(tasks, I, s) <= Gross(tasks, I, x) - tasks[k].reward
<1> DEFINE gs == Gross(tasks, I, s)  gx == Gross(tasks, I, x)
           as == Actions(I, s)  ax == Actions(I, x)  p == tasks[k].reward
<1>1. gs \in Nat /\ gx \in Nat /\ as \in Nat /\ ax \in Nat
  BY SumsOfSchedule
<1>2. p \in Nat
  BY DEF PaidTasks, Cut, Positive
<1>3. gs + p * ax <= gx + p * as
  BY CutIsBest
<1> HIDE DEF gs, gx, as, ax, p
<1>4. (as <= ax => gs <= gx) /\ (as < ax => gs <= gx - p)
  BY <1>1, <1>2, <1>3, Exchange
<1> QED BY <1>4 DEF gs, gx, as, ax, p

LEMMA AddingTask ==
  ASSUME NEW tasks, NEW I, PaidTasks(tasks, I), NEW x \in Schedules(tasks, I),
         NEW i \in I, x[i] = 0, NEW used \in Nat, used <= tasks[i].slots
  PROVE  LET y == [x EXCEPT ![i] = used]
         IN /\ y \in Schedules(tasks, I)
            /\ y[i] = used /\ \A j \in I \ {i} : y[j] = x[j]
            /\ Gross(tasks, I, y) = Gross(tasks, I, x) + tasks[i].reward * used
            /\ Actions(I, y) = Actions(I, x) + used
<1> DEFINE y == [x EXCEPT ![i] = used]
           pay == [j \in I |-> tasks[j].reward * x[j]]
           get == [j \in I |-> tasks[j].reward * y[j]]
<1>1. x \in [I -> Nat] /\ \A j \in I : x[j] <= tasks[j].slots
  BY SchedulesAre
<1>2. y \in [I -> Nat] /\ y[i] = used /\ \A j \in I \ {i} : y[j] = x[j]
  BY <1>1
<1>3. y \in Schedules(tasks, I)
  BY <1>1, <1>2, SchedulesAre
<1> HIDE DEF y
<1>4. IsFiniteSet(I)
  BY DEF PaidTasks
<1>5. Actions(I, y) = Actions(I, x) + used
  <2>1. \A j \in I : x[j] \in Int /\ y[j] \in Int
    BY <1>1, <1>2
  <2>2. \A j \in I \ {i} : x[j] = y[j]
    BY <1>2
  <2>3. /\ SumFunctionOnSet(x, I) \in Int
        /\ SumFunctionOnSet(y, I) = SumFunctionOnSet(x, I) + (y[i] - x[i])
    BY ONLY <1>4, <2>1, <2>2, i \in I, SumOfUpdate
  <2> QED BY <1>2, <2>3 DEF Actions
<1>6. Gross(tasks, I, y) = Gross(tasks, I, x) + tasks[i].reward * used
  <2>1. \A j \in I : pay[j] \in Int /\ get[j] \in Int
    <3> SUFFICES ASSUME NEW j \in I PROVE pay[j] \in Int /\ get[j] \in Int
      OBVIOUS
    <3>1. tasks[j].reward \in Int /\ x[j] \in Int /\ y[j] \in Int
      BY <1>1, <1>2 DEF PaidTasks, Positive
    <3>2. tasks[j].reward * x[j] \in Int /\ tasks[j].reward * y[j] \in Int
      BY <3>1
    <3> QED BY <3>2
  <2>2. \A j \in I \ {i} : pay[j] = get[j]
    BY <1>2
  <2>3. pay[i] = 0 /\ get[i] = tasks[i].reward * used
    <3>1. tasks[i].reward \in Int
      BY DEF PaidTasks, Positive
    <3>2. tasks[i].reward * 0 = 0
      BY <3>1
    <3> QED BY <1>2, <3>2
  <2>4. tasks[i].reward * used \in Int
    <3>1. tasks[i].reward \in Int
      BY DEF PaidTasks, Positive
    <3> QED BY <3>1
  <2> HIDE DEF pay, get
  <2>5. /\ SumFunctionOnSet(pay, I) \in Int
        /\ SumFunctionOnSet(get, I) = SumFunctionOnSet(pay, I) + (get[i] - pay[i])
    BY <1>4, <2>1, <2>2, SumOfUpdate
  <2>6. SumFunctionOnSet(get, I) = SumFunctionOnSet(pay, I) + tasks[i].reward * used
    BY <2>3, <2>4, <2>5
  <2> QED BY <2>6 DEF pay, get, Gross
<1> QED BY <1>2, <1>3, <1>5, <1>6 DEF y

\* Why a loop takes no more: it has reached need, with the last action, or
\* used up the cap.
Stopped(tasks, I, x, k, need, cap) ==
  \/ Gross(tasks, I, x) >= need /\ Gross(tasks, I, x) - tasks[k].reward < need
  \/ Gross(tasks, I, x) < need /\ cap # NotStated /\ Actions(I, x) = cap

\* The schedule of a loop that has taken the tasks D.
Greedy(tasks, I, D, x, need, cap) ==
  /\ x \in Schedules(tasks, I) /\ \A i \in I \ D : x[i] = 0
  /\ Within(Actions(I, x), cap)
  /\ \/ Filled(tasks, D, x) /\ Gross(tasks, I, x) < need
     \/ \E k \in D : Cut(tasks, D, x, k) /\ Stopped(tasks, I, x, k, need, cap)

\* How often a loop takes a task: as often as it can, but no more than needed.
Takes(tasks, I, x, i, used, need, cap) ==
  /\ used \in Nat /\ used <= tasks[i].slots
  /\ Within(Actions(I, x) + used, cap)
  /\ Gross(tasks, I, x) >= need => used = 0
  /\ Gross(tasks, I, x) < need =>
       /\ used = 0 \/ Gross(tasks, I, x) + tasks[i].reward * used
                      - tasks[i].reward < need
       /\ \/ used = tasks[i].slots
          \/ cap # NotStated /\ Actions(I, x) + used = cap
          \/ Gross(tasks, I, x) + tasks[i].reward * used >= need

LEMMA GreedyStep ==
  ASSUME NEW tasks, NEW I, PaidTasks(tasks, I), NEW need \in Int,
         NEW cap \in Nat \cup {NotStated},
         NEW D \in SUBSET I, NEW i \in I \ D,
         \A j \in D : tasks[i].reward <= tasks[j].reward,
         NEW x, Greedy(tasks, I, D, x, need, cap),
         NEW used, Takes(tasks, I, x, i, used, need, cap)
  PROVE  Greedy(tasks, I, D \cup {i}, [x EXCEPT ![i] = used], need, cap)
<1> DEFINE y == [x EXCEPT ![i] = used]
           E == D \cup {i}
           gx == Gross(tasks, I, x)  gy == Gross(tasks, I, y)
           ax == Actions(I, x)  ay == Actions(I, y)  r == tasks[i].reward
<1>1. x \in Schedules(tasks, I) /\ x[i] = 0 /\ used \in Nat /\ used <= tasks[i].slots
  BY DEF Greedy, Takes
<1>2. /\ y \in Schedules(tasks, I) /\ y[i] = used /\ \A j \in I \ {i} : y[j] = x[j]
      /\ gy = gx + r * used /\ ay = ax + used
  BY <1>1, AddingTask
<1>3. gx \in Nat /\ ax \in Nat /\ gy \in Nat /\ ay \in Nat /\ r \in Nat /\ i \in E
  BY <1>1, <1>2, SumsOfSchedule DEF PaidTasks, Positive
<1>4. Within(ay, cap) /\ \A j \in I \ E : y[j] = 0
  BY <1>2 DEF Takes, Greedy
<1>5. ASSUME NEW k, Cut(tasks, D, x, k), used = 0 PROVE Cut(tasks, E, y, k)
  <2>1. /\ k \in D /\ tasks[i].reward <= tasks[k].reward
        /\ tasks[i].reward \in Int /\ tasks[k].reward \in Int
    BY <1>5 DEF Cut, PaidTasks, Positive
  <2> QED BY <1>2, <1>5, <2>1 DEF Cut
<1>6. ASSUME Filled(tasks, D, x) PROVE Cut(tasks, E, y, i)
  <2>1. \A j \in D : /\ y[j] = tasks[j].slots /\ tasks[i].reward <= tasks[j].reward
                     /\ tasks[i].reward \in Int /\ tasks[j].reward \in Int
    BY <1>2, <1>6 DEF Filled, PaidTasks, Positive
  <2> QED BY <1>3, <2>1 DEF Cut
<1>7. Filled(tasks, D, x) /\ used = tasks[i].slots => Filled(tasks, E, y)
  BY <1>2 DEF Filled
<1>8. \/ Filled(tasks, E, y) /\ gy < need
      \/ \E k \in E : Cut(tasks, E, y, k) /\ Stopped(tasks, I, y, k, need, cap)
  <2>1. CASE gx >= need
    <3>1. used = 0
      BY <2>1 DEF Takes
    <3>2. gy = gx /\ ay = ax
      <4> HIDE DEF gx, gy, ax, ay, r
      <4> QED BY <1>2, <1>3, <3>1
    <3>3. PICK k \in D : Cut(tasks, D, x, k) /\ Stopped(tasks, I, x, k, need, cap)
      BY <1>3, <2>1 DEF Greedy
    <3>4. Stopped(tasks, I, y, k, need, cap)
      BY <3>2, <3>3 DEF Stopped
    <3> QED BY <1>5, <3>1, <3>3, <3>4
  <2>2. CASE gx < need /\ Filled(tasks, D, x)
    <3>1. CASE gy >= need
      <4>1. used # 0
        <5> HIDE DEF gx, gy, r
        <5> QED BY <1>2, <1>3, <2>2, <3>1
      <4>2. gx + r * used - r < need
        BY <2>2, <4>1 DEF Takes
      <4>3. gy - r < need
        <5> DEFINE t == r * used
        <5>1. gy = gx + t /\ gx + t - r < need
          BY <1>2, <4>2
        <5>2. t \in Int /\ gx \in Int /\ r \in Int
          BY <1>1, <1>3
        <5> HIDE DEF gx, gy, r, t
        <5> QED BY <5>1, <5>2
      <4>4. Stopped(tasks, I, y, i, need, cap)
        BY <3>1, <4>3 DEF Stopped
      <4> QED BY <1>3, <1>6, <2>2, <4>4
    <3>2. CASE gy < need
      <4>1. used = tasks[i].slots \/ (cap # NotStated /\ ay = cap)
        <5>1. ~(gx + r * used >= need)
          BY <1>2, <1>3, <3>2
        <5> QED BY <1>2, <2>2, <5>1 DEF Takes
      <4>2. CASE used = tasks[i].slots
        BY <1>7, <2>2, <3>2, <4>2
      <4>3. CASE cap # NotStated /\ ay = cap
        <5>1. Stopped(tasks, I, y, i, need, cap)
          BY <3>2, <4>3 DEF Stopped
        <5> QED BY <1>3, <1>6, <2>2, <5>1
      <4> QED BY <4>1, <4>2, <4>3
    <3>3. gy >= need \/ gy < need
      BY <1>3
    <3> QED BY <3>1, <3>2, <3>3
  <2>3. CASE gx < need /\ ~Filled(tasks, D, x)
    <3>1. PICK k \in D : Cut(tasks, D, x, k) /\ Stopped(tasks, I, x, k, need, cap)
      BY <2>3 DEF Greedy
    <3>2. cap # NotStated /\ ax = cap
      BY <1>3, <2>3, <3>1 DEF Stopped
    <3>3. ax + used <= cap
      BY <3>2 DEF Takes, Within
    <3>4. used = 0
      <4> HIDE DEF ax
      <4> QED BY <1>1, <1>3, <3>2, <3>3
    <3>5. gy = gx /\ ay = ax
      <4> HIDE DEF gx, gy, ax, ay, r
      <4> QED BY <1>2, <1>3, <3>4
    <3>6. Stopped(tasks, I, y, k, need, cap)
      BY <3>1, <3>5 DEF Stopped
    <3> QED BY <1>5, <3>1, <3>4, <3>6
  <2>4. gx >= need \/ gx < need
    BY <1>3
  <2> QED BY <2>1, <2>2, <2>3, <2>4
<1> QED BY <1>2, <1>4, <1>8 DEF Greedy

LEMMA GreedyStart ==
  ASSUME NEW tasks, NEW I, PaidTasks(tasks, I), NEW need \in Positive,
         NEW cap \in Nat \cup {NotStated}
  PROVE  LET x == [i \in I |-> 0]
         IN /\ Greedy(tasks, I, {}, x, need, cap)
            /\ Gross(tasks, I, x) = 0 /\ Actions(I, x) = 0
<1> DEFINE x == [i \in I |-> 0]
           pay == [i \in I |-> tasks[i].reward * x[i]]
<1>1. IsFiniteSet(I) /\ 0 \in Int /\ Cardinality(I) \in Nat
  BY FS_CardinalityType DEF PaidTasks
<1>2. x \in Schedules(tasks, I)
  <2>1. x \in [I -> Nat] /\ \A i \in I : x[i] <= tasks[i].slots
    BY DEF PaidTasks
  <2> HIDE DEF x
  <2> QED BY <2>1, SchedulesAre
<1>3. \A i \in I : x[i] = 0 /\ pay[i] = 0
  <2>1. \A i \in I : tasks[i].reward \in Int
    BY DEF PaidTasks, Positive
  <2> QED BY <2>1
<1> HIDE DEF x
<1>4. Actions(I, x) = 0
  <2>1. SumFunctionOnSet(x, I) = Cardinality(I) * 0
    BY <1>1, <1>3, SumOfConstant
  <2> QED BY <1>1, <2>1 DEF Actions
<1>5. Gross(tasks, I, x) = 0
  <2>1. SumFunctionOnSet(pay, I) = Cardinality(I) * 0
    <3> HIDE DEF pay
    <3> QED BY <1>1, <1>3, SumOfConstant
  <2> QED BY <1>1, <2>1 DEF Gross
<1>6. Within(Actions(I, x), cap) /\ Filled(tasks, {}, x) /\ Gross(tasks, I, x) < need
  BY <1>4, <1>5 DEF Within, Filled, Positive
<1> QED BY <1>2, <1>3, <1>4, <1>5, <1>6 DEF Greedy, x

LEMMA GreedyOutcome ==
  ASSUME NEW tasks, NEW I, PaidTasks(tasks, I), NEW need \in Int,
         NEW cap \in Nat \cup {NotStated}, NEW x, Greedy(tasks, I, I, x, need, cap),
         NEW s \in Schedules(tasks, I)
  PROVE  /\ Gross(tasks, I, x) >= need /\ Gross(tasks, I, s) >= need =>
              Actions(I, s) >= Actions(I, x)
         /\ Gross(tasks, I, x) < need /\ Within(Actions(I, s), cap) =>
              Gross(tasks, I, s) <= Gross(tasks, I, x)
<1>1. x \in Schedules(tasks, I)
  BY DEF Greedy
<1>2. /\ Gross(tasks, I, x) \in Nat /\ Gross(tasks, I, s) \in Nat
      /\ Actions(I, x) \in Nat /\ Actions(I, s) \in Nat
  BY <1>1, SumsOfSchedule
<1>3. CASE Filled(tasks, I, x) /\ Gross(tasks, I, x) < need
  BY <1>1, <1>2, <1>3, FilledIsMost
<1>4. CASE \E k \in I : Cut(tasks, I, x, k) /\ Stopped(tasks, I, x, k, need, cap)
  <2>1. PICK k \in I : Cut(tasks, I, x, k) /\ Stopped(tasks, I, x, k, need, cap)
    BY <1>4
  <2>2. tasks[k].reward \in Nat
    BY DEF PaidTasks, Positive
  <2>3. /\ Actions(I, s) <= Actions(I, x) => Gross(tasks, I, s) <= Gross(tasks, I, x)
        /\ Actions(I, s) < Actions(I, x) =>
             Gross(tasks, I, s) <= Gross(tasks, I, x) - tasks[k].reward
    BY <1>1, <2>1, CutBounds
  <2>4. ASSUME Gross(tasks, I, x) >= need, Gross(tasks, I, s) >= need
        PROVE  Actions(I, s) >= Actions(I, x)
    <3>1. Gross(tasks, I, x) - tasks[k].reward < need
      BY <1>2, <2>1, <2>4 DEF Stopped
    <3> QED BY <1>2, <2>2, <2>3, <2>4, <3>1
  <2>5. ASSUME Gross(tasks, I, x) < need, Within(Actions(I, s), cap)
        PROVE  Gross(tasks, I, s) <= Gross(tasks, I, x)
    <3>1. cap # NotStated /\ Actions(I, x) = cap
      BY <1>2, <2>1, <2>5 DEF Stopped
    <3>2. Actions(I, s) <= Actions(I, x)
      BY <2>5, <3>1 DEF Within
    <3> QED BY <2>3, <3>2
  <2> QED BY <2>4, <2>5
<1> QED BY <1>3, <1>4 DEF Greedy

LEMMA CeilDivFacts ==
  ASSUME NEW a \in Positive, NEW r \in Positive
  PROVE  /\ CeilDiv(a, r) \in Nat
         /\ r * CeilDiv(a, r) >= a /\ r * CeilDiv(a, r) - r < a
<1> DEFINE n == a + r - 1  q == n \div r  m == n % r
<1>1. a \in Nat /\ r \in Nat /\ a > 0 /\ r > 0 /\ n \in Nat
  BY DEF Positive
<1>2. q \in Int /\ m \in 0 .. (r - 1) /\ n = r * q + m
  BY <1>1, Division
<1>3. CeilDiv(a, r) = q
  BY DEF CeilDiv
<1>4. n = a + (r - 1)
  BY <1>1
<1> HIDE DEF n, q, m
<1> DEFINE p == r * q
<1>5. p \in Int /\ n = p + m
  BY <1>1, <1>2
<1>6. q \in Nat
  <2> SUFFICES ASSUME q <= -1 PROVE FALSE
    BY <1>2
  <2>1. r * q <= r * (-1)
    BY <1>1, <1>2, ProductsKeepOrder
  <2>2. r * (-1) = -r
    BY <1>1
  <2>3. p <= -r
    BY <2>1, <2>2
  <2> HIDE DEF p
  <2> QED BY <1>1, <1>2, <1>4, <1>5, <2>3
<1>7. p >= a /\ p - r < a
  <2> HIDE DEF p
  <2> QED BY <1>1, <1>2, <1>4, <1>5
<1> QED BY <1>3, <1>6, <1>7

LEMMA LastIsLeast ==
  ASSUME NEW tasks, NEW I, PaidTasks(tasks, I), NEW D \in SUBSET I, D # {}
  PROVE  LET i == LastByReward(tasks, D)
         IN i \in D /\ \A j \in D : tasks[i].reward <= tasks[j].reward
<1> DEFINE T == {tasks[i].reward : i \in D}
<1>1. T \in SUBSET Nat /\ T # {}
  BY DEF PaidTasks, Positive
<1>2. \E m \in T : \A n \in T : m <= n
  <2> HIDE DEF T
  <2> QED BY <1>1, LeastNumber
<1>3. \E i \in D : \A j \in D : tasks[i].reward <= tasks[j].reward
  BY <1>2
<1> QED BY <1>3 DEF LastByReward

LEMMA CappedFacts ==
  ASSUME NEW n \in Nat, NEW bound \in Nat \cup {NotStated}
  PROVE  /\ Capped(n, bound) \in Nat /\ Capped(n, bound) <= n
         /\ Within(Capped(n, bound), bound)
         /\ Capped(n, bound) = n \/ (bound # NotStated /\ Capped(n, bound) = bound)
<1>1. CASE bound = NotStated
  BY <1>1 DEF Capped, Within
<1>2. CASE bound # NotStated
  <2>1. bound \in Nat
    BY <1>2
  <2>2. Min({n, bound}) \in {n, bound} /\ Min({n, bound}) <= n /\ Min({n, bound}) <= bound
    BY <2>1, MinOfTwo
  <2>3. Capped(n, bound) = Min({n, bound})
    BY <1>2 DEF Capped
  <2> HIDE DEF Capped
  <2> QED BY <1>2, <2>1, <2>2, <2>3 DEF Within
<1> QED BY <1>1, <1>2

\* What is left of a cap bounds the next task as Takes says.
LEMMA RoomFacts ==
  ASSUME NEW n \in Nat, NEW cap \in Nat \cup {NotStated}, NEW a \in Nat, Within(a, cap)
  PROVE  LET room == Capped(n, Less(cap, a))
         IN /\ Less(cap, a) \in Nat \cup {NotStated}
            /\ room \in Nat /\ room <= n /\ Within(a + room, cap)
            /\ room = n \/ (cap # NotStated /\ a + room = cap)
            /\ \A used \in Nat : used <= room =>
                 Within(a + used, cap) /\ Less(Less(cap, a), used) = Less(cap, a + used)
<1> DEFINE left == Less(cap, a)
           room == Capped(n, left)
<1>1. CASE cap = NotStated
  <2>1. left = NotStated
    BY <1>1 DEF Less
  <2>2. room = n
    BY <2>1 DEF Capped
  <2> HIDE DEF left, room
  <2>3. left \in Nat \cup {NotStated} /\ Less(left, 0) = left
    BY <2>1 DEF Less
  <2>4. \A used \in Nat : Less(left, used) = Less(cap, a + used)
    BY <1>1, <2>1 DEF Less
  <2> QED BY <1>1, <2>2, <2>3, <2>4 DEF Within, left, room
<1>2. CASE cap # NotStated
  <2>1. cap \in Nat /\ a <= cap
    BY <1>2 DEF Within
  <2>2. left = cap - a /\ left \in Nat /\ left # NotStated
    BY <1>2, <2>1, NotStatedAssumption DEF Less
  <2>3. /\ room \in Nat /\ room <= n /\ room <= left
        /\ room = n \/ room = left
    <3> HIDE DEF left
    <3> QED BY <2>2, CappedFacts DEF Within
  <2> HIDE DEF left, room
  <2>4. \A used \in Nat : used <= room =>
          Within(a + used, cap) /\ Less(left, used) = Less(cap, a + used)
    <3> SUFFICES ASSUME NEW used \in Nat, used <= room
                 PROVE  Within(a + used, cap) /\ Less(left, used) = Less(cap, a + used)
      OBVIOUS
    <3>1. a + used <= cap
      BY <2>1, <2>2, <2>3
    <3>2. Less(left, used) = left - used /\ Less(cap, a + used) = cap - (a + used)
      BY <1>2, <2>2 DEF Less
    <3>3. left - used = cap - (a + used)
      BY <2>1, <2>2
    <3> QED BY <3>1, <3>2, <3>3 DEF Within
  <2>5. Within(a + room, cap) /\ (room = n \/ a + room = cap)
    BY <2>1, <2>2, <2>3, <2>4
  <2> QED BY <1>2, <2>2, <2>3, <2>4, <2>5 DEF left, room
<1> QED BY <1>1, <1>2

PoolLeft(tasks, I, x, need) ==
  [remaining |-> need - Gross(tasks, I, x), actions |-> Actions(I, x)]

LEMMA PoolTake ==
  ASSUME NEW tasks, NEW I, PaidTasks(tasks, I), NEW need \in Int,
         NEW cap \in Nat \cup {NotStated}, NEW D \in SUBSET I, NEW i \in I \ D, NEW x,
         Greedy(tasks, I, D, x, need, cap)
  PROVE  \E used : /\ Takes(tasks, I, x, i, used, need, cap)
                   /\ TakeOfPool(PoolLeft(tasks, I, x, need), tasks[i], cap)
                      = PoolLeft(tasks, I, [x EXCEPT ![i] = used], need)
<1> DEFINE gx == Gross(tasks, I, x)  ax == Actions(I, x)
           r == tasks[i].reward  slots == tasks[i].slots
           left == PoolLeft(tasks, I, x, need)
           rest == need - gx
           room == Capped(slots, Less(cap, ax))
           ceil == CeilDiv(rest, r)
           used == IF rest <= 0 THEN 0 ELSE Min({room, ceil})
           y == [x EXCEPT ![i] = used]
<1>1. /\ x \in Schedules(tasks, I) /\ x[i] = 0 /\ Within(ax, cap)
      /\ gx \in Nat /\ ax \in Nat /\ r \in Positive /\ r \in Nat /\ slots \in Nat
  BY SumsOfSchedule DEF Greedy, PaidTasks, Positive
<1>2. left.remaining = rest /\ left.actions = ax /\ rest \in Int
  BY <1>1 DEF PoolLeft
<1>3. /\ room \in Nat /\ room <= slots
      /\ \A n \in Nat : n <= room => Within(ax + n, cap)
      /\ room = slots \/ (cap # NotStated /\ ax + room = cap)
  <2> HIDE DEF ax, slots
  <2> QED BY <1>1, RoomFacts
<1>4. /\ used \in Nat /\ used <= room
      /\ rest <= 0 => used = 0
      /\ rest > 0 => /\ r * used - r < rest
                     /\ used = room \/ r * used >= rest
  <2>1. CASE rest <= 0
    <3>1. used = 0
      BY <2>1
    <3> HIDE DEF used, rest, room, r
    <3> QED BY <1>2, <1>3, <2>1, <3>1
  <2>2. CASE rest > 0
    <3>1. rest \in Positive
      BY <1>2, <2>2 DEF Positive
    <3>2. ceil \in Nat /\ r * ceil >= rest /\ r * ceil - r < rest
      <4> HIDE DEF rest, r
      <4> QED BY <1>1, <3>1, CeilDivFacts
    <3>3. used = Min({room, ceil})
      BY <1>2, <2>2
    <3>4. used \in {room, ceil} /\ used <= room /\ used <= ceil
      <4>1. room \in Int /\ ceil \in Int
        BY <1>3, <3>2
      <4> HIDE DEF room, ceil, used
      <4> QED BY ONLY <3>3, <4>1, MinOfTwo
    <3> HIDE DEF used, rest, room, ceil, r
    <3>5. r * used <= r * ceil /\ r * used \in Int /\ r * ceil \in Int
      BY <1>1, <1>3, <3>2, <3>4, ProductsKeepOrder
    <3> DEFINE u == r * used  v == r * ceil
    <3>6. u \in Int /\ v \in Int /\ u <= v /\ v >= rest /\ v - r < rest
      BY <3>2, <3>5
    <3>7. used = room \/ u >= rest
      BY <3>2, <3>4
    <3>8. u - r < rest
      <4> HIDE DEF u, v
      <4> QED BY <1>1, <1>2, <3>6
    <3>9. used \in Nat
      BY <1>3, <3>2, <3>4
    <3>10. r * used - r < rest /\ (used = room \/ r * used >= rest)
      BY <3>7, <3>8
    <3>11. ~ (rest <= 0)
      BY <1>2, <2>2
    <3> QED BY <3>4, <3>9, <3>10, <3>11
  <2> QED BY <1>2, <2>1, <2>2
<1>5. TakeOfPool(left, tasks[i], cap)
      = [remaining |-> rest - r * used, actions |-> ax + used]
  <2>1. CASE rest <= 0
    <3>1. used = 0 /\ TakeOfPool(left, tasks[i], cap) = left
      BY <1>2, <2>1 DEF TakeOfPool
    <3>2. rest - r * 0 = rest /\ ax + 0 = ax
      BY <1>1, <1>2
    <3> QED BY <3>1, <3>2 DEF PoolLeft
  <2>2. CASE ~ (rest <= 0)
    BY <1>2, <2>2 DEF TakeOfPool
  <2> QED BY <2>1, <2>2
<1> HIDE DEF used, room, ceil, left
<1>6. Gross(tasks, I, y) = gx + r * used /\ Actions(I, y) = ax + used
  <2>1. used <= slots
    BY <1>1, <1>3, <1>4
  <2> QED BY <1>1, <1>4, <2>1, AddingTask
<1> HIDE DEF y, gx, ax, r, slots
<1> DEFINE u == r * used
<1>7. u \in Nat
  BY <1>1, <1>4
<1>8. rest - u = need - (gx + u)
  BY <1>1, <1>7
<1>9. TakeOfPool(left, tasks[i], cap) = PoolLeft(tasks, I, y, need)
  BY <1>5, <1>6, <1>8 DEF PoolLeft
<1>10. /\ used \in Nat /\ used <= slots /\ Within(ax + used, cap)
       /\ gx >= need => used = 0
       /\ gx < need =>
            /\ used = 0 \/ gx + u - r < need
            /\ used = slots \/ (cap # NotStated /\ ax + used = cap) \/ gx + u >= need
  <2>1. used <= slots /\ Within(ax + used, cap)
    BY <1>1, <1>3, <1>4
  <2>2. gx >= need => used = 0
    BY <1>1, <1>4
  <2>3. ASSUME gx < need
        PROVE  /\ gx + u - r < need
               /\ used = slots \/ (cap # NotStated /\ ax + used = cap) \/ gx + u >= need
    <3>1. u - r < rest /\ (used = room \/ u >= rest)
      BY <1>1, <1>4, <2>3
    <3> HIDE DEF u
    <3>2. gx + u - r < need /\ (u >= rest => gx + u >= need)
      BY <1>1, <1>7, <3>1
    <3> QED BY <1>3, <3>1, <3>2
  <2> QED BY <1>4, <2>1, <2>2, <2>3
<1>11. Takes(tasks, I, x, i, used, need, cap)
  BY <1>10 DEF Takes, gx, ax, r, slots
<1> QED BY <1>9, <1>11 DEF left, y

\* The loop of the settlement summary, as the library folds it.
PoolStart(need) == [remaining |-> need, actions |-> 0]
IsPoolFold(h, tasks, I, need, cap) ==
  h = [D \in SUBSET I |->
         IF D = {} THEN PoolStart(need)
         ELSE TakeOfPool(h[D \ {LastByReward(tasks, D)}],
                         tasks[LastByReward(tasks, D)], cap)]

LEMMA PoolFoldIsChosen ==
  ASSUME NEW tasks, NEW I, NEW need, NEW cap
  PROVE  LET end == (CHOOSE h : IsPoolFold(h, tasks, I, need, cap))[I]
         IN MinimumActions(tasks, I, need, cap)
            = IF end.remaining <= 0 THEN end.actions ELSE NotStated
BY DEF MinimumActions, MapThenFoldSet, IsPoolFold, PoolStart

LEMMA TakeOfPoolType ==
  ASSUME NEW task, task.reward \in Positive, task.slots \in Nat,
         NEW cap \in Nat \cup {NotStated},
         NEW left \in [remaining : Int, actions : Int]
  PROVE  TakeOfPool(left, task, cap) \in [remaining : Int, actions : Int]
<1> DEFINE room == Capped(task.slots, Less(cap, left.actions))
           ceil == CeilDiv(left.remaining, task.reward)
           used == Min({room, ceil})
<1>1. task.reward \in Int /\ left.remaining \in Int /\ left.actions \in Int
  BY DEF Positive
<1>2. room \in Int
  <2>1. CASE cap = NotStated
    BY <2>1 DEF Less, Capped
  <2>2. CASE cap # NotStated
    <3> DEFINE bound == cap - left.actions
    <3>1. bound \in Int /\ bound # NotStated /\ Less(cap, left.actions) = bound
      BY <1>1, <2>2, NotStatedAssumption DEF Less
    <3> HIDE DEF bound
    <3>2. room = Min({task.slots, bound})
      BY <3>1 DEF Capped
    <3>3. task.slots \in Int
      OBVIOUS
    <3>4. Min({task.slots, bound}) \in {task.slots, bound}
      BY <3>1, <3>3, MinOfTwo
    <3> QED BY <3>1, <3>2, <3>3, <3>4
  <2> QED BY <2>1, <2>2
<1>3. ceil \in Int
  <2> DEFINE n == left.remaining + task.reward - 1
  <2>1. n \in Int
    BY <1>1
  <2>2. ceil = n \div task.reward
    BY DEF CeilDiv
  <2> HIDE DEF n, ceil
  <2> QED BY <2>1, <2>2, Division
<1>4. used \in Int
  <2> HIDE DEF room, ceil
  <2> QED BY <1>2, <1>3, MinOfTwo
<1>5. left.remaining - task.reward * used \in Int /\ left.actions + used \in Int
  <2> HIDE DEF used
  <2>1. task.reward * used \in Int
    BY <1>1, <1>4
  <2> QED BY <1>1, <1>4, <2>1
<1>6. TakeOfPool(left, task, cap)
      \in {left, [remaining |-> left.remaining - task.reward * used,
                  actions |-> left.actions + used]}
  BY DEF TakeOfPool
<1> HIDE DEF used
<1> QED BY <1>5, <1>6

LEMMA PoolFoldExists ==
  ASSUME NEW tasks, NEW I, PaidTasks(tasks, I), NEW need \in Int,
         NEW cap \in Nat \cup {NotStated}
  PROVE  \E h : IsPoolFold(h, tasks, I, need, cap)
<1> DEFINE S == [remaining : Int, actions : Int]
           last == [D \in SUBSET I |-> LastByReward(tasks, D)]
           step == [p \in I \X S |-> TakeOfPool(p[2], tasks[p[1]], cap)]
           start == PoolStart(need)
<1>1. \A D \in SUBSET I : D # {} => last[D] \in D
  BY LastIsLeast
<1>2. \A i \in I : \A v \in S : /\ step[<<i, v>>] = TakeOfPool(v, tasks[i], cap)
                                /\ step[<<i, v>>] \in S
  <2> SUFFICES ASSUME NEW i \in I, NEW v \in S
               PROVE  /\ step[<<i, v>>] = TakeOfPool(v, tasks[i], cap)
                      /\ step[<<i, v>>] \in S
    OBVIOUS
  <2>1. TakeOfPool(v, tasks[i], cap) \in S
    BY TakeOfPoolType DEF PaidTasks
  <2> QED BY <2>1
<1>3. start \in S /\ IsFiniteSet(I)
  BY DEF PoolStart, PaidTasks
<1>4. PICK g : IsFold(g, I, start, last, step)
  <2> HIDE DEF last, step, start, S
  <2> QED BY <1>1, <1>3, FoldExists
<1>5. \A A \in SUBSET I : g[A] \in S
  <2>1. \A i \in I : \A v \in S : step[<<i, v>>] \in S
    BY <1>2
  <2> HIDE DEF last, step, start, S
  <2> QED BY <1>1, <1>3, <1>4, <2>1, FoldType
<1>6. ASSUME NEW D \in SUBSET I
      PROVE  g[D] = IF D = {} THEN start
                    ELSE TakeOfPool(g[D \ {LastByReward(tasks, D)}],
                                    tasks[LastByReward(tasks, D)], cap)
  <2>1. CASE D = {}
    BY <1>4, <2>1 DEF IsFold
  <2>2. CASE D # {}
    <3> DEFINE i == LastByReward(tasks, D)
    <3>1. i \in I /\ last[D] = i /\ g[D \ {i}] \in S
      BY <1>1, <1>5, <2>2
    <3> HIDE DEF step, last, i
    <3>2. g[D] = step[<<i, g[D \ {i}]>>]
      BY <1>4, <2>2, <3>1 DEF IsFold
    <3>3. g[D] = TakeOfPool(g[D \ {i}], tasks[i], cap)
      BY <1>2, <3>1, <3>2
    <3> QED BY <2>2, <3>3 DEF i
  <2> QED BY <2>1, <2>2
<1>7. g = [D \in SUBSET I |-> g[D]]
  <2> HIDE DEF step, last, start
  <2> QED BY <1>4 DEF IsFold
<1>8. IsPoolFold(g, tasks, I, need, cap)
  <2> HIDE DEF step, last
  <2> QED BY <1>6, <1>7 DEF IsPoolFold
<1> QED BY <1>8

LEMMA PoolFold ==
  ASSUME NEW tasks, NEW I, PaidTasks(tasks, I), NEW need \in Positive,
         NEW cap \in Nat \cup {NotStated}
  PROVE  \E x : /\ Greedy(tasks, I, I, x, need, cap)
                /\ MinimumActions(tasks, I, need, cap)
                   = IF Gross(tasks, I, x) >= need THEN Actions(I, x) ELSE NotStated
<1> DEFINE h == CHOOSE g : IsPoolFold(g, tasks, I, need, cap)
           Reaches(D, x) == /\ Greedy(tasks, I, D, x, need, cap)
                            /\ h[D] = PoolLeft(tasks, I, x, need)
           F == {D \in SUBSET I : \E x : Reaches(D, x)}
<1>1. IsPoolFold(h, tasks, I, need, cap) /\ need \in Int
  BY PoolFoldExists DEF Positive
<1>2. MinimumActions(tasks, I, need, cap)
      = IF h[I].remaining <= 0 THEN h[I].actions ELSE NotStated
  BY PoolFoldIsChosen
<1> HIDE DEF h
<1>3. ASSUME NEW A \in SUBSET I, \A B \in SUBSET A : B # A => B \in F
      PROVE  A \in F
  <2>1. CASE A = {}
    <3> DEFINE x == [i \in I |-> 0]
    <3>1. /\ Greedy(tasks, I, {}, x, need, cap)
          /\ Gross(tasks, I, x) = 0 /\ Actions(I, x) = 0
      BY GreedyStart
    <3>2. h[A] = PoolStart(need)
      BY <1>1, <2>1 DEF IsPoolFold
    <3> HIDE DEF x
    <3>3. PoolLeft(tasks, I, x, need) = PoolStart(need)
      BY <1>1, <3>1 DEF PoolLeft, PoolStart
    <3>4. Reaches(A, x)
      BY <2>1, <3>1, <3>2, <3>3
    <3> QED BY <3>4
  <2>2. CASE A # {}
    <3> DEFINE i == LastByReward(tasks, A)
               D == A \ {i}
    <3>1. i \in A /\ \A j \in A : tasks[i].reward <= tasks[j].reward
      BY <2>2, LastIsLeast
    <3>2. h[A] = TakeOfPool(h[D], tasks[i], cap)
      BY <1>1, <2>2 DEF IsPoolFold
    <3> HIDE DEF i
    <3>3. D \in SUBSET I /\ D \in SUBSET A /\ D # A /\ i \in I \ D /\ D \cup {i} = A
      BY <3>1
    <3>4. PICK x : Reaches(D, x)
      BY <1>3, <3>3
    <3>5. \A j \in D : tasks[i].reward <= tasks[j].reward
      BY <3>1
    <3> HIDE DEF D
    <3>6. PICK used : /\ Takes(tasks, I, x, i, used, need, cap)
                      /\ TakeOfPool(PoolLeft(tasks, I, x, need), tasks[i], cap)
                         = PoolLeft(tasks, I, [x EXCEPT ![i] = used], need)
      BY <1>1, <3>3, <3>4, PoolTake
    <3> DEFINE y == [x EXCEPT ![i] = used]
    <3>7. Greedy(tasks, I, D \cup {i}, y, need, cap)
      BY <1>1, <3>3, <3>4, <3>5, <3>6, GreedyStep
    <3>8. Reaches(A, y)
      BY <3>2, <3>3, <3>4, <3>6, <3>7
    <3> QED BY <3>8
  <2> QED BY <2>1, <2>2
<1>4. \A A \in SUBSET I : A \in F
  <2> HIDE DEF F
  <2> QED BY <1>3, SubsetInduction DEF PaidTasks
<1>5. PICK x : Reaches(I, x)
  BY <1>4
<1>6. /\ h[I].remaining = need - Gross(tasks, I, x) /\ h[I].actions = Actions(I, x)
      /\ Gross(tasks, I, x) \in Nat
  BY <1>5, SumsOfSchedule DEF PoolLeft, Greedy
<1>7. h[I].remaining <= 0 <=> Gross(tasks, I, x) >= need
  BY <1>1, <1>6
<1> QED BY <1>2, <1>5, <1>6, <1>7

\* The loop of the public capacity has no threshold: more than all slots pay.
AllSlots(tasks, I) == [i \in I |-> tasks[i].slots]
BeyondAll(tasks, I) == Gross(tasks, I, AllSlots(tasks, I)) + 1

LEMMA NoneGetsBeyondAll ==
  ASSUME NEW tasks, NEW I, PaidTasks(tasks, I)
  PROVE  /\ BeyondAll(tasks, I) \in Positive /\ BeyondAll(tasks, I) \in Int
         /\ \A s \in Schedules(tasks, I) : Gross(tasks, I, s) < BeyondAll(tasks, I)
<1> DEFINE x == AllSlots(tasks, I)
<1>1. x \in Schedules(tasks, I) /\ Filled(tasks, I, x)
  <2>1. x \in [I -> Nat] /\ \A i \in I : x[i] = tasks[i].slots /\ x[i] \in Nat
    BY DEF PaidTasks, AllSlots
  <2> HIDE DEF x
  <2>2. \A i \in I : x[i] <= tasks[i].slots
    BY <2>1
  <2> QED BY <2>1, <2>2, SchedulesAre DEF Filled
<1> HIDE DEF x
<1>2. Gross(tasks, I, x) \in Nat
  BY <1>1, SumsOfSchedule
<1>3. BeyondAll(tasks, I) = Gross(tasks, I, x) + 1
  BY DEF BeyondAll, x
<1>4. ASSUME NEW s \in Schedules(tasks, I)
      PROVE  Gross(tasks, I, s) < BeyondAll(tasks, I)
  <2>1. Gross(tasks, I, s) <= Gross(tasks, I, x) /\ Gross(tasks, I, s) \in Nat
    BY <1>1, FilledIsMost, SumsOfSchedule
  <2> QED BY <1>2, <1>3, <2>1
<1> QED BY <1>2, <1>3, <1>4 DEF Positive

CapacityLeft(tasks, I, x, cap) ==
  [gross |-> Gross(tasks, I, x), actions |-> Less(cap, Actions(I, x))]

LEMMA CapacityTake ==
  ASSUME NEW tasks, NEW I, PaidTasks(tasks, I),
         NEW cap \in Nat \cup {NotStated}, NEW D \in SUBSET I, NEW i \in I \ D, NEW x,
         Greedy(tasks, I, D, x, BeyondAll(tasks, I), cap)
  PROVE  \E used : /\ Takes(tasks, I, x, i, used, BeyondAll(tasks, I), cap)
                   /\ TakeOfCapacity(CapacityLeft(tasks, I, x, cap), tasks[i])
                      = CapacityLeft(tasks, I, [x EXCEPT ![i] = used], cap)
<1> DEFINE gx == Gross(tasks, I, x)  ax == Actions(I, x)
           r == tasks[i].reward  slots == tasks[i].slots
           left == CapacityLeft(tasks, I, x, cap)
           used == Capped(slots, Less(cap, ax))
           need == BeyondAll(tasks, I)
           y == [x EXCEPT ![i] = used]
<1>1. /\ x \in Schedules(tasks, I) /\ x[i] = 0 /\ Within(ax, cap)
      /\ gx \in Nat /\ ax \in Nat /\ r \in Nat /\ slots \in Nat
  BY SumsOfSchedule DEF Greedy, PaidTasks, Positive
<1>2. /\ used \in Nat /\ used <= slots /\ Within(ax + used, cap)
      /\ used = slots \/ (cap # NotStated /\ ax + used = cap)
      /\ Less(Less(cap, ax), used) = Less(cap, ax + used)
  <2> HIDE DEF ax, slots
  <2> DEFINE room == Capped(slots, Less(cap, ax))
  <2>1. /\ room \in Nat /\ room <= slots /\ Within(ax + room, cap)
        /\ room = slots \/ (cap # NotStated /\ ax + room = cap)
        /\ \A n \in Nat : n <= room =>
             Less(Less(cap, ax), n) = Less(cap, ax + n)
    BY <1>1, RoomFacts
  <2> HIDE DEF room
  <2>2. Less(Less(cap, ax), room) = Less(cap, ax + room)
    BY <2>1
  <2> QED BY <2>1, <2>2 DEF room
<1>3. TakeOfCapacity(left, tasks[i])
      = [gross |-> gx + r * used, actions |-> Less(cap, ax + used)]
  BY <1>2 DEF TakeOfCapacity, CapacityLeft
<1> HIDE DEF used, left
<1>4. /\ y \in Schedules(tasks, I)
      /\ Gross(tasks, I, y) = gx + r * used /\ Actions(I, y) = ax + used
  BY <1>1, <1>2, AddingTask
<1>5. TakeOfCapacity(left, tasks[i]) = CapacityLeft(tasks, I, y, cap)
  BY <1>3, <1>4 DEF CapacityLeft
<1>6. need \in Int /\ gx < need /\ gx + r * used < need /\ r * used \in Int
  <2>1. r * used \in Int
    BY <1>1, <1>2
  <2> QED BY <1>1, <1>4, <2>1, NoneGetsBeyondAll
<1> DEFINE u == r * used
<1>7. gx + u - r < need
  <2> HIDE DEF gx, u, r, need
  <2>1. u \in Int /\ gx + u < need
    BY <1>6 DEF u
  <2> QED BY <1>1, <1>6, <2>1
<1>8. ~ (gx >= need)
  BY <1>1, <1>6
<1>9. Takes(tasks, I, x, i, used, need, cap)
  BY <1>2, <1>7, <1>8 DEF Takes
<1> QED BY <1>5, <1>9 DEF left

CapacityStart(cap) == [gross |-> 0, actions |-> cap]
IsCapacityFold(h, tasks, C, cap) ==
  h = [D \in SUBSET C |->
         IF D = {} THEN CapacityStart(cap)
         ELSE TakeOfCapacity(h[D \ {LastByReward(tasks, D)}],
                             tasks[LastByReward(tasks, D)])]

LEMMA CapacityFoldIsChosen ==
  ASSUME NEW tasks, NEW C
  PROVE  LET cap == PublishedBound(tasks, "cap")
             end == (CHOOSE h : IsCapacityFold(h, tasks, C, cap))[C]
         IN PublicCapacity(tasks, C) = Capped(end.gross, PublishedBound(tasks, "budget"))
BY DEF PublicCapacity, MapThenFoldSet, IsCapacityFold, CapacityStart

LEMMA TakeOfCapacityType ==
  ASSUME NEW task, task.reward \in Positive, task.slots \in Nat,
         NEW left \in [gross : Int, actions : Int \cup {NotStated}]
  PROVE  TakeOfCapacity(left, task) \in [gross : Int, actions : Int \cup {NotStated}]
<1> DEFINE used == Capped(task.slots, left.actions)
<1>1. task.reward \in Int /\ left.gross \in Int /\ left.actions \in Int \cup {NotStated}
      /\ task.slots \in Int
  BY DEF Positive
<1>2. used \in Int
  <2>1. CASE left.actions = NotStated
    BY <1>1, <2>1 DEF Capped
  <2>2. CASE left.actions # NotStated
    <3>1. left.actions \in Int /\ used = Min({task.slots, left.actions})
      BY <1>1, <2>2 DEF Capped
    <3>2. used \in {task.slots, left.actions}
      BY <1>1, <3>1, MinOfTwo
    <3> QED BY <1>1, <3>1, <3>2
  <2> QED BY <2>1, <2>2
<1> HIDE DEF used
<1>3. left.gross + task.reward * used \in Int
  <2>1. task.reward * used \in Int
    BY <1>1, <1>2
  <2> QED BY <1>1, <2>1
<1>4. Less(left.actions, used) \in Int \cup {NotStated}
  BY <1>1, <1>2 DEF Less
<1> QED BY <1>3, <1>4 DEF TakeOfCapacity, used

LEMMA CapacityFoldExists ==
  ASSUME NEW tasks, NEW C, PaidTasks(tasks, C), NEW cap \in Nat \cup {NotStated}
  PROVE  \E h : IsCapacityFold(h, tasks, C, cap)
<1> DEFINE S == [gross : Int, actions : Int \cup {NotStated}]
           last == [D \in SUBSET C |-> LastByReward(tasks, D)]
           step == [p \in C \X S |-> TakeOfCapacity(p[2], tasks[p[1]])]
           start == CapacityStart(cap)
<1>1. \A D \in SUBSET C : D # {} => last[D] \in D
  BY LastIsLeast
<1>2. \A i \in C : \A v \in S : /\ step[<<i, v>>] = TakeOfCapacity(v, tasks[i])
                                /\ step[<<i, v>>] \in S
  <2> SUFFICES ASSUME NEW i \in C, NEW v \in S
               PROVE  /\ step[<<i, v>>] = TakeOfCapacity(v, tasks[i])
                      /\ step[<<i, v>>] \in S
    OBVIOUS
  <2>1. TakeOfCapacity(v, tasks[i]) \in S
    BY TakeOfCapacityType DEF PaidTasks
  <2> QED BY <2>1
<1>3. start \in S /\ IsFiniteSet(C)
  BY DEF CapacityStart, PaidTasks
<1>4. PICK g : IsFold(g, C, start, last, step)
  <2> HIDE DEF last, step, start, S
  <2> QED BY <1>1, <1>3, FoldExists
<1>5. \A A \in SUBSET C : g[A] \in S
  <2>1. \A i \in C : \A v \in S : step[<<i, v>>] \in S
    BY <1>2
  <2> HIDE DEF last, step, start, S
  <2> QED BY <1>1, <1>3, <1>4, <2>1, FoldType
<1>6. ASSUME NEW D \in SUBSET C
      PROVE  g[D] = IF D = {} THEN start
                    ELSE TakeOfCapacity(g[D \ {LastByReward(tasks, D)}],
                                        tasks[LastByReward(tasks, D)])
  <2>1. CASE D = {}
    BY <1>4, <2>1 DEF IsFold
  <2>2. CASE D # {}
    <3> DEFINE i == LastByReward(tasks, D)
    <3>1. i \in C /\ last[D] = i /\ g[D \ {i}] \in S
      BY <1>1, <1>5, <2>2
    <3> HIDE DEF step, last, i
    <3>2. g[D] = step[<<i, g[D \ {i}]>>]
      BY <1>4, <2>2, <3>1 DEF IsFold
    <3>3. g[D] = TakeOfCapacity(g[D \ {i}], tasks[i])
      BY <1>2, <3>1, <3>2
    <3> QED BY <2>2, <3>3 DEF i
  <2> QED BY <2>1, <2>2
<1>7. g = [D \in SUBSET C |-> g[D]]
  <2> HIDE DEF step, last, start
  <2> QED BY <1>4 DEF IsFold
<1>8. IsCapacityFold(g, tasks, C, cap)
  <2> HIDE DEF step, last
  <2> QED BY <1>6, <1>7 DEF IsCapacityFold
<1> QED BY <1>8

\* No schedule within the cap is worth more than the public capacity.
LEMMA CapacityFold ==
  ASSUME NEW tasks, NEW C, PaidTasks(tasks, C),
         PublishedBound(tasks, "cap") \in Nat \cup {NotStated}
  PROVE  \E n \in Nat :
           /\ PublicCapacity(tasks, C) = Capped(n, PublishedBound(tasks, "budget"))
           /\ \A s \in Schedules(tasks, C) :
                Within(Actions(C, s), PublishedBound(tasks, "cap")) =>
                  Gross(tasks, C, s) <= n
<1> DEFINE cap == PublishedBound(tasks, "cap")
           need == BeyondAll(tasks, C)
           h == CHOOSE g : IsCapacityFold(g, tasks, C, cap)
           Reaches(D, x) == /\ Greedy(tasks, C, D, x, need, cap)
                            /\ h[D] = CapacityLeft(tasks, C, x, cap)
           F == {D \in SUBSET C : \E x : Reaches(D, x)}
<1>1. /\ IsCapacityFold(h, tasks, C, cap) /\ need \in Int /\ need \in Positive
      /\ cap \in Nat \cup {NotStated}
  BY CapacityFoldExists, NoneGetsBeyondAll
<1>2. PublicCapacity(tasks, C) = Capped(h[C].gross, PublishedBound(tasks, "budget"))
  BY CapacityFoldIsChosen
<1> HIDE DEF h, cap, need
<1>3. ASSUME NEW A \in SUBSET C, \A B \in SUBSET A : B # A => B \in F
      PROVE  A \in F
  <2>1. CASE A = {}
    <3> DEFINE x == [i \in C |-> 0]
    <3>1. /\ Greedy(tasks, C, {}, x, need, cap)
          /\ Gross(tasks, C, x) = 0 /\ Actions(C, x) = 0
      BY <1>1, GreedyStart
    <3>2. h[A] = CapacityStart(cap)
      BY <1>1, <2>1 DEF IsCapacityFold
    <3> HIDE DEF x
    <3>3. CapacityLeft(tasks, C, x, cap) = CapacityStart(cap)
      BY <1>1, <3>1 DEF CapacityLeft, CapacityStart, Less
    <3>4. Reaches(A, x)
      BY <2>1, <3>1, <3>2, <3>3
    <3> QED BY <3>4
  <2>2. CASE A # {}
    <3> DEFINE i == LastByReward(tasks, A)
               D == A \ {i}
    <3>1. i \in A /\ \A j \in A : tasks[i].reward <= tasks[j].reward
      BY <2>2, LastIsLeast
    <3>2. h[A] = TakeOfCapacity(h[D], tasks[i])
      BY <1>1, <2>2 DEF IsCapacityFold
    <3> HIDE DEF i
    <3>3. D \in SUBSET C /\ D \in SUBSET A /\ D # A /\ i \in C \ D /\ D \cup {i} = A
      BY <3>1
    <3>4. PICK x : Reaches(D, x)
      BY <1>3, <3>3
    <3>5. \A j \in D : tasks[i].reward <= tasks[j].reward
      BY <3>1
    <3> HIDE DEF D
    <3>6. PICK used : /\ Takes(tasks, C, x, i, used, need, cap)
                      /\ TakeOfCapacity(CapacityLeft(tasks, C, x, cap), tasks[i])
                         = CapacityLeft(tasks, C, [x EXCEPT ![i] = used], cap)
      <4>1. Greedy(tasks, C, D, x, BeyondAll(tasks, C), cap)
            /\ h[D] = CapacityLeft(tasks, C, x, cap)
        BY <3>4 DEF need
      <4> QED BY ONLY <1>1, <3>3, <4>1, CapacityTake, PaidTasks(tasks, C) DEF need
    <3> DEFINE y == [x EXCEPT ![i] = used]
    <3>7. Greedy(tasks, C, D \cup {i}, y, need, cap)
      BY <1>1, <3>3, <3>4, <3>5, <3>6, GreedyStep
    <3>8. Reaches(A, y)
      BY <3>2, <3>3, <3>4, <3>6, <3>7
    <3> QED BY <3>8
  <2> QED BY <2>1, <2>2
<1>4. \A A \in SUBSET C : A \in F
  <2> HIDE DEF F
  <2> QED BY <1>3, SubsetInduction DEF PaidTasks
<1>5. PICK x : Reaches(C, x)
  BY <1>4
<1>6. x \in Schedules(tasks, C) /\ h[C].gross = Gross(tasks, C, x)
  BY <1>5 DEF CapacityLeft, Greedy
<1>7. Gross(tasks, C, x) \in Nat /\ Gross(tasks, C, x) < need
  BY <1>6, SumsOfSchedule, NoneGetsBeyondAll DEF need
<1>8. \A s \in Schedules(tasks, C) :
        Within(Actions(C, s), cap) => Gross(tasks, C, s) <= Gross(tasks, C, x)
  BY <1>1, <1>5, <1>7, GreedyOutcome
<1> QED BY <1>2, <1>6, <1>7, <1>8 DEF cap
(* ------------------------- the settlement summary ------------------------ *)

LEMMA AgreedIs ==
  ASSUME NEW values
  PROVE  /\ Agreed(values) = 0 \/ Agreed(values) \in values
         /\ Cardinality(values) = 1 => Agreed(values) \in values
         /\ values = {} => Agreed(values) = 0
<1>1. Cardinality({}) = 0
  BY FS_EmptySet
<1>2. CASE Cardinality(values) = 1
  <2>1. values # {}
    BY <1>1, <1>2
  <2>2. (CHOOSE v \in values : TRUE) \in values
    BY <2>1
  <2> QED BY <1>2, <2>1, <2>2 DEF Agreed
<1>3. CASE Cardinality(values) # 1
  BY <1>3 DEF Agreed
<1> QED BY <1>2, <1>3

\* What sources publish is a number, 0 when it is nothing.
Publish(tasks, I, field) == \A i \in I : tasks[i][field] \in Nat

LEMMA PublishedIs ==
  ASSUME NEW tasks, NEW I, NEW field, Publish(tasks, I, field)
  PROVE  /\ Agreed(PublishedIn(tasks, I, field)) \in Nat
         /\ Agreed(PublishedIn(tasks, I, field)) # 0 =>
              Agreed(PublishedIn(tasks, I, field)) \in Positive
<1> DEFINE V == PublishedIn(tasks, I, field)
<1>1. \A v \in V : v \in Nat /\ v # 0
  BY DEF PublishedIn, Publish
<1> HIDE DEF V
<1>2. Agreed(V) = 0 \/ Agreed(V) \in V
  BY AgreedIs
<1> QED BY <1>1, <1>2 DEF V, Positive

LEMMA CapsAgree ==
  ASSUME NEW tasks, NEW I, IsFiniteSet(I), Publish(tasks, I, "cap"),
         ~(Cardinality(PublishedIn(tasks, I, "cap")) > 1),
         PublishedIn(tasks, I, "cap") # {}
  PROVE  Agreed(PublishedIn(tasks, I, "cap")) \in Positive
<1> DEFINE V == PublishedIn(tasks, I, "cap")
           f == [i \in I |-> tasks[i]["cap"]]
           All == {f[i] : i \in I}
<1>1. IsFiniteSet(All)
  <2>1. f \in Surjection(I, All)
    BY DEF Surjection
  <2> HIDE DEF f, All
  <2> QED BY <2>1, FS_Surjection
<1>2. V \in SUBSET All /\ \A v \in V : v \in Positive
  BY DEF PublishedIn, Publish, Positive
<1> HIDE DEF V, All
<1>3. IsFiniteSet(V)
  BY <1>1, <1>2, FS_Subset
<1>4. Cardinality(V) \in Nat /\ Cardinality(V) # 0
  BY <1>3, FS_CardinalityType, FS_EmptySet DEF V
<1>5. Cardinality(V) = 1
  BY <1>4 DEF V
<1>6. Agreed(V) \in V
  BY <1>5, AgreedIs
<1> QED BY <1>2, <1>6 DEF V

LEMMA AllSlotsFacts ==
  ASSUME NEW tasks, NEW I, PaidTasks(tasks, I)
  PROVE  /\ TemplateGross(tasks, I) \in Nat /\ TemplateActions(tasks, I) \in Nat
         /\ \A s \in Schedules(tasks, I) :
              /\ Gross(tasks, I, s) <= TemplateGross(tasks, I)
              /\ Actions(I, s) <= TemplateActions(tasks, I)
<1> DEFINE x == AllSlots(tasks, I)
           f == [i \in I |-> tasks[i].reward * tasks[i].slots]
<1>1. x \in Schedules(tasks, I) /\ Filled(tasks, I, x) /\ DOMAIN x = I
  <2>1. x \in [I -> Nat] /\ \A i \in I : x[i] = tasks[i].slots /\ x[i] \in Nat
    BY DEF PaidTasks, AllSlots
  <2> HIDE DEF x
  <2>2. \A i \in I : x[i] <= tasks[i].slots
    BY <2>1
  <2> QED BY <2>1, <2>2, SchedulesAre DEF Filled
<1>2. TemplateActions(tasks, I) = Actions(I, x)
  BY DEF TemplateActions, Actions, AllSlots, SumFunction
<1>3. TemplateGross(tasks, I) = Gross(tasks, I, x)
  <2>1. f = [i \in I |-> tasks[i].reward * x[i]] /\ DOMAIN f = I
    BY DEF AllSlots
  <2> HIDE DEF x
  <2> QED BY <2>1 DEF TemplateGross, Gross, SumFunction
<1> HIDE DEF x
<1> QED BY <1>1, <1>2, <1>3, FilledIsMost, SumsOfSchedule

\* What a shared pool says of its cap is what MinimumActions is given.
LEMMA PoolCapFacts ==
  ASSUME NEW tasks, NEW I, PaidTasks(tasks, I), Publish(tasks, I, "cap"),
         NEW shared \in BOOLEAN,
         ~(shared /\ Cardinality(PublishedIn(tasks, I, "cap")) > 1)
  PROVE  LET cap == PoolCap(tasks, I, shared)
             agreed == Agreed(PublishedIn(tasks, I, "cap"))
         IN /\ cap \in Nat \cup {NotStated}
            /\ \A s \in Schedules(tasks, I) :
                 (shared /\ agreed # 0 => Actions(I, s) <= agreed)
                 <=> Within(Actions(I, s), cap)
<1> DEFINE cap == PoolCap(tasks, I, shared)
           caps == PublishedIn(tasks, I, "cap")
           agreed == Agreed(caps)
           most == TemplateActions(tasks, I)
<1>1. most \in Nat /\ \A s \in Schedules(tasks, I) : Actions(I, s) <= most
  BY AllSlotsFacts
<1>2. \A s \in Schedules(tasks, I) : Actions(I, s) \in Nat
  BY SumsOfSchedule
<1>3. CASE ~shared
  <2>1. cap = NotStated
    BY <1>3 DEF PoolCap
  <2> QED BY <1>3, <2>1 DEF Within
<1>4. CASE shared /\ caps = {}
  <2>1. cap = most
    BY <1>4 DEF PoolCap
  <2>2. agreed = 0
    BY <1>4, AgreedIs
  <2> HIDE DEF cap, caps, agreed, most
  <2>3. \A s \in Schedules(tasks, I) : Within(Actions(I, s), cap)
    BY <1>1, <2>1 DEF Within
  <2> QED BY <1>1, <2>1, <2>2, <2>3 DEF cap, caps, agreed
<1>5. CASE shared /\ caps # {}
  <2>1. cap = Min({most, agreed})
    BY <1>5 DEF PoolCap
  <2>2. agreed \in Nat /\ agreed # 0
    <3>1. agreed \in Positive
      BY <1>5, CapsAgree DEF PaidTasks
    <3> HIDE DEF agreed
    <3> QED BY <3>1 DEF Positive
  <2> HIDE DEF cap, caps, agreed, most
  <2>3. cap \in {most, agreed} /\ cap <= most /\ cap <= agreed
    <3>1. most \in Int /\ agreed \in Int
      BY <1>1, <2>2
    <3> QED BY ONLY <2>1, <3>1, MinOfTwo
  <2>4. cap \in Nat
    BY <1>1, <2>2, <2>3
  <2>5. \A s \in Schedules(tasks, I) : (Actions(I, s) <= agreed) <=> (Actions(I, s) <= cap)
    BY <1>1, <1>2, <2>2, <2>3, <2>4
  <2>6. cap # NotStated
    BY <2>4, NotStatedAssumption
  <2> QED BY <1>5, <2>2, <2>4, <2>5, <2>6 DEF Within, cap, caps, agreed
<1> QED BY <1>3, <1>4, <1>5

LEMMA VerdictIsExact ==
  ASSUME PaidTasks(ptasks, Eligible(ptasks)),
         \A field \in {"minimum", "budget", "cap"} :
           Publish(ptasks, Eligible(ptasks), field),
         psummary = PoolSummary(ptasks)
  PROVE  PoolVerdictIsExact
<1> DEFINE I == Eligible(ptasks)
           shared == \E i \in I : ptasks[i].shared
           need == Agreed(PublishedIn(ptasks, I, "minimum"))
           budget == Agreed(PublishedIn(ptasks, I, "budget"))
           agreed == Agreed(PublishedIn(ptasks, I, "cap"))
           cap == PoolCap(ptasks, I, shared)
           gross == PoolGross(ptasks, I, shared)
           n == MinimumActions(ptasks, I, need, cap)
           actions == IF gross >= need THEN n ELSE NotStated
           S == Schedules(ptasks, I)
           reaching == {s \in S : ScheduleGross(ptasks, s) >= need}
           withinCap(s) == shared /\ agreed # 0 => ScheduleActions(s) <= agreed
           payable(s) == /\ withinCap(s)
                         /\ shared => ScheduleGross(ptasks, s) <= budget
<1> DEFINE Unclear == PoolUnclear(ptasks, I, shared)
<1>1. /\ psummary.status = "NOT_REACHABLE" => I # {} /\ ~Unclear /\ actions = NotStated
      /\ psummary.status = "REACHABLE" =>
           I # {} /\ ~Unclear /\ actions # NotStated /\ psummary.actions = actions
  <2>1. psummary = CASE I = {} -> [status |-> "NOT_APPLICABLE", actions |-> NotStated]
         [] I # {} /\ Unclear -> [status |-> "UNKNOWN", actions |-> NotStated]
         [] I # {} /\ ~Unclear /\ actions # NotStated ->
              [status |-> "REACHABLE", actions |-> actions]
         [] OTHER -> [status |-> "NOT_REACHABLE", actions |-> NotStated]
    BY DEF PoolSummary
  <2> HIDE DEF I, Unclear, actions
  <2> QED BY <2>1
<1>2. SUFFICES ASSUME I # {}, ~PoolUnclear(ptasks, I, shared)
      PROVE  /\ actions = NotStated => {s \in reaching : payable(s)} = {}
             /\ actions # NotStated =>
                  /\ \E s \in reaching : withinCap(s) /\ ScheduleActions(s) = actions
                  /\ \A s \in reaching : ScheduleActions(s) >= actions
  <2> DEFINE A == actions = NotStated => {s \in reaching : payable(s)} = {}
             B == actions # NotStated =>
                    /\ \E s \in reaching : withinCap(s) /\ ScheduleActions(s) = actions
                    /\ \A s \in reaching : ScheduleActions(s) >= actions
             B2 == /\ \E s \in reaching : withinCap(s) /\ ScheduleActions(s) = psummary.actions
                   /\ \A s \in reaching : ScheduleActions(s) >= psummary.actions
  <2>1. I # {} /\ ~Unclear => A /\ B
    BY <1>2
  <2>2. PoolVerdictIsExact <=>
          /\ psummary.status = "NOT_REACHABLE" => {s \in reaching : payable(s)} = {}
          /\ psummary.status = "REACHABLE" => B2
    BY DEF PoolVerdictIsExact
  <2>3. actions = psummary.actions /\ B /\ actions # NotStated => B2
    OBVIOUS
  <2> HIDE DEF B2, I, Unclear, actions, reaching, payable, withinCap
  <2> QED BY <1>1, <2>1, <2>2, <2>3
<1>3. /\ need \in Positive /\ need \in Nat /\ budget \in Nat
      /\ shared \in BOOLEAN
      /\ ~(shared /\ Cardinality(PublishedIn(ptasks, I, "cap")) > 1)
  BY <1>2, PublishedIs DEF PoolUnclear, Positive
<1>4. /\ cap \in Nat \cup {NotStated}
      /\ \A s \in S : (shared /\ agreed # 0 => Actions(I, s) <= agreed)
                      <=> Within(Actions(I, s), cap)
  <2> HIDE DEF shared
  <2> QED BY <1>3, PoolCapFacts
<1>5. \A s \in S : /\ ScheduleGross(ptasks, s) = Gross(ptasks, I, s)
                   /\ ScheduleActions(s) = Actions(I, s)
                   /\ Gross(ptasks, I, s) \in Nat /\ Actions(I, s) \in Nat
  BY SumsOfSchedule
<1>6. \A s \in S : withinCap(s) <=> Within(Actions(I, s), cap)
  BY <1>4, <1>5
<1>7. ASSUME NEW s \in S, payable(s) PROVE Gross(ptasks, I, s) <= gross
  <2> DEFINE all == TemplateGross(ptasks, I)
  <2>1. all \in Nat /\ Gross(ptasks, I, s) <= all
    BY AllSlotsFacts
  <2>2. gross = IF shared THEN Min({all, budget}) ELSE all
    BY DEF PoolGross
  <2>3. shared => Gross(ptasks, I, s) <= budget
    BY <1>5, <1>7
  <2> HIDE DEF gross, all, shared, budget
  <2>4. Min({all, budget}) \in {all, budget}
    <3>1. all \in Int /\ budget \in Int
      BY <1>3, <2>1
    <3> QED BY ONLY <3>1, MinOfTwo
  <2> QED BY <2>1, <2>2, <2>3, <2>4
<1>8. gross \in Nat
  <2> DEFINE all == TemplateGross(ptasks, I)
  <2>1. all \in Nat
    BY AllSlotsFacts
  <2>2. gross = IF shared THEN Min({all, budget}) ELSE all
    BY DEF PoolGross
  <2> HIDE DEF gross, all, shared, budget
  <2>3. Min({all, budget}) \in {all, budget}
    <3>1. all \in Int /\ budget \in Int
      BY <1>3, <2>1
    <3> QED BY ONLY <3>1, MinOfTwo
  <2> QED BY <1>3, <2>1, <2>2, <2>3
<1> HIDE DEF need, cap, gross, shared, withinCap
<1>9. PICK x : /\ Greedy(ptasks, I, I, x, need, cap)
               /\ n = IF Gross(ptasks, I, x) >= need THEN Actions(I, x) ELSE NotStated
  BY <1>3, <1>4, PoolFold
<1>10. x \in S /\ Within(Actions(I, x), cap)
  BY <1>9 DEF Greedy
<1>11. \A s \in S :
         /\ Gross(ptasks, I, x) >= need /\ Gross(ptasks, I, s) >= need =>
              Actions(I, s) >= Actions(I, x)
         /\ Gross(ptasks, I, x) < need /\ Within(Actions(I, s), cap) =>
              Gross(ptasks, I, s) <= Gross(ptasks, I, x)
  BY <1>3, <1>4, <1>9, GreedyOutcome
<1>12. Gross(ptasks, I, x) \in Nat /\ Actions(I, x) \in Nat /\ Actions(I, x) # NotStated
  <2>1. Gross(ptasks, I, x) \in Nat /\ Actions(I, x) \in Nat
    BY <1>5, <1>10
  <2> QED BY <2>1, NotStatedAssumption
<1> HIDE DEF S, I, n
<1>13. ASSUME actions = NotStated, NEW s \in S, ScheduleGross(ptasks, s) >= need, payable(s)
       PROVE  FALSE
  <2>1. Gross(ptasks, I, s) >= need /\ Gross(ptasks, I, s) \in Nat
    BY <1>5, <1>13
  <2>2. gross >= need
    BY <1>3, <1>7, <1>8, <1>13, <2>1
  <2>3. n = NotStated
    BY <1>13, <2>2
  <2>4. Gross(ptasks, I, x) < need
    BY <1>3, <1>9, <1>12, <2>3
  <2>5. Within(Actions(I, s), cap)
    BY <1>6, <1>13
  <2>6. Gross(ptasks, I, s) <= Gross(ptasks, I, x)
    BY <1>11, <2>4, <2>5
  <2> QED BY <1>3, <1>12, <2>1, <2>4, <2>6
<1>14. ASSUME actions # NotStated
       PROVE  /\ \E s \in reaching : withinCap(s) /\ ScheduleActions(s) = actions
              /\ \A s \in reaching : ScheduleActions(s) >= actions
  <2>1. actions = n /\ n # NotStated
    BY <1>14
  <2>2. Gross(ptasks, I, x) >= need /\ actions = Actions(I, x)
    BY <1>9, <2>1
  <2> HIDE DEF actions
  <2>3. x \in reaching /\ withinCap(x) /\ ScheduleActions(x) = actions
    BY <1>5, <1>6, <1>10, <2>2
  <2>4. ASSUME NEW s \in reaching PROVE ScheduleActions(s) >= actions
    <3>1. s \in S /\ Gross(ptasks, I, s) >= need
      BY <1>5, <2>4
    <3> QED BY <1>5, <1>11, <2>2, <3>1
  <2> QED BY <2>3, <2>4
<1> HIDE DEF actions, payable
<1> QED BY <1>13, <1>14

\* The verdict is the one of the tasks shown, which are tasks of Tasks.
ReportInv ==
  /\ \E n \in Nat : ptasks \in [1 .. n -> Tasks]
  /\ psummary = PoolSummary(ptasks)

LEMMA ReportTasks ==
  ASSUME NEW n \in Nat, NEW tasks \in [1 .. n -> Tasks]
  PROVE  /\ DOMAIN tasks = 1 .. n /\ IsFiniteSet(DOMAIN tasks)
         /\ \A i \in DOMAIN tasks : tasks[i] \in Tasks
         /\ \A field \in {"minimum", "budget", "cap"} :
              Publish(tasks, DOMAIN tasks, field)
<1>1. DOMAIN tasks = 1 .. n /\ IsFiniteSet(1 .. n)
  BY FS_Interval
<1>2. \A i \in 1 .. n : tasks[i] \in Tasks
  OBVIOUS
<1>3. \A i \in 1 .. n : /\ tasks[i].minimum \in Nat /\ tasks[i].budget \in Nat
                        /\ tasks[i].cap \in Nat
  BY <1>2, TasksAssumption
<1> QED BY <1>1, <1>2, <1>3 DEF Publish

LEMMA EligibleArePaid ==
  ASSUME NEW n \in Nat, NEW tasks \in [1 .. n -> Tasks]
  PROVE  /\ PaidTasks(tasks, Eligible(tasks))
         /\ \A field \in {"minimum", "budget", "cap"} :
              Publish(tasks, Eligible(tasks), field)
<1>1. /\ Eligible(tasks) \in SUBSET (DOMAIN tasks) /\ IsFiniteSet(DOMAIN tasks)
      /\ \A field \in {"minimum", "budget", "cap"} :
           Publish(tasks, DOMAIN tasks, field)
      /\ \A i \in DOMAIN tasks : tasks[i] \in Tasks
  BY ReportTasks DEF Eligible
<1>2. ASSUME NEW i \in Eligible(tasks)
      PROVE  tasks[i].reward \in Positive /\ tasks[i].slots \in Nat
  <2>1. tasks[i] \in Tasks /\ HasSlots(tasks[i]) /\ tasks[i].reward > 0
    BY <1>1 DEF Eligible
  <2> QED BY <2>1, TasksAssumption DEF HasSlots, Positive
<1> QED BY <1>1, <1>2, FS_Subset DEF PaidTasks, Publish

LEMMA NoTasksNoVerdict ==
  /\ << >> \in [1 .. 0 -> Tasks]
  /\ PoolSummary(<< >>) = [status |-> "NOT_APPLICABLE", actions |-> NotStated]
<1>1. DOMAIN << >> = {}
  OBVIOUS
<1>2. Eligible(<< >>) = {}
  BY <1>1 DEF Eligible
<1>3. << >> \in [1 .. 0 -> Tasks]
  OBVIOUS
<1>4. PoolSummary(<< >>) = [status |-> "NOT_APPLICABLE", actions |-> NotStated]
  BY <1>2 DEF PoolSummary
<1> QED BY <1>3, <1>4

LEMMA ReportInvInit == PortfolioInit => ReportInv
BY NoTasksNoVerdict DEF PortfolioInit, ReportInv

LEMMA ReportInvStep == ReportInv /\ [PortfolioNext]_portfolioVars => ReportInv'
<1> SUFFICES ASSUME ReportInv, [PortfolioNext]_portfolioVars PROVE ReportInv'
  OBVIOUS
<1>1. CASE SettlementSummary
  <2>1. PICK n \in 1 .. MaxTasks : ptasks' \in [1 .. n -> Tasks]
    BY <1>1 DEF SettlementSummary
  <2>2. n \in Nat
    OBVIOUS
  <2> QED BY <1>1, <2>1, <2>2 DEF SettlementSummary, ReportInv
<1>2. CASE BeginPortfolio
  BY <1>2 DEF BeginPortfolio, ReportInv
<1>3. CASE TakeCandidate
  BY <1>3 DEF TakeCandidate, ReportInv
<1>4. CASE EndPortfolio
  BY <1>4 DEF EndPortfolio, ReportInv
<1>5. CASE ForgetTasks
  BY <1>5, NoTasksNoVerdict DEF ForgetTasks, ReportInv
<1>6. CASE UNCHANGED portfolioVars
  BY <1>6 DEF portfolioVars, ReportInv
<1> QED BY <1>1, <1>2, <1>3, <1>4, <1>5, <1>6 DEF PortfolioNext

\* The verdict of settlement-summary is exact, however many tasks, whatever
\* they pay and publish: payout it calls unreachable is, and what it calls
\* reachable comes with the least number of actions
\* (_minimum_actions_to_threshold, settlement.py).
THEOREM VerdictIsTrue == PortfolioSpec => []PoolVerdictIsExact
<1>1. ReportInv => PoolVerdictIsExact
  BY EligibleArePaid, VerdictIsExact DEF ReportInv
<1> QED BY <1>1, ReportInvInit, ReportInvStep, PTL DEF PortfolioSpec

(* -------------------------- the settlement path -------------------------- *)

LEMMA BoundsArePositive ==
  ASSUME NEW n \in Nat, NEW tasks \in [1 .. n -> Tasks], NEW field \in {"minimum", "budget", "cap"}
  PROVE  /\ PublishedBound(tasks, field) \in Nat \cup {NotStated}
         /\ Agreed(PublishedIn(tasks, DOMAIN tasks, field)) \in Nat
<1> DEFINE value == Agreed(PublishedIn(tasks, DOMAIN tasks, field))
<1>1. value \in Nat
  BY ReportTasks, PublishedIs
<1>2. PublishedBound(tasks, field) = IF value = 0 THEN NotStated ELSE value
  BY DEF PublishedBound
<1> HIDE DEF value
<1>3. PublishedBound(tasks, field) \in Nat \cup {NotStated}
  BY <1>1, <1>2
<1> QED BY <1>1, <1>3 DEF value

LEMMA CandidatesArePaid ==
  ASSUME NEW n \in Nat, NEW tasks \in [1 .. n -> Tasks], NEW inventory,
         Priced(inventory)
  PROVE  PaidTasks(tasks, Candidates(tasks, inventory))
<1>1. /\ Candidates(tasks, inventory) \in SUBSET (DOMAIN tasks)
      /\ IsFiniteSet(DOMAIN tasks) /\ \A i \in DOMAIN tasks : tasks[i] \in Tasks
  BY ReportTasks DEF Candidates
<1>2. ASSUME NEW i \in Candidates(tasks, inventory)
      PROVE  tasks[i].reward \in Positive /\ tasks[i].slots \in Nat
  <2>1. tasks[i] \in Tasks /\ IsCandidate(tasks[i], inventory)
    BY <1>1 DEF Candidates
  <2>2. PICK w \in PayingWorkers(tasks[i], inventory) : TRUE
    BY <2>1 DEF IsCandidate
  <2>3. /\ tasks[i].reward \in Nat /\ tasks[i].words \subseteq DOMAIN RuleBook
        /\ tasks[i].slots \in Nat \cup {NotStated} /\ tasks[i].slots # NotStated
    BY <2>1, TasksAssumption DEF IsCandidate, HasSlots
  <2>4. tasks[i].reward \in Positive
    BY <2>2, <2>3, PayingOffers
  <2> QED BY <2>3, <2>4
<1> QED BY <1>1, <1>2, FS_Subset DEF PaidTasks

PathLeft(tasks, I, x, need, cap, budget) ==
  [remaining |-> need - Gross(tasks, I, x),
   budget |-> Less(budget, Gross(tasks, I, x)),
   actions |-> Less(cap, Actions(I, x))]

\* How often a task still fits, and how often the path takes it.
Fits(task, left) ==
  Capped(Capped(task.slots, left.actions),
         IF left.budget = NotStated THEN NotStated ELSE left.budget \div task.reward)
PathTakes(task, left) == Min({Fits(task, left), CeilDiv(left.remaining, task.reward)})

\* What is left of the budget pays the actions that fit.
LEMMA BudgetFacts ==
  ASSUME NEW b \in Nat, NEW r \in Positive
  PROVE  /\ b \div r \in Nat
         /\ \A m \in Nat : m <= b \div r => r * m \in Nat /\ r * m <= b
<1> DEFINE q == b \div r  rest == b % r
<1>1. q \in Int /\ rest \in 0 .. (r - 1) /\ b = r * q + rest /\ r \in Nat
  BY Division DEF Positive
<1>2. q \in Nat
  <2>1. r > 0 /\ b >= 0
    BY DEF Positive
  <2> QED BY <1>1, <2>1
<1> HIDE DEF q, rest
<1>3. ASSUME NEW m \in Nat, m <= q PROVE r * m \in Nat /\ r * m <= b
  <2>1. r * m <= r * q
    BY <1>1, <1>3, ProductsKeepOrder
  <2> DEFINE u == r * m  v == r * q
  <2>2. u \in Nat /\ v \in Int /\ u <= v /\ b = v + rest
    BY <1>1, <2>1
  <2> HIDE DEF u, v
  <2>3. u <= b
    BY <1>1, <2>2
  <2> QED BY <2>2, <2>3 DEF u
<1> QED BY <1>2, <1>3 DEF q

LEMMA LessFacts ==
  ASSUME NEW bound \in Nat \cup {NotStated}, NEW a \in Nat, NEW m \in Nat,
         Within(a, bound), Less(bound, a) # NotStated => m <= Less(bound, a)
  PROVE  /\ Within(a + m, bound)
         /\ Less(Less(bound, a), m) = Less(bound, a + m)
<1>1. CASE bound = NotStated
  BY <1>1 DEF Within, Less
<1>2. CASE bound # NotStated
  <2>1. bound \in Nat
    BY <1>2
  <2>2. Less(bound, a) = bound - a /\ bound - a # NotStated
    BY <1>2, <2>1, NotStatedAssumption DEF Less
  <2>3. a + m <= bound /\ (bound - a) - m = bound - (a + m)
    BY <2>1, <2>2
  <2>4. Less(bound - a, m) = (bound - a) - m /\ Less(bound, a + m) = bound - (a + m)
    BY <1>2, <2>2 DEF Less
  <2> QED BY <2>2, <2>3, <2>4 DEF Within
<1> QED BY <1>1, <1>2

FitsWell(m, task, left, cap, budget, a, g) ==
  /\ m <= task.slots /\ Within(a + m, cap) /\ Within(g + task.reward * m, budget)
  /\ Less(left.actions, m) = Less(cap, a + m)
  /\ Less(left.budget, task.reward * m) = Less(budget, g + task.reward * m)

\* So many actions done and so much paid leave so much.
Leaves(left, cap, budget, a, g) ==
  /\ cap \in Nat \cup {NotStated} /\ budget \in Nat \cup {NotStated}
  /\ a \in Nat /\ g \in Nat /\ Within(a, cap) /\ Within(g, budget)
  /\ left.actions = Less(cap, a) /\ left.budget = Less(budget, g)

PaidTask(task) == task.reward \in Positive /\ task.slots \in Nat

LEMMA FitsFacts ==
  ASSUME NEW task, PaidTask(task), NEW left, NEW cap, NEW budget, NEW a, NEW g,
         Leaves(left, cap, budget, a, g)
  PROVE  /\ Fits(task, left) \in Nat
         /\ \A m \in Nat : m <= Fits(task, left) =>
              FitsWell(m, task, left, cap, budget, a, g)
         /\ budget = NotStated =>
              \/ Fits(task, left) = task.slots
              \/ cap # NotStated /\ a + Fits(task, left) = cap
<1> DEFINE r == task.reward
           slots == task.slots
           room == Capped(slots, Less(cap, a))
           money == Less(budget, g)
           most == IF money = NotStated THEN NotStated ELSE money \div r
           fits == Capped(room, most)
<1>0. /\ cap \in Nat \cup {NotStated} /\ budget \in Nat \cup {NotStated}
      /\ a \in Nat /\ g \in Nat /\ Within(a, cap) /\ Within(g, budget)
      /\ r \in Positive /\ slots \in Nat
  BY DEF Leaves, PaidTask
<1>1. Fits(task, left) = fits
  BY DEF Fits, Leaves
<1>2. /\ room \in Nat /\ room <= slots
      /\ room = slots \/ (cap # NotStated /\ a + room = cap)
      /\ \A m \in Nat : m <= room =>
           Within(a + m, cap) /\ Less(Less(cap, a), m) = Less(cap, a + m)
  <2>1. slots \in Nat
    BY <1>0
  <2>2. cap \in Nat \cup {NotStated} /\ a \in Nat /\ Within(a, cap)
    BY <1>0
  <2> HIDE DEF slots
  <2>3. /\ room \in Nat /\ room <= slots
        /\ room = slots \/ (cap # NotStated /\ a + room = cap)
    BY ONLY <2>1, <2>2, RoomFacts
  <2>4. \A m \in Nat : m <= room =>
          Within(a + m, cap) /\ Less(Less(cap, a), m) = Less(cap, a + m)
    BY ONLY <2>1, <2>2, RoomFacts
  <2> QED BY <2>3, <2>4
<1>3. money = NotStated <=> budget = NotStated
  BY <1>0, NotStatedAssumption DEF Less
<1>4. money \in Nat \cup {NotStated}
  BY <1>0, RoomFacts
<1> HIDE DEF room, money
<1>5. most \in Nat \cup {NotStated}
  BY <1>0, <1>4, BudgetFacts
<1>6. fits \in Nat /\ fits <= room /\ Within(fits, most)
      /\ (most = NotStated => fits = room)
  <2> HIDE DEF most
  <2>1. fits \in Nat /\ fits <= room /\ Within(fits, most)
    BY <1>2, <1>5, CappedFacts
  <2>2. most = NotStated => fits = room
    BY DEF Capped
  <2> QED BY <2>1, <2>2
<1>7. ASSUME NEW m \in Nat, m <= fits
      PROVE  Within(g + r * m, budget) /\ Less(money, r * m) = Less(budget, g + r * m)
  <2>1. r * m \in Nat
    BY <1>0 DEF Positive
  <2>2. money # NotStated => r * m <= money
    <3> SUFFICES ASSUME money # NotStated PROVE r * m <= money
      OBVIOUS
    <3>1. money \in Nat /\ most = money \div r
      BY <1>4
    <3>2. most \in Nat
      BY <1>0, <3>1, BudgetFacts
    <3>3. most # NotStated
      BY <3>2, NotStatedAssumption
    <3>4. fits <= most
      BY <1>6, <3>3 DEF Within
    <3> HIDE DEF fits
    <3>5. m <= most
      BY <1>6, <1>7, <3>2, <3>4
    <3> HIDE DEF most
    <3>6. m <= money \div r
      BY <3>1, <3>5
    <3> QED BY <1>0, <3>1, <3>6, BudgetFacts
  <2> DEFINE t == r * m
  <2>3. t \in Nat /\ (Less(budget, g) # NotStated => t <= Less(budget, g))
    BY <2>1, <2>2 DEF money
  <2> HIDE DEF t
  <2>4. Within(g + t, budget) /\ Less(Less(budget, g), t) = Less(budget, g + t)
    BY <1>0, <2>3, LessFacts
  <2> QED BY <2>4 DEF t, money
<1>8. most = NotStated <=> budget = NotStated
  <2>1. ASSUME money \in Nat PROVE money \div r \in Nat
    <3> HIDE DEF r
    <3> QED BY <1>0, <2>1, BudgetFacts
  <2> QED BY <1>3, <1>4, <2>1, NotStatedAssumption
<1> HIDE DEF fits, most
<1>9. \A m \in Nat : m <= fits => m <= room /\ m <= slots
  BY <1>0, <1>2, <1>6
<1>10. left.actions = Less(cap, a) /\ left.budget = money
  BY DEF money, Leaves
<1> QED BY <1>0, <1>1, <1>2, <1>6, <1>7, <1>8, <1>9, <1>10 DEF FitsWell

LEMMA PathTake ==
  ASSUME NEW tasks, NEW I, PaidTasks(tasks, I), NEW need \in Int,
         NEW cap \in Nat \cup {NotStated}, NEW budget \in Nat \cup {NotStated},
         NEW x \in Schedules(tasks, I), NEW i \in I, x[i] = 0,
         Within(Actions(I, x), cap), Within(Gross(tasks, I, x), budget),
         Gross(tasks, I, x) < need
  PROVE  LET left == PathLeft(tasks, I, x, need, cap, budget)
             used == PathTakes(tasks[i], left)
             y == [x EXCEPT ![i] = used]
         IN /\ used \in Nat /\ y \in Schedules(tasks, I)
            /\ Within(Actions(I, y), cap) /\ Within(Gross(tasks, I, y), budget)
            /\ PathLeft(tasks, I, y, need, cap, budget)
               = [remaining |-> left.remaining - tasks[i].reward * used,
                  budget |-> Less(left.budget, tasks[i].reward * used),
                  actions |-> Less(left.actions, used)]
            /\ budget = NotStated => Takes(tasks, I, x, i, used, need, cap)
<1> DEFINE gx == Gross(tasks, I, x)  ax == Actions(I, x)
           r == tasks[i].reward  slots == tasks[i].slots
           left == PathLeft(tasks, I, x, need, cap, budget)
           rest == need - gx
           fits == Fits(tasks[i], left)
           ceil == CeilDiv(rest, r)
           used == PathTakes(tasks[i], left)
           y == [x EXCEPT ![i] = used]
<1>1. gx \in Nat /\ ax \in Nat /\ r \in Positive /\ r \in Nat /\ slots \in Nat
  BY SumsOfSchedule DEF PaidTasks, Positive
<1>2. /\ left.remaining = rest /\ left.actions = Less(cap, ax)
      /\ left.budget = Less(budget, gx) /\ rest \in Positive
  BY <1>1 DEF PathLeft, Positive
<1>3. /\ fits \in Nat
      /\ \A m \in Nat : m <= fits => FitsWell(m, tasks[i], left, cap, budget, ax, gx)
      /\ budget = NotStated => fits = slots \/ (cap # NotStated /\ ax + fits = cap)
  <2>1. Leaves(left, cap, budget, ax, gx)
    BY <1>1, <1>2 DEF Leaves
  <2>2. PaidTask(tasks[i])
    BY <1>1 DEF PaidTask
  <2> HIDE DEF left, gx, ax
  <2> QED BY <2>1, <2>2, FitsFacts
<1>4. ceil \in Nat /\ r * ceil >= rest /\ r * ceil - r < rest
  <2> HIDE DEF rest, r
  <2> QED BY <1>1, <1>2, CeilDivFacts
<1>5. used = Min({fits, ceil})
  BY <1>2 DEF PathTakes
<1> HIDE DEF left, fits, ceil, used, rest, r, slots, gx, ax
<1>6. used \in {fits, ceil} /\ used <= fits /\ used <= ceil /\ used \in Nat
  <2>1. fits \in Int /\ ceil \in Int
    BY <1>3, <1>4
  <2>2. used \in {fits, ceil} /\ used <= fits /\ used <= ceil
    BY ONLY <1>5, <2>1, MinOfTwo
  <2> QED BY <1>3, <1>4, <2>2
<1>7. /\ used <= slots /\ Within(ax + used, cap) /\ Within(gx + r * used, budget)
      /\ Less(left.actions, used) = Less(cap, ax + used)
      /\ Less(left.budget, r * used) = Less(budget, gx + r * used)
  BY <1>3, <1>6 DEF FitsWell, r, slots
<1>8. /\ y \in Schedules(tasks, I)
      /\ Gross(tasks, I, y) = gx + r * used /\ Actions(I, y) = ax + used
  BY <1>1, <1>6, <1>7, AddingTask DEF gx, ax, r, slots
<1> HIDE DEF y
<1> DEFINE u == r * used
<1>9. u \in Nat
  BY <1>1, <1>6
<1>10. rest = need - gx
  BY DEF rest
<1>11. rest - u = need - (gx + u)
  BY <1>1, <1>9, <1>10
<1>12. PathLeft(tasks, I, y, need, cap, budget)
       = [remaining |-> left.remaining - u, budget |-> Less(left.budget, u),
          actions |-> Less(left.actions, used)]
  BY <1>2, <1>7, <1>8, <1>11 DEF PathLeft
<1>13. ASSUME budget = NotStated PROVE Takes(tasks, I, x, i, used, need, cap)
  <2>1. used = fits \/ r * used >= rest
    BY <1>4, <1>6
  <2>2. r * used <= r * ceil /\ r * ceil \in Int
    BY <1>1, <1>4, <1>6, ProductsKeepOrder
  <2> DEFINE v == r * ceil
  <2>3. u <= v /\ v \in Int /\ v - r < rest
    BY <1>4, <2>2
  <2>4. gx + u - r < need
    <3> HIDE DEF u, v
    <3> QED BY <1>1, <1>9, <1>10, <2>3
  <2>5. used = slots \/ (cap # NotStated /\ ax + used = cap) \/ gx + u >= need
    <3>1. CASE used = fits
      BY <1>3, <1>13, <3>1
    <3>2. CASE u >= rest
      <4> HIDE DEF u
      <4> QED BY <1>1, <1>9, <1>10, <3>2
    <3> QED BY <2>1, <3>1, <3>2
  <2>6. ~ (gx >= need)
    BY <1>1 DEF gx
  <2> QED BY <1>6, <1>7, <2>4, <2>5, <2>6 DEF Takes, gx, ax, r, slots
<1> QED BY <1>6, <1>7, <1>8, <1>12, <1>13 DEF left, used, y, r, u

\* Once the minimum is reached, the tasks not looked at make no difference.
LEMMA GreedyEnds ==
  ASSUME NEW tasks, NEW I, PaidTasks(tasks, I), NEW need \in Int,
         NEW cap \in Nat \cup {NotStated}, NEW D \in SUBSET I, NEW x,
         \A i \in I \ D : \A j \in D : tasks[i].reward <= tasks[j].reward,
         Greedy(tasks, I, D, x, need, cap), Gross(tasks, I, x) >= need
  PROVE  Greedy(tasks, I, I, x, need, cap)
<1>1. Gross(tasks, I, x) \in Nat
  BY SumsOfSchedule DEF Greedy
<1>2. PICK k \in D : Cut(tasks, D, x, k) /\ Stopped(tasks, I, x, k, need, cap)
  BY <1>1 DEF Greedy
<1>3. Cut(tasks, I, x, k)
  <2>1. \A i \in I \ D : x[i] = 0 /\ tasks[i].reward <= tasks[k].reward
    BY DEF Greedy
  <2>2. \A i \in I : tasks[i].reward \in Int
    BY DEF PaidTasks, Positive
  <2> QED BY <1>2, <2>1, <2>2 DEF Cut
<1> QED BY <1>2, <1>3 DEF Greedy

\* The schedule that steps of the loop make.
Steps(C) == Seq([task : C, actions : Int])
PathOf(steps, C) ==
  [i \in C |-> SumFunction([k \in {l \in DOMAIN steps : steps[l].task = i} |->
                             steps[k].actions])]

LEMMA PathOfNone ==
  ASSUME NEW C
  PROVE  << >> \in Steps(C) /\ PathOf(<< >>, C) = [i \in C |-> 0]
<1>1. \A i \in C : {l \in DOMAIN << >> : << >>[l].task = i} = {}
  OBVIOUS
<1>2. \A f : DOMAIN f = {} => SumFunction(f) = 0
  <2> SUFFICES ASSUME NEW f, DOMAIN f = {} PROVE SumFunction(f) = 0
    OBVIOUS
  <2>1. IsFiniteSet({}) /\ \A s \in {} : f[s] \in Int
    BY FS_EmptySet
  <2>2. SumFunctionOnSet(f, {}) = 0
    BY <2>1, SumStep
  <2> QED BY <2>2 DEF SumFunction
<1>3. ASSUME NEW i \in C PROVE PathOf(<< >>, C)[i] = 0
  <2> DEFINE K == {l \in DOMAIN << >> : << >>[l].task = i}
             f == [k \in K |-> << >>[k].actions]
  <2>1. DOMAIN f = {}
    BY <1>1
  <2>2. PathOf(<< >>, C)[i] = SumFunction(f)
    BY DEF PathOf
  <2> HIDE DEF f
  <2> QED BY <1>2, <2>1, <2>2
<1>4. PathOf(<< >>, C) = [i \in C |-> PathOf(<< >>, C)[i]]
  BY DEF PathOf
<1> QED BY <1>3, <1>4 DEF Steps

LEMMA PathOfMore ==
  ASSUME NEW C, NEW steps \in Steps(C), NEW i \in C, NEW used \in Int
  PROVE  LET step == [task |-> i, actions |-> used]
             x == PathOf(steps, C)
         IN /\ Append(steps, step) \in Steps(C) /\ x \in [C -> Int]
            /\ PathOf(Append(steps, step), C) = [x EXCEPT ![i] = x[i] + used]
<1> DEFINE step == [task |-> i, actions |-> used]
           more == Append(steps, step)
           n == Len(steps)
           x == PathOf(steps, C)
           y == PathOf(more, C)
           K(j) == {l \in 1 .. n : steps[l].task = j}
           M(j) == {l \in 1 .. (n + 1) : more[l].task = j}
           f(j) == [k \in K(j) |-> steps[k].actions]
           g(j) == [k \in M(j) |-> more[k].actions]
<1>1. /\ n \in Nat /\ DOMAIN steps = 1 .. n
      /\ \A l \in 1 .. n : steps[l].task \in C /\ steps[l].actions \in Int
  <2>1. n \in Nat /\ DOMAIN steps = 1 .. n
    BY DEF Steps
  <2>2. \A l \in 1 .. n : steps[l] \in [task : C, actions : Int]
    <3> DEFINE S == [task : C, actions : Int]
    <3>1. steps \in Seq(S)
      BY DEF Steps
    <3> HIDE DEF S
    <3>2. \A l \in 1 .. n : steps[l] \in S
      BY <3>1
    <3> QED BY <3>2 DEF S
  <2>3. ASSUME NEW l \in 1 .. n
        PROVE  steps[l].task \in C /\ steps[l].actions \in Int
    <3>1. steps[l] \in [task : C, actions : Int]
      BY <2>2
    <3> QED BY ONLY <3>1
  <2> QED BY <2>1, <2>3
<1>2. /\ more \in Steps(C) /\ DOMAIN more = 1 .. (n + 1)
      /\ \A l \in 1 .. n : more[l] = steps[l]
      /\ more[n + 1] = step
  BY DEF Steps
<1>3. \A j \in C : x[j] = SumFunction(f(j)) /\ y[j] = SumFunction(g(j))
  BY <1>1, <1>2 DEF PathOf
<1>4. x = [j \in C |-> x[j]] /\ y = [j \in C |-> y[j]]
  BY DEF PathOf
<1> HIDE DEF more, x, y, n
<1>5. ASSUME NEW j \in C PROVE /\ IsFiniteSet(K(j)) /\ x[j] = SumFunctionOnSet(f(j), K(j))
                               /\ x[j] \in Int /\ \A k \in K(j) : f(j)[k] \in Int
  <2>1. IsFiniteSet(K(j)) /\ \A k \in K(j) : f(j)[k] \in Int
    <3>1. IsFiniteSet(1 .. n) /\ K(j) \in SUBSET (1 .. n)
      BY <1>1, FS_Interval
    <3> QED BY <1>1, <3>1, FS_Subset
  <2>2. x[j] = SumFunctionOnSet(f(j), K(j))
    BY <1>3 DEF SumFunction
  <2> DEFINE A == K(j)  h == f(j)
  <2> HIDE DEF A, h
  <2>3. SumFunctionOnSet(h, A) \in Int
    BY <2>1, SumType DEF A, h
  <2> QED BY <2>1, <2>2, <2>3 DEF A, h
<1>6. ASSUME NEW j \in C, j # i PROVE y[j] = x[j]
  <2>1. M(j) = K(j)
    BY <1>1, <1>2, <1>6
  <2>2. g(j) = f(j)
    BY <1>1, <1>2, <2>1
  <2> QED BY <1>3, <2>2
<1>7. y[i] = x[i] + used
  <2>1. M(i) = K(i) \cup {n + 1} /\ (n + 1) \notin K(i)
    BY <1>1, <1>2
  <2>2. g(i)[n + 1] = used /\ \A k \in K(i) : g(i)[k] = f(i)[k]
    BY <1>1, <1>2, <2>1
  <2>3. y[i] = SumFunctionOnSet(g(i), M(i))
    BY <1>3 DEF SumFunction
  <2>4. IsFiniteSet(K(i)) /\ x[i] = SumFunctionOnSet(f(i), K(i))
        /\ \A k \in K(i) : f(i)[k] \in Int
    BY <1>5
  <2> DEFINE A == K(i)  h == f(i)  r == g(i)  new == n + 1
  <2>5. /\ IsFiniteSet(A) /\ new \notin A /\ \A k \in A : h[k] \in Int /\ r[k] = h[k]
        /\ r[new] \in Int
    BY <2>1, <2>2, <2>4
  <2> HIDE DEF A, h, r, new
  <2>6. SumFunctionOnSet(r, A \cup {new}) = SumFunctionOnSet(h, A) + r[new]
    BY <2>5, SumOfOneMore
  <2> QED BY <2>1, <2>2, <2>3, <2>4, <2>6 DEF A, h, r, new
<1>8. x \in [C -> Int]
  BY <1>4, <1>5
<1> HIDE DEF K, M, f, g
<1>9. y = [x EXCEPT ![i] = x[i] + used]
  BY <1>4, <1>6, <1>7, <1>8
<1> QED BY <1>2, <1>8, <1>9 DEF more, x, y

\* Where the loop is: the steps make a schedule of the tasks looked at, none
\* of which pays less than one of todo, and left is what it leaves.
OnPath(tasks, C, todo, steps, left, need, cap, budget) ==
  LET x == PathOf(steps, C)
  IN /\ steps \in Steps(C) /\ todo \in SUBSET C
     /\ \A i \in todo : \A j \in C \ todo : tasks[i].reward <= tasks[j].reward
     /\ x \in Schedules(tasks, C) /\ \A i \in todo : x[i] = 0
     /\ Within(Actions(C, x), cap) /\ Within(Gross(tasks, C, x), budget)
     /\ left = PathLeft(tasks, C, x, need, cap, budget)
     /\ budget = NotStated => Greedy(tasks, C, C \ todo, x, need, cap)

LEMMA OnPathStart ==
  ASSUME NEW tasks, NEW C, PaidTasks(tasks, C), NEW need \in Positive,
         NEW cap \in Nat \cup {NotStated}, NEW budget \in Nat \cup {NotStated}
  PROVE  OnPath(tasks, C, C, << >>,
                [remaining |-> need, budget |-> budget, actions |-> cap],
                need, cap, budget)
<1> DEFINE x == [i \in C |-> 0]
<1>1. << >> \in Steps(C) /\ PathOf(<< >>, C) = x
  BY PathOfNone
<1>2. /\ Greedy(tasks, C, {}, x, need, cap)
      /\ Gross(tasks, C, x) = 0 /\ Actions(C, x) = 0
  BY GreedyStart
<1>3. \A i \in C : x[i] = 0
  OBVIOUS
<1> HIDE DEF x
<1>4. Within(0, cap) /\ Within(0, budget) /\ Less(cap, 0) = cap /\ Less(budget, 0) = budget
  BY DEF Within, Less
<1>5. PathLeft(tasks, C, x, need, cap, budget)
      = [remaining |-> need, budget |-> budget, actions |-> cap]
  BY <1>2, <1>4 DEF PathLeft, Positive
<1>6. x \in Schedules(tasks, C) /\ C \ C = {}
  BY <1>2 DEF Greedy
<1> QED BY <1>1, <1>2, <1>3, <1>4, <1>5, <1>6 DEF OnPath

LEMMA OnPathTake ==
  ASSUME NEW tasks, NEW C, PaidTasks(tasks, C), NEW todo, NEW steps, NEW left,
         NEW need \in Int, NEW cap \in Nat \cup {NotStated},
         NEW budget \in Nat \cup {NotStated},
         OnPath(tasks, C, todo, steps, left, need, cap, budget),
         left.remaining > 0, NEW i \in todo,
         \A j \in todo : tasks[j].reward <= tasks[i].reward,
         NEW used, used = PathTakes(tasks[i], left), NEW steps2, NEW left2,
         IF used > 0
         THEN /\ steps2 = Append(steps, [task |-> i, actions |-> used])
              /\ left2 = [remaining |-> left.remaining - tasks[i].reward * used,
                          budget |-> Less(left.budget, tasks[i].reward * used),
                          actions |-> Less(left.actions, used)]
         ELSE steps2 = steps /\ left2 = left
  PROVE  OnPath(tasks, C, todo \ {i}, steps2, left2, need, cap, budget)
<1> DEFINE x == PathOf(steps, C)
           y == [x EXCEPT ![i] = used]
           step == [task |-> i, actions |-> used]
           rest == todo \ {i}
<1>1. /\ steps \in Steps(C) /\ todo \in SUBSET C /\ i \in C
      /\ x \in Schedules(tasks, C) /\ x[i] = 0 /\ x \in [C -> Nat]
      /\ Within(Actions(C, x), cap) /\ Within(Gross(tasks, C, x), budget)
      /\ left = PathLeft(tasks, C, x, need, cap, budget)
  BY SumsOfSchedule DEF OnPath
<1>2. Gross(tasks, C, x) < need
  <2>1. left.remaining = need - Gross(tasks, C, x) /\ Gross(tasks, C, x) \in Nat
    BY <1>1, SumsOfSchedule DEF PathLeft
  <2> QED BY <2>1
<1> HIDE DEF x
<1>3. /\ used \in Nat /\ y \in Schedules(tasks, C)
      /\ Within(Actions(C, y), cap) /\ Within(Gross(tasks, C, y), budget)
      /\ PathLeft(tasks, C, y, need, cap, budget)
         = [remaining |-> left.remaining - tasks[i].reward * used,
            budget |-> Less(left.budget, tasks[i].reward * used),
            actions |-> Less(left.actions, used)]
      /\ budget = NotStated => Takes(tasks, C, x, i, used, need, cap)
  <2> DEFINE l == PathLeft(tasks, C, x, need, cap, budget)
             u == PathTakes(tasks[i], l)
             z == [x EXCEPT ![i] = u]
  <2>1. l = left /\ u = used /\ z = y
    BY <1>1
  <2>2. /\ u \in Nat /\ z \in Schedules(tasks, C)
        /\ Within(Actions(C, z), cap) /\ Within(Gross(tasks, C, z), budget)
        /\ PathLeft(tasks, C, z, need, cap, budget)
           = [remaining |-> l.remaining - tasks[i].reward * u,
              budget |-> Less(l.budget, tasks[i].reward * u),
              actions |-> Less(l.actions, u)]
        /\ budget = NotStated => Takes(tasks, C, x, i, u, need, cap)
    BY <1>1, <1>2, PathTake
  <2> HIDE DEF l, u, z, y
  <2> QED BY <2>1, <2>2
<1>4. steps2 \in Steps(C) /\ PathOf(steps2, C) = y
      /\ left2 = PathLeft(tasks, C, y, need, cap, budget)
  <2>1. CASE used > 0
    <3>1. /\ Append(steps, step) \in Steps(C)
          /\ PathOf(Append(steps, step), C) = [x EXCEPT ![i] = x[i] + used]
      <4>1. steps \in Steps(C) /\ i \in C /\ used \in Int
        BY <1>1, <1>3
      <4> QED BY ONLY <4>1, PathOfMore DEF x
    <3>2. x[i] + used = used
      BY <1>1, <1>3
    <3> QED BY <1>3, <2>1, <3>1, <3>2
  <2>2. CASE ~(used > 0)
    <3>1. used = 0 /\ steps2 = steps /\ left2 = left
      BY <1>3, <2>2
    <3>2. y = x
      BY <1>1, <3>1
    <3> HIDE DEF y
    <3> QED BY <1>1, <3>1, <3>2 DEF x
  <2> QED BY <2>1, <2>2
<1>5. \A j \in rest : y[j] = 0
  BY <1>1 DEF OnPath, x
<1>6. \A j \in rest : \A k \in C \ rest : tasks[j].reward <= tasks[k].reward
  BY <1>1 DEF OnPath
<1>7. ASSUME budget = NotStated PROVE Greedy(tasks, C, C \ rest, y, need, cap)
  <2> DEFINE D == C \ todo
  <2>1. Greedy(tasks, C, D, x, need, cap)
    BY <1>7 DEF OnPath, x
  <2>2. \A j \in D : tasks[i].reward <= tasks[j].reward
    BY DEF OnPath
  <2>3. D \in SUBSET C /\ i \in C \ D /\ D \cup {i} = C \ rest
    BY <1>1
  <2>4. Takes(tasks, C, x, i, used, need, cap)
    BY <1>3, <1>7
  <2> HIDE DEF D, y, rest
  <2>5. Greedy(tasks, C, D \cup {i}, y, need, cap)
    BY <2>1, <2>2, <2>3, <2>4, GreedyStep DEF y
  <2> QED BY <2>3, <2>5
<1> HIDE DEF y
<1>8. rest \in SUBSET C
  BY <1>1
<1> HIDE DEF rest
<1>9. OnPath(tasks, C, rest, steps2, left2, need, cap, budget)
  BY <1>3, <1>4, <1>5, <1>6, <1>7, <1>8 DEF OnPath
<1> QED BY <1>9 DEF rest

\* A path that reaches the minimum is one the source can pay, and without a
\* budget the shortest; a loop without a budget that ends short of it shows
\* that there is none.
ReachesBest(tasks, C, x, need, cap, budget) ==
  /\ x \in Schedules(tasks, C) /\ Gross(tasks, C, x) >= need
  /\ Within(Actions(C, x), cap) /\ Within(Gross(tasks, C, x), budget)
  /\ budget = NotStated =>
       \A s \in Schedules(tasks, C) :
         Gross(tasks, C, s) >= need => Actions(C, x) <= Actions(C, s)

NoneReaches(tasks, C, need, cap) ==
  \A s \in Schedules(tasks, C) : Within(Actions(C, s), cap) => Gross(tasks, C, s) < need

LEMMA OnPathEnd ==
  ASSUME NEW tasks, NEW C, PaidTasks(tasks, C), NEW todo, NEW steps, NEW left,
         NEW need \in Int, NEW cap \in Nat \cup {NotStated}, NEW budget,
         OnPath(tasks, C, todo, steps, left, need, cap, budget)
  PROVE  /\ left.remaining <= 0 =>
              ReachesBest(tasks, C, PathOf(steps, C), need, cap, budget)
         /\ ~(left.remaining <= 0) /\ todo = {} /\ budget = NotStated =>
              NoneReaches(tasks, C, need, cap)
<1> DEFINE x == PathOf(steps, C)
<1>1. /\ x \in Schedules(tasks, C) /\ todo \in SUBSET C
      /\ Within(Actions(C, x), cap) /\ Within(Gross(tasks, C, x), budget)
      /\ Gross(tasks, C, x) \in Nat /\ Actions(C, x) \in Nat
      /\ left.remaining = need - Gross(tasks, C, x)
      /\ budget = NotStated => Greedy(tasks, C, C \ todo, x, need, cap)
  BY SumsOfSchedule DEF OnPath, PathLeft
<1>2. \A s \in Schedules(tasks, C) : Gross(tasks, C, s) \in Nat /\ Actions(C, s) \in Nat
  BY SumsOfSchedule
<1> HIDE DEF x
<1>3. ASSUME left.remaining <= 0 PROVE Gross(tasks, C, x) >= need
  BY <1>1, <1>3
<1>4. ASSUME left.remaining <= 0, budget = NotStated, NEW s \in Schedules(tasks, C),
             Gross(tasks, C, s) >= need
      PROVE  Actions(C, x) <= Actions(C, s)
  <2> DEFINE D == C \ todo
  <2>1. \A i \in C \ D : \A j \in D : tasks[i].reward <= tasks[j].reward
    BY DEF OnPath
  <2>2. D \in SUBSET C /\ Greedy(tasks, C, D, x, need, cap)
    BY <1>1, <1>4
  <2> HIDE DEF D
  <2>3. Greedy(tasks, C, C, x, need, cap)
    BY <1>3, <1>4, <2>1, <2>2, GreedyEnds
  <2>4. Actions(C, s) >= Actions(C, x)
    BY <1>3, <1>4, <2>3, GreedyOutcome
  <2> QED BY <1>1, <1>2, <2>4
<1>5. ASSUME ~(left.remaining <= 0), todo = {}, budget = NotStated,
             NEW s \in Schedules(tasks, C), Within(Actions(C, s), cap)
      PROVE  Gross(tasks, C, s) < need
  <2>1. C \ todo = C
    BY <1>5
  <2>2. Greedy(tasks, C, C, x, need, cap)
    BY <1>1, <1>5, <2>1
  <2>3. Gross(tasks, C, x) < need
    BY <1>1, <1>5
  <2>4. Gross(tasks, C, s) <= Gross(tasks, C, x)
    BY <1>5, <2>2, <2>3, GreedyOutcome
  <2> QED BY <1>1, <1>2, <2>3, <2>4
<1> QED BY <1>1, <1>3, <1>4, <1>5 DEF x, ReachesBest, NoneReaches

Need(tasks, balance) == Agreed(PublishedIn(tasks, DOMAIN tasks, "minimum")) - balance

\* What is said before any path is built.
LEMMA StatusFacts ==
  ASSUME NEW n \in Nat, NEW tasks \in [1 .. n -> Tasks], NEW inventory,
         Priced(inventory), NEW balance \in Nat
  PROVE  LET C == Candidates(tasks, inventory)
             status == StatusBeforePath(tasks, inventory, balance)
         IN /\ Need(tasks, balance) \in Int /\ status # "READY"
            /\ status = "planning" => Need(tasks, balance) \in Positive
            /\ status = "SETTLEMENT_UNREACHABLE"
               /\ PublishedBound(tasks, "budget") = NotStated =>
                 NoneReaches(tasks, C, Need(tasks, balance), PublishedBound(tasks, "cap"))
<1> DEFINE C == Candidates(tasks, inventory)
           minimum == Agreed(PublishedIn(tasks, DOMAIN tasks, "minimum"))
           status == StatusBeforePath(tasks, inventory, balance)
           need == Need(tasks, balance)
           cap == PublishedBound(tasks, "cap")
           capacity == PublicCapacity(tasks, C)
<1>1. minimum \in Nat /\ need = minimum - balance
  BY BoundsArePositive DEF Need
<1>2. status = CASE inventory = << >> -> "NO_INVENTORY"
       [] inventory # << >> /\ C = {} -> "NO_PROFITABLE_CANDIDATES"
       [] inventory # << >> /\ C # {} /\ minimum = 0 -> "THRESHOLD_UNKNOWN"
       [] inventory # << >> /\ C # {} /\ minimum > 0 /\ balance >= minimum ->
            "THRESHOLD_MET"
       [] inventory # << >> /\ C # {} /\ minimum > balance
          /\ capacity < minimum - balance -> "SETTLEMENT_UNREACHABLE"
       [] OTHER -> "planning"
  BY DEF StatusBeforePath
<1> DEFINE empty == inventory = << >>
           none == C = {}
<1> HIDE DEF minimum, need, capacity
<1>3. /\ status # "READY"
      /\ status = "planning" => minimum > balance
      /\ status = "SETTLEMENT_UNREACHABLE" => capacity < minimum - balance
  <2> HIDE DEF status, C
  <2> QED BY <1>1, <1>2
<1>4. need \in Int /\ (status = "planning" => need \in Positive)
  <2> HIDE DEF status
  <2> QED BY <1>1, <1>3 DEF Positive
<1>5. ASSUME status = "SETTLEMENT_UNREACHABLE", PublishedBound(tasks, "budget") = NotStated
      PROVE  NoneReaches(tasks, C, need, cap)
  <2>1. PaidTasks(tasks, C) /\ cap \in Nat \cup {NotStated}
    BY CandidatesArePaid, BoundsArePositive
  <2> HIDE DEF C, status
  <2>2. PICK m \in Nat :
          /\ capacity = Capped(m, PublishedBound(tasks, "budget"))
          /\ \A s \in Schedules(tasks, C) :
               Within(Actions(C, s), cap) => Gross(tasks, C, s) <= m
    BY <2>1, CapacityFold DEF capacity
  <2>3. capacity = m /\ m < need
    BY <1>1, <1>3, <1>5, <2>2 DEF Capped
  <2>4. \A s \in Schedules(tasks, C) : Gross(tasks, C, s) \in Nat
    BY <2>1, SumsOfSchedule
  <2> HIDE DEF cap
  <2> QED BY <1>4, <2>2, <2>3, <2>4 DEF NoneReaches
<1> QED BY <1>3, <1>4, <1>5 DEF need

\* The plan of the report: where its loop is, or what its status says.
PathInv ==
  LET C == Candidates(ptasks, pworkers)
      need == Need(ptasks, pbalance)
      cap == PublishedBound(ptasks, "cap")
      budget == PublishedBound(ptasks, "budget")
  IN /\ \E n \in Nat : ptasks \in [1 .. n -> Tasks]
     /\ Priced(pworkers) /\ pbalance \in Nat
     /\ pplan # "none" => ptasks # << >>
     /\ pplan = "planning" => OnPath(ptasks, C, ptodo, psteps, pleft, need, cap, budget)
     /\ pplan = "READY" =>
          ReachesBest(ptasks, C, PathOf(psteps, C), need, cap, budget)
     /\ pplan = "SETTLEMENT_UNREACHABLE" /\ budget = NotStated =>
          NoneReaches(ptasks, C, need, cap)

LEMMA PathInvInit == PortfolioInit => PathInv
<1>1. Priced(<< >>)
  BY DEF Priced
<1> QED BY <1>1, NoTasksNoVerdict DEF PortfolioInit, PathInv

LEMMA PathInvStep == PathInv /\ [PortfolioNext]_portfolioVars => PathInv'
<1> SUFFICES ASSUME PathInv, [PortfolioNext]_portfolioVars PROVE PathInv'
  OBVIOUS
<1> DEFINE C == Candidates(ptasks, pworkers)
           need == Need(ptasks, pbalance)
           cap == PublishedBound(ptasks, "cap")
           budget == PublishedBound(ptasks, "budget")
<1>1. PICK n \in Nat : ptasks \in [1 .. n -> Tasks]
  BY DEF PathInv
<1>2. /\ PaidTasks(ptasks, C) /\ need \in Int
      /\ cap \in Nat \cup {NotStated} /\ budget \in Nat \cup {NotStated}
  BY <1>1, CandidatesArePaid, BoundsArePositive DEF PathInv, Need
<1>3. CASE SettlementSummary
  <2>1. PICK m \in 1 .. MaxTasks : ptasks' \in [1 .. m -> Tasks]
    BY <1>3 DEF SettlementSummary
  <2>2. m \in Nat /\ pplan' = "none"
    BY <1>3 DEF SettlementSummary, PathInv
  <2>3. ptasks # << >> => ptasks' = ptasks
    BY <1>3 DEF SettlementSummary
  <2> QED BY <1>3, <2>1, <2>2 DEF SettlementSummary, PathInv
<1>4. CASE BeginPortfolio
  <2> DEFINE K == Candidates(ptasks, pworkers')
             want == Need(ptasks, pbalance')
  <2>1. /\ ptasks' = ptasks /\ ptasks # << >> /\ psteps' = << >>
        /\ pworkers' \in Inventories /\ pbalance' \in Balances
        /\ pplan' = StatusBeforePath(ptasks, pworkers', pbalance')
        /\ pplan' = "planning" =>
             ptodo' = K /\ pleft' = [remaining |-> want, budget |-> budget, actions |-> cap]
    BY <1>4 DEF BeginPortfolio, Need
  <2>2. Priced(pworkers') /\ pbalance' \in Nat
    BY <2>1, InventoriesAssumption, BalancesAssumption DEF Priced
  <2>3. /\ want \in Int /\ pplan' # "READY"
        /\ pplan' = "planning" => want \in Positive
        /\ pplan' = "SETTLEMENT_UNREACHABLE" /\ budget = NotStated =>
             NoneReaches(ptasks, K, want, cap)
    BY <1>1, <2>1, <2>2, StatusFacts
  <2>4. PaidTasks(ptasks, K)
    BY <1>1, <2>2, CandidatesArePaid
  <2> HIDE DEF K, want, cap, budget
  <2>5. pplan' = "planning" => OnPath(ptasks, K, ptodo', psteps', pleft', want, cap, budget)
    BY <1>2, <2>1, <2>3, <2>4, OnPathStart
  <2> QED BY <1>1, <2>1, <2>2, <2>3, <2>5 DEF PathInv, K, want, cap, budget
<1>5. CASE TakeCandidate
  <2>1. /\ ptasks' = ptasks /\ pworkers' = pworkers /\ pbalance' = pbalance
        /\ pplan = "planning" /\ pplan' = "planning" /\ pleft.remaining > 0
    BY <1>5 DEF TakeCandidate
  <2>2. OnPath(ptasks, C, ptodo, psteps, pleft, need, cap, budget)
    BY <2>1 DEF PathInv
  <2>3. PICK i \in ptodo :
          /\ \A j \in ptodo : ~TakenBefore(j, i)
          /\ LET used == PathTakes(ptasks[i], pleft)
             IN IF used > 0
                THEN /\ psteps' = Append(psteps, [task |-> i, actions |-> used])
                     /\ pleft' =
                          [remaining |-> pleft.remaining - ptasks[i].reward * used,
                           budget |-> Less(pleft.budget, ptasks[i].reward * used),
                           actions |-> Less(pleft.actions, used)]
                ELSE psteps' = psteps /\ pleft' = pleft
          /\ ptodo' = ptodo \ {i}
    BY <1>5 DEF TakeCandidate, PathTakes, Fits, UsableSlots
  <2>4. \A j \in ptodo : ptasks[j].reward <= ptasks[i].reward
    <3>1. \A j \in ptodo : ptasks[j].reward \in Int
      BY <1>2, <2>2 DEF OnPath, PaidTasks, Positive
    <3>2. \A j \in ptodo : ~(ptasks[j].reward > ptasks[i].reward)
      BY <2>3 DEF TakenBefore
    <3> QED BY <3>1, <3>2
  <2> DEFINE used == PathTakes(ptasks[i], pleft)
  <2> HIDE DEF C, need, cap, budget, used
  <2>5. OnPath(ptasks, C, ptodo \ {i}, psteps', pleft', need, cap, budget)
    BY <1>2, <2>1, <2>2, <2>3, <2>4, OnPathTake DEF used
  <2> QED BY <1>1, <2>1, <2>3, <2>5 DEF PathInv, C, need, cap, budget
<1>6. CASE EndPortfolio
  <2>1. /\ ptasks' = ptasks /\ pworkers' = pworkers /\ pbalance' = pbalance
        /\ pplan = "planning" /\ (ptodo = {} \/ pleft.remaining <= 0)
        /\ IF pleft.remaining <= 0 THEN pplan' = "READY" /\ psteps' = psteps
           ELSE pplan' = "SETTLEMENT_UNREACHABLE"
    BY <1>6 DEF EndPortfolio
  <2>2. OnPath(ptasks, C, ptodo, psteps, pleft, need, cap, budget) /\ ptasks # << >>
    BY <2>1 DEF PathInv
  <2> HIDE DEF C, need, cap, budget
  <2>3. /\ pleft.remaining <= 0 =>
             ReachesBest(ptasks, C, PathOf(psteps, C), need, cap, budget)
        /\ ~(pleft.remaining <= 0) /\ ptodo = {} /\ budget = NotStated =>
             NoneReaches(ptasks, C, need, cap)
    BY <1>2, <2>2, OnPathEnd
  <2>4. /\ pplan' = "READY" =>
             ReachesBest(ptasks, C, PathOf(psteps', C), need, cap, budget)
        /\ pplan' = "SETTLEMENT_UNREACHABLE" /\ budget = NotStated =>
             NoneReaches(ptasks, C, need, cap)
        /\ pplan' # "planning"
    BY <2>1, <2>3
  <2>5. Priced(pworkers') /\ pbalance' \in Nat
    BY <2>1 DEF PathInv
  <2> QED BY <1>1, <2>1, <2>2, <2>4, <2>5 DEF PathInv, C, need, cap, budget
<1>7. CASE ForgetTasks
  <2>1. Priced(<< >>)
    BY DEF Priced
  <2>2. ptasks' = << >> /\ pworkers' = << >> /\ pbalance' = 0 /\ pplan' = "none"
    BY <1>7 DEF ForgetTasks
  <2> QED BY <2>1, <2>2, NoTasksNoVerdict DEF PathInv
<1>8. CASE UNCHANGED portfolioVars
  BY <1>8 DEF portfolioVars, PathInv
<1> QED BY <1>3, <1>4, <1>5, <1>6, <1>7, <1>8 DEF PortfolioNext

LEMMA PathIsReal == PathInv => SettlementPathIsReal
<1> SUFFICES ASSUME PathInv PROVE SettlementPathIsReal
  OBVIOUS
<1> DEFINE C == Candidates(ptasks, pworkers)
           need == Agreed(PublishedIn(ptasks, DOMAIN ptasks, "minimum")) - pbalance
           cap == PublishedBound(ptasks, "cap")
           budget == PublishedBound(ptasks, "budget")
           x == PathSchedule(C)
           S == Schedules(ptasks, C)
           reaching == {s \in S : ScheduleGross(ptasks, s) >= need /\ Affordable(s)}
<1>1. PaidTasks(ptasks, C) /\ need = Need(ptasks, pbalance) /\ x = PathOf(psteps, C)
  BY CandidatesArePaid DEF PathInv, Need, PathSchedule, PathOf
<1>2. \A s \in S : /\ ScheduleGross(ptasks, s) = Gross(ptasks, C, s)
                   /\ ScheduleActions(s) = Actions(C, s)
                   /\ Gross(ptasks, C, s) \in Nat
  BY <1>1, SumsOfSchedule
<1>3. \A s \in S : Affordable(s) <=>
        Within(Actions(C, s), cap) /\ Within(Gross(ptasks, C, s), budget)
  BY <1>2 DEF Affordable
<1>4. /\ pplan = "READY" => ReachesBest(ptasks, C, x, need, cap, budget)
      /\ pplan = "SETTLEMENT_UNREACHABLE" /\ budget = NotStated =>
           NoneReaches(ptasks, C, need, cap)
  BY <1>1 DEF PathInv
<1>5. need \in Int
  BY BoundsArePositive DEF PathInv
<1>6. SUFFICES /\ pplan = "READY" =>
                    /\ x \in reaching
                    /\ budget = NotStated =>
                         \A s \in reaching : ScheduleActions(x) <= ScheduleActions(s)
               /\ pplan = "SETTLEMENT_UNREACHABLE" /\ budget = NotStated => reaching = {}
  BY DEF SettlementPathIsReal
<1> HIDE DEF C, need, cap, budget, x, S
<1>7. ASSUME pplan = "READY"
      PROVE  /\ x \in reaching
             /\ budget = NotStated =>
                  \A s \in reaching : ScheduleActions(x) <= ScheduleActions(s)
  <2>1. /\ x \in S /\ Gross(ptasks, C, x) >= need
        /\ Within(Actions(C, x), cap) /\ Within(Gross(ptasks, C, x), budget)
        /\ budget = NotStated =>
             \A s \in S : Gross(ptasks, C, s) >= need => Actions(C, x) <= Actions(C, s)
    BY <1>4, <1>7 DEF ReachesBest, S
  <2> QED BY <1>2, <1>3, <2>1
<1>8. ASSUME pplan = "SETTLEMENT_UNREACHABLE", budget = NotStated, NEW s \in reaching
      PROVE  FALSE
  <2>1. s \in S /\ Gross(ptasks, C, s) >= need /\ Within(Actions(C, s), cap)
    BY <1>2, <1>3
  <2>2. Gross(ptasks, C, s) < need
    BY <1>4, <1>8, <2>1 DEF NoneReaches, S
  <2> QED BY <1>2, <1>5, <2>1, <2>2
<1> QED BY <1>7, <1>8

\* What cog portfolio says of the settlement is real, for any tasks, workers,
\* balances and published bounds: a READY path is one the source can pay and
\* reaches the minimum, with the least number of actions where no budget
\* binds, and unreachable means that no schedule does (portfolio.py).
THEOREM PathsAreReal == PortfolioSpec => []SettlementPathIsReal
BY PathInvInit, PathInvStep, PathIsReal, PTL DEF PortfolioSpec
==============================================================================
