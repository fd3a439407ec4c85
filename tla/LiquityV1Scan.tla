---------------------------- MODULE LiquityV1Scan ----------------------------
(* scan_liquity_v1: the block number and the gas price, then the price, the   *)
(* two redistribution accumulators and the Troves page by page, all at that   *)
(* block, then the gas of each liquidation, estimated at the head.  Each      *)
(* action is one RPC call; the chain moves between them.                      *)
EXTENDS EthereumChain

CONSTANTS
  V1States,       \* the protocol's possible states, see V1StatesAssumption
  V1Mcr,          \* _MCR_WEI
  V1Precision,    \* _DECIMAL_PRECISION
  V1BatchSize, V1MaxTroves,
  V1RewardShare,  \* the liquidator gets this fraction of the collateral
  V1Gas,          \* gas of a liquidation
  Infinite        \* above every collateral ratio: 2**256 - 1 in the code

\* A state of the protocol; troves lists the Troves from the tail, the most
\* endangered first.
V1Trove == [owner : STRING, debt : Nat, coll : Nat, stake : Nat,
            snapEth : Nat, snapDebt : Nat]

V1State == [gasPrice : Nat, price : Nat, lEth : Nat, lDebt : Nat,
            troves : Seq(V1Trove)]

\* SortedTroves holds a borrower once.
ASSUME V1StatesAssumption ==
  \A s \in V1States :
    /\ s \in V1State
    /\ \A i, j \in DOMAIN s.troves : s.troves[i].owner = s.troves[j].owner => i = j

ASSUME V1LimitsAssumption ==
  V1BatchSize \in Nat \ {0} /\ V1MaxTroves \in Nat \ {0}

VARIABLES
  v1pc,       \* the call the scan makes next; "idle" between scans
  v1block,    \* block_tag
  v1read,     \* the scalars read so far
  v1troves,   \* raw_troves so far
  v1todo,     \* positions of the liquidatable Troves not yet estimated
  v1found,    \* opportunities
  v1report    \* the result of the last scan

v1vars == <<v1pc, v1block, v1read, v1troves, v1todo, v1found, v1report>>

NothingReadV1 == [gasPrice |-> 0, price |-> 0, lEth |-> 0, lDebt |-> 0]
NoReportV1 == [status |-> "none", block |-> 0, opportunities |-> << >>]

V1Init ==
  /\ v1pc = "idle" /\ v1block = 0 /\ v1read = NothingReadV1
  /\ v1troves = << >> /\ v1todo = {} /\ v1found = << >>
  /\ v1report = NoReportV1

V1End(report) ==
  /\ v1report' = report
  /\ v1pc' = "idle" /\ v1block' = 0 /\ v1read' = NothingReadV1
  /\ v1troves' = << >> /\ v1todo' = {} /\ v1found' = << >>

\* Any call but the gas estimates ends the scan when it raises.
V1Fail ==
  /\ v1pc \notin {"idle", "estimate"}
  /\ V1End([NoReportV1 EXCEPT !.status = "failed"])

V1BlockNumber ==
  /\ v1pc = "idle"
  /\ v1block' \in LatestAnswers
  /\ v1pc' = "gasPrice"
  /\ v1report' = NoReportV1
  /\ UNCHANGED <<v1read, v1troves, v1todo, v1found>>

V1GasPrice ==
  /\ v1pc = "gasPrice"
  /\ \E b \in LatestAnswers :
       v1read' = [v1read EXCEPT !.gasPrice = blocks[b].gasPrice]
  /\ v1pc' = "price"
  /\ UNCHANGED <<v1block, v1troves, v1todo, v1found, v1report>>

V1Scalar(field, next) ==
  /\ v1pc = field
  /\ \E s \in CallAt(v1block) : v1read' = [v1read EXCEPT ![field] = s[field]]
  /\ v1pc' = next
  /\ UNCHANGED <<v1block, v1troves, v1todo, v1found, v1report>>

V1Price == V1Scalar("price", "lEth")
V1LEth == V1Scalar("lEth", "lDebt")
V1LDebt == V1Scalar("lDebt", "troves")

Gain(stake, accumulator, snapshot) ==
  IF accumulator > snapshot
  THEN (stake * (accumulator - snapshot)) \div V1Precision ELSE 0

\* What the pending redistributions make of a Trove, from the values read.
EffectiveColl(t) == t.coll + Gain(t.stake, v1read.lEth, t.snapEth)
EffectiveDebt(t) == t.debt + Gain(t.stake, v1read.lDebt, t.snapDebt)
EffectiveIcr(t) ==
  IF EffectiveDebt(t) > 0
  THEN (EffectiveColl(t) * v1read.price) \div EffectiveDebt(t) ELSE Infinite

V1Offset == Len(v1troves)

\* getMultipleSortedTroves(-(offset + 1), count) counts from the tail.
V1Troves ==
  /\ v1pc = "troves"
  /\ LET count == Min({V1BatchSize, V1MaxTroves - Len(v1troves)})
     IN \E s \in CallAt(v1block) :
          LET page == Page(s.troves, V1Offset, count)
              all == v1troves \o page
          IN /\ v1troves' = all
             /\ IF Len(page) < count \/ Len(all) >= V1MaxTroves
                THEN /\ v1pc' = "estimate"
                     /\ v1todo' = {i \in DOMAIN all :
                                    EffectiveIcr(all[i]) < V1Mcr}
                ELSE UNCHANGED <<v1pc, v1todo>>
  /\ UNCHANGED <<v1block, v1read, v1found, v1report>>

(* The contract's own view of a Trove (TroveManager.getCurrentICR).           *)
V1TrueIcr(s, t) ==
  LET coll == t.coll + Gain(t.stake, s.lEth, t.snapEth)
      debt == t.debt + Gain(t.stake, s.lDebt, t.snapDebt)
  IN IF debt > 0 THEN (coll * s.price) \div debt ELSE Infinite

V1Endangered(s) ==
  {s.troves[i].owner : i \in {j \in DOMAIN s.troves :
                               V1TrueIcr(s, s.troves[j]) < V1Mcr}}

\* eth_estimateGas names no block: an endpoint answers for its head, and an
\* error of any kind leaves the gas unknown.
V1GasEstimates(owner) ==
  {"unknown"} \cup {"known" : b \in {h \in LatestAnswers :
                                      owner \in V1Endangered(blocks[h])}}

\* expected_net_value: the ETH reward less the gas.
V1Opportunity(t, gas) ==
  [owner |-> t.owner, priced |-> gas = "known",
   net |-> IF gas = "known"
           THEN EffectiveColl(t) \div V1RewardShare - V1Gas * v1read.gasPrice
           ELSE 0]

V1Estimate ==
  /\ v1pc = "estimate"
  /\ \E i \in v1todo :
       /\ \A j \in v1todo : i <= j
       /\ \E gas \in V1GasEstimates(v1troves[i].owner) :
            v1found' = Append(v1found, V1Opportunity(v1troves[i], gas))
       /\ v1todo' = v1todo \ {i}
  /\ UNCHANGED <<v1pc, v1block, v1read, v1troves, v1report>>

\* The key of the sort.  A net value of zero is false in Python and becomes
\* minus infinity, behind every loss and before the unpriced records.
V1RanksBefore(a, b) ==
  \/ a.priced /\ ~b.priced
  \/ a.priced /\ b.priced /\ a.net # 0 /\ (b.net = 0 \/ a.net > b.net)

V1Ranked(list) ==
  \A i, j \in DOMAIN list : i < j => ~V1RanksBefore(list[j], list[i])

V1Finish ==
  /\ v1pc = "estimate"
  /\ v1todo = {}
  /\ \E p \in Bijection(DOMAIN v1found, DOMAIN v1found) :
       LET sorted == [i \in DOMAIN v1found |-> v1found[p[i]]]
       IN /\ V1Ranked(sorted)
          /\ V1End([status |-> "ok", block |-> v1block,
                    opportunities |-> sorted])

V1Next ==
  \/ V1BlockNumber \/ V1GasPrice \/ V1Price \/ V1LEth \/ V1LDebt
  \/ V1Troves \/ V1Estimate \/ V1Finish \/ V1Fail

------------------------------------------------------------------------------
V1Listed ==
  {v1report.opportunities[i].owner : i \in DOMAIN v1report.opportunities}

\* Whatever the chain and the endpoints did during the scan, each liquidation
\* it lists was open at the one block the report names (liquity_v1.py:401).
V1RecordsAreTrue ==
  v1report.status = "ok" =>
    V1Listed \subseteq V1Endangered(blocks[v1report.block])

\* Paging misses no endangered Trove among the first max_troves and lists
\* none twice (liquity_v1.py:242).
V1NothingMissed ==
  v1report.status = "ok" =>
    LET s == blocks[v1report.block]
        near == [s EXCEPT !.troves = SubSeq(@, 1, Min({V1MaxTroves, Len(@)}))]
    IN /\ V1Endangered(near) \subseteq V1Listed
       /\ Cardinality(V1Listed) = Len(v1report.opportunities)
==============================================================================
