---------------------------- MODULE LiquityV2Scan ----------------------------
(* scan_liquity_v2: one block number and gas price for the whole scan, then   *)
(* for each branch its price, its Troves page by page and the gas of each     *)
(* liquidation, before the next branch.  Troves carry their entire debt and   *)
(* collateral.  Each action is one RPC call.                                  *)
EXTENDS EthereumChain

CONSTANTS
  V2States,       \* the protocol's possible states, see V2StatesAssumption
  Branches,       \* _BRANCHES: the sequence of [symbol, mcr]
  V2BatchSize, V2MaxTroves,
  FixedReward,    \* _FIXED_GAS_COMPENSATION_WEI
  V2Gas

ASSUME BranchesAssumption ==
  Branches \in Seq([symbol : STRING, mcr : Nat]) /\ Branches # << >>

Symbols == {Branches[n].symbol : n \in DOMAIN Branches}
V2Trove == [id : Nat, coll : Nat, debt : Nat]
V2State == [gasPrice : Nat, price : [Symbols -> Nat],
            troves : [Symbols -> Seq(V2Trove)]]

\* The array of Trove identifiers holds each once.
ASSUME V2StatesAssumption ==
  \A s \in V2States :
    /\ s \in V2State
    /\ \A b \in Symbols : \A i, j \in DOMAIN s.troves[b] :
         s.troves[b][i].id = s.troves[b][j].id => i = j

ASSUME V2LimitsAssumption ==
  V2BatchSize \in Nat \ {0} /\ V2MaxTroves \in Nat \ {0}

VARIABLES
  v2pc, v2block, v2gasPrice,
  v2branch,   \* position in _BRANCHES
  v2price, v2troves,
  v2todo,     \* positions of the liquidatable Troves not yet estimated
  v2found, v2report

v2vars == <<v2pc, v2block, v2gasPrice, v2branch, v2price, v2troves, v2todo,
            v2found, v2report>>

NoReportV2 == [status |-> "none", block |-> 0, opportunities |-> << >>]
Branch == Branches[v2branch]

V2Init ==
  /\ v2pc = "idle" /\ v2block = 0 /\ v2gasPrice = 0 /\ v2branch = 1
  /\ v2price = 0 /\ v2troves = << >> /\ v2todo = {} /\ v2found = << >>
  /\ v2report = NoReportV2

V2End(report) ==
  /\ v2report' = report
  /\ v2pc' = "idle" /\ v2block' = 0 /\ v2gasPrice' = 0 /\ v2branch' = 1
  /\ v2price' = 0 /\ v2troves' = << >> /\ v2todo' = {} /\ v2found' = << >>

V2Fail ==
  /\ v2pc \notin {"idle", "estimate"}
  /\ V2End([NoReportV2 EXCEPT !.status = "failed"])

V2BlockNumber ==
  /\ v2pc = "idle"
  /\ v2block' \in LatestAnswers
  /\ v2pc' = "gasPrice"
  /\ v2report' = NoReportV2
  /\ UNCHANGED <<v2gasPrice, v2branch, v2price, v2troves, v2todo, v2found>>

V2GasPrice ==
  /\ v2pc = "gasPrice"
  /\ \E b \in LatestAnswers : v2gasPrice' = blocks[b].gasPrice
  /\ v2pc' = "price"
  /\ UNCHANGED <<v2block, v2branch, v2price, v2troves, v2todo, v2found,
                 v2report>>

\* fetchPrice() also returns whether the oracle failed; the decoder checks
\* that the word is a boolean and drops it.
V2Price ==
  /\ v2pc = "price"
  /\ \E s \in CallAt(v2block) : v2price' = s.price[Branch.symbol]
  /\ v2pc' = "troves"
  /\ UNCHANGED <<v2block, v2gasPrice, v2branch, v2troves, v2todo, v2found,
                 v2report>>

V2IsLiquidatable(t, price, mcr) ==
  t.debt > 0 /\ (t.coll * price) \div t.debt < mcr

V2StartIndexRestarts == 0
V2StartIndex == Len(v2troves)

V2Troves ==
  /\ v2pc = "troves"
  /\ LET count == Min({V2BatchSize, V2MaxTroves - Len(v2troves)})
     IN \E s \in CallAt(v2block) :
          LET page == Page(s.troves[Branch.symbol], V2StartIndex, count)
              all == v2troves \o page
          IN /\ v2troves' = all
             /\ IF Len(page) < count \/ Len(all) >= V2MaxTroves
                THEN /\ v2pc' = "estimate"
                     /\ v2todo' = {i \in DOMAIN all :
                          V2IsLiquidatable(all[i], v2price, Branch.mcr)}
                ELSE UNCHANGED <<v2pc, v2todo>>
  /\ UNCHANGED <<v2block, v2gasPrice, v2branch, v2price, v2found, v2report>>

(* The contract's view: the Troves a liquidation would close.                 *)
V2Endangered(s, n) ==
  LET list == s.troves[Branches[n].symbol]
      near == 1 .. Min({V2MaxTroves, Len(list)})
  IN {<<n, list[i].id>> : i \in {j \in near :
        V2IsLiquidatable(list[j], s.price[Branches[n].symbol],
                         Branches[n].mcr)}}

V2GasEstimates(id) ==
  {"unknown"} \cup {"known" : b \in {h \in LatestAnswers :
                           <<v2branch, id>> \in V2Endangered(blocks[h], v2branch)}}

\* Only the fixed compensation counts as the reward.
V2Opportunity(t, gas) ==
  [id |-> <<v2branch, t.id>>, priced |-> gas = "known",
   net |-> IF gas = "known" THEN FixedReward - V2Gas * v2gasPrice ELSE 0]

V2Estimate ==
  /\ v2pc = "estimate"
  /\ \E i \in v2todo :
       /\ \A j \in v2todo : i <= j
       /\ \E gas \in V2GasEstimates(v2troves[i].id) :
            v2found' = Append(v2found, V2Opportunity(v2troves[i], gas))
       /\ v2todo' = v2todo \ {i}
  /\ UNCHANGED <<v2pc, v2block, v2gasPrice, v2branch, v2price, v2troves,
                 v2report>>

V2NextBranch ==
  /\ v2pc = "estimate" /\ v2todo = {} /\ v2branch < Len(Branches)
  /\ v2branch' = v2branch + 1
  /\ v2pc' = "price"
  /\ v2troves' = << >> /\ v2price' = 0
  /\ UNCHANGED <<v2block, v2gasPrice, v2todo, v2found, v2report>>

V2RanksBefore(a, b) ==
  \/ a.priced /\ ~b.priced
  \/ a.priced /\ b.priced /\ a.net # 0 /\ (b.net = 0 \/ a.net > b.net)

V2Ranked(list) ==
  \A i, j \in DOMAIN list : i < j => ~V2RanksBefore(list[j], list[i])

V2Finish ==
  /\ v2pc = "estimate" /\ v2todo = {} /\ v2branch = Len(Branches)
  /\ \E p \in Bijection(DOMAIN v2found, DOMAIN v2found) :
       LET sorted == [i \in DOMAIN v2found |-> v2found[p[i]]]
       IN /\ V2Ranked(sorted)
          /\ V2End([status |-> "ok", block |-> v2block,
                    opportunities |-> sorted])

V2Next ==
  \/ V2BlockNumber \/ V2GasPrice \/ V2Price \/ V2Troves \/ V2Estimate
  \/ V2NextBranch \/ V2Finish \/ V2Fail

------------------------------------------------------------------------------
V2Listed ==
  {v2report.opportunities[i].id : i \in DOMAIN v2report.opportunities}

V2AllEndangered(s) ==
  UNION {V2Endangered(s, n) : n \in DOMAIN Branches}

\* One block for all the branches: a price and the Troves it condemns are
\* never read at two (liquity_v2.py:405).
V2RecordsAreTrue ==
  v2report.status = "ok" =>
    V2Listed \subseteq V2AllEndangered(blocks[v2report.block])

\* Paging misses nothing of any branch within the limit and lists nothing
\* twice (liquity_v2.py:266).
V2NothingMissed ==
  v2report.status = "ok" =>
    /\ V2AllEndangered(blocks[v2report.block]) \subseteq V2Listed
    /\ Cardinality(V2Listed) = Len(v2report.opportunities)
==============================================================================
