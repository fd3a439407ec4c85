----------------------------- MODULE GravitaScan -----------------------------
(* scan_gravita and _scan_collateral: the block number, the gas price, the    *)
(* list of collaterals and the ETH price; then for each collateral its        *)
(* parameters and price and a walk up the sorted list of Vessels from the     *)
(* tail, one Vessel and one gas estimate at a time.  Each action is one RPC   *)
(* call, or calls that read constants of the same block.                      *)
EXTENDS EthereumChain

CONSTANTS
  GStates,      \* per block: gasPrice, assets, and per asset active, mcr,
                \* price (0: the feed reverts) and vessels from the tail
  MaxVessels,   \* max_vessels_per_collateral
  GRewardShare, GGas

\* The contracts know the Vessels of every collateral they list.
ASSUME GStatesAssumption ==
  \A s \in GStates :
    s.assets \in Seq(DOMAIN s.vessels) /\ s.active \in [DOMAIN s.vessels -> BOOLEAN]

VARIABLES
  gpc, gblock, ggasPrice,
  gassets,    \* collaterals still to scan, the current one first
  gconfig,    \* what was read of the current collateral
  gcurrent,   \* borrower the walk is at
  gcoll,      \* entire collateral read of it
  gscanned,   \* Vessels of this collateral read so far
  gstats,     \* scan_status of the collaterals done
  gfound, greport

gvars == <<gpc, gblock, ggasPrice, gassets, gconfig, gcurrent, gcoll,
           gscanned, gstats, gfound, greport>>

ZeroAddress == "none"
NoConfig == [mcr |-> 0, price |-> 0]
NoReportG == [status |-> "none", block |-> 0, stats |-> << >>,
              opportunities |-> << >>]
Asset == Head(gassets)

GInit ==
  /\ gpc = "idle" /\ gblock = 0 /\ ggasPrice = 0 /\ gassets = << >>
  /\ gconfig = NoConfig /\ gcurrent = ZeroAddress /\ gcoll = 0 /\ gscanned = 0
  /\ gstats = << >> /\ gfound = << >> /\ greport = NoReportG

GEnd(report) ==
  /\ greport' = report
  /\ gpc' = "idle" /\ gblock' = 0 /\ ggasPrice' = 0 /\ gassets' = << >>
  /\ gconfig' = NoConfig /\ gcurrent' = ZeroAddress /\ gcoll' = 0 /\ gscanned' = 0
  /\ gstats' = << >> /\ gfound' = << >>

\* Only a price that cannot be read and a gas estimate are survived.
GFail ==
  /\ gpc \notin {"idle", "price", "estimate"}
  /\ GEnd([NoReportG EXCEPT !.status = "failed"])

GBlockNumber ==
  /\ gpc = "idle"
  /\ gblock' \in LatestAnswers
  /\ gpc' = "gasPrice"
  /\ greport' = NoReportG
  /\ UNCHANGED <<ggasPrice, gassets, gconfig, gcurrent, gcoll, gscanned, gstats,
                 gfound>>

GGasPrice ==
  /\ gpc = "gasPrice"
  /\ \E b \in LatestAnswers : ggasPrice' = blocks[b].gasPrice
  /\ gpc' = "assets"
  /\ UNCHANGED <<gblock, gassets, gconfig, gcurrent, gcoll, gscanned, gstats,
                 gfound, greport>>

\* getValidCollateral, and the ETH price that only scales the gas.
GAssets ==
  /\ gpc = "assets"
  /\ \E s \in CallAt(gblock) : gassets' = s.assets
  /\ gpc' = "config"
  /\ UNCHANGED <<gblock, ggasPrice, gconfig, gcurrent, gcoll, gscanned, gstats,
                 gfound, greport>>

AssetDone(status) ==
  /\ gstats' = Append(gstats, [asset |-> Asset, status |-> status])
  /\ gassets' = Tail(gassets)
  /\ gpc' = "config"
  /\ gconfig' = NoConfig /\ gcurrent' = ZeroAddress /\ gcoll' = 0 /\ gscanned' = 0

\* An inactive collateral is reported and its price never asked for.
GConfig ==
  /\ gpc = "config"
  /\ gassets # << >>
  /\ \E s \in CallAt(gblock) :
       IF s.active[Asset]
       THEN /\ gconfig' = [NoConfig EXCEPT !.mcr = s.mcr[Asset]]
            /\ gpc' = "price"
            /\ UNCHANGED <<gassets, gcurrent, gcoll, gscanned, gstats>>
       ELSE AssetDone("inactive")
  /\ UNCHANGED <<gblock, ggasPrice, gfound, greport>>

GPrice ==
  /\ gpc = "price"
  /\ \E s \in CallAt(gblock) :
       /\ s.price[Asset] > 0
       /\ gconfig' = [gconfig EXCEPT !.price = s.price[Asset]]
  /\ gpc' = "last"
  /\ UNCHANGED <<gblock, ggasPrice, gassets, gcurrent, gcoll, gscanned, gstats,
                 gfound, greport>>

\* A feed that reverts, or any failure of this call, costs the collateral.
GOracleUnavailable ==
  /\ gpc = "price"
  /\ AssetDone("oracle_unavailable")
  /\ UNCHANGED <<gblock, ggasPrice, gfound, greport>>

GLast ==
  /\ gpc = "last"
  /\ \E s \in CallAt(gblock) :
       gcurrent' = IF s.vessels[Asset] = << >> THEN ZeroAddress
                   ELSE s.vessels[Asset][1].borrower
  /\ gpc' = "vessel"
  /\ UNCHANGED <<gblock, ggasPrice, gassets, gconfig, gcoll, gscanned, gstats,
                 gfound, greport>>

Vessels(s, a) == {s.vessels[a][i] : i \in DOMAIN s.vessels[a]}
Icr(v, price) == (v.coll * price) \div v.debt

\* getEntireDebtAndColl and getCurrentICR, which the contract computes from
\* the price the Scout passes.  A healthy Vessel ends the walk: those above
\* it are healthier.
GVessel ==
  /\ gpc = "vessel"
  /\ gcurrent # ZeroAddress /\ gscanned < MaxVessels
  /\ \E s \in CallAt(gblock) :
       IF \E v \in Vessels(s, Asset) :
            v.borrower = gcurrent /\ Icr(v, gconfig.price) < gconfig.mcr
       THEN /\ gpc' = "estimate"
            /\ gcoll' \in {v.coll : v \in {w \in Vessels(s, Asset) :
                                         w.borrower = gcurrent}}
            /\ gscanned' = gscanned + 1
            /\ UNCHANGED <<gassets, gconfig, gcurrent, gstats>>
       ELSE AssetDone("ok")
  /\ UNCHANGED <<gblock, ggasPrice, gfound, greport>>

GListEnds ==
  /\ gpc = "vessel"
  /\ gcurrent = ZeroAddress \/ gscanned = MaxVessels
  /\ AssetDone("ok")
  /\ UNCHANGED <<gblock, ggasPrice, gfound, greport>>

(* The contract's view: the Vessels a liquidation would close.                *)
GEndangered(s) ==
  UNION {{<<a, v.borrower>> : v \in {w \in Vessels(s, a) :
            s.active[a] /\ Icr(w, s.price[a]) < s.mcr[a]}} :
         a \in DOMAIN s.vessels}

\* The counted reward is the collateral part, in USD.
GOpportunity ==
  [id |-> <<Asset, gcurrent>>,
   net |-> (gcoll \div GRewardShare) * gconfig.price - GGas * ggasPrice]

\* A Vessel whose liquidation cannot be estimated at the head is dropped: it
\* was closed meanwhile, or the estimate failed.
GEstimate ==
  /\ gpc = "estimate"
  /\ \/ /\ \E b \in LatestAnswers :
             <<Asset, gcurrent>> \in GEndangered(blocks[b])
        /\ gfound' = Append(gfound, GOpportunity)
     \/ UNCHANGED gfound
  /\ gpc' = "prev"
  /\ UNCHANGED <<gblock, ggasPrice, gassets, gconfig, gcurrent, gcoll, gscanned,
                 gstats, greport>>

\* getPrev: the next Vessel up the list, or the zero address.
GPrev ==
  /\ gpc = "prev"
  /\ \E s \in CallAt(gblock) :
       LET list == s.vessels[Asset]
           above == {i \in DOMAIN list :
                       i > 1 /\ list[i - 1].borrower = gcurrent}
       IN gcurrent' \in IF above = {} THEN {ZeroAddress}
                        ELSE {list[i].borrower : i \in above}
  /\ gpc' = "vessel"
  /\ UNCHANGED <<gblock, ggasPrice, gassets, gconfig, gcoll, gscanned, gstats,
                 gfound, greport>>

\* A net value of zero is false in Python and ranks as minus infinity, behind
\* every loss.
GRanksBefore(a, b) == a.net # 0 /\ (b.net = 0 \/ a.net > b.net)

GRanked(list) ==
  \A i, j \in DOMAIN list : i < j => ~GRanksBefore(list[j], list[i])

GFinish ==
  /\ gpc = "config" /\ gassets = << >>
  /\ \E p \in Bijection(DOMAIN gfound, DOMAIN gfound) :
       LET sorted == [i \in DOMAIN gfound |-> gfound[p[i]]]
       IN /\ GRanked(sorted)
          /\ GEnd([status |-> "ok", block |-> gblock, stats |-> gstats,
                   opportunities |-> sorted])

GNext ==
  \/ GBlockNumber \/ GGasPrice \/ GAssets \/ GConfig \/ GPrice
  \/ GOracleUnavailable \/ GLast \/ GVessel \/ GListEnds \/ GEstimate
  \/ GPrev \/ GFinish \/ GFail

------------------------------------------------------------------------------
GListed == {greport.opportunities[i].id : i \in DOMAIN greport.opportunities}

\* The price, the threshold and the Vessel of each listed liquidation are of
\* the one block the report names (gravita.py:545).
GRecordsAreTrue ==
  greport.status = "ok" => GListed \subseteq GEndangered(blocks[greport.block])
==============================================================================
