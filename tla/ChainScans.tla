------------------------------ MODULE ChainScans ------------------------------
(* One value Scout at a time against one growing chain: the Scouts of cog     *)
(* have an RPC endpoint list and a protocol each, and read whatever blocks    *)
(* their endpoints know while others are mined.                               *)
EXTENDS LiquityV1Scan, LiquityV2Scan, GravitaScan

VARIABLE scout    \* the Scout that runs

StatesOf == [v1 |-> V1States, v2 |-> V2States, gravita |-> GStates]

Init ==
  /\ scout \in DOMAIN StatesOf
  /\ ChainInit(StatesOf[scout])
  /\ V1Init /\ V2Init /\ GInit

ScoutVars == <<v1vars, v2vars, gvars>>

ChainMoves ==
  /\ \/ \E s \in StatesOf[scout] : Mine(s)
     \/ \E e \in Endpoints : Sync(e)
  /\ UNCHANGED <<scout, ScoutVars>>

ScanV1 == scout = "v1" /\ V1Next /\ UNCHANGED <<scout, chainVars, v2vars, gvars>>
ScanV2 == scout = "v2" /\ V2Next /\ UNCHANGED <<scout, chainVars, v1vars, gvars>>
ScanGravita ==
  scout = "gravita" /\ GNext /\ UNCHANGED <<scout, chainVars, v1vars, v2vars>>

Next == ChainMoves \/ ScanV1 \/ ScanV2 \/ ScanGravita

Spec == Init /\ [][Next]_<<scout, chainVars, ScoutVars>>

------------------------------------------------------------------------------
\* No scan mixes two blocks: what a report lists was true at the block it
\* names, however the chain moved and whichever endpoints answered.
RecordsAreTrue == V1RecordsAreTrue /\ V2RecordsAreTrue /\ GRecordsAreTrue

\* A Liquity scan that succeeds lists every endangered Trove within its limit,
\* and lists it once.
NothingMissed == V1NothingMissed /\ V2NothingMissed
==============================================================================
