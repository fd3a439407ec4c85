----------------------------- MODULE MCScoutCycle -----------------------------
(* Fleets for the runs.  averray is the first Scout of the code's list and    *)
(* akash a source whose name is also its key; issuehunt-oss is the name of    *)
(* the Scout whose key is issuehunt.  The tick is the hour of the workflow    *)
(* and the day is shortened to four of them.                                  *)
EXTENDS ScoutCycle

SteadyFleet == <<{"averray", "akash"}>>
GrowingFleet == <<{"averray"}, {"averray", "issuehunt-oss"}>>
FleetBeyondBudget == <<{"averray", "akash"}, {"averray", "akash", "keep3r"}>>
AliasedFleet == <<{"averray", "issuehunt-oss"}>>

OnePerDay == [budget |-> 4, floor |-> 1, cap |-> 3]
ScarceBudget == [budget |-> 2, floor |-> 1, cap |-> 2]
==============================================================================
