---------------------------- MODULE MCScoutCadence ----------------------------
(* Policies with and without a floor, with caps that bind and caps that do    *)
(* not, and budgets below the floors, at them, and beyond all caps.           *)
EXTENDS ScoutCadence

MCPolicies ==
  {p \in [budget : {1, 4, 6, 7}, floor : 0 .. 2, cap : {1, 2, 3, 8}] :
     ValidPolicy(p)}
==============================================================================
