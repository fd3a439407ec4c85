------------------------- MODULE OpportunityReview ---------------------------
(* opportunity/model.py, policies/default.py and the part of                  *)
(* opportunity/engine.py that looks at one record: what identifies it, what   *)
(* its review scores and whether it may be reviewed.                          *)
(*                                                                            *)
(* A record: claim, evidence and title are what identifies it; evidenceScore  *)
(* is that of its source; age is in days.                                     *)
EXTENDS Integers, Sequences, FiniteSets, TLC

CONSTANTS
  NoClaim,      \* claim_url absent
  NotStated     \* a metadata field or an estimate that is absent

\* None is no number.
ASSUME NotStatedAssumption == NotStated \notin Int

Identifiers(r) ==
  IF r.claim # NoClaim THEN {r.claim}
  ELSE IF r.evidence # {} THEN r.evidence ELSE {r.title}

\* expected_net_value
NetValue(r) ==
  IF ~r.fixedReward \/ r.cost = NotStated THEN NotStated ELSE r.reward - r.cost

FreshnessScore(r) ==
  CASE r.age = NotStated -> 40
    [] r.age # NotStated /\ r.age <= 1 -> 100
    [] r.age # NotStated /\ r.age \in 2 .. 7 -> 85
    [] r.age # NotStated /\ r.age \in 8 .. 30 -> 70
    [] r.age # NotStated /\ r.age \in 31 .. 90 -> 55
    [] OTHER -> 35

\* Published slots say more than an open GitHub issue.
AvailabilityScore(r) ==
  IF r.slots # NotStated THEN IF r.slots > 0 THEN 100 ELSE 0
  ELSE IF r.githubOpen THEN 65 ELSE 40

EconomicsScore(r) ==
  IF NetValue(r) = NotStated THEN 40 ELSE IF NetValue(r) > 0 THEN 100 ELSE 0

RiskPercent(r) ==
  CASE r.risk = "CLEAR" -> 100 [] r.risk = "CIVIL_REVIEW" -> 75 [] OTHER -> 0

\* Rounded to the nearest integer.
Score(r) ==
  LET weighted == 30 * r.evidenceScore + 25 * (IF r.authorized THEN 100 ELSE 0)
                  + 15 * (FreshnessScore(r) + AvailabilityScore(r)
                          + EconomicsScore(r))
  IN (weighted * RiskPercent(r) + 5000) \div 10000

\* evaluate_for_review
ReviewAllowed(r) ==
  /\ r.risk \notin {"PENAL_REVIEW", "REJECT"}
  /\ r.authorized
  /\ NetValue(r) = NotStated \/ NetValue(r) > 0
==============================================================================
