------------------------------ MODULE Estimation -----------------------------
(* estimation/estimator.py and adapters/: what a task needs, what a declared  *)
(* worker can do, and what the task costs and earns there.  Money is in cents.*)
(*                                                                            *)
(* A task (an opportunity): words are the rules its text matches, category is *)
(* BidPostLoop's own (or none), report says that the text asks for a report.  *)
EXTENDS OpportunityReview, FiniteSetsExt

TaskRule(low, high, confidence, needs) ==
  [low |-> low, high |-> high, confidence |-> confidence, needs |-> needs]

RuleBook ==
  [transcription     |-> TaskRule(4, 20, 85, {"transcription", "file_io"}),
   ocr               |-> TaskRule(3, 15, 90, {"ocr", "file_io"}),
   document_analysis |-> TaskRule(5, 25, 80, {"text_analysis", "file_io"}),
   browser           |-> TaskRule(5, 20, 80, {"browser"}),
   email             |-> TaskRule(5, 20, 70, {"email"}),
   code              |-> TaskRule(20, 180, 60, {"code", "git"})]

CategoryRules ==
  [verify   |-> TaskRule(1, 4, 90, {"http", "text_analysis"}),
   discover |-> TaskRule(2, 8, 80, {"browser", "text_analysis"}),
   analyze  |-> TaskRule(1, 6, 85, {"http", "text_analysis"}),
   organize |-> TaskRule(1, 6, 85, {"http", "text_analysis"})]

MatchedRules(o) ==
  IF o.category \in DOMAIN CategoryRules THEN {CategoryRules[o.category]}
  ELSE {RuleBook[w] : w \in o.words}

Required(o) == UNION {r.needs : r \in MatchedRules(o)}

\* A report costs 3 to 10 minutes more; a task no rule knows is a guess.
Minutes(o) ==
  LET rules == MatchedRules(o)
  IN IF rules = {} THEN [low |-> 10, high |-> 90]
     ELSE [low |-> Max({r.low : r \in rules}) + (IF o.report THEN 3 ELSE 0),
           high |-> Max({r.high : r \in rules}) + (IF o.report THEN 10 ELSE 0)]

(* ---------------------------- declared workers --------------------------- *)

CapabilityAliases ==
  [browser |-> {"browser", "browser.session", "browser.automation"},
   http |-> {"http", "http.client", "network.http"},
   text_analysis |-> {"reasoning", "llm.reasoning", "text.analysis",
                      "text_analysis"},
   code |-> {"code", "code.edit", "coding"},
   git |-> {"git", "repository.git"},
   file_io |-> {"file_io", "file-io", "filesystem"},
   ocr |-> {"ocr", "document.ocr"},
   transcription |-> {"transcription", "media.transcription"},
   email |-> {"email", "email.client"}]

MapCapabilities(raw) ==
  {c \in DOMAIN CapabilityAliases : raw \cap CapabilityAliases[c] # {}}

\* A Machine Bridge registration names what its worker does; a Mesh
\* advertisement names also what its node can reach, which is noted and never
\* counted.  Names that no alias knows are noted too.
AdaptRegistration(doc, hourly) ==
  [name |-> doc.name, capabilities |-> MapCapabilities(doc.raw),
   hourly |-> hourly, configured |-> TRUE]
AdaptMesh(doc, hourly) ==
  [name |-> doc.name, capabilities |-> MapCapabilities(doc.raw),
   hourly |-> hourly, configured |-> TRUE]

\* Registrations come first on the command line, then the advertisements.
LoadObservations(registrations, advertisements, hourly) ==
  [i \in DOMAIN registrations |-> AdaptRegistration(registrations[i], hourly)]
  \o [i \in DOMAIN advertisements |-> AdaptMesh(advertisements[i], hourly)]

(* -------------------------------- estimates ------------------------------ *)

Missing(o, profile) ==
  IF profile.configured THEN Required(o) \ profile.capabilities ELSE Required(o)

Feasibility(o, profile) ==
  CASE ~profile.configured \/ Required(o) = {} -> "UNKNOWN"
    [] profile.configured /\ Required(o) # {} /\ Missing(o, profile) = {} ->
         "FEASIBLE"
    [] profile.configured /\ Required(o) # {}
         /\ Missing(o, profile) = Required(o) -> "NOT_FEASIBLE"
    [] OTHER -> "PARTIAL"

\* The hourly rate for so many minutes, rounded half up to a cent.
Cost(minutes, hourly) ==
  IF hourly = NotStated THEN NotStated ELSE (2 * hourly * minutes + 60) \div 120

\* Worst and best case of what is left of the reward.
Profitability(netLow, netHigh) ==
  CASE netLow = NotStated -> "UNKNOWN"
    [] netLow # NotStated /\ netLow > 0 -> "POSITIVE"
    [] netLow # NotStated /\ netHigh <= 0 -> "NEGATIVE"
    [] OTHER -> "UNCERTAIN"

Net(o, cost) == IF cost = NotStated THEN NotStated ELSE o.reward - cost

Estimate(o, profile) ==
  LET costLow == Cost(Minutes(o).low, profile.hourly)
      costHigh == Cost(Minutes(o).high, profile.hourly)
      comparable == o.fixedReward /\ o.currency = "USD"
      netLow == IF comparable THEN Net(o, costHigh) ELSE NotStated
      netHigh == IF comparable THEN Net(o, costLow) ELSE NotStated
  IN [feasibility |-> Feasibility(o, profile),
      missing |-> Missing(o, profile),
      costLow |-> costLow, costHigh |-> costHigh,
      netLow |-> netLow, netHigh |-> netHigh,
      profitability |-> Profitability(netLow, netHigh)]

\* The workers, by position, on which the task is feasible and pays even in
\* the worst case.  A worker is judged alone: profiles are never united.
PayingWorkers(o, inventory) ==
  {w \in DOMAIN inventory :
     LET e == Estimate(o, inventory[w])
     IN e.feasibility = "FEASIBLE" /\ e.profitability = "POSITIVE"}
==============================================================================
