-------------------------------- MODULE Review -------------------------------
(* cog review: review_and_deduplicate of opportunity/engine.py.  The batch is *)
(* reviewed record by record; a record joins the first group it shares an     *)
(* identifier with, and the group keeps the review with the highest score.    *)
EXTENDS OpportunityReview, Functions

CONSTANTS
  Records,      \* the records Scouts may produce
  MaxBatch      \* bound on the records of one review

\* The evidence score of a record's source is a percentage.
ASSUME RecordsAssumption == \A r \in Records : r.evidenceScore \in 0 .. 100

VARIABLES
  rbatch,       \* records not reviewed yet
  rdone,        \* records reviewed
  rgroups,      \* selected and selected_identifiers: [kept, ids]
  rlisting      \* what the command prints

reviewVars == <<rbatch, rdone, rgroups, rlisting>>

ReviewInit ==
  rbatch = << >> /\ rdone = {} /\ rgroups = << >> /\ rlisting = << >>

BeginReview ==
  /\ rbatch = << >> /\ rgroups = << >>
  /\ \E n \in 1 .. MaxBatch : rbatch' \in [1 .. n -> Records]
  /\ rdone' = {} /\ rlisting' = << >>
  /\ UNCHANGED rgroups

Overlapping(r) == {i \in DOMAIN rgroups : Identifiers(r) \cap rgroups[i].ids # {}}

StrongerAlways(r, kept) == r
Stronger(r, kept) == IF Score(r) > Score(kept) THEN r ELSE kept

Merged(g, r) == [kept |-> Stronger(r, g.kept), ids |-> g.ids \cup Identifiers(r)]

ReviewRecord ==
  /\ rbatch # << >>
  /\ LET r == Head(rbatch)
     IN /\ \/ /\ Overlapping(r) = {}
              /\ rgroups' = Append(rgroups, [kept |-> r, ids |-> Identifiers(r)])
           \/ \E i \in Overlapping(r) :
                /\ \A j \in Overlapping(r) : i <= j
                /\ rgroups' = [rgroups EXCEPT ![i] = Merged(rgroups[i], r)]
        /\ rdone' = rdone \cup {r}
  /\ rbatch' = Tail(rbatch)
  /\ UNCHANGED rlisting

\* Allowed reviews first, then by score; equal ones keep their order.
ReviewsBefore(a, b) ==
  \/ ReviewAllowed(a) /\ ~ReviewAllowed(b)
  \/ ReviewAllowed(a) = ReviewAllowed(b) /\ Score(a) > Score(b)

ListedBefore(i, j) ==
  LET a == rgroups[i].kept  b == rgroups[j].kept
  IN ReviewsBefore(a, b) \/ (~ReviewsBefore(b, a) /\ i < j)

ListOrders ==
  {p \in Bijection(DOMAIN rgroups, DOMAIN rgroups) :
     \A i, j \in DOMAIN rgroups : i < j => ListedBefore(p[i], p[j])}

ListReviews ==
  /\ rbatch = << >> /\ rgroups # << >>
  /\ \E p \in ListOrders :
       rlisting' = [i \in DOMAIN rgroups |-> rgroups[p[i]].kept]
  /\ rgroups' = << >>
  /\ UNCHANGED <<rbatch, rdone>>

ReviewNext == BeginReview \/ ReviewRecord \/ ListReviews

ReviewSpec == ReviewInit /\ [][ReviewNext]_reviewVars

------------------------------------------------------------------------------
\* "Keep the strongest review record" (engine.py:167): whatever the order of
\* the batch, a group that stands for a record keeps a review at least as
\* strong, and every identifier of the record leads to it.
StrongestCovers ==
  rgroups # << >> =>
    \A r \in rdone : \E i \in DOMAIN rgroups :
      /\ Identifiers(r) \subseteq rgroups[i].ids
      /\ Score(rgroups[i].kept) >= Score(r)

\* The records of S that r is connected to through identifiers: those that
\* no set can leave out that has r and all that its members overlap.
Closed(T, S) ==
  \A a \in T, b \in S : Identifiers(a) \cap Identifiers(b) # {} => b \in T
ConnectedTo(r, S) ==
  {b \in S : \A T \in SUBSET S : r \in T /\ Closed(T, S) => b \in T}

\* Records are only ever merged along evidence they share: each record is
\* represented in the listing by one it is connected to through identifiers,
\* and that one scores no less.
ListingRepresentsBatch ==
  rlisting # << >> =>
    \A r \in rdone : \E i \in DOMAIN rlisting :
      rlisting[i] \in ConnectedTo(r, rdone) /\ Score(rlisting[i]) >= Score(r)
==============================================================================
