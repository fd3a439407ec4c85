---------------------------- MODULE Replenishment ----------------------------
(* What opportunity/history.py computes from a source: the capacity of what   *)
(* it offers now (_capacity), the snapshot of it, and what a sequence of      *)
(* snapshots says of its inflow (analyze_replenishment).                      *)
(*                                                                            *)
(* An offer of the source is a function slots from the open opportunities to  *)
(* their remaining_slots (0: not published), with the budget and the number   *)
(* of paid actions published for the whole source (0: none).  Rewards belong  *)
(* to the opportunities.                                                      *)
EXTENDS Integers, Sequences, FiniteSets, Functions

CONSTANTS
  Reward,        \* reward of each opportunity
  NotFixed,      \* opportunities whose reward is not a fixed amount of USD
  Unpublished    \* None: nothing is known

Lesser(a, b) == IF a < b THEN a ELSE b

Published(offer) ==
  {o \in DOMAIN offer.slots : o \notin NotFixed /\ offer.slots[o] > 0}

\* public_action_capacity and gross_fixed_capacity_usd.  The budget is read
\* from the opportunities: a source that lists none publishes none.
OfferedActions(offer) ==
  SumFunctionOnSet(offer.slots, Published(offer))
OfferedGross(offer) ==
  SumFunction([o \in Published(offer) |-> Reward[o] * offer.slots[o]])

Capacity(offer, ofTemplates, ofSource) ==
  LET limited == ofSource > 0 /\ DOMAIN offer.slots # {}
  IN CASE Published(offer) # {} /\ limited -> Lesser(ofTemplates, ofSource)
       [] Published(offer) # {} /\ ~limited -> ofTemplates
       [] Published(offer) = {} /\ limited -> ofSource
       [] OTHER -> Unpublished

ActionCapacity(offer) ==
  Capacity(offer, OfferedActions(offer), offer.actions)
GrossCapacity(offer) ==
  Capacity(offer, OfferedGross(offer), offer.budget)

\* make_opportunity_snapshot; the digest is the record itself, whose fields
\* are those that the digest covers.
Snapshot(at, offer) ==
  [at |-> at, ids |-> DOMAIN offer.slots,
   actions |-> ActionCapacity(offer), gross |-> GrossCapacity(offer)]

------------------------------------------------------------------------------
(* analyze_replenishment, for one source.                                     *)

\* Snapshots of one instant may come in either order: the code goes by their
\* digests.
Ordered(snapshots) ==
  LET p == CHOOSE p \in Bijection(DOMAIN snapshots, DOMAIN snapshots) :
             \A i, j \in DOMAIN snapshots :
               i < j => snapshots[p[i]].at <= snapshots[p[j]].at
  IN [i \in DOMAIN snapshots |-> snapshots[p[i]]]

NewBetweenAll(previous, current) == current.ids
NewBetween(previous, current) == current.ids \ previous.ids

\* Adjacent snapshots, by the position of the later one; a pair taken at the
\* same instant is no transition.
TransitionsOf(ordered) ==
  {i \in 2 .. Len(ordered) : ordered[i - 1].at < ordered[i].at}

NewOpportunityEvents(ordered) ==
  SumFunction([i \in TransitionsOf(ordered) |->
                 Cardinality(NewBetween(ordered[i - 1], ordered[i]))])

\* Transitions between two known capacities, and what they add up to.
FundedTransitions(ordered) ==
  {i \in TransitionsOf(ordered) :
     ordered[i - 1].gross # Unpublished /\ ordered[i].gross # Unpublished}

PositiveFunding(ordered) ==
  SumFunction([i \in {j \in FundedTransitions(ordered) :
                        ordered[j].gross > ordered[j - 1].gross} |->
                 ordered[i].gross - ordered[i - 1].gross])

Signal(ordered) ==
  IF TransitionsOf(ordered) = {} THEN "INSUFFICIENT_HISTORY"
  ELSE IF PositiveFunding(ordered) > 0 \/ NewOpportunityEvents(ordered) > 0
       THEN "OBSERVED_REPLENISHMENT"
       ELSE "NO_POSITIVE_REPLENISHMENT_OBSERVED"
==============================================================================
