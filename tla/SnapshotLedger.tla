---------------------------- MODULE SnapshotLedger ---------------------------
(* cog replenishment-snapshot and append_opportunity_snapshots: a command     *)
(* notes the time, asks the Scout, loads the whole ledger and appends the     *)
(* snapshot when its digest is new.  Nothing locks the file: the commands of  *)
(* several processes interleave, and a process can die while it writes.       *)
(* Meanwhile the source changes what it offers.  The ledger of one source is  *)
(* modelled; a line of another source matters only when it spoils the file.   *)
EXTENDS Replenishment

CONSTANTS
  Writers,       \* processes that run the command
  Offers,        \* the offers the source may make
  MaxCommands,   \* bound on the commands run
  MaxChanges,    \* bound on the changes of the offer
  MaxLedgerCrashes

\* An offer lists finitely many opportunities, and rewards that are amounts.
ASSUME OffersAssumption ==
  \A o \in Offers :
    /\ IsFiniteSet(DOMAIN o.slots) /\ o.slots \in [DOMAIN o.slots -> Nat]
    /\ o.budget \in Nat /\ o.actions \in Nat
    /\ \A x \in DOMAIN o.slots \ NotFixed : Reward[x] \in Nat

VARIABLES
  offer,         \* what the source offers now
  ledger,        \* the lines: a snapshot, or Torn
  terminated,    \* the last line ends in a newline
  clock,
  writer,        \* per process: pc, now, seen (<<>> or <<snapshot>>), known
  commands, changes, ledgerCrashes,
  overlapped,    \* ghost: two commands have been running at once
  arrivals,      \* ghost: opportunities that appeared
  funded,        \* ghost: what the gross capacity gained
  lastGross      \* ghost: the last known gross capacity

ledgerVars == <<offer, ledger, terminated, clock, writer, commands, changes,
                ledgerCrashes, overlapped, arrivals, funded, lastGross>>
worldVars == <<offer, changes, arrivals, funded, lastGross>>

Torn == [torn |-> TRUE]
Idle == [pc |-> "idle", now |-> 0, seen |-> << >>, known |-> {}]
NoOffer == [slots |-> << >>, budget |-> 0, actions |-> 0]

LedgerInit ==
  /\ offer = NoOffer
  /\ ledger = << >> /\ terminated = TRUE /\ clock = 0
  /\ writer = [p \in Writers |-> Idle]
  /\ commands = 0 /\ changes = 0 /\ ledgerCrashes = 0
  /\ overlapped = FALSE
  /\ arrivals = 0 /\ funded = 0 /\ lastGross = Unpublished

OfferChanges ==
  /\ changes < MaxChanges
  /\ changes' = changes + 1
  /\ \E next \in Offers :
       LET gross == GrossCapacity(next)
       IN /\ offer' = next
          /\ arrivals' = arrivals
               + Cardinality(DOMAIN next.slots \ DOMAIN offer.slots)
          /\ funded' = funded
               + IF gross # Unpublished /\ lastGross # Unpublished
                    /\ gross > lastGross
                 THEN gross - lastGross ELSE 0
          /\ lastGross' = IF gross = Unpublished THEN lastGross ELSE gross
  /\ UNCHANGED <<ledger, terminated, clock, writer, commands, ledgerCrashes,
                 overlapped>>

Busy == {p \in Writers : writer[p].pc # "idle"}

\* observed_at is taken before the Scout is asked.  A command that starts
\* while another runs may see the same clock.
BeginSnapshot(p) ==
  /\ writer[p].pc = "idle"
  /\ commands < MaxCommands
  /\ commands' = commands + 1
  /\ clock' \in IF Busy = {} THEN {clock + 1} ELSE {clock, clock + 1}
  /\ writer' = [writer EXCEPT ![p] = [Idle EXCEPT !.pc = "asking",
                                                  !.now = clock']]
  /\ overlapped' = (overlapped \/ Busy # {})
  /\ UNCHANGED <<worldVars, ledger, terminated, ledgerCrashes>>

\* A Scout that fails leaves the command without a snapshot to append.
AskScout(p) ==
  /\ writer[p].pc = "asking"
  /\ \E seen \in {<< >>, <<Snapshot(writer[p].now, offer)>>} :
       writer' = [writer EXCEPT ![p].pc = "loading", ![p].seen = seen]
  /\ UNCHANGED <<worldVars, ledger, terminated, clock, commands,
                 ledgerCrashes, overlapped>>

\* load_opportunity_snapshots raises on a line it cannot parse and on a
\* digest it has seen.
Readable ==
  /\ \A i \in DOMAIN ledger : ledger[i] # Torn
  /\ \A i, j \in DOMAIN ledger : i # j => ledger[i] # ledger[j]

LoadLedger(p) ==
  /\ writer[p].pc = "loading"
  /\ writer' = [writer EXCEPT ![p] =
       IF Readable
       THEN [@ EXCEPT !.pc = "writing",
                      !.known = {ledger[i] : i \in DOMAIN ledger}]
       ELSE Idle]
  /\ UNCHANGED <<worldVars, ledger, terminated, clock, commands,
                 ledgerCrashes, overlapped>>

IsNew(w) == w.seen # << >> /\ w.seen[1] \notin w.known

\* A line written after one that lacks its newline joins it.
WithLine(line) ==
  IF terminated THEN Append(ledger, line)
  ELSE [ledger EXCEPT ![Len(ledger)] = Torn]

EndsLineNever == FALSE
EndsLine == TRUE

WriteLedger(p) ==
  /\ writer[p].pc = "writing"
  /\ IF IsNew(writer[p])
     THEN ledger' = WithLine(writer[p].seen[1]) /\ terminated' = EndsLine
     ELSE UNCHANGED <<ledger, terminated>>
  /\ writer' = [writer EXCEPT ![p] = Idle]
  /\ UNCHANGED <<worldVars, clock, commands, ledgerCrashes, overlapped>>

\* The process dies in the write: part of the line, or all of it but the
\* newline, is in the file.
DieWriting(p) ==
  /\ writer[p].pc = "writing" /\ IsNew(writer[p])
  /\ ledgerCrashes < MaxLedgerCrashes
  /\ ledgerCrashes' = ledgerCrashes + 1
  /\ ledger' \in {WithLine(Torn), WithLine(writer[p].seen[1])}
  /\ terminated' = FALSE
  /\ writer' = [writer EXCEPT ![p] = Idle]
  /\ UNCHANGED <<worldVars, clock, commands, overlapped>>

LedgerNext ==
  \/ OfferChanges
  \/ \E p \in Writers : \/ BeginSnapshot(p) \/ AskScout(p) \/ LoadLedger(p)
                        \/ WriteLedger(p) \/ DieWriting(p)

LedgerSpec == LedgerInit /\ [][LedgerNext]_ledgerVars

------------------------------------------------------------------------------
\* However commands overlap and wherever they die, each death costs the file
\* one line at most, be it the dying command's own or the one that a later
\* command joins to it (history.py:450); and as long as no two commands overlap
\* no snapshot is in the file twice, whatever deaths left there
\* (history.py:436).  So it takes a death or an overlap to make it unreadable.
DamageIsBounded ==
  /\ Cardinality({i \in DOMAIN ledger : ledger[i] = Torn}) <= ledgerCrashes
  /\ ~overlapped =>
       \A i, j \in DOMAIN ledger : i # j /\ ledger[i] # Torn => ledger[i] # ledger[j]

\* analyze_replenishment calls its figures a sampling-based lower bound
\* (history.py:592).  They are, of the arrivals and of the gain in capacity,
\* as long as the order of the times is the order of the observations.
ObservedIsLowerBound ==
  Readable /\ ~overlapped =>
    LET ordered == Ordered(ledger)
    IN /\ NewOpportunityEvents(ordered) <= arrivals
       /\ PositiveFunding(ordered) <= funded
       /\ Signal(ordered) = "OBSERVED_REPLENISHMENT" =>
            arrivals > 0 \/ funded > 0
==============================================================================
