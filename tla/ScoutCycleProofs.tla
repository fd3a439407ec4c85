--------------------------- MODULE ScoutCycleProofs ---------------------------
(* The schedule never knows more than the history, for every fleet, policy    *)
(* and plan, any number of crashes, evictions and releases, on a disk that    *)
(* survives a failed cycle and on one that does not.                          *)
(*                                                                            *)
(* The invariant follows the snapshots through a cycle: what the loaded state *)
(* calls scanned was in the ledger when the cycle began (base), and what the  *)
(* cycle heard is in the ledger before the state is written.                  *)
(*                                                                            *)
(* Then: a cycle refreshes exactly when it has to, and otherwise contacts     *)
(* the due Scouts, because a whole state covers the fleet it was made for.    *)
(*                                                                            *)
(* Last, types and time: what a schedule says about a source follows what the *)
(* source answered, tick by tick.  The schedule counts from the start of a    *)
(* cycle and the world from its end, so every clock invariant relates the two *)
(* through elapsed, the time the answers took, and is restored by the tick    *)
(* that ends the cycle.                                                       *)
EXTENDS ScoutCycle, TLAPS

\* The fields a state file and a ledger have, whatever their values.
Shaped(state) ==
  /\ state = [status |-> state.status, refresh |-> state.refresh,
              entries |-> state.entries]
  /\ \A s \in DOMAIN state.entries :
       state.entries[s] =
         [scans |-> state.entries[s].scans, wait |-> state.entries[s].wait,
          streak |-> state.entries[s].streak,
          scanned |-> state.entries[s].scanned]

IsLedger(ledger) == ledger = [torn |-> ledger.torn, sources |-> ledger.sources]

KnownIn(state, sources) ==
  /\ Shaped(state)
  /\ \A s \in DOMAIN state.entries : state.entries[s].scanned => s \in sources

HistoryInv ==
  /\ IsLedger(snapshots) /\ IsLedger(base)
  /\ KnownIn(disk, snapshots.sources)
  /\ KnownIn(loaded, base.sources)
  /\ pc \in {"sleeping", "starting"} => loaded = AbsentState
  /\ pc \in {"gathering", "appending", "writing"} => disk = loaded
  /\ pc = "starting" => base = snapshots
  /\ pc # "sleeping" => base.sources \subseteq snapshots.sources
  /\ pc = "writing" => heard.ok \subseteq snapshots.sources

LEMMA EmptyStates ==
  /\ Shaped(AbsentState) /\ Shaped(TornState)
  /\ DOMAIN AbsentState.entries = {} /\ DOMAIN TornState.entries = {}
BY DEF Shaped, AbsentState, TornState

LEMMA EmptyStatesKnown ==
  ASSUME NEW S PROVE KnownIn(AbsentState, S) /\ KnownIn(TornState, S)
BY EmptyStates DEF KnownIn

LEMMA KnownInMore ==
  ASSUME NEW state, NEW S, NEW T, KnownIn(state, S), S \subseteq T
  PROVE  KnownIn(state, T)
BY DEF KnownIn

\* The passing of time changes no entry's history.
LEMMA LaterKnown ==
  ASSUME NEW state, NEW d, NEW S, KnownIn(state, S)
  PROVE  KnownIn(Later(state, d), S)
<1> DEFINE later == [s \in DOMAIN state.entries |->
                       [state.entries[s] EXCEPT !.wait = Sooner(@, d)]]
<1>1. Later(state, d) = [status |-> state.status,
        refresh |-> Sooner(state.refresh, d), entries |-> later]
  BY DEF Later
<1>2. ASSUME NEW s \in DOMAIN later
      PROVE  /\ later[s] = [scans |-> later[s].scans, wait |-> later[s].wait,
                            streak |-> later[s].streak,
                            scanned |-> later[s].scanned]
             /\ later[s].scanned = state.entries[s].scanned
  BY DEF KnownIn, Shaped
<1> HIDE DEF later
<1>3. DOMAIN later = DOMAIN state.entries
  BY DEF later
<1>4. /\ Later(state, d).entries = later
      /\ Later(state, d) = [status |-> Later(state, d).status,
           refresh |-> Later(state, d).refresh,
           entries |-> Later(state, d).entries]
  BY <1>1
<1> QED BY <1>2, <1>3, <1>4 DEF KnownIn, Shaped

\* An entry counts as scanned if its source answered now or did before.
LEMMA NextEntryKnown ==
  ASSUME NEW scans, NEW prior, NEW s, NEW h, NEW S,
         prior = [scans |-> prior.scans, wait |-> prior.wait,
                  streak |-> prior.streak, scanned |-> prior.scanned],
         prior.scanned => s \in S,
         h.ok \subseteq S
  PROVE  LET e == NextEntry(scans, prior, s, h) IN
         /\ e = [scans |-> e.scans, wait |-> e.wait, streak |-> e.streak,
                 scanned |-> e.scanned]
         /\ e.scanned => s \in S
BY DEF NextEntry, Succeeded, Failed

LEMMA WrittenKnown ==
  ASSUME NEW state, NEW h, NEW S, KnownIn(state, S), h.ok \subseteq S
  PROVE  /\ \A plan : KnownIn(NewState(plan, h, state.entries), S)
         /\ KnownIn(StateAfterOutcomes(state, h), S)
<1>1. ASSUME NEW plan PROVE KnownIn(NewState(plan, h, state.entries), S)
  <2>1. ASSUME NEW s
        PROVE  LET p == Prior(state.entries, s) IN
               /\ p = [scans |-> p.scans, wait |-> p.wait,
                       streak |-> p.streak, scanned |-> p.scanned]
               /\ p.scanned => s \in S
    BY DEF Prior, Unseen, KnownIn, Shaped
  <2>2. ASSUME NEW s \in DOMAIN plan
        PROVE  LET e == NextEntry(plan[s], Prior(state.entries, s), s, h) IN
               /\ e = [scans |-> e.scans, wait |-> e.wait,
                       streak |-> e.streak, scanned |-> e.scanned]
               /\ e.scanned => s \in S
    BY <2>1, NextEntryKnown
  <2> QED BY <2>2 DEF NewState, KnownIn, Shaped
<1>2. KnownIn(StateAfterOutcomes(state, h), S)
  <2> DEFINE next == StateAfterOutcomes(state, h)
  <2>1. ASSUME NEW s \in DOMAIN state.entries
        PROVE  LET e == NextEntry(state.entries[s].scans, state.entries[s], s, h)
               IN /\ e = [scans |-> e.scans, wait |-> e.wait,
                          streak |-> e.streak, scanned |-> e.scanned]
                  /\ e.scanned => s \in S
    BY NextEntryKnown DEF KnownIn, Shaped
  <2>2. /\ next.entries = [s \in DOMAIN state.entries |->
             NextEntry(state.entries[s].scans, state.entries[s], s, h)]
        /\ next = [status |-> next.status, refresh |-> next.refresh,
                   entries |-> next.entries]
    BY DEF StateAfterOutcomes, KnownIn, Shaped
  <2> HIDE DEF next
  <2>3. KnownIn(next, S)
    BY <2>1, <2>2 DEF KnownIn, Shaped
  <2> QED BY <2>3 DEF next
<1> QED BY <1>1, <1>2

LEMMA HistoryInductive ==
  ASSUME HistoryInv, [Next]_vars
  PROVE  HistoryInv'
<1> USE DEF HistoryInv
<1>1. CASE LoadFails
  BY <1>1, EmptyStatesKnown DEF LoadFails, EndCycle, files
<1>2. CASE Begin
  BY <1>2 DEF Begin, files
<1>3. CASE Gather
  BY <1>3 DEF Gather, files
<1>4. CASE AppendFails
  BY <1>4, EmptyStatesKnown DEF AppendFails, EndCycle, files
<1>5. CASE AppendSnapshots
  <2>1. /\ IsLedger(snapshots')
        /\ snapshots'.sources = snapshots.sources \cup heard.ok
    BY <1>5 DEF AppendSnapshots, IsLedger
  <2>2. KnownIn(disk, snapshots'.sources)
    BY <2>1, KnownInMore
  <2> QED BY <1>5, <2>1, <2>2 DEF AppendSnapshots
<1>6. CASE PlanFails
  BY <1>6, EmptyStatesKnown DEF PlanFails, EndCycle, SnapshotsAfterFailure
<1>7. CASE Write
  <2>1. KnownIn(loaded, snapshots.sources)
    BY <1>7 DEF Write
  <2>2. heard.ok \subseteq snapshots.sources
    BY <1>7 DEF Write
  <2>3. KnownIn(disk', snapshots.sources)
    BY <1>7, <2>1, <2>2, WrittenKnown DEF Write, NextStates
  <2> QED BY <1>7, <2>3 DEF Write
<1>8. CASE Report
  BY <1>8, EmptyStatesKnown DEF Report, EndCycle, files
<1>9. CASE Tick
  <2>1. KnownIn(disk', snapshots.sources)
    BY <1>9, LaterKnown DEF Tick
  <2>2. /\ snapshots' = snapshots /\ base' = snapshots /\ pc' = "starting"
        /\ loaded' = AbsentState
    BY <1>9 DEF Tick
  <2> QED BY <2>1, <2>2, EmptyStatesKnown
<1>10. CASE Crash
  <2>1. /\ pc' = "sleeping" /\ loaded' = AbsentState /\ base' = base
        /\ pc # "sleeping"
    BY <1>10 DEF Crash, EndCycle
  <2>2. CASE DiskSurvives
    <3>1. disk' \in {disk, TornState}
      BY <1>10, <2>2 DEF Crash
    <3>2. IsLedger(snapshots') /\ snapshots'.sources = snapshots.sources
      BY <1>10, <2>2 DEF Crash, SnapshotsAfterFailure, IsLedger
    <3> QED BY <2>1, <3>1, <3>2, EmptyStatesKnown
  <2>3. CASE ~DiskSurvives
    <3>1. disk' = loaded /\ snapshots' = base
      BY <1>10, <2>3 DEF Crash, SnapshotsAfterFailure
    <3> QED BY <2>1, <3>1, EmptyStatesKnown
  <2> QED BY <2>2, <2>3
<1>11. CASE Evict
  BY <1>11, EmptyStatesKnown DEF Evict, cycle, IsLedger
<1>12. CASE Deploy
  BY <1>12 DEF Deploy, files, cycle
<1>13. CASE UNCHANGED vars
  BY <1>13 DEF vars, files, cycle
<1> QED
  BY <1>1, <1>2, <1>3, <1>4, <1>5, <1>6, <1>7, <1>8, <1>9, <1>10, <1>11,
     <1>12, <1>13 DEF Next, Cycle

\* A source that counts as scanned has a snapshot in the ledger.
THEOREM HistoryComesFirst == Spec => []HistoryBeforeSchedule
<1>1. Init => HistoryInv
  BY EmptyStatesKnown DEF Init, HistoryInv, IsLedger
<1>2. HistoryInv /\ [Next]_vars => HistoryInv'
  BY HistoryInductive
<1>3. HistoryInv => HistoryBeforeSchedule
  BY DEF HistoryInv, KnownIn, HistoryBeforeSchedule
<1> QED BY <1>1, <1>2, <1>3, PTL DEF Spec

------------------------------------------------------------------------------
(* When a cycle refreshes, and whom it contacts when it does not.             *)

\* Names that the code looks up as themselves.
NamesAreKeys == AllSources \subseteq Keyed

\* Releases add Scouts and take none away.
FleetsGrow ==
  \A i, j \in DOMAIN Universes : i <= j => Universes[i] \subseteq Universes[j]

InCycle == pc \in {"gathering", "appending", "writing", "reporting"}

Statuses == {"absent", "torn", "whole"}

\* A whole state has one entry for each source of the fleet it was made for:
\* so comparing its entries with the fleet tells a release from the last one.
FleetInv ==
  /\ version \in DOMAIN Universes
  /\ snapshots.sources \subseteq Universe /\ base.sources \subseteq Universe
  /\ heard.ok \subseteq Universe
  /\ disk.status \in Statuses /\ loaded.status \in Statuses
  /\ loaded.status = "whole" => DOMAIN loaded.entries = planned
  /\ disk.status = "whole" =>
       DOMAIN disk.entries = IF pc = "reporting" THEN PlannedFor ELSE planned
  /\ InCycle => mode \in {"full_refresh", "due_only"}
  /\ InCycle /\ mode = "due_only" =>
       loaded.status = "whole" /\ DOMAIN loaded.entries = Universe

\* What a cycle decided at its beginning and has not yet acted on.
DecisionInv ==
  /\ version \in DOMAIN Universes
  /\ pc = "gathering" =>
       /\ loaded.status # "torn"
       /\ mode = "full_refresh" =>
            /\ due = Universe
            /\ \/ DOMAIN loaded.entries # Universe
               \/ FullRefreshDue(loaded)
       /\ mode # "full_refresh" =>
            /\ due = DueSources(loaded)
            /\ DOMAIN loaded.entries = Universe
            /\ ~FullRefreshDue(loaded)

LEMMA FleetsAreSources ==
  ASSUME NEW v \in DOMAIN Universes
  PROVE  Universes[v] \subseteq AllSources
BY FleetsAssumption DEF AllSources, Range

LEMMA FirstFleet == 1 \in DOMAIN Universes
<1>1. Len(Universes) \in Nat /\ Len(Universes) # 0
  BY FleetsAssumption
<1> QED BY <1>1, FleetsAssumption

LEMMA NextFleet ==
  ASSUME NEW v \in DOMAIN Universes, v < Len(Universes)
  PROVE  v + 1 \in DOMAIN Universes /\ v <= v + 1
BY FleetsAssumption

\* A release comes between cycles, so a cycle has one fleet.
LEMMA VersionType ==
  ASSUME version \in DOMAIN Universes, [Next]_vars
  PROVE  version' \in DOMAIN Universes
<1>1. CASE Deploy
  BY <1>1, NextFleet DEF Deploy
<1>2. CASE ~Deploy
  BY <1>2 DEF Next, Cycle, LoadFails, Begin, Gather, AppendFails,
     AppendSnapshots, PlanFails, Write, Report, Tick, Crash, Evict, vars
<1> QED BY <1>1, <1>2

LEMMA DecisionInductive ==
  ASSUME DecisionInv, [Next]_vars
  PROVE  DecisionInv'
<1>1. version' \in DOMAIN Universes
  BY VersionType DEF DecisionInv
<1>2. CASE Begin
  <2>1. /\ Loadable(disk) /\ loaded' = disk /\ version' = version
        /\ \/ /\ UniverseChanged \/ FullRefreshDue(disk)
              /\ mode' = "full_refresh" /\ due' = Universe
           \/ /\ ~UniverseChanged /\ ~FullRefreshDue(disk)
              /\ mode' = "due_only" /\ due' = DueSources(disk)
    BY <1>2 DEF Begin
  <2> QED
    BY <1>1, <2>1 DEF DecisionInv, UniverseChanged, Loadable, Universe,
       FullRefreshDue, DueSources
<1>3. CASE UNCHANGED vars
  BY <1>1, <1>3 DEF vars, cycle, DecisionInv, Universe, FullRefreshDue,
     DueSources
<1>4. CASE Evict \/ Deploy
  BY <1>1, <1>4 DEF Evict, Deploy, cycle, DecisionInv
<1>5. CASE Next /\ ~Begin /\ ~Evict /\ ~Deploy
  <2>1. pc' # "gathering"
    BY <1>5 DEF Next, Cycle, LoadFails, Gather, AppendFails, AppendSnapshots,
       PlanFails, Write, Report, Tick, Crash, EndCycle
  <2> QED BY <1>1, <2>1 DEF DecisionInv
<1> QED BY <1>2, <1>3, <1>4, <1>5

LEMMA DecisionHolds == Spec => []DecisionInv
<1>1. Init => DecisionInv
  BY FirstFleet DEF Init, DecisionInv
<1> QED BY <1>1, DecisionInductive, PTL DEF Spec

\* Without an alias, a due_only cycle contacts the due Scouts and no others.
THEOREM DueScoutsOnly ==
  ASSUME NamesAreKeys
  PROVE  Spec => []DueOnlyIsolation
<1>1. DecisionInv => DueOnlyIsolation
  <2> SUFFICES ASSUME DecisionInv, pc = "gathering", mode = "due_only"
               PROVE  Contacted = {s \in Universe : loaded.entries[s].wait = 0}
    BY DEF DueOnlyIsolation
  <2>1. due = {s \in Universe : loaded.entries[s].wait = 0}
    BY DEF DecisionInv, DueSources
  <2>2. \A s \in due : s \in Keyed
    BY <2>1, FleetsAreSources DEF DecisionInv, NamesAreKeys, Universe
  <2>3. \A s \in due : Contact(s) = s
    BY <2>2 DEF Contact, Resolve
  <2> QED BY <2>1, <2>3 DEF Contacted
<1> QED BY <1>1, DecisionHolds, PTL

LEMMA HistoryHolds == Spec => []HistoryInv
<1>1. Init => HistoryInv
  BY EmptyStatesKnown DEF Init, HistoryInv, IsLedger
<1> QED BY <1>1, HistoryInductive, PTL DEF Spec

\* Whoever answered was asked, and whoever is asked belongs to the fleet.
LEMMA AnswersOfTheFleet ==
  ASSUME HistoryInv, FleetInv, DecisionInv, Gather
  PROVE  heard'.ok \subseteq Universe
<1>1. due \subseteq Universe
  BY DEF Gather, DecisionInv, DueSources
<1>2. FirstScout \in Universe
  BY FleetsAssumption DEF FleetInv, Universe
<1>3. \A s \in due : Contact(s) \in Universe
  BY <1>1, <1>2 DEF Contact, Resolve
<1>4. PICK answer \in [due -> Answers] : \E h \in Outcomes(answer) : heard' = h
  BY DEF Gather
<1> DEFINE answered == {c \in Contacted :
                          \E s \in due : Contact(s) = c /\ answer[s] = Ok}
<1>5. ASSUME NEW h \in Outcomes(answer) PROVE h.ok \subseteq Contacted
  <2>1. \E F : h \in {[ok |-> answered, failed |-> f] : f \in F}
    BY Zenon DEF Outcomes
  <2> HIDE DEF answered
  <2>2. h.ok = answered
    BY <2>1
  <2> QED BY <2>2 DEF answered
<1> QED BY <1>3, <1>4, <1>5 DEF Contacted

\* What a full refresh writes covers the fleet, what a due_only cycle writes
\* covers what it loaded.
LEMMA WrittenCovers ==
  ASSUME HistoryInv, FleetInv, Write
  PROVE  /\ disk'.status = "whole"
         /\ DOMAIN disk'.entries = PlannedFor
<1>1. CASE mode = "full_refresh"
  <2>1. PICK plan \in ReadyPlans(Policy, Candidates) :
          disk' = NewState(plan, heard, loaded.entries)
    BY <1>1 DEF Write, NextStates
  <2>2. DOMAIN plan = Candidates
    BY <2>1 DEF ReadyPlans
  <2>3. Candidates = Universe
    BY DEF Candidates, FleetInv
  <2> QED BY <1>1, <2>1, <2>2, <2>3 DEF NewState, PlannedFor
<1>2. CASE mode # "full_refresh"
  <2>1. disk' = StateAfterOutcomes(loaded, heard)
    BY <1>2 DEF Write, NextStates
  <2>2. loaded.status = "whole" /\ DOMAIN loaded.entries = planned
    BY <1>2 DEF Write, FleetInv, InCycle
  <2>3. loaded = [status |-> loaded.status, refresh |-> loaded.refresh,
                  entries |-> loaded.entries]
    BY DEF HistoryInv, KnownIn, Shaped
  <2> QED BY <1>2, <2>1, <2>2, <2>3 DEF StateAfterOutcomes, PlannedFor
<1> QED BY <1>1, <1>2

LEMMA FleetInductive ==
  ASSUME FleetsGrow, HistoryInv, DecisionInv, FleetInv, [Next]_vars
  PROVE  FleetInv'
<1> USE DEF FleetInv, InCycle, Statuses
<1>1. CASE LoadFails
  BY <1>1 DEF LoadFails, EndCycle, files, Universe, AbsentState, NothingHeard,
     ghosts
<1>2. CASE Begin
  <2>1. /\ disk' = disk /\ loaded' = disk /\ planned' = planned
        /\ version' = version /\ snapshots' = snapshots /\ base' = base
        /\ heard' = heard /\ pc = "starting" /\ pc' = "gathering"
        /\ Loadable(disk)
    BY <1>2 DEF Begin, files, ghosts
  <2>2. \/ mode' = "full_refresh"
        \/ mode' = "due_only" /\ ~UniverseChanged /\ ~FullRefreshDue(disk)
    BY <1>2 DEF Begin
  <2> QED
    BY <2>1, <2>2 DEF Universe, UniverseChanged, FullRefreshDue, Loadable
<1>3. CASE Gather
  BY <1>3, AnswersOfTheFleet DEF Gather, files, Universe
<1>4. CASE AppendFails
  BY <1>4 DEF AppendFails, EndCycle, files, Universe, AbsentState,
     NothingHeard, ghosts
<1>5. CASE AppendSnapshots
  <2>1. snapshots'.sources = snapshots.sources \cup heard.ok
    BY <1>5 DEF AppendSnapshots, HistoryInv, IsLedger
  <2> QED BY <1>5, <2>1 DEF AppendSnapshots, Universe, ghosts
<1>6. CASE PlanFails
  BY <1>6 DEF PlanFails, EndCycle, SnapshotsAfterFailure, Universe,
     AbsentState, NothingHeard, ghosts
<1>7. CASE Write
  BY <1>7, WrittenCovers DEF Write, Universe, PlannedFor, ghosts
<1>8. CASE Report
  BY <1>8 DEF Report, EndCycle, files, Universe, AbsentState, NothingHeard,
     PlannedFor
<1>9. CASE Tick
  <2>1. /\ disk'.status = disk.status
        /\ DOMAIN disk'.entries = DOMAIN disk.entries
    BY <1>9 DEF Tick, Later
  <2> QED BY <1>9, <2>1 DEF Tick, Universe
<1>10. CASE Crash
  <2>1. /\ pc' = "sleeping" /\ loaded' = AbsentState /\ base' = base
        /\ version' = version /\ heard' = NothingHeard
        /\ planned' = IF DiskSurvives /\ pc = "reporting"
                      THEN PlannedFor ELSE planned
    BY <1>10 DEF Crash, EndCycle
  <2>2. snapshots'.sources \subseteq Universe
    BY <1>10 DEF Crash, SnapshotsAfterFailure, HistoryInv, IsLedger
  <2>3. disk' \in {IF DiskSurvives THEN disk ELSE loaded, TornState}
    BY <1>10 DEF Crash
  <2> QED
    BY <2>1, <2>2, <2>3 DEF AbsentState, TornState, NothingHeard, Universe
<1>11. CASE Evict
  BY <1>11 DEF Evict, cycle, AbsentState, Universe
<1>12. CASE Deploy
  <2>1. Universe \subseteq Universe'
    BY <1>12, NextFleet DEF Deploy, FleetsGrow, Universe
  <2>2. version' \in DOMAIN Universes
    BY <1>12, NextFleet DEF Deploy
  <2> QED BY <1>12, <2>1, <2>2 DEF Deploy, files, cycle
<1>13. CASE UNCHANGED vars
  BY <1>13 DEF vars, files, cycle, ghosts, Universe, PlannedFor
<1> QED
  BY <1>1, <1>2, <1>3, <1>4, <1>5, <1>6, <1>7, <1>8, <1>9, <1>10, <1>11,
     <1>12, <1>13 DEF Next, Cycle

LEMMA FleetHolds ==
  ASSUME FleetsGrow PROVE Spec => []FleetInv
<1>1. Init => FleetInv
  BY FirstFleet DEF Init, FleetInv, InCycle, Statuses, AbsentState,
     NothingHeard
<1>2. HistoryInv /\ DecisionInv /\ FleetInv /\ [Next]_vars => FleetInv'
  BY FleetInductive
<1> QED BY <1>1, <1>2, HistoryHolds, DecisionHolds, PTL DEF Spec

\* A full refresh happens without a state, after a release or when its time
\* has come: for no other reason, and always then.
THEOREM RefreshesWhenNeeded ==
  ASSUME FleetsGrow
  PROVE  Spec => []RefreshExactlyWhenNeeded
<1>1. DecisionInv /\ FleetInv => RefreshExactlyWhenNeeded
  <2> SUFFICES ASSUME DecisionInv, FleetInv, pc = "gathering"
      PROVE  mode = "full_refresh" <=>
               \/ loaded.status = "absent" \/ planned # Universe
               \/ loaded.refresh = 0
    BY DEF RefreshExactlyWhenNeeded
  <2> QED BY DEF DecisionInv, FleetInv, InCycle, FullRefreshDue, Statuses
<1> QED BY <1>1, FleetHolds, DecisionHolds, PTL

------------------------------------------------------------------------------
(* Types and time.                                                            *)

LEMMA MinOfTwo ==
  ASSUME NEW a \in Int, NEW b \in Int
  PROVE  /\ Min({a, b}) \in {a, b} /\ Min({a, b}) <= a /\ Min({a, b}) <= b
<1>1. \E x \in {a, b} : \A y \in {a, b} : x <= y
  <2>1. a <= b \/ b <= a
    OBVIOUS
  <2> QED BY <2>1
<1>2. Min({a, b}) \in {a, b} /\ \A y \in {a, b} : Min({a, b}) <= y
  BY <1>1 DEF Min
<1> QED BY <1>2

LEMMA MaxOfTwo ==
  ASSUME NEW a \in Int, NEW b \in Int
  PROVE  /\ Max({a, b}) \in {a, b} /\ Max({a, b}) >= a /\ Max({a, b}) >= b
<1>1. \E x \in {a, b} : \A y \in {a, b} : x >= y
  <2>1. a >= b \/ b >= a
    OBVIOUS
  <2> QED BY <2>1
<1>2. Max({a, b}) \in {a, b} /\ \A y \in {a, b} : Max({a, b}) >= y
  BY <1>1 DEF Max
<1> QED BY <1>2

\* Time that passes is taken off, down to nothing.
LEMMA SoonerFacts ==
  ASSUME NEW wait \in Nat, NEW d \in Nat
  PROVE  /\ Sooner(wait, d) \in Nat
         /\ Sooner(wait, d) = IF wait >= d THEN wait - d ELSE 0
<1>1. /\ Sooner(wait, d) \in {wait - d, 0}
      /\ Sooner(wait, d) >= wait - d /\ Sooner(wait, d) >= 0
  BY MaxOfTwo DEF Sooner
<1> QED BY <1>1

LEMMA MaxSinceType == MaxSince \in Nat
BY DurationsArePositive, BoundsAssumption DEF MaxSince

\* Ages add up, up to the bound.
LEMMA OlderFacts ==
  ASSUME NEW age \in Nat, NEW d \in Nat
  PROVE  /\ Older(age, d) \in 0 .. MaxSince
         /\ Older(age, d) <= age + d
         /\ age + d <= MaxSince => Older(age, d) = age + d
<1>1. /\ Older(age, d) \in {age + d, MaxSince}
      /\ Older(age, d) <= age + d /\ Older(age, d) <= MaxSince
  BY MinOfTwo, MaxSinceType DEF Older
<1> QED BY <1>1, MaxSinceType

LEMMA MaxStreakType == MaxStreak \in Nat /\ MaxStreak >= 1
BY StreakBoundIsNeutral

LEMMA LongerFacts ==
  ASSUME NEW streak \in 0 .. MaxStreak
  PROVE  Longer(streak) \in 1 .. MaxStreak
<1>1. MaxStreak \in 1 .. 31
  BY StreakBoundIsNeutral
<1>2. streak + 1 \in Int /\ MaxStreak \in Int
  BY <1>1
<1>3. /\ Longer(streak) \in {streak + 1, MaxStreak}
      /\ Longer(streak) <= MaxStreak
  BY <1>2, MinOfTwo DEF Longer
<1> QED BY <1>1, <1>3

LEMMA BackoffType ==
  ASSUME NEW streak \in Nat
  PROVE  Backoff(streak) \in Nat
<1>1. CASE streak < 1
  BY <1>1 DEF Backoff
<1>2. CASE streak >= 1
  <2> DEFINE k == Min({streak - 1, 30})
             delay == RetryBase * 2 ^ k
  <2>1. k \in 0 .. 30
    <3>1. streak - 1 \in Int /\ 30 \in Int /\ streak - 1 >= 0
      BY <1>2
    <3>2. k \in {streak - 1, 30} /\ k <= 30
      BY <3>1, MinOfTwo
    <3> HIDE DEF k
    <3> QED BY <3>1, <3>2
  <2>2. 2 ^ k \in Nat
    BY <2>1, PowersAreNumbers
  <2> HIDE DEF k
  <2>3. delay \in Nat
    BY <2>2, DurationsArePositive
  <2> HIDE DEF delay
  <2>4. Min({RetryMax, delay}) \in Nat
    BY <2>3, MinOfTwo, DurationsArePositive
  <2>5. ~(streak < 1)
    BY <1>2
  <2> QED BY <2>4, <2>5 DEF Backoff, delay, k
<1> QED BY <1>1, <1>2

\* A hint may prolong the backoff, never cut it short.
LEMMA EffectiveBackoffFacts ==
  ASSUME NEW streak \in Nat, NEW hint \in Hints \cup {NoHint}
  PROVE  /\ EffectiveBackoff(streak, hint) \in Nat
         /\ EffectiveBackoff(streak, hint) >= Backoff(streak)
         /\ hint # NoHint => hint \in Nat /\ EffectiveBackoff(streak, hint) >= hint
<1>1. Backoff(streak) \in Nat
  BY BackoffType
<1>2. CASE hint = NoHint
  BY <1>1, <1>2 DEF EffectiveBackoff
<1>3. CASE hint # NoHint
  <2>1. hint \in Nat
    BY <1>3, AnswersAssumption
  <2> DEFINE b == Backoff(streak)
  <2>2. EffectiveBackoff(streak, hint) = Max({b, hint})
    BY <1>3 DEF EffectiveBackoff
  <2>3. b \in Int /\ hint \in Int
    BY <1>1, <2>1
  <2>4. Max({b, hint}) \in {b, hint} /\ Max({b, hint}) >= b /\ Max({b, hint}) >= hint
    BY <2>3, MaxOfTwo
  <2> QED BY <1>1, <2>1, <2>2, <2>4
<1> QED BY <1>2, <1>3

LEMMA RoundHalfEvenType ==
  ASSUME NEW n \in Nat, NEW d \in Nat \ {0}
  PROVE  RoundHalfEven(n, d) \in Int
<1>1. n \div d \in Int
  OBVIOUS
<1> QED BY <1>1 DEF RoundHalfEven

LEMMA IntervalType ==
  ASSUME NEW scans \in Nat
  PROVE  Interval(DayLength, scans) \in Nat
<1>1. CASE scans = 0
  BY <1>1, DurationsArePositive DEF Interval
<1>2. CASE scans # 0
  <2>1. RoundHalfEven(DayLength, scans) \in Int
    BY <1>2, RoundHalfEvenType, DurationsArePositive
  <2> QED BY <1>2, <2>1 DEF Interval
<1> QED BY <1>1, <1>2

\* Every way to make an entry makes an entry.
LEMMA NextEntryType ==
  ASSUME NEW scans \in Nat, NEW prior \in Entry, NEW s, NEW h,
         s \in DOMAIN h.failed => h.failed[s] \in Hints \cup {NoHint}
  PROVE  NextEntry(scans, prior, s, h) \in Entry
<1>1. CASE s \in h.ok
  BY <1>1, IntervalType, StreakBoundIsNeutral DEF NextEntry, Succeeded, Entry
<1>2. CASE s \notin h.ok /\ s \in DOMAIN h.failed
  <2> DEFINE streak == Longer(prior.streak)
  <2>1. streak \in 1 .. MaxStreak /\ streak \in 0 .. MaxStreak
    BY LongerFacts, StreakBoundIsNeutral DEF Entry
  <2>2. EffectiveBackoff(streak, h.failed[s]) \in Nat
    BY <1>2, <2>1, EffectiveBackoffFacts, StreakBoundIsNeutral
  <2> HIDE DEF streak
  <2> QED BY <1>2, <2>1, <2>2 DEF NextEntry, Failed, Entry, streak
<1>3. CASE s \notin h.ok /\ s \notin DOMAIN h.failed
  BY <1>3 DEF NextEntry, Entry
<1> QED BY <1>1, <1>2, <1>3

LEMMA PriorType ==
  ASSUME NEW state, IsState(state), NEW s
  PROVE  Prior(state.entries, s) \in Entry
<1>1. Unseen \in Entry
  BY StreakBoundIsNeutral DEF Unseen, Entry
<1> QED BY <1>1 DEF Prior, IsState

------------------------------------------------------------------------------
(* Types.                                                                     *)

\* Whoever is contacted ends in an answer, a failure or, when two due names
\* stand for it, in both.
LEMMA OutcomeFacts ==
  ASSUME NEW answer \in [due -> Answers], NEW h \in Outcomes(answer)
  PROVE  /\ h.ok \cup DOMAIN h.failed = Contacted
         /\ \A c \in DOMAIN h.failed : h.failed[c] \in Hints \cup {NoHint}
         /\ (\A s \in due : Contact(s) = s) => h.ok \cap DOMAIN h.failed = {}
<1> DEFINE F(c) == {s \in due : Contact(s) = c /\ answer[s] # Ok}
           dn == {c \in Contacted : F(c) # {}}
           answered == {c \in Contacted :
                          \E s \in due : Contact(s) = c /\ answer[s] = Ok}
           picks == {g \in [dn -> Hints \cup {NoHint}] :
                       \A c \in dn : \E s \in F(c) : g[c] = answer[s]}
<1>1. h \in {[ok |-> answered, failed |-> f] : f \in picks}
  BY Zenon DEF Outcomes
<1>2. answered \cup dn = Contacted
  BY DEF Contacted
<1>3. (\A s \in due : Contact(s) = s) => answered \cap dn = {}
  OBVIOUS
<1> HIDE DEF answered
<1>4. PICK f \in picks : h = [ok |-> answered, failed |-> f]
  BY <1>1
<1>5. DOMAIN f = dn /\ \A c \in dn : f[c] \in Hints \cup {NoHint}
  BY <1>4
<1> QED BY <1>2, <1>3, <1>4, <1>5

TypeInv ==
  /\ TypeOK
  /\ loaded.status # "whole" => DOMAIN loaded.entries = {}
  /\ crashes \in 0 .. MaxCrashes
  /\ pc \in {"starting", "gathering"} => elapsed = 0

\* Whom a cycle contacts is a source: averray is one of the fleet.
LEMMA ContactsAreSources ==
  ASSUME TypeOK PROVE Contacted \subseteq AllSources
<1>1. FirstScout \in AllSources
  BY FleetsAssumption, FleetsAreSources, FirstFleet
<1> QED BY <1>1 DEF TypeOK, Contacted, Contact, Resolve

LEMMA UniverseIsSources ==
  ASSUME version \in 1 .. Len(Universes)
  PROVE  version \in DOMAIN Universes /\ Universe \subseteq AllSources
<1>1. version \in DOMAIN Universes
  BY FleetsAssumption
<1> QED BY <1>1, FleetsAreSources DEF Universe

LEMMA EmptyStatesType ==
  /\ IsState(AbsentState) /\ AbsentState.status = "absent"
  /\ IsState(TornState) /\ TornState.status = "torn"
BY DurationsArePositive DEF IsState, AbsentState, TornState

LEMMA NothingHeardType ==
  NothingHeard.ok = {} /\ DOMAIN NothingHeard.failed = {}
BY DEF NothingHeard

LEMMA LaterType ==
  ASSUME NEW state, IsState(state), Shaped(state), NEW d \in Nat
  PROVE  /\ IsState(Later(state, d))
         /\ Later(state, d).status = state.status
         /\ Later(state, d).refresh = Sooner(state.refresh, d)
         /\ DOMAIN Later(state, d).entries = DOMAIN state.entries
         /\ \A s \in DOMAIN state.entries :
              Later(state, d).entries[s] =
                [state.entries[s] EXCEPT !.wait = Sooner(@, d)]
<1> DEFINE later == [s \in DOMAIN state.entries |->
                       [state.entries[s] EXCEPT !.wait = Sooner(@, d)]]
<1>1. Later(state, d) = [status |-> state.status,
        refresh |-> Sooner(state.refresh, d), entries |-> later]
  BY DEF Later
<1>2. Sooner(state.refresh, d) \in 0 .. RefreshInterval
  <2>1. RefreshInterval \in Nat
    BY DurationsArePositive
  <2>2. state.refresh \in Nat /\ state.refresh <= RefreshInterval
    BY <2>1 DEF IsState
  <2>3. /\ Sooner(state.refresh, d) \in Nat
        /\ Sooner(state.refresh, d) =
             IF state.refresh >= d THEN state.refresh - d ELSE 0
    BY <2>2, SoonerFacts
  <2> QED BY <2>1, <2>2, <2>3
<1>3. ASSUME NEW s \in DOMAIN state.entries PROVE later[s] \in Entry
  <2>1. state.entries[s] \in Entry /\ state.entries[s].wait \in Nat
    BY DEF IsState, Entry
  <2>2. Sooner(state.entries[s].wait, d) \in Nat
    BY <2>1, SoonerFacts
  <2> QED BY <2>1, <2>2 DEF Entry
<1>4. DOMAIN later = DOMAIN state.entries
      /\ \A s \in DOMAIN state.entries :
           later[s] = [state.entries[s] EXCEPT !.wait = Sooner(@, d)]
  OBVIOUS
<1> HIDE DEF later
<1> QED BY <1>1, <1>2, <1>3, <1>4 DEF IsState

\* What a cycle may write is a state.
LEMMA WrittenType ==
  ASSUME TypeInv, HistoryInv, disk' \in NextStates
  PROVE  /\ IsState(disk')
         /\ disk'.status # "whole" => DOMAIN disk'.entries = {}
<1>1. ASSUME NEW s
      PROVE  s \in DOMAIN heard.failed => heard.failed[s] \in Hints \cup {NoHint}
  BY DEF TypeInv, TypeOK
<1>2. CASE mode = "full_refresh"
  <2>1. PICK plan \in ReadyPlans(Policy, Candidates) :
          disk' = NewState(plan, heard, loaded.entries)
    BY <1>2 DEF NextStates
  <2>2. plan \in [Candidates -> Policy.floor .. Policy.cap]
    BY <2>1 DEF ReadyPlans
  <2>3. Candidates \subseteq AllSources
    BY UniverseIsSources DEF Candidates, TypeInv, TypeOK
  <2>4. DOMAIN plan = Candidates /\ \A s \in Candidates : plan[s] \in Nat
    BY <2>2, PolicyAssumption
  <2>5. ASSUME NEW s \in Candidates
        PROVE  NextEntry(plan[s], Prior(loaded.entries, s), s, heard) \in Entry
    BY <1>1, <2>4, PriorType, NextEntryType DEF TypeInv, TypeOK
  <2>6. /\ disk'.status = "whole" /\ disk'.refresh = RefreshInterval
        /\ DOMAIN disk'.entries = Candidates
        /\ \A s \in Candidates : disk'.entries[s] =
             NextEntry(plan[s], Prior(loaded.entries, s), s, heard)
    BY <2>1, <2>4 DEF NewState
  <2> QED BY <2>3, <2>5, <2>6, DurationsArePositive DEF IsState
<1>3. CASE mode # "full_refresh"
  <2>1. disk' = StateAfterOutcomes(loaded, heard)
    BY <1>3 DEF NextStates
  <2>2. /\ disk'.status = loaded.status /\ disk'.refresh = loaded.refresh
        /\ DOMAIN disk'.entries = DOMAIN loaded.entries
        /\ \A s \in DOMAIN loaded.entries : disk'.entries[s] =
             NextEntry(loaded.entries[s].scans, loaded.entries[s], s, heard)
    BY <2>1 DEF StateAfterOutcomes, HistoryInv, KnownIn, Shaped
  <2>3. ASSUME NEW s \in DOMAIN loaded.entries
        PROVE  NextEntry(loaded.entries[s].scans, loaded.entries[s], s, heard)
                 \in Entry
    <3>1. loaded.entries[s] \in Entry /\ loaded.entries[s].scans \in Nat
      BY DEF TypeInv, TypeOK, IsState, Entry
    <3> QED BY <1>1, <3>1, NextEntryType
  <2> QED BY <2>2, <2>3 DEF TypeInv, TypeOK, IsState
<1> QED BY <1>2, <1>3

\* What an hour of answers does to the clocks and streaks of the sources.
GatherEffect(d) ==
  /\ elapsed' = d
  /\ heard'.ok \cup DOMAIN heard'.failed = Contacted
  /\ \A c \in DOMAIN heard'.failed : heard'.failed[c] \in Hints \cup {NoHint}
  /\ (\A s \in due : Contact(s) = s) =>
       heard'.ok \cap DOMAIN heard'.failed = {}
  /\ since' = [s \in AllSources |->
       Older(IF s \in Contacted THEN 0 ELSE since[s], d)]
  /\ blocked' = [s \in AllSources |->
       IF s \in DOMAIN heard'.failed /\ heard'.failed[s] # NoHint
       THEN heard'.failed[s]
       ELSE IF s \in Contacted THEN 0 ELSE Sooner(blocked[s], d)]
  /\ fails' = [s \in AllSources |->
       IF s \in heard'.ok THEN 0
       ELSE IF s \in Contacted THEN Longer(fails[s]) ELSE fails[s]]

LEMMA GatherHasEffect ==
  ASSUME TypeInv, Gather
  PROVE  \E d \in 0 .. MaxElapsed : GatherEffect(d)
<1>1. PICK answer \in [due -> Answers], d \in 0 .. MaxElapsed :
        \E h \in Outcomes(answer) :
          /\ heard' = h
          /\ elapsed' = elapsed + d
          /\ since' = [s \in AllSources |->
               Older(IF s \in Contacted THEN 0 ELSE since[s], d)]
          /\ blocked' = [s \in AllSources |->
               IF s \in DOMAIN h.failed /\ h.failed[s] # NoHint THEN h.failed[s]
               ELSE IF s \in Contacted THEN 0 ELSE Sooner(blocked[s], d)]
          /\ fails' = [s \in AllSources |->
               IF s \in h.ok THEN 0
               ELSE IF s \in Contacted THEN Longer(fails[s]) ELSE fails[s]]
  BY DEF Gather
<1>2. heard' \in Outcomes(answer)
  BY <1>1
<1>3. elapsed' = d
  <2>1. elapsed = 0 /\ elapsed' = elapsed + d
    BY <1>1 DEF Gather, TypeInv
  <2> QED BY <2>1, BoundsAssumption
<1>4. GatherEffect(d)
  BY <1>1, <1>2, <1>3, OutcomeFacts DEF GatherEffect
<1> QED BY <1>4

LEMMA GatherTypes ==
  ASSUME TypeInv, Gather
  PROVE  TypeInv'
<1>1. PICK d \in 0 .. MaxElapsed : GatherEffect(d)
  BY GatherHasEffect
<1>2. d \in Nat
  BY BoundsAssumption
<1>3. UNCHANGED <<disk, snapshots, version, mode, loaded, due, base, exitCode,
                  crashes, planned>> /\ pc' = "appending"
  BY DEF Gather, files, bounds
<1>4. heard'.ok \subseteq AllSources
  BY <1>1, ContactsAreSources DEF GatherEffect, TypeInv
<1>5. since' \in [AllSources -> 0 .. MaxSince]
  <2>1. ASSUME NEW s \in AllSources
        PROVE  Older(IF s \in Contacted THEN 0 ELSE since[s], d) \in 0 .. MaxSince
    <3>1. (IF s \in Contacted THEN 0 ELSE since[s]) \in Nat
      BY MaxSinceType DEF TypeInv, TypeOK
    <3> QED BY <1>2, <3>1, OlderFacts
  <2> QED BY <1>1, <2>1 DEF GatherEffect
<1>6. blocked' \in [AllSources -> Nat]
  <2>1. ASSUME NEW s \in AllSources PROVE blocked'[s] \in Nat
    <3>1. Sooner(blocked[s], d) \in Nat
      BY <1>2, SoonerFacts DEF TypeInv, TypeOK
    <3> QED BY <1>1, <3>1, AnswersAssumption DEF GatherEffect
  <2> QED BY <1>1, <2>1 DEF GatherEffect
<1>7. fails' \in [AllSources -> 0 .. MaxStreak]
  <2>1. ASSUME NEW s \in AllSources PROVE fails'[s] \in 0 .. MaxStreak
    <3>1. fails[s] \in 0 .. MaxStreak /\ MaxStreak \in Nat
      BY MaxStreakType DEF TypeInv, TypeOK
    <3>2. Longer(fails[s]) \in 0 .. MaxStreak
      BY <3>1, LongerFacts
    <3> QED BY <1>1, <3>1, <3>2 DEF GatherEffect
  <2> QED BY <1>1, <2>1 DEF GatherEffect
<1>8. elapsed' \in 0 .. MaxElapsed
      /\ \A c \in DOMAIN heard'.failed : heard'.failed[c] \in Hints \cup {NoHint}
  BY <1>1 DEF GatherEffect
<1> QED BY <1>3, <1>4, <1>5, <1>6, <1>7, <1>8 DEF TypeInv, TypeOK, IsState

\* The end of a cycle, with what it leaves on disk.
LEMMA EndCycleTypes ==
  ASSUME TypeInv, NEW code \in {0, 1}, EndCycle(code),
         UNCHANGED <<version, since, blocked, fails>>,
         IsState(disk'), disk'.status # "whole" => DOMAIN disk'.entries = {},
         snapshots' \in [torn : BOOLEAN, sources : SUBSET AllSources],
         planned' \subseteq AllSources, crashes' \in 0 .. MaxCrashes
  PROVE  TypeInv'
<1>1. /\ pc' = "sleeping" /\ mode' = "none" /\ loaded' = AbsentState
      /\ due' = {} /\ heard' = NothingHeard /\ exitCode' = code
      /\ elapsed' = elapsed /\ base' = base
  BY DEF EndCycle
<1>2. IsState(loaded)' /\ DOMAIN loaded'.entries = {}
  BY <1>1, EmptyStatesType, EmptyStates DEF IsState
<1> QED
  BY <1>1, <1>2, NothingHeardType DEF TypeInv, TypeOK, IsState

LEMMA TypeInductive ==
  ASSUME TypeInv, HistoryInv, DecisionInv, [Next]_vars
  PROVE  TypeInv'
<1>1. CASE LoadFails
  <2>1. EndCycle(1) /\ UNCHANGED <<disk, snapshots, version, crashes, since,
                                   blocked, fails, planned>>
    BY <1>1 DEF LoadFails, files, bounds, ghosts
  <2> QED BY <2>1, EndCycleTypes DEF TypeInv, TypeOK, IsState
<1>2. CASE Begin
  <2>1. Universe \subseteq AllSources
    BY UniverseIsSources DEF TypeInv, TypeOK
  <2>2. DueSources(disk) \subseteq AllSources
    BY DEF TypeInv, TypeOK, IsState, DueSources
  <2>3. /\ UNCHANGED <<disk, snapshots, version, heard, elapsed, base, exitCode,
                       crashes, since, blocked, fails, planned>>
        /\ pc = "starting" /\ pc' = "gathering" /\ loaded' = disk
        /\ \/ mode' = "full_refresh" /\ due' = Universe
           \/ mode' = "due_only" /\ due' = DueSources(disk)
    BY <1>2 DEF Begin, files, bounds, ghosts
  <2> QED BY <2>1, <2>2, <2>3 DEF TypeInv, TypeOK, IsState
<1>3. CASE Gather
  BY <1>3, GatherTypes
<1>4. CASE AppendFails
  <2>1. EndCycle(1) /\ UNCHANGED <<disk, snapshots, version, crashes, since,
                                   blocked, fails, planned>>
    BY <1>4 DEF AppendFails, files, bounds, ghosts
  <2> QED BY <2>1, EndCycleTypes DEF TypeInv, TypeOK, IsState
<1>5. CASE AppendSnapshots
  <2>1. snapshots' \in [torn : BOOLEAN, sources : SUBSET AllSources]
    BY <1>5 DEF AppendSnapshots, TypeInv, TypeOK
  <2>2. UNCHANGED <<disk, version, mode, loaded, due, heard, elapsed, base,
                    exitCode, crashes, since, blocked, fails, planned>>
        /\ pc' = "writing"
    BY <1>5 DEF AppendSnapshots, bounds, ghosts
  <2> QED BY <2>1, <2>2 DEF TypeInv, TypeOK, IsState
<1>6. CASE PlanFails
  <2>1. EndCycle(1) /\ UNCHANGED <<disk, version, crashes, since, blocked,
                                   fails, planned>>
        /\ snapshots' \in {snapshots, base}
    BY <1>6 DEF PlanFails, SnapshotsAfterFailure, bounds, ghosts
  <2> QED BY <2>1, EndCycleTypes DEF TypeInv, TypeOK, IsState
<1>7. CASE Write
  <2>1. IsState(disk') /\ (disk'.status # "whole" => DOMAIN disk'.entries = {})
    BY <1>7, WrittenType DEF Write
  <2>2. UNCHANGED <<snapshots, version, mode, loaded, due, heard, elapsed, base,
                    exitCode, crashes, since, blocked, fails, planned>>
        /\ pc' = "reporting"
    BY <1>7 DEF Write, bounds, ghosts
  <2> QED BY <2>1, <2>2 DEF TypeInv, TypeOK, IsState
<1>8. CASE Report
  <2>1. EndCycle(0) /\ UNCHANGED <<disk, snapshots, version, crashes, since,
                                   blocked, fails>>
    BY <1>8 DEF Report, files, bounds
  <2>2. planned' \subseteq AllSources
    BY <1>8, UniverseIsSources DEF Report, PlannedFor, TypeInv, TypeOK
  <2> QED BY <2>1, <2>2, EndCycleTypes DEF TypeInv, TypeOK, IsState
<1>9. CASE Tick
  <2>1. elapsed + 1 \in Nat
    BY BoundsAssumption DEF TypeInv, TypeOK
  <2>2. disk' = Later(disk, elapsed + 1) /\ IsState(disk) /\ Shaped(disk)
    BY <1>9 DEF Tick, TypeInv, TypeOK, HistoryInv, KnownIn
  <2>3. IsState(disk') /\ (disk'.status # "whole" => DOMAIN disk'.entries = {})
    BY <2>1, <2>2, LaterType DEF TypeInv, TypeOK
  <2>4. since' \in [AllSources -> 0 .. MaxSince]
    <3>1. ASSUME NEW s \in AllSources PROVE Older(since[s], 1) \in 0 .. MaxSince
      <4>1. since[s] \in Nat
        BY MaxSinceType DEF TypeInv, TypeOK
      <4> QED BY <4>1, OlderFacts
    <3> QED BY <1>9, <3>1 DEF Tick
  <2>5. blocked' \in [AllSources -> Nat]
    <3>1. \A s \in AllSources : Sooner(blocked[s], 1) \in Nat
      BY SoonerFacts DEF TypeInv, TypeOK
    <3> QED BY <1>9, <3>1 DEF Tick
  <2>6. UNCHANGED <<snapshots, version, mode, loaded, due, heard, exitCode,
                    crashes, fails, planned>>
        /\ pc' = "starting" /\ elapsed' = 0 /\ base' = snapshots
    BY <1>9 DEF Tick, bounds
  <2> QED BY <2>3, <2>4, <2>5, <2>6, BoundsAssumption DEF TypeInv, TypeOK, IsState
<1>10. CASE Crash
  <2>1. /\ EndCycle(1)
        /\ UNCHANGED <<version, since, blocked, fails>>
        /\ disk' \in {disk, loaded, TornState}
        /\ planned' \in {planned, Universe}
    BY <1>10 DEF Crash, PlannedFor
  <2>2. snapshots' \in [torn : BOOLEAN, sources : SUBSET AllSources]
    BY <1>10 DEF Crash, SnapshotsAfterFailure, TypeInv, TypeOK
  <2>3. crashes' \in 0 .. MaxCrashes
    BY <1>10, BoundsAssumption DEF Crash, TypeInv
  <2>4. planned' \subseteq AllSources
    BY <2>1, UniverseIsSources DEF TypeInv, TypeOK
  <2>5. IsState(disk') /\ (disk'.status # "whole" => DOMAIN disk'.entries = {})
    BY <2>1, EmptyStatesType, EmptyStates DEF TypeInv, TypeOK
  <2> QED BY <2>1, <2>2, <2>3, <2>4, <2>5, EndCycleTypes
<1>11. CASE Evict
  <2>1. IsState(disk') /\ DOMAIN disk'.entries = {}
    BY <1>11, EmptyStatesType, EmptyStates DEF Evict
  <2>2. snapshots' \in [torn : BOOLEAN, sources : SUBSET AllSources]
        /\ fails' \in [AllSources -> 0 .. MaxStreak]
    BY <1>11, StreakBoundIsNeutral DEF Evict
  <2>3. UNCHANGED <<version, pc, mode, loaded, due, heard, elapsed, base,
                    exitCode, crashes, since, blocked, planned>>
    BY <1>11 DEF Evict, cycle
  <2> QED BY <2>1, <2>2, <2>3 DEF TypeInv, TypeOK, IsState
<1>12. CASE Deploy
  <2>1. version' \in 1 .. Len(Universes)
    BY <1>12, FleetsAssumption DEF Deploy, TypeInv, TypeOK
  <2>2. since' \in [AllSources -> 0 .. MaxSince]
    BY <1>12, MaxSinceType DEF Deploy, TypeInv, TypeOK
  <2>3. UNCHANGED <<disk, snapshots, pc, mode, loaded, due, heard, elapsed, base,
                    exitCode, crashes, blocked, fails, planned>>
    BY <1>12 DEF Deploy, files, cycle, bounds
  <2> QED BY <2>1, <2>2, <2>3 DEF TypeInv, TypeOK, IsState
<1>13. CASE UNCHANGED vars
  BY <1>13 DEF vars, files, cycle, bounds, ghosts, TypeInv, TypeOK, IsState
<1> QED
  BY <1>1, <1>2, <1>3, <1>4, <1>5, <1>6, <1>7, <1>8, <1>9, <1>10, <1>11,
     <1>12, <1>13 DEF Next, Cycle

LEMMA TypeInit == Init => TypeInv
<1> SUFFICES ASSUME Init PROVE TypeInv
  OBVIOUS
<1>1. IsState(disk) /\ IsState(loaded) /\ DOMAIN disk.entries = {}
      /\ DOMAIN loaded.entries = {}
  BY EmptyStatesType, EmptyStates DEF Init
<1>2. version \in 1 .. Len(Universes)
  BY FirstFleet, FleetsAssumption DEF Init
<1>3. /\ since \in [AllSources -> 0 .. MaxSince]
      /\ blocked \in [AllSources -> Nat]
      /\ fails \in [AllSources -> 0 .. MaxStreak]
  BY MaxSinceType, StreakBoundIsNeutral DEF Init
<1> QED
  BY <1>1, <1>2, <1>3, NothingHeardType, BoundsAssumption
     DEF Init, TypeInv, TypeOK

LEMMA TypesHold == Spec => []TypeInv
BY TypeInit, TypeInductive, HistoryHolds, DecisionHolds, PTL DEF Spec

\* Every variable keeps its type, whatever crashes, answers or is deployed.
THEOREM TypeCorrect == Spec => []TypeOK
<1>1. TypeInv => TypeOK
  BY DEF TypeInv
<1> QED BY <1>1, TypesHold, PTL

------------------------------------------------------------------------------
(* No source is forgotten.                                                    *)

\* The state file is never half written for good: the run that dies takes its
\* files with it, or no run dies.
FilesSurvive == Ephemeral \/ MaxCrashes = 0

\* A plan gives each source a scan a day, which the parser insists on.
EverySourceScans == Policy.floor >= 1

Readable(state) == state.status # "torn" /\ Parses(state)

\* The time since a source was asked and the time until the next full refresh
\* add up to no more than the interval, plus the cycle that is under way.  A
\* refresh that is due is late by at most the crashes it met.
Met == IF pc \in {"starting", "gathering"} THEN crashes ELSE crashes - 1

OnTime(s, state) ==
  IF state.refresh > 0
  THEN since[s] + state.refresh <= RefreshInterval + elapsed
  ELSE since[s] <= RefreshInterval + MaxElapsed + Met

ClockInv ==
  /\ Readable(disk) /\ Readable(loaded)
  /\ \A s \in Universe :
       /\ OnTime(s, disk)
       /\ pc \in {"appending", "writing", "reporting"} => OnTime(s, loaded)
       /\ pc \in {"appending", "writing"} /\ mode = "full_refresh" =>
            since[s] <= elapsed

LEMMA ClockTypes ==
  ASSUME TypeInv
  PROVE  /\ RefreshInterval \in Nat /\ RefreshInterval >= 1
         /\ MaxElapsed \in Nat /\ MaxCrashes \in Nat
         /\ elapsed \in Nat /\ elapsed <= MaxElapsed
         /\ crashes \in Nat /\ crashes <= MaxCrashes
         /\ disk.refresh \in Nat /\ disk.refresh <= RefreshInterval
         /\ loaded.refresh \in Nat /\ loaded.refresh <= RefreshInterval
         /\ \A s \in AllSources : since[s] \in Nat
         /\ Universe \subseteq AllSources
<1>1. /\ RefreshInterval \in Nat /\ RefreshInterval >= 1
      /\ MaxElapsed \in Nat /\ MaxCrashes \in Nat
  BY DurationsArePositive, BoundsAssumption
<1>2. Universe \subseteq AllSources
  BY UniverseIsSources DEF TypeInv, TypeOK
<1>3. \A s \in AllSources : since[s] \in Nat
  BY MaxSinceType DEF TypeInv, TypeOK
<1> QED BY <1>1, <1>2, <1>3 DEF TypeInv, TypeOK, IsState

LEMMA EmptyIsReadable == Readable(AbsentState)
BY EmptyStates DEF Readable, Parses, AbsentState

\* What a cycle writes can be read again.
LEMMA WrittenIsReadable ==
  ASSUME EverySourceScans, TypeInv, HistoryInv, Readable(loaded),
         disk' \in NextStates
  PROVE  Readable(disk')
<1>1. ASSUME NEW scans, NEW prior, NEW s, NEW h,
             prior = [scans |-> prior.scans, wait |-> prior.wait,
                      streak |-> prior.streak, scanned |-> prior.scanned]
      PROVE  NextEntry(scans, prior, s, h).scans = scans
  BY <1>1 DEF NextEntry, Succeeded, Failed
<1>2. CASE mode = "full_refresh"
  <2>1. PICK plan \in ReadyPlans(Policy, Candidates) :
          disk' = NewState(plan, heard, loaded.entries)
    BY <1>2 DEF NextStates
  <2>2. plan \in [Candidates -> Policy.floor .. Policy.cap]
    BY <2>1 DEF ReadyPlans
  <2>3. \A s \in Candidates : plan[s] >= 1
    BY <2>2, PolicyAssumption DEF EverySourceScans
  <2>4. ASSUME NEW s \in Candidates
        PROVE  NextEntry(plan[s], Prior(loaded.entries, s), s, heard).scans >= 1
    <3>1. LET p == Prior(loaded.entries, s) IN
          p = [scans |-> p.scans, wait |-> p.wait,
               streak |-> p.streak, scanned |-> p.scanned]
      BY DEF Prior, Unseen, HistoryInv, KnownIn, Shaped
    <3> QED BY <1>1, <2>3, <3>1
  <2> QED BY <2>1, <2>2, <2>4 DEF NewState, Readable, Parses
<1>3. CASE mode # "full_refresh"
  <2>1. disk' = StateAfterOutcomes(loaded, heard)
    BY <1>3 DEF NextStates
  <2>2. /\ disk'.status = loaded.status
        /\ DOMAIN disk'.entries = DOMAIN loaded.entries
        /\ \A s \in DOMAIN loaded.entries : disk'.entries[s] =
             NextEntry(loaded.entries[s].scans, loaded.entries[s], s, heard)
    BY <2>1 DEF StateAfterOutcomes, HistoryInv, KnownIn, Shaped
  <2>3. ASSUME NEW s \in DOMAIN loaded.entries
        PROVE  NextEntry(loaded.entries[s].scans, loaded.entries[s], s,
                         heard).scans >= 1
    BY <1>1 DEF HistoryInv, KnownIn, Shaped, Readable, Parses
  <2> QED BY <2>2, <2>3 DEF Readable, Parses
<1> QED BY <1>2, <1>3

\* Wherever a cycle that asked its sources ends, it leaves a clock that runs.
LEMMA EndKeepsClock ==
  ASSUME TypeInv, ClockInv, pc \in {"appending", "writing", "reporting"},
         NEW code, EndCycle(code), disk' \in {disk, loaded},
         crashes' \in {crashes, crashes + 1}, UNCHANGED <<version, since>>
  PROVE  ClockInv'
<1>1. /\ pc' = "sleeping" /\ loaded' = AbsentState /\ elapsed' = elapsed
      /\ Universe' = Universe
  BY DEF EndCycle, Universe
<1>2. Met' = crashes' - 1 /\ Met = crashes - 1
  BY <1>1 DEF Met
<1>3. ASSUME NEW s \in Universe PROVE OnTime(s, disk)'
  <2>1. OnTime(s, disk) /\ OnTime(s, loaded)
    BY DEF ClockInv
  <2> QED BY <1>1, <1>2, <2>1, ClockTypes DEF OnTime
<1> QED BY <1>1, <1>3, EmptyIsReadable DEF ClockInv

\* A refresh asks the whole fleet, a due_only cycle has time until the next.
LEMMA GatherKeepsClock ==
  ASSUME TypeInv, HistoryInv, DecisionInv, ClockInv, Gather
  PROVE  ClockInv'
<1>1. PICK d \in 0 .. MaxElapsed : GatherEffect(d)
  BY GatherHasEffect
<1>2. /\ UNCHANGED <<disk, version, mode, loaded, crashes>>
      /\ pc = "gathering" /\ pc' = "appending" /\ elapsed' = d
      /\ d \in Nat /\ d <= MaxElapsed /\ elapsed = 0 /\ disk = loaded
  BY <1>1, ClockTypes DEF Gather, GatherEffect, files, bounds, TypeInv, HistoryInv
<1>3. Met' = crashes - 1 /\ Met = crashes
  BY <1>2 DEF Met
<1>4. ASSUME NEW s \in Universe
      PROVE  /\ OnTime(s, disk)'
             /\ mode = "full_refresh" => since'[s] <= d
  <2>1. since[s] \in Nat /\ s \in AllSources
    BY ClockTypes
  <2>2. since'[s] = Older(IF s \in Contacted THEN 0 ELSE since[s], d)
    BY <1>1, <2>1 DEF GatherEffect
  <2>3. CASE s \in Contacted
    <3>1. since'[s] <= d /\ since'[s] \in Nat
      BY <1>2, <2>2, <2>3, OlderFacts, MaxSinceType
    <3> QED BY <1>2, <1>3, <3>1, ClockTypes DEF OnTime
  <2>4. CASE s \notin Contacted
    <3>1. mode # "full_refresh"
      BY <1>2, <2>4 DEF DecisionInv, Contacted, Contact
    <3>2. disk.refresh # 0
      BY <1>2, <3>1 DEF DecisionInv, FullRefreshDue
    <3>3. since'[s] <= since[s] + d /\ since'[s] \in Nat
      <4>1. since'[s] = Older(since[s], d)
        BY <2>2, <2>4
      <4>2. since[s] \in Nat /\ d \in Nat
        BY <1>2, <2>1
      <4>3. /\ Older(since[s], d) \in 0 .. MaxSince
            /\ Older(since[s], d) <= since[s] + d
        BY <4>2, OlderFacts
      <4> QED BY <4>1, <4>3, MaxSinceType
    <3>4. OnTime(s, disk)
      BY DEF ClockInv
    <3> QED BY <1>2, <2>1, <3>1, <3>2, <3>3, <3>4, ClockTypes DEF OnTime
  <2> QED BY <2>3, <2>4
<1>5. Universe' = Universe
  BY <1>2 DEF Universe
<1> QED BY <1>2, <1>4, <1>5 DEF ClockInv, Readable, Parses, OnTime

LEMMA WriteKeepsClock ==
  ASSUME EverySourceScans, TypeInv, HistoryInv, ClockInv, Write
  PROVE  ClockInv'
<1>1. /\ UNCHANGED <<version, mode, loaded, elapsed, crashes, since>>
      /\ pc = "writing" /\ pc' = "reporting" /\ disk' \in NextStates
  BY DEF Write, bounds, ghosts
<1>2. Readable(disk)'
  BY <1>1, WrittenIsReadable DEF ClockInv, Readable, Parses
<1>3. Met' = Met /\ Universe' = Universe
  BY <1>1 DEF Met, Universe
<1>4. \/ mode = "full_refresh" /\ disk'.refresh = RefreshInterval
      \/ disk'.refresh = loaded.refresh
  BY <1>1 DEF NextStates, NewState, StateAfterOutcomes, HistoryInv, KnownIn, Shaped
<1>5. ASSUME NEW s \in Universe
      PROVE  OnTime(s, disk)' /\ OnTime(s, loaded)'
  <2>1. OnTime(s, loaded)
    BY <1>1 DEF ClockInv
  <2>2. OnTime(s, loaded)'
    BY <1>1, <1>3, <2>1 DEF OnTime
  <2>3. CASE disk'.refresh = loaded.refresh
    BY <1>1, <2>2, <2>3 DEF OnTime
  <2>4. CASE mode = "full_refresh" /\ disk'.refresh = RefreshInterval
    <3>1. since[s] <= elapsed
      BY <1>1, <2>4 DEF ClockInv
    <3>2. since'[s] + disk'.refresh <= RefreshInterval + elapsed'
      BY <1>1, <2>4, <3>1, ClockTypes
    <3>3. disk'.refresh > 0
      BY <2>4, ClockTypes
    <3> QED BY <2>2, <3>2, <3>3 DEF OnTime
  <2> QED BY <1>4, <2>3, <2>4
<1> QED BY <1>1, <1>2, <1>3, <1>5 DEF ClockInv, Readable, Parses

\* The tick moves the zero of the clock from the start of one cycle to that
\* of the next.
LEMMA TickKeepsClock ==
  ASSUME TypeInv, HistoryInv, ClockInv, Tick
  PROVE  ClockInv'
<1>1. /\ UNCHANGED <<version, loaded, crashes>> /\ elapsed' = 0
      /\ pc = "sleeping" /\ pc' = "starting" /\ disk' = Later(disk, elapsed + 1)
      /\ elapsed + 1 \in Nat /\ IsState(disk) /\ Shaped(disk)
      /\ loaded = AbsentState
  BY ClockTypes DEF Tick, bounds, TypeInv, TypeOK, HistoryInv, KnownIn
<1>2. /\ disk'.status = disk.status
      /\ disk'.refresh = Sooner(disk.refresh, elapsed + 1)
      /\ DOMAIN disk'.entries = DOMAIN disk.entries
      /\ \A s \in DOMAIN disk.entries :
           disk'.entries[s] =
             [disk.entries[s] EXCEPT !.wait = Sooner(@, elapsed + 1)]
  <2> DEFINE d == elapsed + 1
  <2>1. d \in Nat /\ disk' = Later(disk, d)
    BY <1>1
  <2> HIDE DEF d
  <2>2. /\ disk'.status = disk.status
        /\ disk'.refresh = Sooner(disk.refresh, d)
        /\ DOMAIN disk'.entries = DOMAIN disk.entries
        /\ \A s \in DOMAIN disk.entries :
             disk'.entries[s] = [disk.entries[s] EXCEPT !.wait = Sooner(@, d)]
    BY <1>1, <2>1, LaterType
  <2> QED BY <2>2 DEF d
<1>3. \A s \in DOMAIN disk.entries :
        disk'.entries[s].scans = disk.entries[s].scans
  BY <1>1, <1>2 DEF Shaped
<1>4. Readable(disk)'
  BY <1>2, <1>3 DEF ClockInv, Readable, Parses
<1>5. Met' = crashes /\ Met = crashes - 1 /\ Universe' = Universe
  BY <1>1 DEF Met, Universe
<1>6. /\ disk'.refresh \in Nat
      /\ disk'.refresh = IF disk.refresh >= elapsed + 1
                         THEN disk.refresh - (elapsed + 1) ELSE 0
  BY <1>1, <1>2, SoonerFacts, ClockTypes
<1>7. ASSUME NEW s \in Universe PROVE OnTime(s, disk)'
  <2>1. since[s] \in Nat /\ s \in AllSources
    BY ClockTypes
  <2>2. since'[s] <= since[s] + 1 /\ since'[s] \in Nat
    BY <2>1, OlderFacts, MaxSinceType DEF Tick
  <2>3. OnTime(s, disk)
    BY DEF ClockInv
  <2> QED BY <1>1, <1>5, <1>6, <2>1, <2>2, <2>3, ClockTypes DEF OnTime
<1> QED BY <1>1, <1>4, <1>5, <1>7, EmptyIsReadable DEF ClockInv

\* A crash costs a refresh that is due a tick; it happens only where the run's
\* files are dropped with it.
LEMMA CrashKeepsClock ==
  ASSUME FilesSurvive, TypeInv, HistoryInv, ClockInv, Crash
  PROVE  ClockInv'
<1>1. crashes < MaxCrashes /\ crashes' = crashes + 1
  BY DEF Crash
<1>2. Ephemeral
  BY <1>1, ClockTypes DEF FilesSurvive
<1>3. /\ EndCycle(1) /\ UNCHANGED <<version, since>>
      /\ disk' \in {IF DiskSurvives THEN disk ELSE loaded} \cup
           (IF DiskSurvives /\ pc = "writing" /\ Planning
            THEN {TornState} ELSE {})
  BY DEF Crash
<1>4. disk' = loaded
  BY <1>2, <1>3 DEF DiskSurvives
<1>5. CASE pc \in {"appending", "writing", "reporting"}
  BY <1>1, <1>3, <1>4, <1>5, EndKeepsClock
<1>6. CASE pc = "gathering"
  <2>1. /\ pc' = "sleeping" /\ loaded' = AbsentState /\ elapsed' = elapsed
        /\ Universe' = Universe /\ disk' = disk
    BY <1>3, <1>4, <1>6 DEF EndCycle, Universe, HistoryInv
  <2>2. Met' = crashes /\ Met = crashes
    BY <1>1, <1>6, <2>1, ClockTypes DEF Met
  <2>3. ASSUME NEW s \in Universe PROVE OnTime(s, disk)'
    BY <1>3, <2>1, <2>2 DEF ClockInv, OnTime
  <2> QED BY <2>1, <2>3, EmptyIsReadable DEF ClockInv, Readable, Parses
<1> QED BY <1>5, <1>6 DEF Crash

LEMMA ClockInductive ==
  ASSUME FilesSurvive, EverySourceScans, TypeInv, HistoryInv, DecisionInv,
         ClockInv, [Next]_vars
  PROVE  ClockInv'
<1>1. CASE LoadFails
  BY <1>1 DEF LoadFails, Loadable, ClockInv, Readable
<1>2. CASE Begin
  <2>1. /\ UNCHANGED <<disk, version, elapsed, crashes, since>>
        /\ pc = "starting" /\ pc' = "gathering" /\ loaded' = disk
    BY <1>2 DEF Begin, files, bounds, ghosts
  <2>2. Met' = Met /\ Universe' = Universe
    BY <2>1 DEF Met, Universe
  <2> QED BY <2>1, <2>2 DEF ClockInv, Readable, Parses, OnTime
<1>3. CASE Gather
  BY <1>3, GatherKeepsClock
<1>4. CASE AppendFails
  <2>1. EndCycle(1) /\ UNCHANGED <<disk, crashes, version, since>>
        /\ pc = "appending"
    BY <1>4 DEF AppendFails, files, bounds, ghosts
  <2> QED BY <2>1, EndKeepsClock
<1>5. CASE AppendSnapshots
  <2>1. /\ UNCHANGED <<disk, version, mode, loaded, elapsed, crashes, since>>
        /\ pc = "appending" /\ pc' = "writing"
    BY <1>5 DEF AppendSnapshots, bounds, ghosts
  <2>2. Met' = Met /\ Universe' = Universe
    BY <2>1 DEF Met, Universe
  <2> QED BY <2>1, <2>2 DEF ClockInv, Readable, Parses, OnTime
<1>6. CASE PlanFails
  <2>1. EndCycle(1) /\ UNCHANGED <<disk, crashes, version, since>>
        /\ pc = "writing"
    BY <1>6 DEF PlanFails, bounds, ghosts
  <2> QED BY <2>1, EndKeepsClock
<1>7. CASE Write
  BY <1>7, WriteKeepsClock
<1>8. CASE Report
  <2>1. EndCycle(0) /\ UNCHANGED <<disk, crashes, version, since>>
        /\ pc = "reporting"
    BY <1>8 DEF Report, files, bounds
  <2> QED BY <2>1, EndKeepsClock
<1>9. CASE Tick
  BY <1>9, TickKeepsClock
<1>10. CASE Crash
  BY <1>10, CrashKeepsClock
<1>11. CASE Evict
  <2>1. /\ UNCHANGED <<version, pc, mode, loaded, elapsed, crashes, since>>
        /\ pc = "sleeping" /\ disk' = AbsentState /\ AbsentState.refresh = 0
    BY <1>11 DEF Evict, cycle, AbsentState
  <2>2. Met' = Met /\ Universe' = Universe /\ Met = crashes - 1
    BY <2>1 DEF Met, Universe
  <2>3. ASSUME NEW s \in Universe PROVE OnTime(s, disk)'
    <3>1. OnTime(s, disk) /\ since[s] \in Nat
      BY ClockTypes DEF ClockInv
    <3> QED BY <2>1, <2>2, <3>1, ClockTypes DEF OnTime
  <2> QED BY <2>1, <2>2, <2>3, EmptyIsReadable DEF ClockInv
<1>12. CASE Deploy
  <2>1. /\ UNCHANGED <<disk, loaded, pc, mode, elapsed, crashes>>
        /\ pc = "sleeping"
        /\ Universe' = Universes[version + 1]
    BY <1>12 DEF Deploy, files, cycle, bounds, Universe
  <2>2. Met' = Met /\ Met = crashes - 1
    BY <2>1 DEF Met
  <2>3. ASSUME NEW s \in Universe' PROVE OnTime(s, disk)'
    <3>1. s \in AllSources
      BY <1>12, <2>1, FleetsAreSources, FleetsAssumption, NextFleet
         DEF Deploy, TypeInv, TypeOK
    <3>2. since'[s] = IF s \in Universe THEN since[s] ELSE 0
      BY <1>12, <2>1, <3>1 DEF Deploy
    <3>3. CASE s \in Universe
      <4>1. OnTime(s, disk)
        BY <3>3 DEF ClockInv
      <4> QED BY <2>1, <2>2, <3>2, <3>3, <4>1 DEF OnTime
    <3>4. CASE s \notin Universe
      BY <2>1, <2>2, <3>2, <3>4, ClockTypes DEF OnTime
    <3> QED BY <3>3, <3>4
  <2> QED BY <2>1, <2>3 DEF ClockInv, Readable, Parses
<1>13. CASE UNCHANGED vars
  BY <1>13 DEF vars, files, cycle, bounds, ghosts, ClockInv, Readable, Parses,
     OnTime, Met, Universe
<1> QED
  BY <1>1, <1>2, <1>3, <1>4, <1>5, <1>6, <1>7, <1>8, <1>9, <1>10, <1>11,
     <1>12, <1>13 DEF Next, Cycle

LEMMA ClockInit == Init => ClockInv
<1> SUFFICES ASSUME Init PROVE ClockInv
  OBVIOUS
<1>1. /\ TypeInv /\ pc = "starting" /\ disk = AbsentState /\ loaded = AbsentState
      /\ AbsentState.refresh = 0 /\ crashes = 0
      /\ \A s \in AllSources : since[s] = 0
  BY TypeInit DEF Init, AbsentState
<1>2. ASSUME NEW s \in Universe PROVE OnTime(s, disk)
  BY <1>1, ClockTypes DEF OnTime, Met
<1> QED BY <1>1, <1>2, EmptyIsReadable DEF ClockInv

LEMMA ClockHolds ==
  ASSUME FilesSurvive, EverySourceScans PROVE Spec => []ClockInv
<1>1. TypeInv /\ HistoryInv /\ DecisionInv /\ ClockInv /\ [Next]_vars => ClockInv'
  BY ClockInductive
<1> QED
  BY <1>1, ClockInit, TypesHold, HistoryHolds, DecisionHolds, PTL DEF Spec

LEMMA ClockRemembers ==
  ASSUME TypeInv, ClockInv, NEW s \in Universe
  PROVE  since[s] < MaxSince
<1>1. OnTime(s, disk) /\ since[s] \in Nat
  BY ClockTypes DEF ClockInv
<1> QED BY <1>1, ClockTypes DEF OnTime, Met, MaxSince

\* Whatever a Scout of the fleet answers and whatever the plan gives it, it is
\* asked again within the refresh interval, the length of a cycle and a tick
\* per crash, where no crash leaves a torn file (cli.py:707).
THEOREM NoneIsForgotten ==
  ASSUME FilesSurvive, EverySourceScans
  PROVE  Spec => []NoSourceForgotten
<1>1. TypeInv /\ ClockInv => NoSourceForgotten
  BY ClockRemembers DEF NoSourceForgotten
<1> QED BY <1>1, ClockHolds, TypesHold, PTL

------------------------------------------------------------------------------
(* The state tells the truth about the world.                                 *)

\* No run dies, the budget carries every fleet and no Scout is retired: what a
\* cycle heard always reaches the disk.
BudgetCarries == \A S \in SUBSET AllSources : FloorsFit(Policy, S)
SteadyOperation == MaxCrashes = 0 /\ FleetsGrow /\ BudgetCarries

\* An entry knows how often its source failed, and remembers a success.
Matches(entries) ==
  /\ \A s \in DOMAIN entries :
       /\ entries[s].streak = fails[s]
       /\ entries[s].streak = 0 => entries[s].scanned
  /\ \A s \in AllSources \ DOMAIN entries : fails[s] = 0

\* What the cycle heard is all that the loaded state does not know.
FailsFollow ==
  \A s \in AllSources :
    fails[s] = IF s \in heard.ok THEN 0
               ELSE IF s \in DOMAIN heard.failed
               THEN Longer(Prior(loaded.entries, s).streak)
               ELSE Prior(loaded.entries, s).streak

WorldInv ==
  /\ ~snapshots.torn
  /\ planned \subseteq Universe
  /\ DOMAIN disk.entries \subseteq Universe
  /\ pc \in {"sleeping", "starting", "gathering", "reporting"} =>
       Matches(disk.entries)
  /\ pc \in {"appending", "writing"} =>
       /\ FailsFollow
       /\ \A s \in DOMAIN loaded.entries :
            loaded.entries[s].streak = 0 => loaded.entries[s].scanned
       /\ heard.ok \cup DOMAIN heard.failed \subseteq Universe
       /\ mode = "full_refresh" =>
            heard.ok \cup DOMAIN heard.failed = Universe


\* A refresh asks the fleet, a due_only cycle some of it.
LEMMA ContactsAreFleet ==
  ASSUME TypeInv, DecisionInv, pc = "gathering"
  PROVE  /\ Contacted \subseteq Universe
         /\ mode = "full_refresh" => Contacted = Universe
<1>1. FirstScout \in Universe
  BY FleetsAssumption DEF DecisionInv, Universe
<1>2. due \subseteq Universe
  BY DEF DecisionInv, DueSources
<1>3. \A s \in due : Contact(s) \in Universe
  BY <1>1, <1>2 DEF Contact, Resolve
<1>4. mode = "full_refresh" => due = Universe /\ \A s \in due : Contact(s) = s
  BY DEF DecisionInv, Contact
<1> QED BY <1>3, <1>4 DEF Contacted

\* A written entry follows the one that was there, if there was one.
LEMMA WrittenEntries ==
  ASSUME FleetsGrow, TypeInv, HistoryInv, FleetInv, Write
  PROVE  /\ mode = "full_refresh" => DOMAIN disk'.entries = Universe
         /\ mode # "full_refresh" =>
              /\ DOMAIN disk'.entries = DOMAIN loaded.entries
              /\ DOMAIN loaded.entries = Universe
              /\ \A s \in DOMAIN disk'.entries : disk'.entries[s] =
                   NextEntry(loaded.entries[s].scans, loaded.entries[s], s, heard)
         /\ \A s \in DOMAIN disk'.entries : \E scans \in Nat : disk'.entries[s] =
              NextEntry(scans, Prior(loaded.entries, s), s, heard)
<1>1. DOMAIN disk'.entries = PlannedFor /\ disk' \in NextStates
  BY WrittenCovers DEF Write
<1>2. CASE mode = "full_refresh"
  <2>1. PICK plan \in ReadyPlans(Policy, Candidates) :
          disk' = NewState(plan, heard, loaded.entries)
    BY <1>1, <1>2 DEF NextStates
  <2>2. plan \in [Candidates -> Policy.floor .. Policy.cap]
    BY <2>1 DEF ReadyPlans
  <2>3. \A s \in Candidates : plan[s] \in Nat
    BY <2>2, PolicyAssumption
  <2>4. /\ DOMAIN disk'.entries = Candidates
        /\ \A s \in Candidates : disk'.entries[s] =
             NextEntry(plan[s], Prior(loaded.entries, s), s, heard)
    BY <2>1, <2>2 DEF NewState
  <2> QED BY <1>1, <1>2, <2>3, <2>4 DEF PlannedFor
<1>3. CASE mode # "full_refresh"
  <2>1. disk' = StateAfterOutcomes(loaded, heard)
    BY <1>1, <1>3 DEF NextStates
  <2>2. /\ DOMAIN disk'.entries = DOMAIN loaded.entries
        /\ \A s \in DOMAIN loaded.entries : disk'.entries[s] =
             NextEntry(loaded.entries[s].scans, loaded.entries[s], s, heard)
    BY <2>1 DEF StateAfterOutcomes, HistoryInv, KnownIn, Shaped
  <2>3. DOMAIN loaded.entries = Universe
    BY <1>3 DEF Write, FleetInv, InCycle
  <2>4. \A s \in DOMAIN loaded.entries : /\ loaded.entries[s].scans \in Nat
                                        /\ Prior(loaded.entries, s) = loaded.entries[s]
    BY DEF TypeInv, TypeOK, IsState, Entry, Prior
  <2> QED BY <1>3, <2>2, <2>3, <2>4
<1> QED BY <1>2, <1>3

LEMMA GatherKeepsWorld ==
  ASSUME TypeInv, HistoryInv, DecisionInv, WorldInv, Gather
  PROVE  WorldInv'
<1>1. PICK d \in 0 .. MaxElapsed : GatherEffect(d)
  BY GatherHasEffect
<1>2. /\ UNCHANGED <<disk, snapshots, version, mode, loaded, planned>>
      /\ pc = "gathering" /\ pc' = "appending" /\ disk = loaded
      /\ Universe' = Universe
  BY DEF Gather, files, HistoryInv, Universe
<1>3. Matches(loaded.entries)
  BY <1>2 DEF WorldInv
<1>4. FailsFollow'
  <2>1. ASSUME NEW s \in AllSources
        PROVE  fails'[s] = IF s \in heard'.ok THEN 0
                           ELSE IF s \in DOMAIN heard'.failed
                           THEN Longer(Prior(loaded.entries, s).streak)
                           ELSE Prior(loaded.entries, s).streak
    <3>1. Prior(loaded.entries, s).streak = fails[s]
      BY <1>3 DEF Matches, Prior, Unseen
    <3>2. s \in Contacted <=> s \in heard'.ok \/ s \in DOMAIN heard'.failed
      BY <1>1 DEF GatherEffect
    <3>3. fails'[s] = IF s \in heard'.ok THEN 0
                      ELSE IF s \in Contacted THEN Longer(fails[s]) ELSE fails[s]
      BY <1>1 DEF GatherEffect
    <3> QED BY <3>1, <3>2, <3>3
  <2> QED BY <1>2, <2>1 DEF FailsFollow
<1>5. /\ heard'.ok \cup DOMAIN heard'.failed \subseteq Universe
      /\ mode = "full_refresh" => heard'.ok \cup DOMAIN heard'.failed = Universe
  BY <1>1, <1>2, ContactsAreFleet DEF GatherEffect
<1> QED BY <1>2, <1>3, <1>4, <1>5 DEF WorldInv, Matches

\* What the cycle heard is on disk from here on.
LEMMA WriteKeepsWorld ==
  ASSUME FleetsGrow, TypeInv, HistoryInv, FleetInv, WorldInv, Write
  PROVE  WorldInv'
<1>1. /\ UNCHANGED <<snapshots, version, mode, loaded, heard, planned, fails>>
      /\ pc = "writing" /\ pc' = "reporting" /\ disk = loaded
      /\ Universe' = Universe
  BY DEF Write, ghosts, HistoryInv, Universe
<1>2. /\ FailsFollow
      /\ DOMAIN loaded.entries \subseteq Universe
      /\ \A s \in DOMAIN loaded.entries :
           loaded.entries[s].streak = 0 => loaded.entries[s].scanned
      /\ heard.ok \cup DOMAIN heard.failed \subseteq Universe
      /\ mode = "full_refresh" => heard.ok \cup DOMAIN heard.failed = Universe
  BY <1>1 DEF WorldInv
<1>3. DOMAIN disk'.entries = Universe
  BY WrittenEntries
<1>4. Universe \subseteq AllSources
  BY UniverseIsSources DEF TypeInv, TypeOK
<1>5. ASSUME NEW s \in DOMAIN disk'.entries
      PROVE  /\ disk'.entries[s].streak = fails[s]
             /\ disk'.entries[s].streak = 0 => disk'.entries[s].scanned
  <2>1. PICK scans \in Nat : disk'.entries[s] =
          NextEntry(scans, Prior(loaded.entries, s), s, heard)
    BY WrittenEntries
  <2>2. Prior(loaded.entries, s) \in Entry
    BY PriorType DEF TypeInv, TypeOK
  <2>3. fails[s] = IF s \in heard.ok THEN 0
                   ELSE IF s \in DOMAIN heard.failed
                   THEN Longer(Prior(loaded.entries, s).streak)
                   ELSE Prior(loaded.entries, s).streak
    BY <1>2, <1>3, <1>4 DEF FailsFollow
  <2> DEFINE e == disk'.entries[s]
             p == Prior(loaded.entries, s)
  <2>7. /\ s \in heard.ok => e.streak = 0 /\ e.scanned
        /\ s \notin heard.ok /\ s \in DOMAIN heard.failed =>
             e.streak = Longer(p.streak) /\ e.streak >= 1 /\ e.streak \in Nat
        /\ s \notin heard.ok /\ s \notin DOMAIN heard.failed =>
             e.streak = p.streak /\ e.scanned = p.scanned
    <3> HIDE DEF e, p
    <3>1. p \in Entry /\ e = NextEntry(scans, p, s, heard)
      BY <2>1, <2>2 DEF e, p
    <3>2. s \in heard.ok => e.streak = 0 /\ e.scanned
      BY <3>1 DEF NextEntry, Succeeded
    <3>3. s \notin heard.ok /\ s \in DOMAIN heard.failed =>
            e.streak = Longer(p.streak) /\ e.streak >= 1 /\ e.streak \in Nat
      <4>1. Longer(p.streak) >= 1 /\ Longer(p.streak) \in Nat
        BY <3>1, LongerFacts, MaxStreakType DEF Entry
      <4>2. s \notin heard.ok /\ s \in DOMAIN heard.failed =>
              e.streak = Longer(p.streak)
        BY <3>1 DEF NextEntry, Failed
      <4> QED BY <4>1, <4>2
    <3>4. s \notin heard.ok /\ s \notin DOMAIN heard.failed =>
            e.streak = p.streak /\ e.scanned = p.scanned
      BY <3>1 DEF NextEntry, Entry
    <3> QED BY <3>2, <3>3, <3>4
  <2>4. CASE s \in heard.ok
    BY <2>3, <2>4, <2>7
  <2>5. CASE s \notin heard.ok /\ s \in DOMAIN heard.failed
    BY <2>3, <2>5, <2>7
  <2>6. CASE s \notin heard.ok /\ s \notin DOMAIN heard.failed
    <3>1. s \in DOMAIN loaded.entries
      BY <1>2, <1>3, <2>6, WrittenEntries
    <3>2. Prior(loaded.entries, s) = loaded.entries[s]
      BY <3>1 DEF Prior
    <3>3. /\ disk'.entries[s].streak = loaded.entries[s].streak
          /\ disk'.entries[s].scanned = loaded.entries[s].scanned
      BY <2>6, <2>7, <3>2
    <3> QED BY <1>2, <2>3, <2>6, <3>1, <3>2, <3>3
  <2> QED BY <2>4, <2>5, <2>6
<1>6. ASSUME NEW s \in AllSources \ DOMAIN disk'.entries PROVE fails[s] = 0
  <2>1. s \notin heard.ok /\ s \notin DOMAIN heard.failed
        /\ s \notin DOMAIN loaded.entries
    BY <1>2, <1>3
  <2> QED BY <1>2, <2>1 DEF FailsFollow, Prior, Unseen
<1> QED BY <1>1, <1>3, <1>5, <1>6 DEF WorldInv, Matches

LEMMA WorldInductive ==
  ASSUME SteadyOperation, TypeInv, HistoryInv, DecisionInv, FleetInv, WorldInv,
         [Next]_vars
  PROVE  WorldInv'
<1>1. CASE LoadFails
  BY <1>1 DEF LoadFails, EndCycle, files, ghosts, WorldInv, Matches, Universe
<1>2. CASE Begin
  BY <1>2 DEF Begin, files, ghosts, WorldInv, Matches, Universe
<1>3. CASE Gather
  BY <1>3, GatherKeepsWorld
<1>4. CASE AppendFails
  BY <1>4 DEF AppendFails, WorldInv
<1>5. CASE AppendSnapshots
  <2>1. snapshots'.torn = snapshots.torn
    BY <1>5 DEF AppendSnapshots, HistoryInv, IsLedger
  <2>2. /\ UNCHANGED <<disk, version, mode, loaded, heard, planned, fails>>
        /\ pc = "appending" /\ pc' = "writing" /\ Universe' = Universe
    BY <1>5 DEF AppendSnapshots, ghosts, Universe
  <2> QED BY <2>1, <2>2 DEF WorldInv, FailsFollow
<1>6. CASE PlanFails
  <2>1. Candidates \in SUBSET AllSources
    BY UniverseIsSources DEF Candidates, TypeInv, TypeOK
  <2> QED BY <1>6, <2>1 DEF PlanFails, SteadyOperation, BudgetCarries
<1>7. CASE Write
  BY <1>7, WriteKeepsWorld DEF SteadyOperation
<1>8. CASE Report
  BY <1>8 DEF Report, EndCycle, PlannedFor, files, WorldInv, Matches, Universe
<1>9. CASE Tick
  <2>1. /\ UNCHANGED <<snapshots, version, fails, planned>> /\ pc' = "starting"
        /\ pc = "sleeping" /\ Universe' = Universe
        /\ disk' = Later(disk, elapsed + 1) /\ Shaped(disk)
    BY <1>9 DEF Tick, HistoryInv, KnownIn, Universe
  <2>2. /\ DOMAIN disk'.entries = DOMAIN disk.entries
        /\ \A s \in DOMAIN disk.entries :
             /\ disk'.entries[s].streak = disk.entries[s].streak
             /\ disk'.entries[s].scanned = disk.entries[s].scanned
    BY <2>1 DEF Later, Shaped
  <2> QED BY <2>1, <2>2 DEF WorldInv, Matches
<1>10. CASE Crash
  <2>1. crashes < MaxCrashes /\ MaxCrashes = 0 /\ crashes \in 0 .. MaxCrashes
    BY <1>10 DEF Crash, SteadyOperation, TypeInv
  <2> QED BY <2>1
<1>11. CASE Evict
  <2>1. /\ UNCHANGED <<version, pc, planned>> /\ pc = "sleeping"
        /\ DOMAIN disk'.entries = {} /\ ~snapshots'.torn
        /\ fails' = [s \in AllSources |-> 0] /\ Universe' = Universe
    BY <1>11, EmptyStates DEF Evict, cycle, Universe
  <2> QED BY <2>1 DEF WorldInv, Matches
<1>12. CASE Deploy
  <2>1. Universe \subseteq Universe'
    BY <1>12, NextFleet DEF Deploy, SteadyOperation, FleetsGrow, FleetInv, Universe
  <2> QED BY <1>12, <2>1 DEF Deploy, files, cycle, WorldInv, Matches
<1>13. CASE UNCHANGED vars
  BY <1>13 DEF vars, files, cycle, ghosts, WorldInv, Matches, FailsFollow, Universe
<1> QED
  BY <1>1, <1>2, <1>3, <1>4, <1>5, <1>6, <1>7, <1>8, <1>9, <1>10, <1>11,
     <1>12, <1>13 DEF Next, Cycle

LEMMA WorldHolds ==
  ASSUME SteadyOperation PROVE Spec => []WorldInv
<1>1. Init => WorldInv
  BY EmptyStates DEF Init, WorldInv, Matches
<1>2. TypeInv /\ HistoryInv /\ DecisionInv /\ FleetInv /\ WorldInv /\ [Next]_vars
        => WorldInv'
  BY WorldInductive
<1>3. Spec => []FleetInv
  BY FleetHolds DEF SteadyOperation
<1> QED
  BY <1>1, <1>2, <1>3, TypesHold, HistoryHolds, DecisionHolds, PTL DEF Spec

\* Between cycles an entry's streak is the number of failures of its source
\* since it last answered, and HEALTHY is what answered
\* (scout_scheduler.py:240).
THEOREM ScheduleIsTrue ==
  ASSUME SteadyOperation
  PROVE  Spec => []StateMatchesWorld
<1>1. TypeInv /\ WorldInv => StateMatchesWorld
  <2> SUFFICES ASSUME TypeInv, WorldInv, pc = "sleeping",
                      NEW s \in DOMAIN disk.entries
               PROVE  /\ disk.entries[s].streak = fails[s]
                      /\ (Health(disk.entries[s]) = "HEALTHY") <=> (fails[s] = 0)
    BY DEF StateMatchesWorld
  <2>1. /\ disk.entries[s].streak = fails[s]
        /\ disk.entries[s].streak = 0 => disk.entries[s].scanned
    BY DEF WorldInv, Matches
  <2>2. disk.entries[s].streak \in Nat /\ disk.entries[s].wait \in Nat
    BY MaxStreakType DEF TypeInv, TypeOK, IsState, Entry
  <2>3. CASE disk.entries[s].streak = 0
    BY <2>1, <2>3 DEF Health
  <2>4. CASE disk.entries[s].streak > 0
    BY <2>1, <2>2, <2>4 DEF Health
  <2> QED BY <2>2, <2>3, <2>4
<1> QED BY <1>1, WorldHolds, TypesHold, PTL

------------------------------------------------------------------------------
(* No due_only cycle comes too early.                                         *)

\* How long a source is to be left alone after its last answer.
Rest(entry) ==
  IF entry.streak > 0 THEN Backoff(entry.streak)
  ELSE Interval(DayLength, entry.scans)

\* The deadline of an entry, seen from the start of a cycle that is lag old,
\* comes neither before the rest is over nor, but for the time the answers
\* took, before the time that the source asked for.
Paced(entry, age, quiet, lag) ==
  /\ age + entry.wait >= Rest(entry) + lag
  /\ quiet + lag <= entry.wait + MaxElapsed

\* Before it is on disk, an answer is paced as the entry that it will become.
PaceInv ==
  /\ pc \in {"sleeping", "starting", "gathering", "reporting"} =>
       \A s \in DOMAIN disk.entries :
         Paced(disk.entries[s], since[s], blocked[s], elapsed)
  /\ pc \in {"appending", "writing"} =>
       /\ heard.ok \cap DOMAIN heard.failed = {}
       /\ \A s \in heard.ok \cup DOMAIN heard.failed :
            /\ since[s] = elapsed
            /\ blocked[s] = IF s \in DOMAIN heard.failed
                                /\ heard.failed[s] # NoHint
                            THEN heard.failed[s] ELSE 0
       /\ \A s \in DOMAIN loaded.entries \ (heard.ok \cup DOMAIN heard.failed) :
            Paced(loaded.entries[s], since[s], blocked[s], elapsed)

LEMMA RestType ==
  ASSUME NEW entry \in Entry PROVE Rest(entry) \in Nat
<1>1. entry.streak \in Nat /\ entry.scans \in Nat
  BY MaxStreakType DEF Entry
<1> QED BY <1>1, BackoffType, IntervalType DEF Rest

\* While others answer, an entry stays as it is and its source gets older.
LEMMA PacedWhileOthersAnswer ==
  ASSUME NEW entry \in Entry, NEW age \in Nat, NEW quiet \in Nat,
         NEW d \in Nat, d <= MaxElapsed, age + d <= MaxSince,
         Paced(entry, age, quiet, 0)
  PROVE  Paced(entry, Older(age, d), Sooner(quiet, d), d)
<1>1. Older(age, d) = age + d
  BY OlderFacts
<1>2. /\ Sooner(quiet, d) \in Nat
      /\ Sooner(quiet, d) = IF quiet >= d THEN quiet - d ELSE 0
  BY SoonerFacts
<1>3. Rest(entry) \in Nat /\ entry.wait \in Nat /\ MaxElapsed \in Nat
  BY RestType, BoundsAssumption DEF Entry
<1> QED BY <1>1, <1>2, <1>3 DEF Paced

\* The tick moves the zero of the deadline.
LEMMA PacedLater ==
  ASSUME NEW entry \in Entry, NEW age \in Nat, NEW quiet \in Nat,
         NEW lag \in Nat, age < MaxSince, Paced(entry, age, quiet, lag)
  PROVE  Paced([entry EXCEPT !.wait = Sooner(@, lag + 1)], Older(age, 1),
               Sooner(quiet, 1), 0)
<1> DEFINE later == [entry EXCEPT !.wait = Sooner(@, lag + 1)]
<1>1. entry.wait \in Nat /\ lag + 1 \in Nat /\ MaxElapsed \in Nat
      /\ MaxSince \in Nat
  BY BoundsAssumption, MaxSinceType DEF Entry
<1>2. /\ later.wait = Sooner(entry.wait, lag + 1)
      /\ later.streak = entry.streak /\ later.scans = entry.scans
  BY DEF Entry
<1> HIDE DEF later
<1>3. Rest(later) = Rest(entry) /\ Rest(entry) \in Nat
  BY <1>2, RestType DEF Rest
<1>4. /\ later.wait \in Nat
      /\ later.wait = IF entry.wait >= lag + 1 THEN entry.wait - (lag + 1) ELSE 0
  BY <1>1, <1>2, SoonerFacts
<1>5. Older(age, 1) = age + 1
  BY <1>1, OlderFacts
<1>6. /\ Sooner(quiet, 1) \in Nat
      /\ Sooner(quiet, 1) = IF quiet >= 1 THEN quiet - 1 ELSE 0
  BY SoonerFacts
<1>7. Paced(later, Older(age, 1), Sooner(quiet, 1), 0)
  BY <1>1, <1>3, <1>4, <1>5, <1>6 DEF Paced
<1> QED BY <1>7 DEF later

LEMMA PaceTypes ==
  ASSUME TypeInv, WorldInv
  PROVE  /\ elapsed \in Nat /\ elapsed <= MaxElapsed /\ MaxElapsed \in Nat
         /\ \A s \in DOMAIN disk.entries :
              /\ disk.entries[s] \in Entry /\ s \in Universe
              /\ s \in AllSources /\ since[s] \in Nat /\ blocked[s] \in Nat
         /\ \A s \in AllSources : since[s] \in Nat /\ blocked[s] \in Nat
<1>1. DOMAIN disk.entries \subseteq Universe
  BY DEF WorldInv
<1>2. \A s \in AllSources : blocked[s] \in Nat
  BY DEF TypeInv, TypeOK
<1>3. \A s \in DOMAIN disk.entries : disk.entries[s] \in Entry
  BY DEF TypeInv, TypeOK, IsState
<1> QED BY <1>1, <1>2, <1>3, ClockTypes

\* Whom the cycle asks starts a rest, the others are closer to the end of
\* theirs.
LEMMA GatherKeepsPace ==
  ASSUME NamesAreKeys, TypeInv, HistoryInv, DecisionInv, ClockInv, WorldInv,
         PaceInv, Gather
  PROVE  PaceInv'
<1>1. PICK d \in 0 .. MaxElapsed : GatherEffect(d)
  BY GatherHasEffect
<1>2. /\ UNCHANGED <<disk, mode, loaded>> /\ pc = "gathering"
      /\ pc' = "appending" /\ elapsed' = d /\ elapsed = 0 /\ disk = loaded
      /\ d \in Nat /\ d <= MaxElapsed
  BY <1>1, BoundsAssumption DEF Gather, GatherEffect, files, TypeInv, HistoryInv
<1>3. heard'.ok \cap DOMAIN heard'.failed = {}
  <2>1. due \subseteq Keyed
    BY DEF NamesAreKeys, TypeInv, TypeOK
  <2>2. \A s \in due : Contact(s) = s
    BY <2>1 DEF Contact, Resolve
  <2> QED BY <1>1, <2>2 DEF GatherEffect
<1>4. /\ heard'.ok \cup DOMAIN heard'.failed = Contacted
      /\ Contacted \subseteq AllSources
  BY <1>1, ContactsAreSources DEF GatherEffect, TypeInv
<1>5. ASSUME NEW s \in heard'.ok \cup DOMAIN heard'.failed
      PROVE  /\ since'[s] = d
             /\ blocked'[s] = IF s \in DOMAIN heard'.failed
                                  /\ heard'.failed[s] # NoHint
                              THEN heard'.failed[s] ELSE 0
  <2>1. since'[s] = Older(0, d) /\ s \in Contacted /\ s \in AllSources
    BY <1>1, <1>4 DEF GatherEffect
  <2>2. 0 + d <= MaxSince /\ 0 \in Nat
    BY <1>2, ClockTypes DEF MaxSince
  <2>3. Older(0, d) = d
    BY <1>2, <2>2, OlderFacts
  <2> QED BY <1>1, <2>1, <2>3 DEF GatherEffect
<1>6. ASSUME NEW s \in DOMAIN loaded.entries, s \notin Contacted
      PROVE  Paced(loaded.entries[s], since'[s], blocked'[s], d)
  <2>1. /\ loaded.entries[s] \in Entry /\ s \in Universe /\ s \in AllSources
        /\ since[s] \in Nat /\ blocked[s] \in Nat
    BY <1>2, PaceTypes
  <2>2. disk.refresh # 0
    BY <1>2, <1>6, <2>1, ContactsAreFleet DEF DecisionInv, FullRefreshDue
  <2>3. since[s] + d <= MaxSince
    <3>1. OnTime(s, disk)
      BY <2>1 DEF ClockInv
    <3> QED BY <1>2, <2>1, <2>2, <3>1, ClockTypes DEF OnTime, MaxSince
  <2>4. /\ since'[s] = Older(since[s], d)
        /\ blocked'[s] = Sooner(blocked[s], d)
    BY <1>1, <1>4, <1>6, <2>1 DEF GatherEffect
  <2>5. Paced(loaded.entries[s], since[s], blocked[s], 0)
    BY <1>2 DEF PaceInv
  <2>6. Paced(loaded.entries[s], Older(since[s], d), Sooner(blocked[s], d), d)
    BY <1>2, <2>1, <2>3, <2>5, PacedWhileOthersAnswer
  <2> QED BY <2>4, <2>6
<1> QED BY <1>2, <1>3, <1>4, <1>5, <1>6 DEF PaceInv

\* An answer becomes an entry that asks for the rest it deserves.
LEMMA WriteKeepsPace ==
  ASSUME FleetsGrow, TypeInv, HistoryInv, FleetInv, WorldInv, PaceInv, Write
  PROVE  PaceInv'
<1>1. /\ UNCHANGED <<mode, loaded, heard, elapsed, since, blocked>>
      /\ pc = "writing" /\ pc' = "reporting"
  BY DEF Write, ghosts
<1>2. /\ DOMAIN disk'.entries = Universe /\ Universe \subseteq AllSources
      /\ mode = "full_refresh" => heard.ok \cup DOMAIN heard.failed = Universe
  BY <1>1, WrittenEntries, UniverseIsSources DEF WorldInv, TypeInv, TypeOK
<1>3. ASSUME NEW s \in DOMAIN disk'.entries
      PROVE  Paced(disk'.entries[s], since[s], blocked[s], elapsed)
  <2> DEFINE e == disk'.entries[s]
             p == Prior(loaded.entries, s)
  <2>1. PICK scans \in Nat : e = NextEntry(scans, p, s, heard)
    BY WrittenEntries
  <2>2. p \in Entry
    BY PriorType DEF TypeInv, TypeOK
  <2>4. elapsed \in Nat /\ elapsed <= MaxElapsed /\ MaxElapsed \in Nat
    BY PaceTypes
  <2>5. CASE s \in heard.ok
    <3>1. e = Succeeded(scans)
      BY <2>1, <2>5 DEF NextEntry
    <3> HIDE DEF e
    <3>2. e.wait = Interval(DayLength, scans) /\ Rest(e) = e.wait
      BY <3>1 DEF Succeeded, Rest
    <3>3. e.wait \in Nat
      BY <3>2, IntervalType
    <3>4. since[s] = elapsed /\ blocked[s] = 0
      BY <1>1, <2>5 DEF PaceInv
    <3>5. Paced(e, since[s], blocked[s], elapsed)
      BY <2>4, <3>2, <3>3, <3>4 DEF Paced
    <3> QED BY <3>5 DEF e
  <2>6. CASE s \notin heard.ok /\ s \in DOMAIN heard.failed
    <3> DEFINE streak == Longer(p.streak)
               hint == heard.failed[s]
    <3>1. e = Failed(scans, p, hint)
      BY <2>1, <2>6 DEF NextEntry
    <3> HIDE DEF e, p
    <3>2. streak \in Nat /\ streak > 0 /\ hint \in Hints \cup {NoHint}
      <4>1. streak \in Nat /\ streak > 0
        BY <2>2, LongerFacts, MaxStreakType DEF Entry
      <4>2. hint \in Hints \cup {NoHint}
        BY <2>6 DEF TypeInv, TypeOK
      <4> QED BY <4>1, <4>2
    <3>3. e.wait = EffectiveBackoff(streak, hint) /\ e.streak = streak
      BY <3>1 DEF Failed
    <3> HIDE DEF streak, hint
    <3>4. Rest(e) = Backoff(streak) /\ Backoff(streak) \in Nat
      BY <3>2, <3>3, BackoffType DEF Rest
    <3>5. /\ e.wait \in Nat /\ e.wait >= Backoff(streak)
          /\ hint # NoHint => hint \in Nat /\ e.wait >= hint
      BY <3>2, <3>3, EffectiveBackoffFacts
    <3>6. since[s] = elapsed /\ blocked[s] = IF hint # NoHint THEN hint ELSE 0
      BY <1>1, <2>6 DEF PaceInv, hint
    <3>7. Paced(e, since[s], blocked[s], elapsed)
      BY <2>4, <3>4, <3>5, <3>6 DEF Paced
    <3> QED BY <3>7 DEF e
  <2>7. CASE s \notin heard.ok /\ s \notin DOMAIN heard.failed
    <3>1. /\ s \in DOMAIN loaded.entries
          /\ e = NextEntry(loaded.entries[s].scans, loaded.entries[s], s, heard)
      BY <1>2, <2>7, WrittenEntries
    <3>2. loaded.entries[s] \in Entry
      BY <3>1 DEF TypeInv, TypeOK, IsState
    <3>3. e = loaded.entries[s]
      BY <2>7, <3>1, <3>2 DEF NextEntry, Entry
    <3> QED BY <1>1, <2>7, <3>1, <3>3 DEF PaceInv
  <2> QED BY <2>5, <2>6, <2>7
<1> QED BY <1>1, <1>3 DEF PaceInv

\* Time brings the deadlines closer and the sources further from their answer.
LEMMA TickKeepsPace ==
  ASSUME TypeInv, HistoryInv, ClockInv, WorldInv, PaceInv, Tick
  PROVE  PaceInv'
<1>1. /\ pc = "sleeping" /\ pc' = "starting" /\ elapsed' = 0
      /\ disk' = Later(disk, elapsed + 1)
      /\ since' = [s \in AllSources |-> Older(since[s], 1)]
      /\ blocked' = [s \in AllSources |-> Sooner(blocked[s], 1)]
  BY DEF Tick
<1>2. /\ DOMAIN disk'.entries = DOMAIN disk.entries
      /\ \A s \in DOMAIN disk.entries : disk'.entries[s] =
           [disk.entries[s] EXCEPT !.wait = Sooner(@, elapsed + 1)]
  BY <1>1 DEF Later
<1>3. ASSUME NEW s \in DOMAIN disk.entries
      PROVE  Paced(disk'.entries[s], since'[s], blocked'[s], 0)
  <2>1. /\ disk.entries[s] \in Entry /\ s \in Universe /\ s \in AllSources
        /\ since[s] \in Nat /\ blocked[s] \in Nat /\ elapsed \in Nat
    BY PaceTypes
  <2>2. since[s] < MaxSince
    BY <2>1, ClockRemembers
  <2>3. Paced(disk.entries[s], since[s], blocked[s], elapsed)
    BY <1>1 DEF PaceInv
  <2>4. Paced([disk.entries[s] EXCEPT !.wait = Sooner(@, elapsed + 1)],
              Older(since[s], 1), Sooner(blocked[s], 1), 0)
    BY <2>1, <2>2, <2>3, PacedLater
  <2> QED BY <1>1, <1>2, <2>1, <2>4
<1> QED BY <1>1, <1>2, <1>3 DEF PaceInv

LEMMA PaceInductive ==
  ASSUME SteadyOperation, NamesAreKeys, TypeInv, HistoryInv, DecisionInv,
         FleetInv, ClockInv, WorldInv, PaceInv, [Next]_vars
  PROVE  PaceInv'
<1>1. CASE LoadFails
  BY <1>1 DEF LoadFails, EndCycle, files, ghosts, PaceInv
<1>2. CASE Begin
  BY <1>2 DEF Begin, files, ghosts, PaceInv
<1>3. CASE Gather
  BY <1>3, GatherKeepsPace
<1>4. CASE AppendFails
  BY <1>4 DEF AppendFails, WorldInv
<1>5. CASE AppendSnapshots
  BY <1>5 DEF AppendSnapshots, ghosts, PaceInv
<1>6. CASE PlanFails
  <2>1. Candidates \in SUBSET AllSources
    BY UniverseIsSources DEF Candidates, TypeInv, TypeOK, WorldInv
  <2> QED BY <1>6, <2>1 DEF PlanFails, SteadyOperation, BudgetCarries
<1>7. CASE Write
  BY <1>7, WriteKeepsPace DEF SteadyOperation
<1>8. CASE Report
  BY <1>8 DEF Report, EndCycle, files, PaceInv
<1>9. CASE Tick
  BY <1>9, TickKeepsPace
<1>10. CASE Crash
  <2>1. crashes < MaxCrashes /\ MaxCrashes = 0 /\ crashes \in 0 .. MaxCrashes
    BY <1>10 DEF Crash, SteadyOperation, TypeInv
  <2> QED BY <2>1
<1>11. CASE Evict
  <2>1. pc' = "sleeping" /\ DOMAIN disk'.entries = {}
    BY <1>11, EmptyStates DEF Evict, cycle
  <2> QED BY <2>1 DEF PaceInv
<1>12. CASE Deploy
  <2>1. /\ UNCHANGED <<disk, pc, elapsed, blocked>> /\ pc = "sleeping"
        /\ since' = [s \in AllSources |->
             IF s \in Universes[version + 1] \ Universe THEN 0 ELSE since[s]]
    BY <1>12 DEF Deploy, files, cycle
  <2>2. \A s \in DOMAIN disk.entries : since'[s] = since[s]
    BY <2>1, PaceTypes
  <2> QED BY <2>1, <2>2 DEF PaceInv
<1>13. CASE UNCHANGED vars
  BY <1>13 DEF vars, files, cycle, ghosts, PaceInv
<1> QED
  BY <1>1, <1>2, <1>3, <1>4, <1>5, <1>6, <1>7, <1>8, <1>9, <1>10, <1>11,
     <1>12, <1>13 DEF Next, Cycle

LEMMA PaceHolds ==
  ASSUME SteadyOperation, EverySourceScans, NamesAreKeys
  PROVE  Spec => []PaceInv
<1>1. Init => PaceInv
  BY EmptyStates DEF Init, PaceInv
<1>2. TypeInv /\ HistoryInv /\ DecisionInv /\ FleetInv /\ ClockInv /\ WorldInv
        /\ PaceInv /\ [Next]_vars => PaceInv'
  BY PaceInductive
<1>3. Spec => []FleetInv
  BY FleetHolds DEF SteadyOperation
<1>4. Spec => []ClockInv
  BY ClockHolds DEF SteadyOperation, FilesSurvive
<1> QED
  BY <1>1, <1>2, <1>3, <1>4, TypesHold, HistoryHolds, DecisionHolds, WorldHolds,
     PTL DEF Spec

\* Whom a due_only cycle contacts, and what its entry promised.
LEMMA ContactedWereDue ==
  ASSUME NamesAreKeys, TypeInv, HistoryInv, DecisionInv, WorldInv, PaceInv,
         pc = "gathering", mode = "due_only", NEW s \in Contacted
  PROVE  /\ s \in DOMAIN loaded.entries
         /\ loaded.entries[s] \in Entry /\ loaded.entries[s].wait = 0
         /\ loaded.entries[s].streak = fails[s]
         /\ Paced(loaded.entries[s], since[s], blocked[s], 0)
         /\ since[s] \in Nat /\ blocked[s] \in Nat
<1>1. due = DueSources(loaded) /\ due \subseteq Keyed
  BY DEF DecisionInv, NamesAreKeys, TypeInv, TypeOK
<1>2. s \in DueSources(loaded)
  BY <1>1 DEF Contacted, Contact, Resolve
<1>3. disk = loaded /\ elapsed = 0
  BY DEF HistoryInv, TypeInv
<1> QED BY <1>2, <1>3, PaceTypes DEF DueSources, WorldInv, Matches, PaceInv

\* A server that asked for time is left alone for that long by the cycles that
\* contact only the due, up to the time its own answer took
\* (scout_scheduler.py:240).
THEOREM HintIsHonoured ==
  ASSUME SteadyOperation, EverySourceScans, NamesAreKeys
  PROVE  Spec => []HintHonoured
<1>1. TypeInv /\ HistoryInv /\ DecisionInv /\ WorldInv /\ PaceInv => HintHonoured
  <2> SUFFICES ASSUME TypeInv, HistoryInv, DecisionInv, WorldInv, PaceInv,
                      pc = "gathering", mode = "due_only", NEW s \in Contacted
               PROVE  blocked[s] <= MaxElapsed
    BY DEF HintHonoured
  <2> QED BY ContactedWereDue, BoundsAssumption DEF Paced
<1> QED
  BY <1>1, TypesHold, HistoryHolds, DecisionHolds, WorldHolds, PaceHolds, PTL

\* Such a cycle insists on no failing source before its backoff and visits no
\* healthy one before its interval.
THEOREM NoneTooEarly ==
  ASSUME SteadyOperation, EverySourceScans, NamesAreKeys
  PROVE  Spec => []NotTooEarly
<1>1. TypeInv /\ HistoryInv /\ DecisionInv /\ WorldInv /\ PaceInv => NotTooEarly
  <2> SUFFICES ASSUME TypeInv, HistoryInv, DecisionInv, WorldInv, PaceInv,
                      pc = "gathering", mode = "due_only", NEW s \in Contacted
               PROVE  since[s] >= IF fails[s] > 0 THEN Backoff(fails[s])
                                  ELSE Interval(DayLength, loaded.entries[s].scans)
    BY DEF NotTooEarly
  <2>1. /\ loaded.entries[s] \in Entry /\ loaded.entries[s].wait = 0
        /\ loaded.entries[s].streak = fails[s]
        /\ Paced(loaded.entries[s], since[s], blocked[s], 0)
        /\ since[s] \in Nat
    BY ContactedWereDue
  <2>2. since[s] >= Rest(loaded.entries[s])
    BY <2>1, RestType DEF Paced
  <2> QED BY <2>1, <2>2 DEF Rest
<1> QED
  BY <1>1, TypesHold, HistoryHolds, DecisionHolds, WorldHolds, PaceHolds, PTL
==============================================================================
