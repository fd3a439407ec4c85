------------------------------ MODULE ScoutCycle ------------------------------
(* cog scout-cycle and cog scout-daemon (cli.py _scout_cycle, _scout_daemon,  *)
(* runtime/scout_daemon.py): each tick a cycle loads the schedule, contacts   *)
(* all Scouts (full_refresh) or the due ones (due_only) at the same time,     *)
(* appends what it saw to the snapshot ledger, and writes the next schedule.  *)
(* The two files are the only memory between cycles; a cycle can end early at *)
(* each of its steps, and the process can die between and inside the writes.  *)
(*                                                                            *)
(* A plan is any plan the cadence planner may answer (ScoutPolicy.ReadyPlans, *)
(* established by ScoutCadence): which one depends on scores outside this     *)
(* model.                                                                     *)
EXTENDS ScoutScheduler, Sequences

CONSTANTS
  Universes,      \* sequence of the Scout fleets of successive deployments
  Keyed,          \* the names _scouts_for_source has a case for
  FirstScout,     \* the first Scout of the list it returns for other names
  Policy,         \* [budget, floor, cap] from the command line
  Ok,             \* an answer that is a batch of opportunities
  Hints,          \* Retry-After answers, in ticks
  Ephemeral,      \* GitHub Actions: a failed run does not save its files
  MaxElapsed,     \* bound on the ticks that contacting the Scouts may take
  MaxCrashes,     \* bound on the deaths of the process
  MaxEvictions    \* bound on the losses of both files (cache evicted)

\* FirstScout heads the list of every release.
ASSUME FleetsAssumption ==
  /\ Universes \in Seq(Range(Universes)) /\ Universes # << >>
  /\ \A i \in DOMAIN Universes : FirstScout \in Universes[i]

ASSUME PolicyAssumption ==
  Policy \in [budget : Nat, floor : Nat, cap : Nat] /\ ValidPolicy(Policy)

ASSUME AnswersAssumption == Hints \subseteq Nat /\ Ok \notin Hints \cup {NoHint}

ASSUME BoundsAssumption ==
  MaxElapsed \in Nat /\ MaxCrashes \in Nat /\ MaxEvictions \in Nat

VARIABLES
  disk,       \* the state file
  snapshots,  \* the snapshot ledger: is it readable, which sources it has
  version,    \* which fleet is deployed
  pc,         \* where the cycle is; "sleeping" between cycles
  mode,       \* "full_refresh", "due_only" or "none"
  loaded,     \* the state the cycle loaded
  due,        \* the names the cycle looks up Scouts for
  heard,      \* successful_sources and failure_details
  elapsed,    \* ticks since the cycle's now
  base,       \* the snapshot ledger as the cycle found it
  exitCode,   \* exit code of the last cycle
  crashes, evictions,
  since,      \* ghost: ticks since each source was asked
  blocked,    \* ghost: ticks for which the source asked to be left alone
  fails,      \* ghost: failures of each source since its last success
  planned     \* ghost: the fleet the stored plan was made for

files == <<disk, snapshots>>
ghosts == <<since, blocked, fails, planned>>
bounds == <<crashes, evictions>>
cycle == <<pc, mode, loaded, due, heard, elapsed, base>>
vars == <<files, version, cycle, exitCode, bounds, ghosts>>

Universe == Universes[version]
AllSources == UNION Range(Universes)

\* Long enough to tell a forgotten source, see NoSourceForgotten.
MaxSince == RefreshInterval + MaxElapsed + MaxCrashes + 1

AbsentState == [status |-> "absent", refresh |-> 0, entries |-> << >>]
TornState == [status |-> "torn", refresh |-> 0, entries |-> << >>]

Older(age, d) == Min({age + d, MaxSince})

------------------------------------------------------------------------------
(* A cycle, step by step.                                                     *)

EndCycle(code) ==
  /\ pc' = "sleeping"
  /\ mode' = "none"
  /\ loaded' = AbsentState
  /\ due' = {}
  /\ heard' = NothingHeard
  /\ exitCode' = code
  /\ UNCHANGED <<elapsed, base>>

DiskAlwaysSurvives == TRUE
\* adaptive-scout.yml saves the two files in its cache in a step that is
\* skipped when the cycle failed: the next run finds the files this one found.
DiskSurvives == ~Ephemeral

SnapshotsAfterFailure == IF DiskSurvives THEN snapshots ELSE base

\* load_adaptive_scout_state raises on a torn file and on an entry the
\* parser refuses; the daemon counts a failed cycle and goes on.
Loadable(state) == state.status # "torn" /\ Parses(state)

LoadFails ==
  /\ pc = "starting"
  /\ ~Loadable(disk)
  /\ EndCycle(1)
  /\ UNCHANGED <<files, version, bounds, ghosts>>

UniverseNotYetSeen == DOMAIN disk.entries # snapshots.sources
UniverseChanged == DOMAIN disk.entries # Universe

\* The fleet is compared before anything else: no state, no entries.
Begin ==
  /\ pc = "starting"
  /\ Loadable(disk)
  /\ loaded' = disk
  /\ IF UniverseChanged \/ FullRefreshDue(disk)
     THEN mode' = "full_refresh" /\ due' = Universe
     ELSE mode' = "due_only" /\ due' = DueSources(disk)
  /\ pc' = "gathering"
  /\ UNCHANGED <<files, version, heard, elapsed, base, exitCode, bounds,
                 ghosts>>

ResolveWithFallback(s) == FirstScout
ResolveToKey(s) == IF s \in Keyed THEN s ELSE "issuehunt"

\* _scouts_for_source(s)[0].name
Resolve(s) == IF s \in Keyed THEN s ELSE FirstScout

\* The Scout that a due name stands for: itself in a full refresh, which uses
\* the list as it is.
Contact(s) == IF mode = "full_refresh" THEN s ELSE Resolve(s)

Contacted == {Contact(s) : s \in due}

\* asyncio.gather: every contact ends in opportunities or in an exception,
\* and none stops the others.  A failure carries a hint or none.
Answers == {Ok} \cup Hints \cup {NoHint}

Outcomes(answer) ==
  LET Failures(c) == {s \in due : Contact(s) = c /\ answer[s] # Ok}
      down == {c \in Contacted : Failures(c) # {}}
  IN {[ok |-> {c \in Contacted :
                 \E s \in due : Contact(s) = c /\ answer[s] = Ok},
       failed |-> f] :
      f \in {g \in [down -> Hints \cup {NoHint}] :
               \A c \in down : \E s \in Failures(c) : g[c] = answer[s]}}

Gather ==
  /\ pc = "gathering"
  /\ \E answer \in [due -> Answers], d \in 0 .. MaxElapsed :
     \E h \in Outcomes(answer) :
       /\ heard' = h
       /\ elapsed' = elapsed + d
       /\ since' = [s \in AllSources |->
            Older(IF s \in Contacted THEN 0 ELSE since[s], d)]
       /\ blocked' = [s \in AllSources |->
            IF s \in DOMAIN h.failed /\ h.failed[s] # NoHint THEN h.failed[s]
            ELSE IF s \in Contacted THEN 0
            ELSE Sooner(blocked[s], d)]
       /\ fails' = [s \in AllSources |->
            IF s \in h.ok THEN 0
            ELSE IF s \in Contacted THEN Longer(fails[s])
            ELSE fails[s]]
  /\ pc' = "appending"
  /\ UNCHANGED <<files, version, mode, loaded, due, base, exitCode,
                 bounds, planned>>

\* append_opportunity_snapshots reads the whole ledger first, even when it
\* has nothing to append.
AppendFails ==
  /\ pc = "appending"
  /\ snapshots.torn
  /\ EndCycle(1)
  /\ UNCHANGED <<files, version, bounds, ghosts>>

AppendSnapshotsOfRefresh ==
  /\ pc = "appending"
  /\ ~snapshots.torn
  /\ snapshots' = [snapshots EXCEPT !.sources =
       IF mode = "full_refresh" THEN @ \cup heard.ok ELSE @]
  /\ pc' = "writing"
  /\ UNCHANGED <<disk, version, mode, loaded, due, heard, elapsed, base,
                 exitCode, bounds, ghosts>>

AppendSnapshots ==
  /\ pc = "appending"
  /\ ~snapshots.torn
  /\ snapshots' = [snapshots EXCEPT !.sources = @ \cup heard.ok]
  /\ pc' = "writing"
  /\ UNCHANGED <<disk, version, mode, loaded, due, heard, elapsed, base,
                 exitCode, bounds, ghosts>>

\* plan_source_allocation ranks the fleet and whatever the ledger has seen.
Candidates == snapshots.sources \cup Universe

PlanFails ==
  /\ pc = "writing"
  /\ mode = "full_refresh"
  /\ ~FloorsFit(Policy, Candidates)
  /\ snapshots' = SnapshotsAfterFailure
  /\ EndCycle(1)
  /\ UNCHANGED <<disk, version, bounds, ghosts>>

NextStates ==
  IF mode = "full_refresh"
  THEN {NewState(plan, heard, loaded.entries) :
          plan \in ReadyPlans(Policy, Candidates)}
  ELSE {StateAfterOutcomes(loaded, heard)}

Planning == mode = "full_refresh" => FloorsFit(Policy, Candidates)

Write ==
  /\ pc = "writing"
  /\ Planning
  /\ disk' \in NextStates
  /\ pc' = "reporting"
  /\ UNCHANGED <<snapshots, version, mode, loaded, due, heard, elapsed, base,
                 exitCode, bounds, ghosts>>

PlannedFor == IF mode = "full_refresh" THEN Universe ELSE planned

\* The cycle ends with its report; after it Actions saves the cache.
Report ==
  /\ pc = "reporting"
  /\ planned' = PlannedFor
  /\ EndCycle(0)
  /\ UNCHANGED <<files, version, bounds, since, blocked, fails>>

------------------------------------------------------------------------------
(* Around the cycle.                                                          *)

\* run_scout_daemon sleeps for a tick after every cycle, failed or not.
Tick ==
  /\ pc = "sleeping"
  /\ disk' = Later(disk, elapsed + 1)
  /\ since' = [s \in AllSources |-> Older(since[s], 1)]
  /\ blocked' = [s \in AllSources |-> Sooner(blocked[s], 1)]
  /\ elapsed' = 0
  /\ base' = snapshots
  /\ pc' = "starting"
  /\ UNCHANGED <<snapshots, version, mode, loaded, due, heard, exitCode, bounds,
                 fails, planned>>

\* The process dies, or the report cannot be written.  Path.write_text
\* truncates before it writes, and an append can stop within a line.
Crash ==
  /\ pc \in {"gathering", "appending", "writing", "reporting"}
  /\ crashes < MaxCrashes
  /\ crashes' = crashes + 1
  /\ disk' \in {IF DiskSurvives THEN disk ELSE loaded} \cup
       (IF DiskSurvives /\ pc = "writing" /\ Planning THEN {TornState} ELSE {})
  /\ snapshots' \in {SnapshotsAfterFailure} \cup
       (IF DiskSurvives /\ pc = "appending" /\ heard.ok # {}
        THEN {[snapshots EXCEPT !.torn = TRUE]} ELSE {})
  /\ planned' = IF DiskSurvives /\ pc = "reporting" THEN PlannedFor ELSE planned
  /\ EndCycle(1)
  /\ UNCHANGED <<version, evictions, since, blocked, fails>>

\* The Actions cache that carries both files from run to run is gone.
Evict ==
  /\ pc = "sleeping"
  /\ evictions < MaxEvictions
  /\ evictions' = evictions + 1
  /\ disk' = AbsentState
  /\ snapshots' = [torn |-> FALSE, sources |-> {}]
  /\ fails' = [s \in AllSources |-> 0]
  /\ UNCHANGED <<version, cycle, exitCode, crashes, since, blocked, planned>>

\* A release with another list of Scouts.
Deploy ==
  /\ pc = "sleeping"
  /\ version < Len(Universes)
  /\ version' = version + 1
  /\ since' = [s \in AllSources |->
       IF s \in Universes[version + 1] \ Universe THEN 0 ELSE since[s]]
  /\ UNCHANGED <<files, cycle, exitCode, bounds, blocked, fails, planned>>

Init ==
  /\ disk = AbsentState
  /\ snapshots = [torn |-> FALSE, sources |-> {}]
  /\ version = 1
  /\ pc = "starting"
  /\ mode = "none"
  /\ loaded = AbsentState
  /\ due = {}
  /\ heard = NothingHeard
  /\ elapsed = 0
  /\ base = [torn |-> FALSE, sources |-> {}]
  /\ exitCode = 0
  /\ crashes = 0 /\ evictions = 0
  /\ since = [s \in AllSources |-> 0]
  /\ blocked = [s \in AllSources |-> 0]
  /\ fails = [s \in AllSources |-> 0]
  /\ planned = {}

Cycle ==
  \/ LoadFails \/ Begin \/ Gather
  \/ AppendFails \/ AppendSnapshots
  \/ PlanFails \/ Write \/ Report

Next == Cycle \/ Tick \/ Crash \/ Evict \/ Deploy

\* Scouts have time-outs, and the daemon's loop goes on: cycles end and ticks
\* come.  Nothing is assumed about answers, plans or accidents.
Spec == Init /\ [][Next]_vars /\ WF_vars(Cycle) /\ WF_vars(Tick)

------------------------------------------------------------------------------
(* Properties                                                                 *)

States ==
  [status : {"absent", "torn", "whole"}, refresh : 0 .. RefreshInterval,
   entries : UNION {[S -> Entry] : S \in SUBSET AllSources}]

IsState(state) ==
  /\ state.status \in {"absent", "torn", "whole"}
  /\ state.refresh \in 0 .. RefreshInterval
  /\ DOMAIN state.entries \subseteq AllSources
  /\ \A s \in DOMAIN state.entries : state.entries[s] \in Entry

\* Every variable keeps its shape; in particular what is not a whole state
\* holds no entries, and streaks and deadlines stay within their bounds.
TypeOK ==
  /\ IsState(disk) /\ IsState(loaded)
  /\ disk.status # "whole" => DOMAIN disk.entries = {}
  /\ snapshots \in [torn : BOOLEAN, sources : SUBSET AllSources]
  /\ base \in [torn : BOOLEAN, sources : SUBSET AllSources]
  /\ version \in 1 .. Len(Universes)
  /\ pc \in {"sleeping", "starting", "gathering", "appending", "writing",
            "reporting"}
  /\ mode \in {"none", "full_refresh", "due_only"}
  /\ due \subseteq AllSources
  /\ heard.ok \subseteq AllSources
  /\ \A s \in DOMAIN heard.failed : heard.failed[s] \in Hints \cup {NoHint}
  /\ elapsed \in 0 .. MaxElapsed
  /\ exitCode \in {0, 1}
  /\ since \in [AllSources -> 0 .. MaxSince]
  /\ blocked \in [AllSources -> Nat]
  /\ fails \in [AllSources -> 0 .. MaxStreak]
  /\ planned \subseteq AllSources

\* "A source does not vanish from the radar": whatever it answers and
\* whatever the plan gives it, a Scout of the fleet is asked again within the
\* refresh interval, plus the length of a cycle and a tick per crash.
NoSourceForgotten == \A s \in Universe : since[s] < MaxSince

\* The state on disk tells the truth about the world: its failure streak is
\* the number of failures since the source last answered, across due cycles
\* and full refreshes, and it is reported HEALTHY exactly when it answered.
StateMatchesWorld ==
  pc = "sleeping" => \A s \in DOMAIN disk.entries :
    /\ disk.entries[s].streak = fails[s]
    /\ (Health(disk.entries[s]) = "HEALTHY") <=> (fails[s] = 0)

\* due_only contacts "only sources whose next_due_at has passed", and all of
\* them.
DueOnlyIsolation ==
  (pc = "gathering" /\ mode = "due_only") =>
     Contacted = {s \in Universe : loaded.entries[s].wait = 0}

\* A server that asked for time is not contacted again before that time is
\* over, except by a full refresh; the time its own answer took may be missing,
\* because the code counts from the start of the cycle.
HintHonoured ==
  (pc = "gathering" /\ mode = "due_only") =>
     \A s \in Contacted : blocked[s] <= MaxElapsed

\* A due_only cycle neither insists on a failing source before its
\* exponential backoff nor visits a healthy one before its interval.
NotTooEarly ==
  (pc = "gathering" /\ mode = "due_only") =>
     \A s \in Contacted :
       since[s] >= IF fails[s] > 0 THEN Backoff(fails[s])
                   ELSE Interval(DayLength, loaded.entries[s].scans)

\* A full refresh happens when there is no state, when the fleet is not the
\* one the plan was made for, or when its time has come: for no other reason,
\* and always then.
RefreshExactlyWhenNeeded ==
  pc = "gathering" =>
    (mode = "full_refresh" <=>
       loaded.status = "absent" \/ planned # Universe \/ loaded.refresh = 0)

\* The schedule never knows more than the history: a source that counts as
\* scanned has a snapshot in the ledger, wherever a cycle was cut off.
HistoryBeforeSchedule ==
  \A s \in DOMAIN disk.entries :
    disk.entries[s].scanned => s \in snapshots.sources

\* Every Scout of the fleet is contacted again and again.
KeepsScouting ==
  \A s \in AllSources :
    []<>(s \in Universe => pc = "gathering" /\ s \in Contacted)

\* "without treating one failed cycle as fatal": cycles succeed again and
\* again.
KeepsSucceeding == []<>(pc = "sleeping" /\ exitCode = 0)
==============================================================================
