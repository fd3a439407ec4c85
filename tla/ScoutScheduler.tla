---------------------------- MODULE ScoutScheduler ----------------------------
(* planning/scout_scheduler.py: the persistent schedule of one Scout fleet    *)
(* and the pure functions that advance it.                                    *)
(*                                                                            *)
(* The code stores instants (next_due_at, next_full_refresh_at) and compares  *)
(* them with the instant of the current cycle, now.  The model stores what    *)
(* the comparison can see: how much longer than now, zero once it is due.     *)
(* Time is counted in scheduler ticks.  Of an entry it keeps                  *)
(*   scans    recommended_scans_per_day; target_interval_minutes follows it   *)
(*   wait     next_due_at - now, or 0                                         *)
(*   streak   consecutive_failures, saturating at MaxStreak                   *)
(*   scanned  last_scanned_at is not None                                     *)
(* and leaves out what is only reported: backoff_minutes and the last failure.*)
EXTENDS Integers, FiniteSetsExt, Functions, ScoutPolicy

CONSTANTS
  DayLength,        \* 1440 minutes, in ticks
  RefreshInterval,  \* refresh_interval_hours, in ticks
  RetryBase,        \* retry_base_minutes, in ticks
  RetryMax,         \* retry_max_minutes, in ticks
  MaxStreak,        \* bound on consecutive_failures
  NoHint            \* a failure whose answer had no Retry-After

ASSUME DurationsArePositive ==
  /\ DayLength \in Nat \ {0} /\ RefreshInterval \in Nat \ {0}
  /\ RetryBase \in Nat \ {0} /\ RetryMax \in Nat /\ RetryMax >= RetryBase
\* Beyond the bound a longer streak has the same backoff.
ASSUME StreakBoundIsNeutral ==
  MaxStreak \in 1 .. 31 /\ RetryBase * 2 ^ (MaxStreak - 1) >= RetryMax

\* The provers do not know the exponents that Backoff uses.
ASSUME PowersAreNumbers == \A k \in 0 .. 30 : 2 ^ k \in Nat

Entry == [scans : Nat, wait : Nat, streak : 0 .. MaxStreak, scanned : BOOLEAN]

------------------------------------------------------------------------------
\* Exponential in the number of consecutive failures, up to a ceiling.
Backoff(streak) ==
  IF streak < 1 THEN 0
  ELSE Min({RetryMax, RetryBase * 2 ^ Min({streak - 1, 30})})

EffectiveBackoffCapped(streak, hint) ==
  IF hint = NoHint THEN Backoff(streak)
  ELSE Min({RetryMax, Max({Backoff(streak), hint})})

EffectiveBackoffOfHintAlone(streak, hint) ==
  IF hint = NoHint THEN Backoff(streak) ELSE hint

\* The server's Retry-After may exceed the ceiling, never undercut.
EffectiveBackoff(streak, hint) ==
  IF hint = NoHint THEN Backoff(streak) ELSE Max({Backoff(streak), hint})

Longer(streak) == Min({streak + 1, MaxStreak})

------------------------------------------------------------------------------
(* What one cycle heard: the sources that answered, and for those with a      *)
(* failure the hint of the last one.  A source may be in both when a cycle    *)
(* contacted it twice; the code looks at the successes first.                 *)

NothingHeard == [ok |-> {}, failed |-> << >>]

Succeeded(scans) ==
  [scans |-> scans, wait |-> Interval(DayLength, scans),
   streak |-> 0, scanned |-> TRUE]

Failed(scans, prior, hint) ==
  [scans |-> scans, wait |-> EffectiveBackoff(Longer(prior.streak), hint),
   streak |-> Longer(prior.streak), scanned |-> prior.scanned]

\* build_adaptive_scout_state has no prior entry for a source it never saw.
Unseen == [scans |-> 0, wait |-> 0, streak |-> 0, scanned |-> FALSE]

Prior(entries, s) == IF s \in DOMAIN entries THEN entries[s] ELSE Unseen

NextEntry(scans, prior, s, heard) ==
  IF s \in heard.ok THEN Succeeded(scans)
  ELSE IF s \in DOMAIN heard.failed THEN Failed(scans, prior, heard.failed[s])
  ELSE [prior EXCEPT !.scans = scans]

NewStateForgettingStreaks(plan, heard, entries) ==
  [status |-> "whole", refresh |-> RefreshInterval,
   entries |-> [s \in DOMAIN plan |-> NextEntry(plan[s], Unseen, s, heard)]]

\* build_adaptive_scout_state: a new plan and a new refresh deadline, the
\* failure streaks carried over from the previous state.
NewState(plan, heard, entries) ==
  [status |-> "whole", refresh |-> RefreshInterval,
   entries |-> [s \in DOMAIN plan |->
                  NextEntry(plan[s], Prior(entries, s), s, heard)]]

StateAfterOutcomesPostponingRefresh(state, heard) ==
  [state EXCEPT
     !.refresh = RefreshInterval,
     !.entries = [s \in DOMAIN @ |-> NextEntry(@[s].scans, @[s], s, heard)]]

\* record_source_outcomes: plan and refresh deadline stay, and so does the
\* entry of a source the cycle did not contact.
StateAfterOutcomes(state, heard) ==
  [state EXCEPT
     !.entries = [s \in DOMAIN @ |-> NextEntry(@[s].scans, @[s], s, heard)]]

------------------------------------------------------------------------------
FullRefreshDue(state) == state.status = "absent" \/ state.refresh = 0

DueSources(state) == {s \in DOMAIN state.entries : state.entries[s].wait = 0}

\* parse_adaptive_scout_state refuses an entry without a single daily scan.
Parses(state) ==
  \A s \in DOMAIN state.entries : state.entries[s].scans >= 1

\* summarize_scout_health
Health(entry) ==
  CASE entry.streak = 0 /\ entry.scanned  -> "HEALTHY"
    [] entry.streak = 0 /\ ~entry.scanned -> "UNKNOWN"
    [] entry.streak > 0 /\ entry.wait > 0 -> "BACKING_OFF"
    [] entry.streak > 0 /\ entry.wait = 0 -> "DEGRADED"

\* The clock: the same state, looked at d ticks later.
Sooner(wait, d) == Max({wait - d, 0})
Later(state, d) ==
  [status |-> state.status, refresh |-> Sooner(state.refresh, d),
   entries |-> [s \in DOMAIN state.entries |->
                  [state.entries[s] EXCEPT !.wait = Sooner(@, d)]]]
==============================================================================
