------------------------------- MODULE Steward -------------------------------
(* The Autonomous Steward (src/coins_on_the_ground/runtime/steward.py): a     *)
(* JSON ledger of tasks and the three calls that change it - ingest, dispatch *)
(* and reconcile.  Every call loads the whole ledger into a dictionary of its *)
(* own, changes one task in it and saves the whole dictionary (write a .tmp   *)
(* file, rename it over the ledger); dispatch saves twice, before and after   *)
(* it runs the task's handler.  The model keeps exactly these load and save   *)
(* points, because everything that happens between them is what the code can  *)
(* lose or repeat.                                                            *)
EXTENDS Naturals

CONSTANTS
  Tasks,                \* logical events; task_id hashes kind, payload, source
  KindOf,               \* [Tasks -> event kinds]
  Routes,               \* [some kinds -> [capability, handler]]
  AllowedKinds,         \* StewardPolicy.allowed_event_kinds
  AllowedCapabilities,  \* StewardPolicy.allowed_capabilities
  ReviewCapabilities,   \* StewardPolicy.human_review_capabilities
  Handlers,             \* names of the registered handlers
  Frames,               \* calls that can be in progress at the same time
  Mode,                 \* how calls on one ledger may overlap, see MayBegin
  MaxRuns,              \* bound on the ghost counter runs
  NoTask                \* the task of a frame that is not in a call

VARIABLES
  ledger,   \* the ledger file
  tmp,      \* the file ledger.json.tmp, one name for every writer
  pc,       \* where each frame is in its call
  task,     \* the task_id each frame was called with
  copy,     \* the dictionary each frame loaded and changed
  runs,     \* ghost: how often the task's handler was started
  effect    \* ghost: has the task's external effect happened?

files == <<ledger, tmp>>
world == <<runs, effect>>
vars  == <<ledger, tmp, pc, task, copy, runs, effect>>

TaskStates ==
  {"absent", "pending", "claimed", "acked", "failed", "uncertain",
   "human_review"}

Books == [Tasks -> [state : TaskStates, attempts : Nat]]

\* A file is absent, half written, or holds a whole dictionary.
Files == [status : {"absent", "torn", "whole"}, tasks : Books]

NoTasks == [t \in Tasks |-> [state |-> "absent", attempts |-> 0]]
Whole(book) == [status |-> "whole", tasks |-> book]
Torn == [status |-> "torn", tasks |-> NoTasks]
NoFile == [status |-> "absent", tasks |-> NoTasks]

Steps == {"idle", "saving", "replacing", "claiming", "claim_replacing",
          "handling", "running", "performed"}

InHandler == {"running", "performed"}

ASSUME FramesAreNumbers == Frames \subseteq Nat
ASSUME ModeIsKnown == Mode \in {"exclusive", "nested", "concurrent"}
ASSUME MaxRunsIsNat == MaxRuns \in Nat
ASSUME NoTaskIsNoTask == NoTask \notin Tasks

------------------------------------------------------------------------------
(* Policy and routing: constants of a deployment, evaluated per event.        *)

CapabilityOf(t) == Routes[KindOf[t]].capability
HandlerOf(t) == Routes[KindOf[t]].handler

Allowed(t) ==
  /\ KindOf[t] \in DOMAIN Routes
  /\ KindOf[t] \in AllowedKinds
  /\ CapabilityOf(t) \in AllowedCapabilities

AdmissionIgnoringReview(t) == IF Allowed(t) THEN "pending" ELSE "rejected"

\* The state ingest gives to a new task; "rejected" where it returns None.
Admission(t) ==
  IF ~Allowed(t) THEN "rejected"
  ELSE IF CapabilityOf(t) \in ReviewCapabilities THEN "human_review"
  ELSE "pending"

------------------------------------------------------------------------------
(* Frames.  A frame is one call in progress.  "exclusive": calls never        *)
(* overlap (one process, handlers that do not call the steward).  "nested":   *)
(* one process whose handlers may call the steward, so frame n + 1 runs       *)
(* inside the handler of frame n.  "concurrent": every frame is a process.    *)

Idle(w) == pc[w] = "idle"

MayBegin(w) ==
  /\ Idle(w)
  /\ CASE Mode = "exclusive"  -> \A v \in Frames : Idle(v)
       [] Mode = "nested"     -> \A v \in Frames :
                                   IF v < w THEN pc[v] \in InHandler
                                            ELSE Idle(v)
       [] Mode = "concurrent" -> TRUE

\* A handler goes on only after the calls it made have returned.
InnermostCall(w) == Mode = "nested" => \A v \in Frames : v > w => Idle(v)

\* load() raises on a half written file, and the call ends there.
Readable == ledger.status # "torn"

Load == ledger.tasks

Begin(w) == MayBegin(w) /\ Readable

StartCall(w, t, book, step) ==
  /\ task' = [task EXCEPT ![w] = t]
  /\ copy' = [copy EXCEPT ![w] = book]
  /\ pc' = [pc EXCEPT ![w] = step]
  /\ UNCHANGED <<files, world>>

EndCall(w) ==
  /\ pc' = [pc EXCEPT ![w] = "idle"]
  /\ task' = [task EXCEPT ![w] = NoTask]
  /\ copy' = [copy EXCEPT ![w] = NoTasks]

Goto(w, step) == pc' = [pc EXCEPT ![w] = step]

SetState(book, t, s) == [book EXCEPT ![t].state = s]

------------------------------------------------------------------------------
(* ingest                                                                     *)

NewTask(t) == [state |-> Admission(t), attempts |-> 0]

NeverKnown(t) == FALSE
Known(t) == Load[t].state # "absent"

BookOfNewTaskAlone(t) == [NoTasks EXCEPT ![t] = NewTask(t)]
BookWithNewTask(t) == [Load EXCEPT ![t] = NewTask(t)]

\* An event without a route, an event the policy refuses and an event whose
\* task exists leave everything as it is, so they are not steps.
Ingest(w, t) ==
  /\ Begin(w)
  /\ Admission(t) # "rejected"
  /\ ~Known(t)
  /\ StartCall(w, t, BookWithNewTask(t), "saving")

------------------------------------------------------------------------------
(* dispatch                                                                   *)

Retryable(s) == s \in {"pending", "claimed"}
Claimable(s) == s = "pending"

ClaimedBook(t) ==
  [Load EXCEPT ![t] = [state |-> "claimed", attempts |-> @.attempts + 1]]

ClaimWithoutSaving(w, t) ==
  /\ Begin(w)
  /\ Claimable(Load[t].state)
  /\ StartCall(w, t, ClaimedBook(t), "handling")

\* An acked, failed, uncertain or human_review task is returned as it is.
Claim(w, t) ==
  /\ Begin(w)
  /\ Claimable(Load[t].state)
  /\ StartCall(w, t, ClaimedBook(t), "claiming")

\* A task found claimed belongs to a dispatch that never finished, as far as
\* this call can tell.
Doubt(w, t) ==
  /\ Begin(w)
  /\ Load[t].state = "claimed"
  /\ ~Claimable(Load[t].state)
  /\ StartCall(w, t, SetState(Load, t, "uncertain"), "saving")

StartHandler(w) ==
  /\ pc[w] = "handling"
  /\ HandlerOf(task[w]) \in Handlers
  /\ runs[task[w]] < MaxRuns
  /\ runs' = [runs EXCEPT ![task[w]] = @ + 1]
  /\ Goto(w, "running")
  /\ UNCHANGED <<files, task, copy, effect>>

HandlerMissing(w) ==
  /\ pc[w] = "handling"
  /\ HandlerOf(task[w]) \notin Handlers
  /\ copy' = [copy EXCEPT ![w] = SetState(@, task[w], "failed")]
  /\ Goto(w, "saving")
  /\ UNCHANGED <<files, task, world>>

\* The external side effect; code outside the repository, seen as one step.
HandlerActs(w) ==
  /\ pc[w] = "running"
  /\ InnermostCall(w)
  /\ effect' = [effect EXCEPT ![task[w]] = TRUE]
  /\ Goto(w, "performed")
  /\ UNCHANGED <<files, task, copy, runs>>

HandlerReturns(w) ==
  /\ pc[w] = "performed"
  /\ InnermostCall(w)
  /\ copy' = [copy EXCEPT ![w] = SetState(@, task[w], "acked")]
  /\ Goto(w, "saving")
  /\ UNCHANGED <<files, task, world>>

StateAfterExceptionTakenAsFailure == "failed"
StateAfterExceptionOfUnknownName == "timeout"
StateAfterException == "uncertain"

\* The handler may raise before or after its effect (a timeout).
HandlerRaises(w) ==
  /\ pc[w] \in InHandler
  /\ InnermostCall(w)
  /\ copy' = [copy EXCEPT ![w] = SetState(@, task[w], StateAfterException)]
  /\ Goto(w, "saving")
  /\ UNCHANGED <<files, task, world>>

------------------------------------------------------------------------------
(* reconcile.  The answer is what the caller could observe from outside: it   *)
(* does not know, or it has looked and says truly whether the effect is there.*)

Answers(t) == {"unknown", IF effect[t] THEN "happened" ELSE "did_not_happen"}

ReconciledByTruthiness(answer) ==
  IF answer = "did_not_happen" THEN "failed" ELSE "acked"
ReconciledState(answer) ==
  CASE answer = "unknown" -> "uncertain"
    [] answer = "happened" -> "acked"
    [] answer = "did_not_happen" -> "failed"

Reconcile(w, t) ==
  /\ Begin(w)
  /\ Load[t].state \in {"claimed", "failed", "uncertain"}
  /\ \E answer \in Answers(t) :
       StartCall(w, t, SetState(Load, t, ReconciledState(answer)), "saving")

------------------------------------------------------------------------------
(* save: write the temporary file, then rename it over the ledger.            *)

WriteTmp(w) ==
  /\ pc[w] \in {"saving", "claiming"}
  /\ tmp' = Whole(copy[w])
  /\ Goto(w, IF pc[w] = "saving" THEN "replacing" ELSE "claim_replacing")
  /\ UNCHANGED <<ledger, task, copy, world>>

Replace(w) ==
  /\ pc[w] \in {"replacing", "claim_replacing"}
  /\ tmp.status # "absent"
  /\ ledger' = tmp
  /\ tmp' = NoFile
  /\ IF pc[w] = "replacing" THEN EndCall(w)
                            ELSE Goto(w, "handling") /\ UNCHANGED <<task, copy>>
  /\ UNCHANGED world

\* Another writer has renamed the shared temporary file away: the rename
\* raises FileNotFoundError out of the call.
ReplaceFails(w) ==
  /\ pc[w] \in {"replacing", "claim_replacing"}
  /\ tmp.status = "absent"
  /\ EndCall(w)
  /\ UNCHANGED <<files, world>>

------------------------------------------------------------------------------
(* A process dies in the middle of a call and later calls find what it left   *)
(* on disk.  Dying inside write_text leaves the temporary file half written.  *)

Process(w) == IF Mode = "nested" THEN Frames ELSE {w}

Writing(w) == \E v \in Process(w) : pc[v] \in {"saving", "claiming"}

Die(w) ==
  /\ ~Idle(w)
  /\ pc' = [v \in Frames |-> IF v \in Process(w) THEN "idle" ELSE pc[v]]
  /\ task' = [v \in Frames |-> IF v \in Process(w) THEN NoTask ELSE task[v]]
  /\ copy' = [v \in Frames |-> IF v \in Process(w) THEN NoTasks ELSE copy[v]]
  /\ UNCHANGED world

CrashWritingInPlace(w) ==
  /\ Die(w)
  /\ ledger' \in {ledger} \cup (IF Writing(w) THEN {Torn} ELSE {})
  /\ UNCHANGED tmp

Crash(w) ==
  /\ Die(w)
  /\ tmp' \in {tmp} \cup (IF Writing(w) THEN {Torn} ELSE {})
  /\ UNCHANGED ledger

------------------------------------------------------------------------------

Init ==
  /\ ledger = NoFile
  /\ tmp = NoFile
  /\ pc = [w \in Frames |-> "idle"]
  /\ task = [w \in Frames |-> NoTask]
  /\ copy = [w \in Frames |-> NoTasks]
  /\ runs = [t \in Tasks |-> 0]
  /\ effect = [t \in Tasks |-> FALSE]

Call(w, t) == Ingest(w, t) \/ Claim(w, t) \/ Doubt(w, t) \/ Reconcile(w, t)

Continue(w) ==
  \/ StartHandler(w) \/ HandlerMissing(w)
  \/ HandlerActs(w) \/ HandlerReturns(w) \/ HandlerRaises(w)
  \/ WriteTmp(w) \/ Replace(w) \/ ReplaceFails(w)
  \/ Crash(w)

Next == \E w \in Frames : (\E t \in Tasks : Call(w, t)) \/ Continue(w)

Spec == Init /\ [][Next]_vars

------------------------------------------------------------------------------
(* Properties                                                                 *)

\* Every variable keeps the shape the code gives it; in particular a task's
\* state is always one of the names of TaskState.
TypeOK ==
  /\ ledger \in Files /\ tmp \in Files
  /\ pc \in [Frames -> Steps]
  /\ task \in [Frames -> Tasks \cup {NoTask}]
  /\ copy \in [Frames -> Books]
  /\ runs \in [Tasks -> Nat]
  /\ effect \in [Tasks -> BOOLEAN]

\* Invariant 6 of the document, deny by default: whatever calls overlap or
\* die, a handler is only ever started for an event whose kind and capability
\* the policy allows and does not reserve for human review.
OnlyAdmittedRun ==
  \A t \in Tasks : runs[t] > 0 =>
    Allowed(t) /\ CapabilityOf(t) \notin ReviewCapabilities

\* A task the ledger shows as acked did have its effect, whatever calls
\* overlap or die: no stale dictionary can acknowledge work not done.
AckedMeansEffect ==
  \A t \in Tasks : ledger.tasks[t].state = "acked" => effect[t]

\* Invariant 3, a timeout is no proof of failure: a task the ledger shows as
\* failed had no effect and no handler is still going to give it one.
FailedMeansNoEffect ==
  \A t \in Tasks : ledger.tasks[t].state = "failed" =>
    /\ ~effect[t]
    /\ \A w \in Frames : task[w] = t => pc[w] \notin InHandler

\* "claimed, failed and uncertain do not authorise a re-execution": over any
\* sequence of calls, crashes and restarts a handler starts at most once.
AtMostOnce == \A t \in Tasks : runs[t] <= 1

\* Invariant 2: while a handler runs, the file on disk says claimed, so that
\* whoever restarts after a crash can see that the effect is in doubt.
ClaimedBeforeEffect ==
  \A w \in Frames : pc[w] \in InHandler =>
    /\ ledger.status = "whole"
    /\ ledger.tasks[task[w]].state = "claimed"

\* "Writes are atomic": the ledger can be read back at any moment.
LedgerIntact == Readable

\* The ledger is durable: a task it once held is in every later version.
TasksNeverLost ==
  [][\A t \in Tasks : ledger.tasks[t].state # "absent" =>
       ledger'.tasks[t].state # "absent"]_vars

Contract == INSTANCE StewardContract WITH
  Entry <- [t \in Tasks |-> Admission(t)],
  state <- [t \in Tasks |-> ledger.tasks[t].state]

\* The ledger, the saves and the crashes together behave like the lifecycle.
RefinesContract == Contract!Spec

==============================================================================
