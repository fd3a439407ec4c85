---------------------------- MODULE StewardProofs ----------------------------
(* Machine-checked theorems about Steward.tla, for every set of events, every *)
(* policy and every number of frames.  The first part holds in every Mode,    *)
(* calls overlapping as they like; the second needs Mode = "exclusive".       *)
EXTENDS Steward, TLAPS

LEMMA BookUpdate ==
  ASSUME NEW book \in Books, NEW t \in Tasks, NEW s \in TaskStates
  PROVE  /\ SetState(book, t, s) \in Books
         /\ SetState(book, t, s)[t].state = s
         /\ \A u \in Tasks \ {t} : SetState(book, t, s)[u] = book[u]
  BY DEF SetState, Books

LEMMA ClaimUpdate ==
  ASSUME NEW t \in Tasks, Load \in Books
  PROVE  /\ ClaimedBook(t) \in Books
         /\ ClaimedBook(t)[t].state = "claimed"
         /\ \A u \in Tasks \ {t} : ClaimedBook(t)[u] = Load[u]
  BY DEF ClaimedBook, Books, TaskStates

LEMMA NewTaskUpdate ==
  ASSUME NEW t \in Tasks, Load \in Books, Admission(t) # "rejected"
  PROVE  /\ BookWithNewTask(t) \in Books
         /\ BookWithNewTask(t)[t].state = Admission(t)
         /\ Admission(t) \in {"pending", "human_review"}
         /\ \A u \in Tasks \ {t} : BookWithNewTask(t)[u] = Load[u]
  BY DEF BookWithNewTask, NewTask, Admission, Books, TaskStates

LEMMA EmptyFiles ==
  /\ NoTasks \in Books
  /\ NoFile \in Files /\ Torn \in Files
  /\ \A book \in Books : Whole(book) \in Files
  BY DEF NoTasks, Books, NoFile, Torn, Whole, Files, TaskStates

LEMMA Reconciled ==
  ASSUME NEW t \in Tasks, NEW answer \in Answers(t)
  PROVE  /\ ReconciledState(answer) \in {"uncertain", "acked", "failed"}
         /\ effect[t] => ReconciledState(answer) # "failed"
         /\ ~effect[t] => ReconciledState(answer) # "acked"
  BY DEF Answers, ReconciledState

\* The steps of one frame keep every variable in its type: each task state
\* written to a dictionary or a file is one of the names of TaskState.
LEMMA TypeInductive == TypeOK /\ [Next]_vars => TypeOK'
<1> SUFFICES ASSUME TypeOK, [Next]_vars PROVE TypeOK'
  OBVIOUS
<1> USE EmptyFiles
<1>1. Load \in Books
  BY DEF TypeOK, Files, Load
<1>2. ASSUME NEW w \in Frames, NEW t \in Tasks, Call(w, t) PROVE TypeOK'
  <2>1. ASSUME NEW book \in Books, NEW step \in Steps, StartCall(w, t, book, step)
        PROVE  TypeOK'
    BY <2>1 DEF StartCall, TypeOK, files, world
  <2>2. CASE Ingest(w, t)
    BY <2>1, <2>2, <1>1, NewTaskUpdate DEF Ingest, Steps
  <2>3. CASE Claim(w, t)
    BY <2>1, <2>3, <1>1, ClaimUpdate DEF Claim, Steps
  <2>4. CASE Doubt(w, t)
    BY <2>1, <2>4, <1>1, BookUpdate DEF Doubt, Steps, TaskStates
  <2>5. CASE Reconcile(w, t)
    <3>1. PICK answer \in Answers(t) :
            StartCall(w, t, SetState(Load, t, ReconciledState(answer)), "saving")
      BY <2>5 DEF Reconcile
    <3>2. ReconciledState(answer) \in TaskStates
      BY Reconciled DEF TaskStates
    <3>3. SetState(Load, t, ReconciledState(answer)) \in Books
      BY <1>1, <3>2, BookUpdate
    <3> QED
      BY <2>1, <3>1, <3>3 DEF Steps
  <2> QED
    BY <1>2, <2>2, <2>3, <2>4, <2>5 DEF Call
<1>3. ASSUME NEW w \in Frames, Continue(w) PROVE TypeOK'
  <2>2. CASE StartHandler(w)
    <3>1. runs' = [runs EXCEPT ![task[w]] = runs[task[w]] + 1]
      BY <2>2 DEF StartHandler
    <3>2. runs' \in [Tasks -> Nat]
      <4>1. CASE task[w] \in Tasks
        BY <3>1, <4>1 DEF TypeOK
      <4>2. CASE task[w] \notin Tasks
        BY <3>1, <4>2 DEF TypeOK
      <4> QED
        BY <4>1, <4>2
    <3> QED
      BY <2>2, <3>2 DEF StartHandler, TypeOK, Goto, Steps, files
  <2>3. ASSUME NEW s \in TaskStates,
               copy' = [copy EXCEPT ![w] = SetState(@, task[w], s)],
               Goto(w, "saving"), UNCHANGED <<files, task, world>>
        PROVE  TypeOK'
    <3>1. SetState(copy[w], task[w], s) \in Books
      <4>1. copy[w] \in Books
        BY DEF TypeOK
      <4>2. CASE task[w] \in Tasks
        BY <2>3, <4>1, <4>2, BookUpdate
      <4>3. CASE task[w] \notin Tasks
        BY <4>1, <4>3 DEF SetState, Books
      <4> QED
        BY <4>2, <4>3
    <3> QED
      BY <2>3, <3>1 DEF TypeOK, Goto, Steps, files, world
  <2>4. CASE HandlerMissing(w)
    BY <2>3, <2>4 DEF HandlerMissing, TaskStates
  <2>5. CASE HandlerActs(w)
    BY <2>5 DEF HandlerActs, TypeOK, Goto, Steps, files
  <2>6. CASE HandlerReturns(w)
    BY <2>3, <2>6 DEF HandlerReturns, TaskStates
  <2>7. CASE HandlerRaises(w)
    BY <2>3, <2>7 DEF HandlerRaises, StateAfterException, TaskStates
  <2>8. CASE WriteTmp(w)
    BY <2>8 DEF WriteTmp, TypeOK, Goto, Steps, world
  <2>9. CASE Replace(w)
    BY <2>9 DEF Replace, EndCall, TypeOK, Goto, Steps, world
  <2>10. CASE ReplaceFails(w)
    BY <2>10 DEF ReplaceFails, EndCall, TypeOK, Steps, files, world
  <2>11. CASE Crash(w)
    BY <2>11 DEF Crash, Die, TypeOK, Steps, world
  <2> QED
    BY <1>3, <2>2, <2>4, <2>5, <2>6, <2>7, <2>8, <2>9, <2>10, <2>11 DEF Continue
<1>4. CASE UNCHANGED vars
  BY <1>4 DEF vars, TypeOK
<1> QED
  BY <1>2, <1>3, <1>4 DEF Next

\* Type correctness, for every Mode: whatever calls overlap or die, the
\* ledger, the temporary file and every dictionary hold only known states.
THEOREM TypeCorrect == Spec => []TypeOK
<1>1. Init => TypeOK
  BY EmptyFiles DEF Init, TypeOK, Steps
<1> QED
  BY <1>1, TypeInductive, PTL DEF Spec

------------------------------------------------------------------------------
(* Any Mode.  Every dictionary - in the ledger, in the temporary file, in a   *)
(* call - may be stale, but each was true when it was made: what it shows as  *)
(* acked has had its effect (effects are not undone), and it holds a task in  *)
(* an executable state only if the policy admitted it.                        *)

TrueOnce(book) == \A t \in Tasks :
  /\ book[t].state = "acked" => effect[t]
  /\ book[t].state \notin {"absent", "human_review"} => Admission(t) = "pending"

Claimed == {"claiming", "claim_replacing", "handling", "running", "performed"}

\* Only what ingest would let pass as pending ever ran.
OnlyPendingRun == \A t \in Tasks : runs[t] > 0 => Admission(t) = "pending"

AnyModeInv ==
  /\ TrueOnce(ledger.tasks)
  /\ TrueOnce(tmp.tasks)
  /\ \A w \in Frames : TrueOnce(copy[w])
  /\ \A w \in Frames : ~Idle(w) => task[w] \in Tasks
  /\ \A w \in Frames : pc[w] \in Claimed => copy[w][task[w]].state = "claimed"
  /\ \A w \in Frames : pc[w] = "performed" => effect[task[w]]
  /\ OnlyPendingRun

\* What one frame does to its own dictionary keeps the whole invariant, as
\* long as the changed dictionary is true.
LEMMA FrameStep ==
  ASSUME TypeOK, AnyModeInv, NEW w \in Frames, NEW t \in Tasks,
         NEW book \in Books, NEW step \in Steps, TrueOnce(book),
         step \in Claimed => book[t].state = "claimed",
         step = "performed" => effect[t],
         task' = [task EXCEPT ![w] = t],
         copy' = [copy EXCEPT ![w] = book],
         pc' = [pc EXCEPT ![w] = step],
         UNCHANGED <<files, world>>
  PROVE  AnyModeInv'
<1>1. UNCHANGED <<ledger, tmp, runs, effect>>
  BY DEF files, world
<1>2. /\ pc'[w] = step /\ task'[w] = t /\ copy'[w] = book
      /\ \A v \in Frames \ {w} :
           pc'[v] = pc[v] /\ task'[v] = task[v] /\ copy'[v] = copy[v]
  BY DEF TypeOK
<1>3. \A b : TrueOnce(b) <=> TrueOnce(b)'
  BY <1>1 DEF TrueOnce
<1> QED
  BY <1>1, <1>2, <1>3 DEF AnyModeInv, Idle, OnlyPendingRun, TrueOnce

LEMMA AnyModeInductive == TypeOK /\ AnyModeInv /\ [Next]_vars => AnyModeInv'
<1> SUFFICES ASSUME TypeOK, AnyModeInv, [Next]_vars PROVE AnyModeInv'
  OBVIOUS
<1>1. Load \in Books /\ TrueOnce(Load) /\ TrueOnce(NoTasks) /\ NoTasks \in Books
  BY EmptyFiles DEF TypeOK, Files, Load, AnyModeInv, TrueOnce, NoTasks
<1>2. ASSUME NEW w \in Frames, NEW t \in Tasks, Call(w, t) PROVE AnyModeInv'
  <2>1. ASSUME NEW book \in Books, NEW step \in {"saving", "claiming"},
               TrueOnce(book), step = "claiming" => book[t].state = "claimed",
               StartCall(w, t, book, step)
        PROVE  AnyModeInv'
    BY <2>1, FrameStep DEF StartCall, Steps, Claimed
  <2>2. CASE Ingest(w, t)
    <3>1. TrueOnce(BookWithNewTask(t))
      BY <2>2, <1>1, NewTaskUpdate DEF TrueOnce, Ingest
    <3> QED
      BY <2>1, <2>2, <3>1, <1>1, NewTaskUpdate DEF Ingest
  <2>3. CASE Claim(w, t)
    <3>1. TrueOnce(ClaimedBook(t))
      BY <2>3, <1>1, ClaimUpdate DEF TrueOnce, Claim, Claimable
    <3> QED
      BY <2>1, <2>3, <3>1, <1>1, ClaimUpdate DEF Claim
  <2>4. CASE Doubt(w, t)
    <3> "uncertain" \in TaskStates
      BY DEF TaskStates
    <3>1. SetState(Load, t, "uncertain") \in Books
      BY <1>1, BookUpdate
    <3>2. TrueOnce(SetState(Load, t, "uncertain"))
      BY <2>4, <1>1, BookUpdate DEF TrueOnce, Doubt
    <3> QED
      BY <2>1, <2>4, <3>1, <3>2 DEF Doubt
  <2>5. CASE Reconcile(w, t)
    <3>1. PICK answer \in Answers(t) :
            StartCall(w, t, SetState(Load, t, ReconciledState(answer)), "saving")
      BY <2>5 DEF Reconcile
    <3>2. ReconciledState(answer) \in TaskStates
      BY Reconciled DEF TaskStates
    <3>3. SetState(Load, t, ReconciledState(answer)) \in Books
      BY <1>1, <3>2, BookUpdate
    <3>4. TrueOnce(SetState(Load, t, ReconciledState(answer)))
      BY <2>5, <1>1, <3>2, BookUpdate, Reconciled DEF TrueOnce, Reconcile
    <3> QED
      BY <2>1, <3>1, <3>3, <3>4
  <2> QED
    BY <1>2, <2>2, <2>3, <2>4, <2>5 DEF Call
<1>3. ASSUME NEW w \in Frames, Continue(w) PROVE AnyModeInv'
  <2>1. /\ copy[w] \in Books /\ TrueOnce(copy[w])
        /\ ~Idle(w) => task[w] \in Tasks
        /\ task = [task EXCEPT ![w] = task[w]]
        /\ copy = [copy EXCEPT ![w] = copy[w]]
    BY DEF AnyModeInv, TypeOK
  <2>2. ASSUME NEW s \in TaskStates, task[w] \in Tasks, pc[w] \in Claimed,
               s = "acked" => effect[task[w]],
               copy' = [copy EXCEPT ![w] = SetState(@, task[w], s)],
               Goto(w, "saving"), UNCHANGED <<files, task, world>>
        PROVE  AnyModeInv'
    <3> DEFINE book == SetState(copy[w], task[w], s)
    <3>1. book \in Books
      BY <2>1, <2>2, BookUpdate
    <3>2. Admission(task[w]) = "pending"
      BY <2>1, <2>2 DEF AnyModeInv, TrueOnce
    <3>3. TrueOnce(book)
      BY <2>1, <2>2, <3>2, BookUpdate DEF TrueOnce
    <3>4. copy' = [copy EXCEPT ![w] = book] /\ task' = [task EXCEPT ![w] = task[w]]
      BY <2>1, <2>2
    <3> HIDE DEF book
    <3> QED
      BY <2>2, <3>1, <3>3, <3>4, FrameStep DEF Goto, Steps, Claimed
  <2>3. CASE StartHandler(w)
    <3>1. task[w] \in Tasks /\ Admission(task[w]) = "pending"
      BY <2>3, <2>1 DEF StartHandler, AnyModeInv, TrueOnce, Idle, Claimed
    <3>2. \A t \in Tasks : t # task[w] => runs'[t] = runs[t]
      BY <2>3, <3>1 DEF StartHandler, TypeOK
    <3>3. OnlyPendingRun'
      BY <3>1, <3>2 DEF OnlyPendingRun, AnyModeInv, Admission
    <3>4. \A b : TrueOnce(b) <=> TrueOnce(b)'
      BY <2>3 DEF TrueOnce, StartHandler
    <3>5. /\ pc'[w] = "running"
          /\ \A v \in Frames \ {w} : pc'[v] = pc[v]
      BY <2>3 DEF StartHandler, Goto, TypeOK
    <3> QED
      BY <2>3, <3>1, <3>3, <3>4, <3>5
      DEF StartHandler, AnyModeInv, Idle, Claimed, files, TrueOnce
  <2>4. CASE HandlerMissing(w)
    BY <2>1, <2>2, <2>4 DEF HandlerMissing, TaskStates, Idle, Claimed
  <2>5. CASE HandlerActs(w)
    <3>1. task[w] \in Tasks /\ effect'[task[w]]
      BY <2>5, <2>1 DEF HandlerActs, Idle, TypeOK
    <3>2. \A t \in Tasks : effect[t] => effect'[t]
      BY <2>5 DEF HandlerActs, TypeOK
    <3>3. \A b : TrueOnce(b) => TrueOnce(b)'
      BY <3>2 DEF TrueOnce
    <3>4. /\ pc'[w] = "performed"
          /\ \A v \in Frames \ {w} : pc'[v] = pc[v]
      BY <2>5 DEF HandlerActs, Goto, TypeOK
    <3>5. TrueOnce(ledger.tasks)' /\ TrueOnce(tmp.tasks)'
      BY <2>5, <3>2 DEF HandlerActs, files, AnyModeInv, TrueOnce
    <3>6. \A v \in Frames : TrueOnce(copy[v])'
      BY <2>5, <3>2 DEF HandlerActs, AnyModeInv, TrueOnce
    <3> QED
      BY <2>5, <3>1, <3>2, <3>4, <3>5, <3>6
      DEF HandlerActs, AnyModeInv, Idle, Claimed, OnlyPendingRun
  <2>6. CASE HandlerReturns(w)
    BY <2>1, <2>2, <2>6
    DEF HandlerReturns, TaskStates, Idle, Claimed, AnyModeInv
  <2>7. CASE HandlerRaises(w)
    BY <2>1, <2>2, <2>7
    DEF HandlerRaises, StateAfterException, TaskStates, Idle, Claimed, InHandler
  <2>8. CASE WriteTmp(w)
    BY <2>8 DEF WriteTmp, Whole, Goto, TypeOK, AnyModeInv, TrueOnce, Idle,
                Claimed, OnlyPendingRun, world
  <2>9. CASE Replace(w)
    <3>1. TrueOnce(ledger.tasks)' /\ TrueOnce(tmp.tasks)'
      BY <2>9, <1>1 DEF Replace, NoFile, AnyModeInv, TrueOnce, world
    <3>2. \A v \in Frames : TrueOnce(copy[v])'
      BY <2>9, <1>1 DEF Replace, EndCall, TypeOK, AnyModeInv, TrueOnce, world
    <3>3. CASE pc[w] = "replacing"
      BY <2>9, <3>1, <3>2, <3>3
      DEF Replace, EndCall, TypeOK, AnyModeInv, Idle, Claimed, OnlyPendingRun, world
    <3>4. CASE pc[w] = "claim_replacing"
      BY <2>9, <3>1, <3>2, <3>4
      DEF Replace, Goto, TypeOK, AnyModeInv, Idle, Claimed, OnlyPendingRun, world
    <3> QED
      BY <2>9, <3>3, <3>4 DEF Replace
  <2>10. CASE ReplaceFails(w)
    BY <2>10, <1>1 DEF ReplaceFails, EndCall, TypeOK, AnyModeInv, TrueOnce,
                Idle, Claimed, OnlyPendingRun, files, world
  <2>11. CASE Crash(w)
    BY <2>11, <1>1 DEF Crash, Die, Torn, TypeOK, AnyModeInv, TrueOnce, Idle,
                Claimed, OnlyPendingRun, world
  <2> QED
    BY <1>3, <2>3, <2>4, <2>5, <2>6, <2>7, <2>8, <2>9, <2>10, <2>11 DEF Continue
<1>4. CASE UNCHANGED vars
  BY <1>4 DEF vars, AnyModeInv, TrueOnce, Idle, OnlyPendingRun
<1> QED
  BY <1>2, <1>3, <1>4 DEF Next

LEMMA AnyModeInvariant == Spec => []AnyModeInv
<1>1. Init => AnyModeInv
  BY DEF Init, AnyModeInv, TrueOnce, NoFile, NoTasks, Idle, Claimed,
         OnlyPendingRun
<1> QED
  BY <1>1, AnyModeInductive, TypeCorrect, PTL DEF Spec

\* Deny by default, for every Mode: no interleaving and no crash starts a
\* handler for an event the policy rejects or reserves for a human.
THEOREM DenyByDefault == Spec => []OnlyAdmittedRun
<1>1. AnyModeInv => OnlyAdmittedRun
  BY DEF AnyModeInv, OnlyPendingRun, OnlyAdmittedRun, Admission
<1> QED
  BY <1>1, AnyModeInvariant, PTL

\* No false acknowledgement, for every Mode: a stale dictionary may undo an
\* acknowledgement but can never invent one.
THEOREM NoFalseAck == Spec => []AckedMeansEffect
<1>1. AnyModeInv => AckedMeansEffect
  BY DEF AnyModeInv, AckedMeansEffect, TrueOnce
<1> QED
  BY <1>1, AnyModeInvariant, PTL

------------------------------------------------------------------------------
(* Exclusive calls.  The dictionary of the one call in progress differs from  *)
(* the ledger in its own task only, and the difference is a legal transition. *)

LegalSave(w) ==
  LET t == task[w]
      old == ledger.tasks[t].state
      new == copy[w][t].state
  IN  \/ old = "absent" /\ new = Admission(t) /\ new # "rejected"
      \/ /\ old \in {"claimed", "failed", "uncertain"}
         /\ new \in {"uncertain", IF effect[t] THEN "acked" ELSE "failed"}

InCall(w) ==
  /\ \A t \in Tasks \ {task[w]} : copy[w][t] = ledger.tasks[t]
  /\ pc[w] \in {"saving", "replacing"} => LegalSave(w)
  /\ pc[w] \in {"replacing", "claim_replacing"} => tmp = Whole(copy[w])
  /\ pc[w] \in {"claiming", "claim_replacing"} =>
       ledger.tasks[task[w]].state = "pending"
  /\ pc[w] \in {"handling", "running", "performed"} => ledger = Whole(copy[w])
  /\ pc[w] = "handling" => runs[task[w]] = 0
  /\ pc[w] \in InHandler => runs[task[w]] = 1

OneCall == \A v, w \in Frames : ~Idle(v) /\ ~Idle(w) => v = w

RunFacts == \A t \in Tasks : runs[t] <= 1 /\ (effect[t] => runs[t] = 1)

LedgerFacts == \A t \in Tasks :
  /\ ledger.tasks[t].state \in {"absent", "pending", "human_review"} => runs[t] = 0
  /\ ledger.tasks[t].state = "failed" => ~effect[t]

ExclusiveInv ==
  /\ OneCall
  /\ Readable
  /\ RunFacts
  /\ LedgerFacts
  /\ \A w \in Frames : ~Idle(w) => InCall(w)

\* Only the calling frame moves; it ends the step idle or inside its call.
LEMMA OnlyCaller ==
  ASSUME TypeOK, ExclusiveInv, NEW w \in Frames, NEW step \in Steps,
         \A v \in Frames : v # w => Idle(v),
         pc' = [pc EXCEPT ![w] = step]
  PROVE  /\ pc'[w] = step
         /\ \A v \in Frames : v # w => Idle(v)'
         /\ OneCall'
  BY DEF TypeOK, Idle, OneCall

LEMMA ExclusiveInductive ==
  ASSUME Mode = "exclusive"
  PROVE  TypeOK /\ AnyModeInv /\ ExclusiveInv /\ [Next]_vars => ExclusiveInv'
<1> SUFFICES ASSUME TypeOK, AnyModeInv, ExclusiveInv, [Next]_vars
             PROVE  ExclusiveInv'
  OBVIOUS
<1>1. Load \in Books
  BY DEF TypeOK, Files, Load
<1>2. ASSUME NEW w \in Frames, NEW t \in Tasks, Call(w, t) PROVE ExclusiveInv'
  <2>1. \A v \in Frames : Idle(v)
    BY <1>2 DEF Call, Ingest, Claim, Doubt, Reconcile, Begin, MayBegin
  <2>2. ASSUME NEW book \in Books, NEW step \in {"saving", "claiming"},
               StartCall(w, t, book, step),
               \A u \in Tasks \ {t} : book[u] = Load[u],
               step = "claiming" => Load[t].state = "pending",
               step = "saving" =>
                 \/ /\ Load[t].state = "absent"
                    /\ book[t].state = Admission(t) /\ Admission(t) # "rejected"
                 \/ /\ Load[t].state \in {"claimed", "failed", "uncertain"}
                    /\ book[t].state \in
                         {"uncertain", IF effect[t] THEN "acked" ELSE "failed"}
        PROVE  ExclusiveInv'
    <3>1. /\ task'[w] = t /\ copy'[w] = book /\ pc' = [pc EXCEPT ![w] = step]
          /\ UNCHANGED <<ledger, tmp, runs, effect>>
      BY <2>2 DEF StartCall, files, world, TypeOK
    <3>2. /\ pc'[w] = step /\ OneCall'
          /\ \A v \in Frames : v # w => Idle(v)'
      BY <3>1, <2>1, OnlyCaller DEF Steps
    <3>3. InCall(w)'
      BY <2>2, <3>1, <3>2 DEF InCall, LegalSave, Load, InHandler, Admission
    <3> QED
      BY <3>1, <3>2, <3>3
      DEF ExclusiveInv, Readable, RunFacts, LedgerFacts
  <2>3. CASE Ingest(w, t)
    BY <2>2, <2>3, <1>1, NewTaskUpdate DEF Ingest, Known
  <2>4. CASE Claim(w, t)
    BY <2>2, <2>4, <1>1, ClaimUpdate DEF Claim, Claimable
  <2>5. CASE Doubt(w, t)
    <3> "uncertain" \in TaskStates
      BY DEF TaskStates
    <3> QED
      BY <2>2, <2>5, <1>1, BookUpdate DEF Doubt
  <2>6. CASE Reconcile(w, t)
    <3>1. PICK answer \in Answers(t) :
            StartCall(w, t, SetState(Load, t, ReconciledState(answer)), "saving")
      BY <2>6 DEF Reconcile
    <3>2. /\ ReconciledState(answer) \in TaskStates
          /\ ReconciledState(answer) \in
               {"uncertain", IF effect[t] THEN "acked" ELSE "failed"}
      BY Reconciled DEF TaskStates
    <3> QED
      BY <2>2, <2>6, <3>1, <3>2, <1>1, BookUpdate DEF Reconcile
  <2> QED
    BY <1>2, <2>3, <2>4, <2>5, <2>6 DEF Call
<1>3. ASSUME NEW w \in Frames, Continue(w) PROVE ExclusiveInv'
  <2>1. ~Idle(w)
    BY <1>3 DEF Continue, StartHandler, HandlerMissing, HandlerActs,
         HandlerReturns, HandlerRaises, WriteTmp, Replace, ReplaceFails, Crash,
         Die, Idle, InHandler
  <2>2. /\ \A v \in Frames : v # w => Idle(v)
        /\ task[w] \in Tasks /\ InCall(w) /\ copy[w] \in Books
    BY <2>1 DEF ExclusiveInv, OneCall, AnyModeInv, TypeOK
  <2>3. ASSUME NEW s \in TaskStates,
               pc[w] \in {"handling", "running", "performed"},
               copy' = [copy EXCEPT ![w] = SetState(@, task[w], s)],
               Goto(w, "saving"), UNCHANGED <<files, task, world>>,
               s \in {"uncertain", IF effect[task[w]] THEN "acked" ELSE "failed"}
        PROVE  ExclusiveInv'
    <3>1. UNCHANGED <<ledger, tmp, runs, effect, task>>
      BY <2>3 DEF files, world
    <3>2. /\ pc'[w] = "saving" /\ OneCall'
          /\ \A v \in Frames : v # w => Idle(v)'
      BY <2>2, <2>3, OnlyCaller DEF Goto, Steps
    <3>3. /\ copy'[w][task[w]].state = s
          /\ \A u \in Tasks \ {task[w]} : copy'[w][u] = copy[w][u]
      BY <2>2, <2>3, BookUpdate DEF TypeOK
    <3>4. ledger.tasks[task[w]].state = "claimed"
      BY <2>2, <2>3 DEF InCall, Whole, AnyModeInv, Claimed
    <3>5. InCall(w)'
      BY <2>2, <2>3, <3>1, <3>2, <3>3, <3>4 DEF InCall, LegalSave, InHandler
    <3> QED
      BY <3>1, <3>2, <3>5 DEF ExclusiveInv, Readable, RunFacts, LedgerFacts
  <2>4. CASE StartHandler(w)
    <3>1. /\ pc[w] = "handling" /\ pc' = [pc EXCEPT ![w] = "running"]
          /\ UNCHANGED <<ledger, tmp, task, copy, effect>>
          /\ runs' = [runs EXCEPT ![task[w]] = runs[task[w]] + 1]
      BY <2>4 DEF StartHandler, Goto, files
    <3>2. /\ pc'[w] = "running" /\ OneCall'
          /\ \A v \in Frames : v # w => Idle(v)'
      BY <2>2, <3>1, OnlyCaller DEF Steps
    <3>3. /\ runs'[task[w]] = 1
          /\ \A u \in Tasks \ {task[w]} : runs'[u] = runs[u]
      BY <2>2, <3>1 DEF InCall, TypeOK
    <3>4. ledger.tasks[task[w]].state = "claimed"
      BY <2>2, <3>1 DEF InCall, Whole, AnyModeInv, Claimed
    <3>5. InCall(w)'
      BY <2>2, <3>1, <3>2, <3>3 DEF InCall, InHandler
    <3>6. RunFacts' /\ LedgerFacts'
      BY <3>1, <3>3, <3>4 DEF ExclusiveInv, RunFacts, LedgerFacts
    <3> QED
      BY <3>1, <3>2, <3>5, <3>6 DEF ExclusiveInv, Readable
  <2>5. CASE HandlerMissing(w)
    <3>1. runs[task[w]] = 0 /\ ~effect[task[w]]
      BY <2>2, <2>5 DEF HandlerMissing, InCall, ExclusiveInv, RunFacts, TypeOK
    <3> QED
      BY <2>3, <2>5, <3>1 DEF HandlerMissing, TaskStates
  <2>6. CASE HandlerActs(w)
    <3>1. /\ pc[w] = "running" /\ pc' = [pc EXCEPT ![w] = "performed"]
          /\ UNCHANGED <<ledger, tmp, task, copy, runs>>
          /\ effect' = [effect EXCEPT ![task[w]] = TRUE]
      BY <2>6 DEF HandlerActs, Goto, files
    <3>2. /\ pc'[w] = "performed" /\ OneCall'
          /\ \A v \in Frames : v # w => Idle(v)'
      BY <2>2, <3>1, OnlyCaller DEF Steps
    <3>3. \A u \in Tasks \ {task[w]} : effect'[u] = effect[u]
      BY <3>1 DEF TypeOK
    <3>4. ledger.tasks[task[w]].state = "claimed" /\ runs[task[w]] = 1
      BY <2>2, <3>1 DEF InCall, Whole, AnyModeInv, Claimed, InHandler
    <3>5. InCall(w)'
      BY <2>2, <3>1, <3>2 DEF InCall, InHandler
    <3>6. RunFacts' /\ LedgerFacts'
      BY <3>1, <3>3, <3>4 DEF ExclusiveInv, RunFacts, LedgerFacts
    <3> QED
      BY <3>1, <3>2, <3>5, <3>6 DEF ExclusiveInv, Readable
  <2>7. CASE HandlerReturns(w)
    <3>1. effect[task[w]]
      BY <2>7 DEF HandlerReturns, AnyModeInv
    <3> QED
      BY <2>3, <2>7, <3>1 DEF HandlerReturns, TaskStates
  <2>8. CASE HandlerRaises(w)
    BY <2>3, <2>8 DEF HandlerRaises, StateAfterException, TaskStates, InHandler
  <2>9. CASE WriteTmp(w)
    <3> DEFINE step == IF pc[w] = "saving" THEN "replacing" ELSE "claim_replacing"
    <3>1. /\ pc[w] \in {"saving", "claiming"} /\ pc' = [pc EXCEPT ![w] = step]
          /\ UNCHANGED <<ledger, task, copy, runs, effect>>
          /\ tmp' = Whole(copy[w])
      BY <2>9 DEF WriteTmp, Goto, world
    <3>2. /\ pc'[w] = step /\ OneCall'
          /\ \A v \in Frames : v # w => Idle(v)'
      BY <2>2, <3>1, OnlyCaller DEF Steps
    <3>3. InCall(w)'
      BY <2>2, <3>1, <3>2 DEF InCall, InHandler, LegalSave
    <3> QED
      BY <3>1, <3>2, <3>3 DEF ExclusiveInv, Readable, RunFacts, LedgerFacts
  <2>10. CASE Replace(w)
    <3>1. /\ pc[w] \in {"replacing", "claim_replacing"}
          /\ ledger' = Whole(copy[w]) /\ UNCHANGED <<runs, effect>>
      BY <2>2, <2>10 DEF Replace, InCall, world
    <3>2. /\ Readable'
          /\ \A u \in Tasks \ {task[w]} : ledger'.tasks[u] = ledger.tasks[u]
      BY <2>2, <3>1 DEF InCall, Whole, Readable
    <3>3. CASE pc[w] = "replacing"
      <4>1. pc' = [pc EXCEPT ![w] = "idle"]
        BY <2>10, <3>3 DEF Replace, EndCall
      <4>2. OneCall' /\ \A v \in Frames : Idle(v)'
        BY <2>2, <4>1, OnlyCaller DEF Steps, Idle
      <4>3. LedgerFacts'
        BY <2>2, <3>1, <3>2, <3>3
        DEF InCall, LegalSave, Whole, LedgerFacts, ExclusiveInv, Admission
      <4> QED
        BY <3>1, <3>2, <4>2, <4>3 DEF ExclusiveInv, RunFacts
    <3>4. CASE pc[w] = "claim_replacing"
      <4>1. pc' = [pc EXCEPT ![w] = "handling"] /\ UNCHANGED <<task, copy>>
        BY <2>10, <3>4 DEF Replace, Goto
      <4>2. /\ pc'[w] = "handling" /\ OneCall'
            /\ \A v \in Frames : v # w => Idle(v)'
        BY <2>2, <4>1, OnlyCaller DEF Steps
      <4>3. copy[w][task[w]].state = "claimed" /\ runs[task[w]] = 0
        BY <2>2, <3>4 DEF InCall, AnyModeInv, Claimed, ExclusiveInv, LedgerFacts
      <4>4. LedgerFacts'
        BY <3>1, <3>2, <4>3 DEF Whole, LedgerFacts, ExclusiveInv
      <4>5. InCall(w)'
        BY <2>2, <3>1, <4>1, <4>2, <4>3 DEF InCall, InHandler, Whole
      <4> QED
        BY <3>1, <3>2, <4>2, <4>4, <4>5 DEF ExclusiveInv, RunFacts
    <3> QED
      BY <3>1, <3>3, <3>4
  <2>11. CASE ReplaceFails(w)
    <3> QED
      BY <2>2, <2>11 DEF ReplaceFails, InCall, Whole
  <2>12. CASE Crash(w)
    <3>1. \A v \in Frames : Idle(v)'
      BY <2>2, <2>12 DEF Crash, Die, Process, Idle, TypeOK
    <3>2. UNCHANGED <<ledger, runs, effect>>
      BY <2>12 DEF Crash, Die, world
    <3> QED
      BY <3>1, <3>2 DEF ExclusiveInv, OneCall, Readable, RunFacts, LedgerFacts
  <2> QED
    BY <1>3, <2>4, <2>5, <2>6, <2>7, <2>8, <2>9, <2>10, <2>11, <2>12 DEF Continue
<1>4. CASE UNCHANGED vars
  BY <1>4 DEF vars, ExclusiveInv, OneCall, Idle, Readable, RunFacts, LedgerFacts,
              InCall, LegalSave
<1> QED
  BY <1>2, <1>3, <1>4 DEF Next

LEMMA ExclusiveInvariant ==
  ASSUME Mode = "exclusive"
  PROVE  Spec => []ExclusiveInv
<1>1. Init => ExclusiveInv
  BY DEF Init, ExclusiveInv, OneCall, Idle, Readable, RunFacts, LedgerFacts,
         NoFile, NoTasks
<1> QED
  BY <1>1, ExclusiveInductive, TypeCorrect, AnyModeInvariant, PTL DEF Spec

\* No re-execution: while calls on a ledger do not overlap, no sequence of
\* calls, exceptions, crashes and restarts starts a task's handler twice.
THEOREM RunsAtMostOnce ==
  ASSUME Mode = "exclusive"
  PROVE  Spec => []AtMostOnce
<1>1. ExclusiveInv => AtMostOnce
  BY DEF ExclusiveInv, RunFacts, AtMostOnce
<1> QED
  BY <1>1, ExclusiveInvariant, PTL

\* The verdict failed is never wrong, and never given to a running handler.
THEOREM NoFalseFailure ==
  ASSUME Mode = "exclusive"
  PROVE  Spec => []FailedMeansNoEffect
<1>1. ExclusiveInv /\ AnyModeInv => FailedMeansNoEffect
  <2> SUFFICES ASSUME ExclusiveInv, AnyModeInv, NEW t \in Tasks,
                      ledger.tasks[t].state = "failed"
               PROVE  /\ ~effect[t]
                      /\ \A w \in Frames : task[w] = t => pc[w] \notin InHandler
    BY DEF FailedMeansNoEffect
  <2>1. ~effect[t]
    BY DEF ExclusiveInv, LedgerFacts
  <2>2. ASSUME NEW w \in Frames, task[w] = t, pc[w] \in InHandler PROVE FALSE
    BY <2>2 DEF ExclusiveInv, InCall, AnyModeInv, Claimed, Idle, InHandler, Whole
  <2> QED
    BY <2>1, <2>2
<1> QED
  BY <1>1, ExclusiveInvariant, AnyModeInvariant, PTL

\* Claim before side effect: a running handler's task is claimed on disk.
THEOREM ClaimIsDurable ==
  ASSUME Mode = "exclusive"
  PROVE  Spec => []ClaimedBeforeEffect
<1>1. ExclusiveInv /\ AnyModeInv => ClaimedBeforeEffect
  BY DEF ExclusiveInv, InCall, AnyModeInv, Claimed, Idle, InHandler, Whole,
         ClaimedBeforeEffect
<1> QED
  BY <1>1, ExclusiveInvariant, AnyModeInvariant, PTL

\* No crash leaves a ledger that cannot be read back.
THEOREM LedgerStaysReadable ==
  ASSUME Mode = "exclusive"
  PROVE  Spec => []LedgerIntact
<1>1. ExclusiveInv => LedgerIntact
  BY DEF ExclusiveInv, LedgerIntact
<1> QED
  BY <1>1, ExclusiveInvariant, PTL

\* A step changes the ledger only by the save of the call in progress, whose
\* dictionary makes a legal transition of one task.
LEMMA LedgerStep ==
  ASSUME TypeOK, AnyModeInv, ExclusiveInv, NEW w \in Frames, Replace(w)
  PROVE  /\ task[w] \in Tasks
         /\ ledger' = Whole(copy[w])
         /\ \A t \in Tasks \ {task[w]} : ledger'.tasks[t] = ledger.tasks[t]
         /\ \/ LegalSave(w)
            \/ /\ ledger.tasks[task[w]].state = "pending"
               /\ ledger'.tasks[task[w]].state = "claimed"
<1>1. ~Idle(w) /\ pc[w] \in {"replacing", "claim_replacing"}
  BY DEF Replace, Idle
<1>2. InCall(w) /\ task[w] \in Tasks
  BY <1>1 DEF ExclusiveInv, AnyModeInv
<1>3. ledger' = Whole(copy[w])
  BY <1>1, <1>2 DEF Replace, InCall
<1> QED
  BY <1>1, <1>2, <1>3 DEF InCall, Whole, AnyModeInv, Claimed

\* Durability: no later version of the ledger misses a task it once held.
THEOREM NoTaskIsLost ==
  ASSUME Mode = "exclusive"
  PROVE  Spec => TasksNeverLost
<1> DEFINE Kept == \A t \in Tasks : ledger.tasks[t].state # "absent" =>
                                    ledger'.tasks[t].state # "absent"
<1>1. TypeOK /\ AnyModeInv /\ ExclusiveInv /\ [Next]_vars => [Kept]_vars
  <2> SUFFICES ASSUME TypeOK, AnyModeInv, ExclusiveInv, Next PROVE Kept
    OBVIOUS
  <2>1. ASSUME NEW w \in Frames, Replace(w) PROVE Kept
    <3>1. \A t \in Tasks \ {task[w]} : ledger'.tasks[t] = ledger.tasks[t]
      BY <2>1, LedgerStep
    <3>2. ledger'.tasks[task[w]].state # "absent"
      BY <2>1, LedgerStep DEF LegalSave, Whole, Admission
    <3> QED
      BY <3>1, <3>2
  <2>2. CASE \A w \in Frames : ~Replace(w)
    <3>1. ledger' = ledger
      BY <2>2 DEF Next, Call, Continue, Ingest, Claim, Doubt, Reconcile,
           StartCall, StartHandler, HandlerMissing, HandlerActs,
           HandlerReturns, HandlerRaises, WriteTmp, ReplaceFails, Crash, files
    <3> QED
      BY <3>1
  <2> QED
    BY <2>1, <2>2
<1> QED
  BY <1>1, TypeCorrect, AnyModeInvariant, ExclusiveInvariant, PTL
  DEF Spec, TasksNeverLost

------------------------------------------------------------------------------
(* Refinement: read through the ledger, the exclusive steward is the          *)
(* lifecycle of StewardContract.                                              *)

LEMMA ContractStep ==
  ASSUME Mode = "exclusive"
  PROVE  TypeOK /\ AnyModeInv /\ ExclusiveInv /\ [Next]_vars
           => [Contract!Next]_(Contract!vars)
<1> SUFFICES ASSUME TypeOK, AnyModeInv, ExclusiveInv, [Next]_vars
             PROVE  Contract!Next \/ UNCHANGED Contract!vars
  OBVIOUS
<1> DEFINE view == [t \in Tasks |-> ledger.tasks[t].state]
<1>1. ASSUME ledger' = ledger, UNCHANGED world PROVE UNCHANGED Contract!vars
  BY <1>1 DEF Contract!vars, world
<1>2. ASSUME NEW w \in Frames, NEW t \in Tasks, Call(w, t)
      PROVE  UNCHANGED Contract!vars
  BY <1>1, <1>2 DEF Call, Ingest, Claim, Doubt, Reconcile, StartCall, files
<1>3. ASSUME NEW w \in Frames, Continue(w)
      PROVE  Contract!Next \/ UNCHANGED Contract!vars
  <2>1. CASE HandlerMissing(w) \/ HandlerReturns(w) \/ HandlerRaises(w)
             \/ WriteTmp(w) \/ ReplaceFails(w) \/ Crash(w)
    BY <1>1, <2>1 DEF HandlerMissing, HandlerReturns, HandlerRaises, WriteTmp,
         ReplaceFails, Crash, Die, files
  <2>2. CASE StartHandler(w)
    <3>1. /\ ~Idle(w) /\ task[w] \in Tasks /\ InCall(w)
          /\ ledger.tasks[task[w]].state = "claimed" /\ runs[task[w]] = 0
      BY <2>2 DEF StartHandler, Idle, ExclusiveInv, AnyModeInv, InCall, Claimed,
           Whole
    <3>2. runs' = [runs EXCEPT ![task[w]] = 1] /\ UNCHANGED <<ledger, effect>>
      BY <2>2, <3>1 DEF StartHandler, files
    <3>3. Contract!Run(task[w])
      BY <3>1, <3>2 DEF Contract!Run
    <3> QED
      BY <3>1, <3>3 DEF Contract!Next
  <2>3. CASE HandlerActs(w)
    <3>1. /\ ~Idle(w) /\ task[w] \in Tasks /\ InCall(w)
          /\ ledger.tasks[task[w]].state = "claimed" /\ runs[task[w]] = 1
      BY <2>3 DEF HandlerActs, Idle, ExclusiveInv, AnyModeInv, InCall, Claimed,
           Whole, InHandler
    <3>2. effect' = [effect EXCEPT ![task[w]] = TRUE] /\ UNCHANGED <<ledger, runs>>
      BY <2>3 DEF HandlerActs, files
    <3>3. Contract!Perform(task[w])
      BY <3>1, <3>2 DEF Contract!Perform
    <3> QED
      BY <3>1, <3>3 DEF Contract!Next
  <2>4. CASE Replace(w)
    <3>0. PICK t \in Tasks : t = task[w]
      BY <2>4, LedgerStep
    <3> DEFINE new == copy[w][t].state
    <3>1. /\ UNCHANGED <<runs, effect>>
          /\ \A u \in Tasks \ {t} : ledger'.tasks[u] = ledger.tasks[u]
          /\ ledger'.tasks[t].state = new
      BY <2>4, <3>0, LedgerStep DEF Replace, world, Whole
    <3>2. view' = [view EXCEPT ![t] = new]
      BY <3>0, <3>1
    <3>3. CASE ledger.tasks[t].state = "absent"
      <4>1. new = Admission(t) /\ Admission(t) # "rejected"
        BY <2>4, <3>0, <3>3, LedgerStep DEF LegalSave
      <4>2. Contract!Admit(t)
        BY <3>0, <3>1, <3>2, <3>3, <4>1 DEF Contract!Admit, Contract!Become
      <4> QED
        BY <3>0, <4>2 DEF Contract!Next
    <3>4. CASE ledger.tasks[t].state = "pending"
      <4>1. new = "claimed"
        BY <2>4, <3>0, <3>1, <3>4, LedgerStep DEF LegalSave
      <4>2. Contract!Claim(t)
        BY <3>0, <3>1, <3>2, <3>4, <4>1 DEF Contract!Claim, Contract!Become
      <4> QED
        BY <3>0, <4>2 DEF Contract!Next
    <3>5. CASE ledger.tasks[t].state \in {"claimed", "failed", "uncertain"}
      <4>1. new \in {"uncertain", IF effect[t] THEN "acked" ELSE "failed"}
        BY <2>4, <3>0, <3>5, LedgerStep DEF LegalSave
      <4>2. CASE new = IF effect[t] THEN "acked" ELSE "failed"
        <5>1. Contract!Settle(t)
          BY <3>0, <3>1, <3>2, <3>5, <4>2 DEF Contract!Settle, Contract!Become
        <5> QED
          BY <3>0, <5>1 DEF Contract!Next
      <4>3. CASE new = "uncertain" /\ ledger.tasks[t].state # "uncertain"
        <5>1. Contract!Doubt(t)
          BY <3>0, <3>1, <3>2, <3>5, <4>3 DEF Contract!Doubt, Contract!Become
        <5> QED
          BY <3>0, <5>1 DEF Contract!Next
      <4>4. CASE new = "uncertain" /\ ledger.tasks[t].state = "uncertain"
        <5>1. view' = view
          BY <3>1, <4>4
        <5> QED
          BY <3>1, <5>1 DEF Contract!vars
      <4> QED
        BY <4>1, <4>2, <4>3, <4>4
    <3> QED
      BY <2>4, <3>0, <3>3, <3>4, <3>5, LedgerStep DEF LegalSave
  <2> QED
    BY <1>3, <2>1, <2>2, <2>3, <2>4 DEF Continue
<1>4. CASE UNCHANGED vars
  BY <1>1, <1>4 DEF vars, world
<1> QED
  BY <1>2, <1>3, <1>4 DEF Next

\* Implementation of the contract: with exclusive calls, the file handling,
\* the crashes and the restarts show nothing but the documented lifecycle.
THEOREM ImplementsContract ==
  ASSUME Mode = "exclusive"
  PROVE  Spec => RefinesContract
<1>1. Init => Contract!Init
  BY DEF Init, NoFile, NoTasks, Contract!Init
<1> QED
  BY <1>1, ContractStep, TypeCorrect, AnyModeInvariant, ExclusiveInvariant, PTL
  DEF Spec, RefinesContract, Contract!Spec

==============================================================================
