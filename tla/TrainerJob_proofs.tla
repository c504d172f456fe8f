--------------------------- MODULE TrainerJob_proofs ---------------------------
(***************************************************************************)
(* Proofs about TrainerJob, for any number of jobs and workers.  A job that *)
(* works holds the lock as long as the lock outlives the work and Bull     *)
(* takes no live worker for dead: no "expiry" and no "stall" fault.        *)
(***************************************************************************)
EXTENDS TrainerJob, AiSettings, Sequences, FiniteSetTheorems, TLAPS

\* Every action, as the proofs split them.
JobAction(j) ==
    \/ AcquireOrGetActive(j) \/ Enqueue(j) \/ UndoLock(j) \/ EnqueueError(j)
    \/ RequestCrash(j) \/ RetryDue(j) \/ Stall(j)
BullAction(w) ==
    \/ \E j \in Jobs : PickJob(w, j)
    \/ FinishJob(w) \/ FailJob(w) \/ WorkerCrash(w)
\* Steps of a handler that keep their job, the lock and the job table.
BodyAction(w) ==
    \/ CheckOwner(w) \/ RefreshLock(w) \/ CallAi(w) \/ WriteQuestions(w)
    \/ WipeResults(w) \/ InsertResults(w) \/ UpdateMastery(w) \/ ReadTrainer(w)
    \/ NotifyCompleted(w) \/ CompleteTrainer(w) \/ SyncReminders(w)
    \/ ScheduleNotification(w) \/ AiError(w) \/ StepError(w) \/ HandleErrorThrows(w)
EndAction(w) == ReleaseLock(w) \/ HandleError(w)

\* Next is nothing but these actions.
LEMMA Actions ==
    ASSUME [Next]_vars
    PROVE  \/ Expire
           \/ \E j \in Jobs : JobAction(j)
           \/ \E w \in Workers : BullAction(w) \/ BodyAction(w) \/ EndAction(w)
           \/ \E kind \in Kinds : DeleteTrainer(kind)
           \/ UNCHANGED vars
BY DEF Next, RequestStep, HandlerStep, JobAction, BullAction, BodyAction, EndAction

---------------------------------------------------------------------------
(* Types                                                                   *)

Request == {"new", "acquired", "undo", "queued", "refused", "error", "dead"}
Live == {"none", "waiting", "active", "delayed"}
Job == [state: Live \cup Done, by: Workers \cup {NoWorker}, attempts: 0..MaxAttempts,
        stalled: BOOLEAN]
Pcs == {"idle", "own", "caught", "failing", "finish"} \cup OwningPcs
Handler == [pc: Pcs, job: Jobs \cup {NoJob}, attempt: 0..MaxAttempts, rate: BOOLEAN,
            pass: BOOLEAN, count: Nat]

\* A job that has not ended has an attempt left, and a handler runs a job:
\* this is what keeps the attempts within their bound.
JobTypes ==
    /\ jobs \in [Jobs -> Job]
    /\ \A j \in Jobs : jobs[j].state \in Live => jobs[j].attempts < MaxAttempts
WorkerTypes ==
    /\ worker \in [Workers -> Handler]
    /\ \A w \in Workers : worker[w].pc # "idle" => worker[w].job \in Jobs
LockTypes == lock \in [owner: Jobs \cup {NoJob}, ttl: BOOLEAN]
RequestTypes == request \in [Jobs -> Request]
DataTypes == trainers \subseteq Kinds /\ repeat \in Nat /\ output \in [Jobs -> Nat]
GhostTypes == passed \subseteq Jobs
FaultTypes == faults \in [FaultKinds -> Nat]
\* A request adds its job once.
Submitted == \A j \in Jobs : request[j] # "queued" => jobs[j] = Unqueued
TypeInv ==
    /\ LockTypes /\ RequestTypes /\ JobTypes /\ WorkerTypes /\ Submitted
    /\ DataTypes /\ GhostTypes /\ FaultTypes

LEMMA TypesSuffice == TypeInv => TypeOK
BY DEF TypeInv, TypeOK, LockTypes, RequestTypes, JobTypes, WorkerTypes, DataTypes,
       GhostTypes, FaultTypes, Request, Job, Handler, Live, Pcs

\* What a parked worker holds is a handler.
LEMMA IdleHandler == Idle \in Handler /\ Idle.pc = "idle"
BY LimitAssumption DEF Idle, Handler, Pcs

LEMMA InitTypes == Init => TypeInv
<1> SUFFICES ASSUME Init PROVE TypeInv
  OBVIOUS
<1>1. Unqueued \in Job /\ Unqueued.state \in Live /\ Unqueued.attempts < MaxAttempts
  BY LimitAssumption DEF Unqueued, Job, Live
<1>2. JobTypes
  BY <1>1 DEF Init, JobTypes
<1>3. WorkerTypes
  BY IdleHandler DEF Init, WorkerTypes
<1>4. LockTypes /\ RequestTypes
  BY DEF Init, LockTypes, RequestTypes, Request, Unlocked
<1>5. DataTypes /\ GhostTypes /\ FaultTypes
  BY DEF Init, DataTypes, GhostTypes, FaultTypes
<1>6. Submitted
  BY DEF Init, Submitted
<1> QED BY <1>2, <1>3, <1>4, <1>5, <1>6 DEF TypeInv

\* The job table keeps its type when a typed job replaces one in the queue.
LEMMA PutJob ==
    ASSUME JobTypes, Submitted, NEW j \in Jobs, jobs[j].state # "none", NEW r \in Job,
           r.state \in Live => r.attempts < MaxAttempts,
           jobs' = [jobs EXCEPT ![j] = r], UNCHANGED request
    PROVE  JobTypes' /\ Submitted'
<1>1. JobTypes'
  BY DEF JobTypes
<1>2. Unqueued.state = "none"
  BY DEF Unqueued
<1>3. \A i \in Jobs : i # j => jobs'[i] = jobs[i]
  BY DEF JobTypes
<1> QED BY <1>1, <1>2, <1>3 DEF Submitted

\* So do the workers when a typed handler replaces another.
LEMMA PutHandler ==
    ASSUME WorkerTypes, NEW w \in Workers, NEW h \in Handler,
           h.pc # "idle" => h.job \in Jobs, worker' = [worker EXCEPT ![w] = h]
    PROVE  WorkerTypes'
BY DEF WorkerTypes

\* A handler moves on.
LEMMA GotoTypes ==
    ASSUME WorkerTypes, NEW w \in Workers, worker[w].pc # "idle", NEW pc \in Pcs,
           Goto(w, pc)
    PROVE  WorkerTypes'
<1> DEFINE h == [worker[w] EXCEPT !.pc = pc]
<1>1. worker[w] \in Handler /\ worker[w].job \in Jobs
  BY DEF WorkerTypes
<1>2. h \in Handler /\ h.job \in Jobs
  BY <1>1 DEF Handler
<1>3. worker' = [worker EXCEPT ![w] = h]
  BY DEF Goto
<1> HIDE DEF h
<1> QED BY <1>2, <1>3, PutHandler

\* A handler fails.
LEMMA CaughtTypes ==
    ASSUME WorkerTypes, NEW w \in Workers, worker[w].pc # "idle", NEW rate \in BOOLEAN,
           Caught(w, rate)
    PROVE  WorkerTypes'
<1> DEFINE h == [worker[w] EXCEPT !.pc = "caught", !.rate = rate]
<1>1. worker[w] \in Handler /\ worker[w].job \in Jobs
  BY DEF WorkerTypes
<1>2. h \in Handler /\ h.job \in Jobs
  BY <1>1 DEF Handler, Pcs
<1>3. worker' = [worker EXCEPT ![w] = h]
  BY DEF Caught
<1> HIDE DEF h
<1> QED BY <1>2, <1>3, PutHandler

\* A statement on a trainer moves on or fails.
LEMMA OnTrainerTypes ==
    ASSUME WorkerTypes, NEW w \in Workers, NEW pc \in Pcs \ {"idle"}, NEW next \in Pcs,
           OnTrainer(w, pc, next)
    PROVE  WorkerTypes'
BY GotoTypes, CaughtTypes DEF OnTrainer

\* The Redis scripts keep the type of the key, a fault that of the budget.
LEMMA ReleaseTypes == ASSUME LockTypes, NEW j, Release(j) PROVE LockTypes'
BY DEF LockTypes, Release, Unlocked
LEMMA RefreshTypes == ASSUME LockTypes, NEW j, Refresh(j) PROVE LockTypes'
<1>1. [lock EXCEPT !.ttl = TRUE] \in [owner: Jobs \cup {NoJob}, ttl: BOOLEAN]
  BY DEF LockTypes
<1> QED BY <1>1 DEF LockTypes, Refresh
LEMMA StrikeTypes == ASSUME FaultTypes, NEW f \in FaultKinds, Strike(f) PROVE FaultTypes'
BY DEF FaultTypes, Strike
LEMMA WipedType == ASSUME DataTypes, NEW kind PROVE Wiped(kind) \in [Jobs -> Nat]
BY DEF DataTypes, Wiped
LEMMA RequestGotoTypes ==
    ASSUME RequestTypes, Submitted, NEW j \in Jobs, request[j] # "queued", UNCHANGED jobs,
           NEW pc \in Request, RequestGoto(j, pc)
    PROVE  RequestTypes' /\ Submitted'
BY DEF RequestTypes, RequestGoto, Submitted

\* What an action leaves alone keeps its type.
LEMMA Frame ==
    /\ LockTypes /\ UNCHANGED lock => LockTypes'
    /\ RequestTypes /\ UNCHANGED request => RequestTypes'
    /\ JobTypes /\ UNCHANGED jobs => JobTypes'
    /\ WorkerTypes /\ UNCHANGED worker => WorkerTypes'
    /\ Submitted /\ UNCHANGED <<jobs, request>> => Submitted'
    /\ DataTypes /\ UNCHANGED <<trainers, repeat, output>> => DataTypes'
    /\ GhostTypes /\ UNCHANGED passed => GhostTypes'
    /\ FaultTypes /\ UNCHANGED faults => FaultTypes'
BY DEF LockTypes, RequestTypes, JobTypes, WorkerTypes, DataTypes, GhostTypes, FaultTypes,
       Submitted

\* The steps of a request preserve the types.
LEMMA RequestActionTypes ==
    ASSUME TypeInv, NEW j \in Jobs,
           \/ AcquireOrGetActive(j) \/ Enqueue(j) \/ UndoLock(j) \/ EnqueueError(j)
           \/ RequestCrash(j)
    PROVE  TypeInv'
<1> USE Frame DEF TypeInv, data
<1>1. CASE AcquireOrGetActive(j)
  <2>1. RequestTypes' /\ Submitted'
    BY <1>1, RequestGotoTypes DEF AcquireOrGetActive, Request
  <2>2. [owner |-> j, ttl |-> TRUE] \in [owner: Jobs \cup {NoJob}, ttl: BOOLEAN]
    OBVIOUS
  <2>3. LockTypes'
    BY <1>1, <2>2 DEF AcquireOrGetActive, LockTypes
  <2> QED BY <1>1, <2>1, <2>3 DEF AcquireOrGetActive
<1>2. CASE Enqueue(j)
  <2> DEFINE r == [jobs[j] EXCEPT !.state = "waiting"]
  <2>1. jobs[j] = Unqueued
    BY <1>2 DEF Enqueue, Submitted
  <2>7. jobs[j].state \in Live
    BY <2>1 DEF Unqueued, Live
  <2>2. jobs[j] \in Job /\ jobs[j].attempts < MaxAttempts
    BY <2>7 DEF JobTypes
  <2>3. jobs' = [jobs EXCEPT ![j] = r]
    BY <1>2 DEF Enqueue
  <2>6. r \in Job /\ r.attempts < MaxAttempts
    BY <2>2 DEF Job, Live
  <2> HIDE DEF r
  <2>4. JobTypes'
    BY <2>3, <2>6 DEF JobTypes
  <2>5. RequestTypes' /\ Submitted'
    BY <1>2, <2>3 DEF Enqueue, RequestGoto, Request, RequestTypes, Submitted, JobTypes
  <2> QED BY <1>2, <2>4, <2>5 DEF Enqueue
<1>3. CASE UndoLock(j)
  <2>1. LockTypes'
    BY <1>3, ReleaseTypes DEF UndoLock
  <2>2. RequestTypes' /\ Submitted'
    BY <1>3, RequestGotoTypes DEF UndoLock, Request
  <2> QED BY <1>3, <2>1, <2>2 DEF UndoLock
<1>4. CASE EnqueueError(j)
  <2>1. FaultTypes'
    BY <1>4, StrikeTypes DEF EnqueueError, FaultKinds
  <2>2. RequestTypes' /\ Submitted'
    BY <1>4, RequestGotoTypes DEF EnqueueError, Request
  <2> QED BY <1>4, <2>1, <2>2 DEF EnqueueError
<1>5. CASE RequestCrash(j)
  <2>1. FaultTypes'
    BY <1>5, StrikeTypes DEF RequestCrash, FaultKinds
  <2>2. RequestTypes' /\ Submitted'
    BY <1>5, RequestGotoTypes DEF RequestCrash, Request
  <2> QED BY <1>5, <2>1, <2>2 DEF RequestCrash
<1> QED BY <1>1, <1>2, <1>3, <1>4, <1>5

\* The end of a handler's attempt.
LEMMA EndJobTypes ==
    ASSUME TypeInv, NEW w \in Workers, worker[w].pc # "idle", NEW r,
           Holds(w) => r \in Job /\ (r.state \in Live => r.attempts < MaxAttempts),
           EndJob(w, r), UNCHANGED request
    PROVE  JobTypes' /\ WorkerTypes' /\ Submitted'
<1> USE DEF TypeInv
<1>1. worker[w].job \in Jobs
  BY DEF WorkerTypes
<1>2. WorkerTypes'
  BY IdleHandler, PutHandler DEF EndJob
<1>3. CASE Holds(w)
  <2>1. jobs[worker[w].job].state # "none"
    BY <1>3 DEF Holds
  <2>2. r \in Job /\ (r.state \in Live => r.attempts < MaxAttempts)
    BY <1>3
  <2>3. jobs' = [jobs EXCEPT ![worker[w].job] = r]
    BY <1>3 DEF EndJob
  <2> QED BY <1>1, <1>2, <2>1, <2>2, <2>3, PutJob
<1>4. CASE ~Holds(w)
  BY <1>2, <1>4, Frame DEF EndJob
<1> QED BY <1>3, <1>4

\* Bull's steps preserve the types.
LEMMA BullTypes ==
    ASSUME TypeInv,
           \/ \E j \in Jobs : RetryDue(j) \/ Stall(j)
           \/ \E w \in Workers : BullAction(w)
    PROVE  TypeInv'
<1> USE Frame DEF TypeInv, data
<1>0. \A j \in Jobs : /\ jobs[j] \in Job
                      /\ jobs[j].state \in Live => jobs[j].attempts < MaxAttempts
  BY DEF JobTypes
<1>1. ASSUME NEW j \in Jobs, RetryDue(j) PROVE TypeInv'
  <2> DEFINE r == [jobs[j] EXCEPT !.state = "waiting"]
  <2>1. jobs[j].state = "delayed" /\ jobs' = [jobs EXCEPT ![j] = r]
    BY <1>1 DEF RetryDue
  <2>2. r \in Job /\ r.attempts < MaxAttempts
    BY <1>0, <2>1 DEF Job, Live
  <2> HIDE DEF r
  <2>3. JobTypes' /\ Submitted'
    BY <1>1, <2>1, <2>2, PutJob DEF RetryDue
  <2> QED BY <1>1, <2>3 DEF RetryDue
<1>2. ASSUME NEW j \in Jobs, Stall(j) PROVE TypeInv'
  <2> DEFINE r == [jobs[j] EXCEPT !.state = IF jobs[j].stalled THEN "failed" ELSE "waiting",
                                  !.by = NoWorker, !.stalled = TRUE]
  <2>1. jobs[j].state = "active" /\ jobs' = [jobs EXCEPT ![j] = r]
    BY <1>2 DEF Stall
  <2>2. r \in Job /\ r.attempts < MaxAttempts
    BY <1>0, <2>1 DEF Job, Live, Done
  <2> HIDE DEF r
  <2>3. JobTypes' /\ Submitted'
    BY <1>2, <2>1, <2>2, PutJob DEF Stall
  <2>4. FaultTypes'
    BY <1>2, StrikeTypes DEF Stall, FaultKinds
  <2> QED BY <1>2, <2>3, <2>4 DEF Stall
<1>3. ASSUME NEW w \in Workers, NEW j \in Jobs, PickJob(w, j) PROVE TypeInv'
  <2> DEFINE r == [jobs[j] EXCEPT !.state = "active", !.by = w]
             h == [Idle EXCEPT !.pc = "own", !.job = j, !.attempt = jobs[j].attempts]
  <2>1. /\ jobs[j].state = "waiting" /\ jobs' = [jobs EXCEPT ![j] = r]
        /\ worker' = [worker EXCEPT ![w] = h]
    BY <1>3 DEF PickJob
  <2>2. r \in Job /\ r.attempts < MaxAttempts
    BY <1>0, <2>1 DEF Job, Live
  <2>3. h \in Handler /\ h.job \in Jobs
    BY <1>0 DEF Job, Idle, Handler, Pcs
  <2> HIDE DEF r, h
  <2>4. JobTypes' /\ Submitted'
    BY <1>3, <2>1, <2>2, PutJob DEF PickJob
  <2>5. WorkerTypes'
    BY <2>1, <2>3, PutHandler
  <2> QED BY <1>3, <2>4, <2>5 DEF PickJob
<1>4. ASSUME NEW w \in Workers, FinishJob(w) PROVE TypeInv'
  <2> DEFINE r == [jobs[worker[w].job] EXCEPT !.state = "completed", !.by = NoWorker]
  <2>1. worker[w].pc # "idle" /\ EndJob(w, r) /\ UNCHANGED request
    BY <1>4 DEF FinishJob
  <2>2. worker[w].job \in Jobs
    BY <2>1 DEF WorkerTypes
  <2>3. r \in Job /\ r.state \notin Live
    BY <1>0, <2>2 DEF Job, Live, Done
  <2> HIDE DEF r
  <2> QED BY <1>4, <2>1, <2>3, EndJobTypes DEF FinishJob
<1>5. ASSUME NEW w \in Workers, FailJob(w) PROVE TypeInv'
  <2> DEFINE old == jobs[worker[w].job]
             r == [old EXCEPT !.state = IF old.attempts + 1 < MaxAttempts THEN "delayed" ELSE "failed",
                              !.by = NoWorker, !.attempts = old.attempts + 1]
  <2>1. worker[w].pc # "idle" /\ EndJob(w, r) /\ UNCHANGED request
    BY <1>5 DEF FailJob
  <2>2. old \in Job /\ (old.state \in Live => old.attempts < MaxAttempts)
    BY <1>0, <2>1 DEF WorkerTypes
  <2>3. ASSUME Holds(w) PROVE r \in Job /\ (r.state \in Live => r.attempts < MaxAttempts)
    <3>1. old.attempts < MaxAttempts /\ old.attempts \in 0..MaxAttempts
      BY <2>2, <2>3 DEF Holds, Live, Job
    <3>2. old.attempts + 1 \in 0..MaxAttempts
      BY <3>1, LimitAssumption
    <3> QED BY <2>2, <3>2 DEF Job, Live, Done
  <2> HIDE DEF r
  <2> QED BY <1>5, <2>1, <2>3, EndJobTypes DEF FailJob
<1>6. ASSUME NEW w \in Workers, WorkerCrash(w) PROVE TypeInv'
  <2>1. WorkerTypes'
    BY <1>6, IdleHandler, PutHandler DEF WorkerCrash
  <2>2. FaultTypes'
    BY <1>6, StrikeTypes DEF WorkerCrash, FaultKinds
  <2> QED BY <1>6, <2>1, <2>2 DEF WorkerCrash
<1> QED BY <1>1, <1>2, <1>3, <1>4, <1>5, <1>6 DEF BullAction

\* The steps of a handler preserve the types.
LEMMA HandlerTypes ==
    ASSUME TypeInv, NEW w \in Workers, BodyAction(w) \/ EndAction(w) PROVE TypeInv'
<1> USE Frame DEF TypeInv, data
<1>0. /\ {"idle", "own", "caught", "failing", "finish", "refresh", "ai", "questions", "wipe",
          "insert", "mastery", "read", "notify", "complete", "sync", "schedule",
          "release"} \subseteq Pcs
      /\ EarlyPcs \subseteq Pcs \ {"idle"} /\ LatePcs \subseteq Pcs \ {"idle"}
  BY DEF Pcs, OwningPcs, EarlyPcs, LatePcs
<1>1. CASE \/ CheckOwner(w) \/ RefreshLock(w) \/ UpdateMastery(w) \/ NotifyCompleted(w)
           \/ ScheduleNotification(w) \/ HandleErrorThrows(w) \/ ReleaseLock(w) \/ HandleError(w)
  <2>1. PICK pc \in Pcs : worker[w].pc # "idle" /\ Goto(w, pc)
    BY <1>0, <1>1 DEF CheckOwner, RefreshLock, UpdateMastery, NotifyCompleted,
       ScheduleNotification, HandleErrorThrows, ReleaseLock, HandleError
  <2>2. WorkerTypes'
    BY <2>1, GotoTypes
  <2>3. LockTypes'
    BY <1>1, ReleaseTypes, RefreshTypes DEF CheckOwner, RefreshLock, UpdateMastery,
       NotifyCompleted, ScheduleNotification, HandleErrorThrows, ReleaseLock, HandleError
  <2>4. GhostTypes'
    BY <1>1 DEF CheckOwner, RefreshLock, UpdateMastery, NotifyCompleted, ScheduleNotification,
       HandleErrorThrows, ReleaseLock, HandleError, GhostTypes
  <2>5. FaultTypes'
    BY <1>1, StrikeTypes DEF CheckOwner, RefreshLock, UpdateMastery, NotifyCompleted,
       ScheduleNotification, HandleErrorThrows, ReleaseLock, HandleError, FaultKinds
  <2>6. UNCHANGED <<request, jobs, trainers, repeat, output>>
    BY <1>1 DEF CheckOwner, RefreshLock, UpdateMastery, NotifyCompleted,
       ScheduleNotification, HandleErrorThrows, ReleaseLock, HandleError
  <2> QED BY <2>2, <2>3, <2>4, <2>5, <2>6
<1>2. CASE CallAi(w)
  <2>1. PICK pass \in BOOLEAN :
          /\ worker' = [worker EXCEPT ![w] =
                [@ EXCEPT !.pc = IF KindOf[worker[w].job] = "choice" THEN "questions" ELSE "wipe",
                          !.pass = pass]]
          /\ passed' = IF pass THEN passed \cup {worker[w].job} ELSE passed
    BY <1>2 DEF CallAi
  <2> DEFINE h == [worker[w] EXCEPT
                     !.pc = IF KindOf[worker[w].job] = "choice" THEN "questions" ELSE "wipe",
                     !.pass = pass]
  <2>2. worker[w] \in Handler /\ worker[w].job \in Jobs
    BY <1>2 DEF CallAi, WorkerTypes
  <2>3. h \in Handler /\ h.job \in Jobs
    BY <1>0, <2>2 DEF Handler
  <2>4. worker' = [worker EXCEPT ![w] = h]
    BY <2>1
  <2> HIDE DEF h
  <2>5. WorkerTypes'
    BY <2>3, <2>4, PutHandler
  <2>6. GhostTypes'
    BY <1>2, <2>1, <2>2 DEF CallAi, GhostTypes
  <2> QED BY <1>2, <2>5, <2>6 DEF CallAi
<1>3. CASE \/ WriteQuestions(w) \/ InsertResults(w) \/ CompleteTrainer(w) \/ SyncReminders(w)
  <2>1. PICK pc \in Pcs \ {"idle"}, next \in Pcs : OnTrainer(w, pc, next)
    BY <1>0, <1>3, Zenon DEF WriteQuestions, InsertResults, CompleteTrainer, SyncReminders
  <2>2. WorkerTypes'
    BY <2>1, OnTrainerTypes
  <2>3. worker[w].pc # "idle"
    BY <2>1 DEF OnTrainer
  <2>4. worker[w].job \in Jobs /\ worker[w].count \in Nat
    BY <2>3 DEF WorkerTypes, Handler
  <2>5. CASE WriteQuestions(w)
    <3>1. DataTypes'
      BY <2>4, <2>5, WipedType DEF WriteQuestions, DataTypes
    <3> QED BY <2>2, <2>5, <3>1 DEF WriteQuestions
  <2>6. CASE InsertResults(w)
    <3>1. DataTypes'
      BY <2>4, <2>6 DEF InsertResults, DataTypes
    <3> QED BY <2>2, <2>6, <3>1 DEF InsertResults
  <2>7. CASE CompleteTrainer(w)
    <3>1. DataTypes'
      BY <2>7, WipedType DEF CompleteTrainer, DataTypes
    <3> QED BY <2>2, <2>7, <3>1 DEF CompleteTrainer
  <2>8. CASE SyncReminders(w)
    <3>1. DataTypes'
      BY <2>4, <2>8 DEF SyncReminders, DataTypes
    <3> QED BY <2>2, <2>8, <3>1 DEF SyncReminders
  <2> QED BY <1>3, <2>5, <2>6, <2>7, <2>8
<1>4. CASE WipeResults(w)
  <2>1. WorkerTypes'
    BY <1>0, <1>4, GotoTypes DEF WipeResults
  <2>2. DataTypes'
    BY <1>4, WipedType DEF WipeResults, DataTypes
  <2> QED BY <1>4, <2>1, <2>2 DEF WipeResults
<1>5. CASE ReadTrainer(w)
  <2> DEFINE count == IF worker[w].pass THEN repeat + 1 ELSE repeat
             h == [worker[w] EXCEPT !.pc = IF count >= MaxRepeat THEN "notify" ELSE "sync",
                                    !.count = count]
  <2>1. worker[w].pc # "idle"
    BY <1>5 DEF ReadTrainer
  <2>2. worker[w] \in Handler /\ worker[w].job \in Jobs
    BY <2>1 DEF WorkerTypes
  <2>3. count \in Nat
    BY DEF DataTypes
  <2>4. worker' = [worker EXCEPT ![w] = h] \/ Caught(w, FALSE)
    BY <1>5 DEF ReadTrainer
  <2> HIDE DEF count
  <2>5. h \in Handler /\ h.job \in Jobs
    BY <1>0, <2>2, <2>3 DEF Handler
  <2> HIDE DEF h
  <2>6. WorkerTypes'
    BY <2>1, <2>4, <2>5, PutHandler, CaughtTypes
  <2> QED BY <1>5, <2>6 DEF ReadTrainer
<1>6. CASE AiError(w) \/ StepError(w)
  <2>1. PICK rate \in BOOLEAN : worker[w].pc # "idle" /\ Caught(w, rate)
    BY <1>0, <1>6 DEF AiError, StepError
  <2>2. WorkerTypes'
    BY <2>1, CaughtTypes
  <2>3. FaultTypes'
    BY <1>6, StrikeTypes DEF AiError, StepError, FaultKinds
  <2> QED BY <1>6, <2>2, <2>3 DEF AiError, StepError
<1> QED BY <1>1, <1>2, <1>3, <1>4, <1>5, <1>6 DEF BodyAction, EndAction

\* Every step preserves the types.
LEMMA TypeStep == ASSUME TypeInv, [Next]_vars PROVE TypeInv'
<1>1. CASE Expire
  <2>1. LockTypes'
    BY <1>1 DEF Expire, LockTypes, Unlocked
  <2>2. FaultTypes'
    BY <1>1, Frame, StrikeTypes DEF Expire, FaultKinds, TypeInv
  <2> QED BY <1>1, <2>1, <2>2, Frame DEF Expire, TypeInv, data
<1>2. ASSUME NEW j \in Jobs, JobAction(j) PROVE TypeInv'
  BY <1>2, RequestActionTypes, BullTypes DEF JobAction
<1>3. ASSUME NEW w \in Workers, BullAction(w) \/ BodyAction(w) \/ EndAction(w) PROVE TypeInv'
  BY <1>3, BullTypes, HandlerTypes
<1>4. ASSUME NEW kind \in Kinds, DeleteTrainer(kind) PROVE TypeInv'
  <2>1. DataTypes'
    BY <1>4, WipedType DEF DeleteTrainer, DataTypes, TypeInv
  <2> QED BY <1>4, <2>1, Frame DEF DeleteTrainer, TypeInv, data
<1>5. CASE UNCHANGED vars
  BY <1>5, Frame DEF vars, TypeInv
<1> QED BY <1>1, <1>2, <1>3, <1>4, <1>5, Actions

\* Every reachable state is well typed: above all, no job is tried more often
\* than its attempts allow, stalled and crashed attempts included.
THEOREM TypeCorrect == Spec => []TypeOK
<1> QED BY TypesSuffice, InitTypes, TypeStep, PTL DEF Spec

---------------------------------------------------------------------------
(* A job that works holds the lock                                         *)

\* Bull's side: a handler that runs is the worker of an active job.
HoldsJob == \A w \in Workers : worker[w].pc # "idle" => Holds(w)

\* The lock's side.
LockUsed == \A w \in Workers : worker[w].pc \in OwningPcs => lock.owner = worker[w].job
LockInv == TypeInv /\ Quiet /\ HoldsJob /\ LockUsed

\* Bull gives a job to one worker, and the lock belongs to one job: so the
\* lock belongs to one worker.
LEMMA OwnersAreAlone == LockInv => WorkersOwnLock
BY DEF LockInv, HoldsJob, Holds, LockUsed, WorkersOwnLock, OwningPcs, EarlyPcs, LatePcs

\* A fault that has struck stays counted.
LEMMA Loud ==
    ASSUME TypeInv, Strike("expiry") \/ Strike("stall")
    PROVE  ~ Quiet'
BY DEF Strike, Quiet, TypeInv, FaultTypes, FaultKinds

\* A step strikes with one fault or none.
LEMMA Struck ==
    ASSUME [Next]_vars
    PROVE  (\E f \in FaultKinds : Strike(f)) \/ UNCHANGED faults
<1>1. ASSUME NEW j \in Jobs, JobAction(j)
      PROVE  (\E f \in FaultKinds : Strike(f)) \/ UNCHANGED faults
  BY <1>1 DEF JobAction, AcquireOrGetActive, Enqueue, UndoLock, EnqueueError, RequestCrash,
     RetryDue, Stall, FaultKinds
<1>2. ASSUME NEW w \in Workers, BullAction(w) \/ BodyAction(w) \/ EndAction(w)
      PROVE  (\E f \in FaultKinds : Strike(f)) \/ UNCHANGED faults
  BY <1>2 DEF BullAction, BodyAction, EndAction, PickJob, FinishJob, FailJob, WorkerCrash,
     CheckOwner, RefreshLock, CallAi, WriteQuestions, WipeResults, InsertResults,
     UpdateMastery, ReadTrainer, NotifyCompleted, CompleteTrainer, SyncReminders,
     ScheduleNotification, AiError, StepError, HandleErrorThrows, ReleaseLock, HandleError,
     FaultKinds
<1> QED BY <1>1, <1>2, Actions DEF Expire, DeleteTrainer, FaultKinds, vars

LEMMA QuietStep == ASSUME TypeInv, Quiet', [Next]_vars PROVE Quiet
<1>1. ASSUME NEW f \in FaultKinds, Strike(f) PROVE Quiet
  BY <1>1 DEF Strike, Quiet, TypeInv, FaultTypes, FaultKinds
<1> QED BY <1>1, Struck DEF Quiet

\* A step inside a handler: it keeps its job and its place in the job table,
\* the lock keeps its owner, and only the check makes the handler an owner.
LEMMA BodyStep ==
    ASSUME TypeInv, NEW w \in Workers, BodyAction(w)
    PROVE  /\ worker[w].pc # "idle" /\ worker'[w].job = worker[w].job
           /\ \A v \in Workers : v # w => worker'[v] = worker[v]
           /\ UNCHANGED jobs /\ lock'.owner = lock.owner
           /\ worker'[w].pc \in OwningPcs => \/ worker[w].pc \in OwningPcs
                                             \/ lock.owner = worker[w].job
<1> USE DEF EarlyPcs, LatePcs, OwningPcs
<1>1. worker \in [Workers -> Handler] /\ LockTypes
  BY DEF TypeInv, WorkerTypes
<1>2. worker[w].pc # "idle" /\ UNCHANGED jobs
  BY DEF BodyAction, CheckOwner, RefreshLock, CallAi, WriteQuestions, WipeResults,
     InsertResults, UpdateMastery, ReadTrainer, NotifyCompleted, CompleteTrainer,
     SyncReminders, ScheduleNotification, AiError, StepError, HandleErrorThrows, OnTrainer
<1>3. lock'.owner = lock.owner
  BY <1>1 DEF BodyAction, CheckOwner, RefreshLock, CallAi, WriteQuestions, WipeResults,
     InsertResults, UpdateMastery, ReadTrainer, NotifyCompleted, CompleteTrainer,
     SyncReminders, ScheduleNotification, AiError, StepError, HandleErrorThrows, Refresh,
     LockTypes
<1>4. CASE CheckOwner(w)
  BY <1>1, <1>2, <1>3, <1>4 DEF CheckOwner, Goto, Handler
<1>5. CASE HandleErrorThrows(w)
  BY <1>1, <1>2, <1>3, <1>5 DEF HandleErrorThrows, Goto, Handler
<1>6. CASE AiError(w) \/ StepError(w)
  <2>1. PICK rate : Caught(w, rate)
    BY <1>6 DEF AiError, StepError
  <2> QED BY <1>1, <1>2, <1>3, <2>1 DEF Caught, Handler
<1>7. CASE CallAi(w)
  BY <1>1, <1>2, <1>3, <1>7 DEF CallAi, Handler
<1>8. CASE ReadTrainer(w)
  BY <1>1, <1>2, <1>3, <1>8 DEF ReadTrainer, Caught, Handler
<1>9. CASE \/ RefreshLock(w) \/ WipeResults(w) \/ UpdateMastery(w) \/ NotifyCompleted(w)
           \/ ScheduleNotification(w) \/ WriteQuestions(w) \/ InsertResults(w)
           \/ CompleteTrainer(w) \/ SyncReminders(w)
  <2>1. worker[w].pc \in OwningPcs
    BY <1>9 DEF RefreshLock, WipeResults, UpdateMastery, NotifyCompleted,
       ScheduleNotification, WriteQuestions, InsertResults, CompleteTrainer, SyncReminders,
       OnTrainer
  <2>2. PICK pc, rate : Goto(w, pc) \/ Caught(w, rate)
    BY <1>9 DEF RefreshLock, WipeResults, UpdateMastery, NotifyCompleted,
       ScheduleNotification, WriteQuestions, InsertResults, CompleteTrainer, SyncReminders,
       OnTrainer
  <2> QED BY <1>1, <1>2, <1>3, <2>1, <2>2 DEF Goto, Caught, Handler
<1> QED BY <1>4, <1>5, <1>6, <1>7, <1>8, <1>9 DEF BodyAction

\* While a handler runs, its job is neither handed out nor taken away.
LEMMA HoldsStep == ASSUME LockInv, Quiet', [Next]_vars PROVE HoldsJob'
<1> USE DEF LockInv
<1>1. ASSUME NEW v \in Workers, worker[v].pc # "idle"
      PROVE  /\ worker[v].job \in Jobs /\ jobs[worker[v].job].state = "active"
             /\ jobs[worker[v].job].by = v
  BY <1>1 DEF TypeInv, WorkerTypes, HoldsJob, Holds
<1>2. jobs \in [Jobs -> Job] /\ worker \in [Workers -> Handler]
  BY DEF TypeInv, JobTypes, WorkerTypes
<1>3. ASSUME UNCHANGED <<jobs, worker>> PROVE HoldsJob'
  BY <1>3 DEF HoldsJob, Holds
<1>4. ASSUME NEW j \in Jobs, UNCHANGED worker, jobs[j].state # "active",
             \A i \in Jobs : i # j => jobs'[i] = jobs[i]
      PROVE  HoldsJob'
  BY <1>1, <1>4 DEF HoldsJob, Holds
<1>5. ASSUME NEW j \in Jobs, JobAction(j) PROVE HoldsJob'
  <2>1. CASE AcquireOrGetActive(j) \/ UndoLock(j) \/ EnqueueError(j) \/ RequestCrash(j)
    BY <1>3, <2>1 DEF AcquireOrGetActive, UndoLock, EnqueueError, RequestCrash
  <2>2. CASE Enqueue(j)
    <3>1. jobs[j].state # "active"
      BY <2>2 DEF Enqueue, TypeInv, Submitted, Unqueued
    <3> QED BY <1>2, <1>4, <2>2, <3>1 DEF Enqueue
  <2>3. CASE RetryDue(j)
    BY <1>2, <1>4, <2>3 DEF RetryDue
  <2>4. CASE Stall(j)
    <3>1. worker[jobs[j].by].job # j
      BY <2>4, Loud DEF Stall
    <3>2. \A v \in Workers : worker[v].pc # "idle" => worker[v].job # j
      BY <1>1, <3>1
    <3> QED BY <1>1, <1>2, <2>4, <3>2 DEF Stall, HoldsJob, Holds
  <2> QED BY <1>5, <2>1, <2>2, <2>3, <2>4 DEF JobAction
<1>6. ASSUME NEW w \in Workers, NEW j \in Jobs, PickJob(w, j) PROVE HoldsJob'
  <2>1. worker'[w].job = j /\ \A v \in Workers : v # w => worker'[v] = worker[v]
    BY <1>2, <1>6 DEF PickJob, Idle
  <2>2. /\ jobs[j].state = "waiting" /\ jobs'[j].state = "active" /\ jobs'[j].by = w
        /\ \A i \in Jobs : i # j => jobs'[i] = jobs[i]
    BY <1>2, <1>6 DEF PickJob, Job
  <2> QED BY <1>1, <2>1, <2>2 DEF HoldsJob, Holds
<1>7. ASSUME NEW w \in Workers, worker[w].pc # "idle", worker' = [worker EXCEPT ![w] = Idle],
             \A i \in Jobs : i # worker[w].job => jobs'[i] = jobs[i]
      PROVE  HoldsJob'
  BY <1>1, <1>2, <1>7, IdleHandler DEF HoldsJob, Holds
<1>8. ASSUME NEW w \in Workers, BullAction(w) PROVE HoldsJob'
  <2>1. CASE FinishJob(w)
    BY <1>2, <1>7, <2>1 DEF FinishJob, EndJob
  <2>2. CASE FailJob(w)
    BY <1>2, <1>7, <2>2 DEF FailJob, EndJob
  <2>3. CASE WorkerCrash(w)
    BY <1>2, <1>7, <2>3 DEF WorkerCrash
  <2> QED BY <1>6, <1>8, <2>1, <2>2, <2>3 DEF BullAction
<1>9. ASSUME NEW w \in Workers, BodyAction(w) PROVE HoldsJob'
  <2>1. /\ worker[w].pc # "idle" /\ worker'[w].job = worker[w].job /\ UNCHANGED jobs
        /\ \A v \in Workers : v # w => worker'[v] = worker[v]
    BY <1>9, BodyStep
  <2> QED BY <1>1, <2>1 DEF HoldsJob, Holds
<1>10. ASSUME NEW w \in Workers, EndAction(w) PROVE HoldsJob'
  <2>1. PICK pc : Goto(w, pc) /\ worker[w].pc # "idle" /\ UNCHANGED jobs
    BY <1>10 DEF EndAction, ReleaseLock, HandleError
  <2>2. worker'[w].job = worker[w].job /\ \A v \in Workers : v # w => worker'[v] = worker[v]
    BY <1>2, <2>1 DEF Goto, Handler
  <2> QED BY <1>1, <2>1, <2>2 DEF HoldsJob, Holds
<1>11. CASE Expire \/ (\E kind \in Kinds : DeleteTrainer(kind)) \/ UNCHANGED vars
  BY <1>3, <1>11 DEF Expire, DeleteTrainer, vars
<1> QED BY <1>5, <1>8, <1>9, <1>10, <1>11, Actions

\* A release is by the only worker that may own the lock, or by a request
\* whose job was never queued; an expiry finds no owner at work.
LEMMA LockStep == ASSUME LockInv, Quiet', [Next]_vars PROVE LockUsed'
<1> USE DEF LockInv
<1>0. "idle" \notin OwningPcs /\ "own" \notin OwningPcs /\ "finish" \notin OwningPcs
      /\ "failing" \notin OwningPcs
  BY DEF OwningPcs, EarlyPcs, LatePcs
<1>1. ASSUME NEW v \in Workers, worker[v].pc \in OwningPcs
      PROVE  /\ worker[v].job \in Jobs /\ lock.owner = worker[v].job
             /\ jobs[worker[v].job].state = "active" /\ jobs[worker[v].job].by = v
  BY <1>0, <1>1 DEF TypeInv, WorkerTypes, HoldsJob, Holds, LockUsed
<1>2. worker \in [Workers -> Handler] /\ LockTypes
  BY DEF TypeInv, WorkerTypes
<1>3. ASSUME UNCHANGED worker, ~ \E v \in Workers : worker[v].pc \in OwningPcs PROVE LockUsed'
  BY <1>3 DEF LockUsed
<1>4. ASSUME UNCHANGED <<worker, lock>> PROVE LockUsed'
  BY <1>4 DEF LockUsed
<1>5. CASE Expire
  <2>1. UNCHANGED worker /\ ~Working(lock.owner)
    BY <1>5, Loud DEF Expire
  <2> QED BY <1>1, <1>3, <2>1 DEF Working
<1>6. ASSUME NEW j \in Jobs, JobAction(j) PROVE LockUsed'
  <2>1. CASE \/ Enqueue(j) \/ EnqueueError(j) \/ RequestCrash(j) \/ RetryDue(j) \/ Stall(j)
    BY <1>4, <2>1 DEF Enqueue, EnqueueError, RequestCrash, RetryDue, Stall
  <2>2. CASE AcquireOrGetActive(j)
    BY <1>1, <1>3, <1>4, <2>2, SentinelAssumption DEF AcquireOrGetActive
  <2>3. CASE UndoLock(j)
    <3>1. jobs[j].state # "active"
      BY <2>3 DEF UndoLock, TypeInv, Submitted, Unqueued
    <3>2. CASE lock.owner = j
      BY <1>1, <1>3, <2>3, <3>1, <3>2 DEF UndoLock
    <3>3. CASE lock.owner # j
      BY <1>4, <2>3, <3>3 DEF UndoLock, Release
    <3> QED BY <3>2, <3>3
  <2> QED BY <1>6, <2>1, <2>2, <2>3 DEF JobAction
<1>7. ASSUME NEW w \in Workers, BullAction(w) PROVE LockUsed'
  <2>3. ASSUME NEW j \in Jobs, PickJob(w, j)
        PROVE  \E h : worker' = [worker EXCEPT ![w] = h] /\ h.pc \notin OwningPcs
    <3> DEFINE h == [Idle EXCEPT !.pc = "own", !.job = j, !.attempt = jobs[j].attempts]
    <3>1. worker' = [worker EXCEPT ![w] = h] /\ h.pc = "own"
      BY <2>3 DEF PickJob, Idle
    <3> HIDE DEF h
    <3> QED BY <1>0, <3>1
  <2>4. ASSUME FinishJob(w) \/ FailJob(w) \/ WorkerCrash(w)
        PROVE  \E h : worker' = [worker EXCEPT ![w] = h] /\ h.pc \notin OwningPcs
    <3>1. worker' = [worker EXCEPT ![w] = Idle]
      BY <2>4 DEF FinishJob, FailJob, WorkerCrash, EndJob
    <3> QED BY <1>0, <3>1, IdleHandler
  <2>1. PICK h : worker' = [worker EXCEPT ![w] = h] /\ h.pc \notin OwningPcs
    BY <1>7, <2>3, <2>4 DEF BullAction
  <2>2. UNCHANGED lock
    BY <1>7 DEF BullAction, PickJob, FinishJob, FailJob, WorkerCrash
  <2> QED BY <1>2, <2>1, <2>2 DEF LockUsed
<1>8. ASSUME NEW w \in Workers, BodyAction(w) PROVE LockUsed'
  <2>1. /\ worker'[w].job = worker[w].job /\ lock'.owner = lock.owner
        /\ \A v \in Workers : v # w => worker'[v] = worker[v]
        /\ worker'[w].pc \in OwningPcs => \/ worker[w].pc \in OwningPcs
                                          \/ lock.owner = worker[w].job
    BY <1>8, BodyStep
  <2> QED BY <2>1 DEF LockUsed
<1>9. ASSUME NEW w \in Workers, EndAction(w) PROVE LockUsed'
  <2>1. PICK pc : Goto(w, pc) /\ worker[w].pc # "idle" /\ pc \notin OwningPcs
    BY <1>0, <1>9 DEF EndAction, ReleaseLock, HandleError
  <2>2. worker'[w].pc \notin OwningPcs /\ \A v \in Workers : v # w => worker'[v] = worker[v]
    BY <1>2, <2>1 DEF Goto, Handler
  <2>3. worker[w].job \in Jobs /\ jobs[worker[w].job].by = w
    BY <2>1 DEF TypeInv, WorkerTypes, HoldsJob, Holds
  <2>4. UNCHANGED lock \/ lock.owner = worker[w].job
    BY <1>9 DEF EndAction, ReleaseLock, HandleError, Release
  <2>5. \A v \in Workers : v # w /\ worker[v].pc \in OwningPcs => UNCHANGED lock
    BY <1>1, <2>3, <2>4
  <2> QED BY <2>2, <2>5 DEF LockUsed
<1>10. CASE (\E kind \in Kinds : DeleteTrainer(kind)) \/ UNCHANGED vars
  BY <1>4, <1>10 DEF DeleteTrainer, vars
<1> QED BY <1>5, <1>6, <1>7, <1>8, <1>9, <1>10, Actions

\* The two sides hold until a fault no lock survives has struck.
QuietInv == TypeInv /\ (Quiet => HoldsJob /\ LockUsed)

\* As long as the lock outlives the work and no live worker is taken for
\* dead, a job that works holds the lock and works alone, for any number of
\* jobs and workers and whatever else goes wrong.
THEOREM WorkersOwnLockCorrect == Spec => []WorkersOwnLock
<1>1. Init => QuietInv
  <2> SUFFICES ASSUME Init PROVE QuietInv
    OBVIOUS
  <2>1. \A w \in Workers : worker[w].pc = "idle"
    BY IdleHandler DEF Init
  <2>2. HoldsJob /\ LockUsed
    BY <2>1 DEF HoldsJob, LockUsed, OwningPcs, EarlyPcs, LatePcs
  <2> QED BY <2>2, InitTypes DEF QuietInv
<1>2. QuietInv /\ [Next]_vars => QuietInv'
  <2> SUFFICES ASSUME QuietInv, [Next]_vars, Quiet' PROVE HoldsJob' /\ LockUsed'
    BY TypeStep DEF QuietInv
  <2>1. LockInv
    BY QuietStep DEF QuietInv, LockInv
  <2> QED BY <2>1, HoldsStep, LockStep
<1>3. QuietInv => WorkersOwnLock
  BY OwnersAreAlone DEF QuietInv, LockInv, WorkersOwnLock
<1> QED BY <1>1, <1>2, <1>3, PTL DEF Spec

---------------------------------------------------------------------------
(* What a trainer shows is the work of one job                             *)

SameKind(i, j) == KindOf[i] = KindOf[j]
OneOutput ==
    \A i, j \in Jobs : /\ output[j] <= 1
                       /\ SameKind(i, j) /\ output[i] # 0 /\ output[j] # 0 => i = j
\* A handler about to insert its rows finds none of its trainer.
Cleared ==
    \A w \in Workers : worker[w].pc = "insert" =>
        \A i \in Jobs : SameKind(i, worker[w].job) => output[i] = 0
OutputInv == LockInv /\ OneOutput /\ Cleared

\* Only the handler that empties the trainer's output goes on to insert.
LEMMA InsertFollowsWipe ==
    ASSUME TypeInv, [Next]_vars, NEW w \in Workers, worker'[w].pc = "insert"
    PROVE  \/ worker'[w] = worker[w]
           \/ WipeResults(w) /\ worker'[w].job = worker[w].job
<1>1. worker \in [Workers -> Handler]
  BY DEF TypeInv, WorkerTypes
<1>2. CASE UNCHANGED worker
  BY <1>2
<1>3. ASSUME NEW v \in Workers, NEW h, worker' = [worker EXCEPT ![v] = h], h.pc # "insert"
      PROVE  worker'[w] = worker[w]
  BY <1>1, <1>3
<1>4. ASSUME NEW v \in Workers, NEW pc, Goto(v, pc), pc # "insert" PROVE worker'[w] = worker[w]
  BY <1>1, <1>4 DEF Goto, Handler
<1>5. ASSUME NEW v \in Workers, NEW rate, Caught(v, rate) PROVE worker'[w] = worker[w]
  BY <1>1, <1>5 DEF Caught, Handler
<1>6. ASSUME NEW j \in Jobs, JobAction(j) PROVE UNCHANGED worker
  BY <1>6 DEF JobAction, AcquireOrGetActive, Enqueue, UndoLock, EnqueueError, RequestCrash,
     RetryDue, Stall
<1>7. ASSUME NEW v \in Workers, BullAction(v) PROVE worker'[w] = worker[w]
  <2>1. ASSUME NEW j \in Jobs, PickJob(v, j) PROVE worker'[w] = worker[w]
    <3>1. PICK h : h = [Idle EXCEPT !.pc = "own", !.job = j, !.attempt = jobs[j].attempts]
      OBVIOUS
    <3>2. h.pc = "own" /\ worker' = [worker EXCEPT ![v] = h]
      BY <2>1, <3>1 DEF PickJob, Idle
    <3> QED BY <1>3, <3>2
  <2>2. ASSUME FinishJob(v) \/ FailJob(v) \/ WorkerCrash(v) PROVE worker'[w] = worker[w]
    <3>1. worker' = [worker EXCEPT ![v] = Idle]
      BY <2>2 DEF FinishJob, FailJob, WorkerCrash, EndJob
    <3> QED BY <1>3, <3>1, IdleHandler
  <2> QED BY <1>7, <2>1, <2>2 DEF BullAction
<1>8. ASSUME NEW v \in Workers, BodyAction(v)
      PROVE  worker'[w] = worker[w] \/ (WipeResults(w) /\ worker'[w].job = worker[w].job)
  <2>1. CASE WipeResults(v)
    BY <1>1, <2>1 DEF WipeResults, Goto, Handler
  <2>2. CASE CallAi(v)
    <3>1. worker'[v].pc # "insert" /\ \A u \in Workers : u # v => worker'[u] = worker[u]
      BY <1>1, <2>2 DEF CallAi, Handler
    <3> QED BY <3>1
  <2>3. CASE ReadTrainer(v)
    <3>1. worker'[v].pc # "insert" /\ \A u \in Workers : u # v => worker'[u] = worker[u]
      BY <1>1, <2>3 DEF ReadTrainer, Caught, Handler
    <3> QED BY <3>1
  <2>4. CASE AiError(v) \/ StepError(v)
    BY <1>5, <2>4 DEF AiError, StepError
  <2>5. CASE CheckOwner(v) \/ RefreshLock(v) \/ UpdateMastery(v) \/ NotifyCompleted(v)
             \/ ScheduleNotification(v) \/ HandleErrorThrows(v)
    BY <1>4, <2>5 DEF CheckOwner, RefreshLock, UpdateMastery, NotifyCompleted,
       ScheduleNotification, HandleErrorThrows
  <2>6. CASE WriteQuestions(v) \/ InsertResults(v) \/ CompleteTrainer(v) \/ SyncReminders(v)
    BY <1>4, <1>5, <2>6 DEF WriteQuestions, InsertResults, CompleteTrainer, SyncReminders, OnTrainer
  <2> QED BY <1>8, <2>1, <2>2, <2>3, <2>4, <2>5, <2>6 DEF BodyAction
<1>9. ASSUME NEW v \in Workers, EndAction(v) PROVE worker'[w] = worker[w]
  BY <1>4, <1>9 DEF EndAction, ReleaseLock, HandleError
<1>10. CASE Expire \/ (\E kind \in Kinds : DeleteTrainer(kind)) \/ UNCHANGED vars
  BY <1>10 DEF Expire, DeleteTrainer, vars
<1> QED BY <1>6, <1>7, <1>8, <1>9, <1>10, Actions

\* Output goes, or the one handler that owns the lock writes it.
LEMMA OutputChanges ==
    ASSUME TypeInv, [Next]_vars
    PROVE  \/ \A i \in Jobs : output'[i] \in {output[i], 0}
           \/ \E w \in Workers : WriteQuestions(w) \/ InsertResults(w)
<1>0. output \in [Jobs -> Nat]
  BY DEF TypeInv, DataTypes
<1>1. ASSUME UNCHANGED output PROVE \A i \in Jobs : output'[i] \in {output[i], 0}
  BY <1>1
<1>2. ASSUME NEW kind, output' = Wiped(kind) PROVE \A i \in Jobs : output'[i] \in {output[i], 0}
  BY <1>2 DEF Wiped
<1>3. ASSUME NEW j \in Jobs, JobAction(j) PROVE UNCHANGED output
  BY <1>3 DEF JobAction, AcquireOrGetActive, Enqueue, UndoLock, EnqueueError, RequestCrash,
     RetryDue, Stall, data
<1>4. ASSUME NEW w \in Workers, BullAction(w) \/ EndAction(w) PROVE UNCHANGED output
  BY <1>4 DEF BullAction, PickJob, FinishJob, FailJob, WorkerCrash, EndAction, ReleaseLock,
     HandleError, data
<1>5. ASSUME NEW w \in Workers, BodyAction(w)
      PROVE  \/ UNCHANGED output \/ \E kind : output' = Wiped(kind)
             \/ WriteQuestions(w) \/ InsertResults(w)
  BY <1>5 DEF BodyAction, CheckOwner, RefreshLock, CallAi, WipeResults, UpdateMastery,
     ReadTrainer, NotifyCompleted, CompleteTrainer, SyncReminders, ScheduleNotification,
     AiError, StepError, HandleErrorThrows, data
<1>6. ASSUME Expire \/ UNCHANGED vars PROVE UNCHANGED output
  BY <1>6 DEF Expire, vars, data
<1>7. ASSUME NEW kind \in Kinds, DeleteTrainer(kind) PROVE output' = Wiped(kind)
  BY <1>7 DEF DeleteTrainer
<1> QED BY <1>1, <1>2, <1>3, <1>4, <1>5, <1>6, <1>7, Actions

LEMMA OutputStep == ASSUME OutputInv, Quiet', [Next]_vars PROVE OneOutput' /\ Cleared'
<1>1. /\ TypeInv /\ worker \in [Workers -> Handler] /\ output \in [Jobs -> Nat]
      /\ OneOutput /\ Cleared
  BY DEF OutputInv, LockInv, TypeInv, WorkerTypes, DataTypes
<1>2. \A v, w \in Workers : worker[v].pc \in OwningPcs /\ worker[w].pc \in OwningPcs => v = w
  BY OwnersAreAlone DEF OutputInv, WorkersOwnLock, LockInv
<1>3. ASSUME NEW w \in Workers, worker'[w].pc = "insert"
      PROVE  worker'[w].job = worker[w].job /\ (worker'[w] = worker[w] \/ WipeResults(w))
  BY <1>1, <1>3, InsertFollowsWipe
<1>4. CASE \A i \in Jobs : output'[i] \in {output[i], 0}
  <2>1. OneOutput'
    BY <1>1, <1>4 DEF OneOutput, SameKind
  <2>2. ASSUME NEW w \in Workers, worker'[w].pc = "insert", NEW i \in Jobs,
               SameKind(i, worker'[w].job)
        PROVE  output'[i] = 0
    <3>1. CASE worker'[w] = worker[w]
      BY <1>1, <1>4, <2>2, <3>1 DEF Cleared, SameKind
    <3>2. CASE WipeResults(w)
      BY <1>3, <2>2, <3>2 DEF WipeResults, Wiped, SameKind
    <3> QED BY <1>3, <2>2, <3>1, <3>2
  <2> QED BY <2>1, <2>2 DEF Cleared, SameKind
<1>5. ASSUME NEW w \in Workers, WriteQuestions(w) \/ InsertResults(w) PROVE OneOutput' /\ Cleared'
  <2>1. worker[w].pc \in {"questions", "insert"} /\ worker[w].pc \in OwningPcs
    BY <1>5 DEF WriteQuestions, InsertResults, OnTrainer, OwningPcs, EarlyPcs
  <2>2. worker[w].job \in Jobs
    BY <1>1, <2>1 DEF TypeInv, WorkerTypes
  <2>3. PICK j \in Jobs : j = worker[w].job
    BY <2>2
  <2>4. \/ UNCHANGED output
        \/ /\ output'[j] = 1
           /\ \A i \in Jobs : i # j => output'[i] = IF SameKind(i, j) THEN 0 ELSE output[i]
    <3>1. CASE WriteQuestions(w)
      BY <1>1, <2>3, <3>1 DEF WriteQuestions, Wiped, SameKind
    <3>2. CASE InsertResults(w)
      <4>1. worker[w].pc = "insert"
        BY <3>2 DEF InsertResults, OnTrainer
      <4>2. \A i \in Jobs : SameKind(i, j) => output[i] = 0
        BY <1>1, <2>3, <4>1 DEF Cleared
      <4>3. output[j] = 0
        BY <4>2 DEF SameKind
      <4>4. output' = [output EXCEPT ![j] = @ + 1] \/ UNCHANGED output
        BY <2>3, <3>2 DEF InsertResults
      <4> QED BY <1>1, <4>2, <4>3, <4>4
    <3> QED BY <1>5, <3>1, <3>2
  <2>5. OneOutput'
    BY <1>1, <2>4 DEF OneOutput, SameKind
  <2>6. ASSUME NEW v \in Workers, worker'[v].pc = "insert" PROVE FALSE
    <3>1. ~ WipeResults(v)
      <4> SUFFICES ASSUME WipeResults(v) PROVE FALSE
        OBVIOUS
      <4>1. worker[v].pc = "wipe"
        BY DEF WipeResults
      <4> QED BY <1>2, <2>1, <4>1 DEF OwningPcs, EarlyPcs
    <3>2. worker'[v] = worker[v]
      BY <1>3, <2>6, <3>1
    <3>3. v = w
      BY <1>2, <2>1, <2>6, <3>2 DEF OwningPcs, EarlyPcs
    <3>4. worker'[w].pc # "insert"
      <4>1. \/ Goto(w, "release")
            \/ Goto(w, "mastery")
            \/ Caught(w, FALSE)
        BY <1>5 DEF WriteQuestions, InsertResults, OnTrainer
      <4>2. /\ worker \in [Workers -> Handler]
            /\ w \in Workers
        BY <1>1 DEF TypeInv
      <4>3. worker[w] \in Handler
        BY <4>2
      <4>4. ASSUME Goto(w, "release") PROVE worker'[w].pc = "release"
        BY <4>2, <4>3, <4>4 DEF Goto, Handler
      <4>5. ASSUME Goto(w, "mastery") PROVE worker'[w].pc = "mastery"
        BY <4>2, <4>3, <4>5 DEF Goto, Handler
      <4>6. ASSUME Caught(w, FALSE) PROVE worker'[w].pc = "caught"
        BY <4>2, <4>3, <4>6 DEF Caught, Handler
      <4> QED BY <4>1, <4>4, <4>5, <4>6
    <3> QED BY <2>6, <3>3, <3>4
  <2> QED BY <2>5, <2>6 DEF Cleared
<1> QED BY <1>1, <1>4, <1>5, OutputChanges

\* Results and questions are the work of one job, written once, whatever
\* attempt is repeated, for any number of jobs and workers.
THEOREM OutputOfOneJobCorrect == Spec => []OutputOfOneJob
<1> DEFINE QuietOutput == TypeInv /\ (Quiet => OutputInv)
<1>1. Init => QuietOutput
  <2> SUFFICES ASSUME Init PROVE QuietOutput
    OBVIOUS
  <2>1. \A w \in Workers : worker[w].pc = "idle"
    BY IdleHandler DEF Init
  <2>2. HoldsJob /\ LockUsed /\ Cleared
    BY <2>1 DEF HoldsJob, LockUsed, Cleared, OwningPcs, EarlyPcs, LatePcs
  <2>3. OneOutput
    BY DEF Init, OneOutput
  <2> QED BY <2>2, <2>3, InitTypes DEF OutputInv, LockInv
<1>2. QuietOutput /\ [Next]_vars => QuietOutput'
  <2> SUFFICES ASSUME QuietOutput, [Next]_vars, Quiet' PROVE OutputInv'
    BY TypeStep
  <2>1. OutputInv
    BY QuietStep
  <2>2. LockInv /\ TypeInv'
    BY <2>1, TypeStep DEF OutputInv
  <2>3. HoldsJob' /\ LockUsed'
    BY <2>2, HoldsStep, LockStep
  <2> QED BY <2>1, <2>2, <2>3, OutputStep DEF OutputInv, LockInv
<1>3. QuietOutput => OutputOfOneJob
  BY DEF OutputInv, OneOutput, SameKind, OutputOfOneJob
<1> QED BY <1>1, <1>2, <1>3, PTL DEF Spec

-----------------------------------------------------------------------------
(* A submission is counted once                                            *)

\* Where a handler may still come to store a count, in this attempt or, with
\* nothing else going wrong, in the next one.
MayCount == {"own", "refresh", "ai", "questions", "wipe", "insert", "mastery", "read",
             "notify", "complete", "sync", "caught", "failing"}
Chances == {w \in Workers : worker[w].pc \in MayCount}
\* Jobs that will be handed out again without anything going wrong.
Adrift(j) == \/ jobs[j].state \in {"waiting", "delayed"}
             \/ jobs[j].state = "active" /\ worker[jobs[j].by].job # j
Loose == {j \in Jobs : Adrift(j)}
Credited == passed \cup Loose \cup {worker[w].job : w \in Chances}

\* What is yet to be counted, and what pays for it: each job once, and each
\* failure that makes Bull repeat a job after its count was stored.
Due == Cardinality(Chances) + Cardinality(Loose)
Slips == faults["lateError"] + faults["workerCrash"] + faults["stall"]
Paid == Cardinality(Credited) + Slips

\* The passes stored, and those a handler has read and added its own to, leave
\* enough to pay for all that is yet to be counted.
Storing == {"notify", "complete", "sync"}
StoredPaid == repeat + Due <= Paid
ReadPaid == \A w \in Workers : worker[w].pc \in Storing =>
                worker[w].count + Due <= Paid + (IF worker[w].pass THEN 1 ELSE 0)
Ties ==
    /\ \A w \in Workers : /\ worker[w].pass => worker[w].job \in passed
                          /\ worker[w].pc = "idle" => worker[w].job = NoJob
                          /\ worker[w].pc # "idle" => jobs[worker[w].job].state # "none"
    /\ \A j \in Jobs : /\ jobs[j].state = "active" => jobs[j].by \in Workers
                       /\ j \in passed => jobs[j].state # "none"
PassInv == TypeInv /\ StoredPaid /\ ReadPaid /\ Ties

\* A step that makes no more due than it pays for.
Balanced == Due' + Paid <= Due + Paid'

\* Counting with an element more or less.
LEMMA Smaller ==
    ASSUME NEW S, IsFiniteSet(S), NEW T, T \subseteq S
    PROVE  /\ IsFiniteSet(T) /\ Cardinality(T) <= Cardinality(S)
           /\ Cardinality(T) \in Nat /\ Cardinality(S) \in Nat
BY FS_Subset, FS_CardinalityType
LEMMA OneMore ==
    ASSUME NEW S, IsFiniteSet(S), NEW x, NEW T, T \subseteq S \cup {x}
    PROVE  IsFiniteSet(T) /\ Cardinality(T) <= Cardinality(S) + 1
<1>0. Cardinality(S) \in Nat
  BY FS_CardinalityType
<1>3. IsFiniteSet(S \cup {x}) /\ (x \in S \/ Cardinality(S \cup {x}) = Cardinality(S) + 1)
  BY FS_AddElement
<1>4. x \in S => S \cup {x} = S
  OBVIOUS
<1>1. /\ IsFiniteSet(S \cup {x}) /\ Cardinality(S) \in Nat
      /\ Cardinality(S \cup {x}) <= Cardinality(S) + 1
  BY <1>0, <1>3, <1>4
<1>2. /\ IsFiniteSet(T) /\ Cardinality(T) <= Cardinality(S \cup {x})
      /\ Cardinality(T) \in Nat /\ Cardinality(S \cup {x}) \in Nat
  BY <1>1, Smaller
<1> QED BY <1>1, <1>2
LEMMA OneLess ==
    ASSUME NEW S, IsFiniteSet(S), NEW x \in S, NEW T, T \subseteq S \ {x}
    PROVE  IsFiniteSet(T) /\ Cardinality(T) + 1 <= Cardinality(S)
<1>1. /\ IsFiniteSet(S \ {x}) /\ Cardinality(S) \in Nat
      /\ Cardinality(S \ {x}) = Cardinality(S) - 1
  BY FS_RemoveElement, FS_CardinalityType
<1>2. /\ IsFiniteSet(T) /\ Cardinality(T) <= Cardinality(S \ {x})
      /\ Cardinality(T) \in Nat /\ Cardinality(S \ {x}) \in Nat
  BY <1>1, Smaller
<1> QED BY <1>1, <1>2

\* The balance is kept in numbers.
FiniteInv ==
    /\ IsFiniteSet(Chances) /\ IsFiniteSet(Loose) /\ IsFiniteSet(Credited)
    /\ Cardinality(Chances) \in Nat /\ Cardinality(Loose) \in Nat
    /\ Cardinality(Credited) \in Nat /\ Slips \in Nat /\ Due \in Nat /\ Paid \in Nat
LEMMA Finite == TypeInv => FiniteInv
<1> SUFFICES ASSUME TypeInv PROVE FiniteInv
  OBVIOUS
<1>1. Chances \subseteq Workers /\ Loose \subseteq Jobs
  BY DEF Chances, Loose
<1>2. Credited \subseteq Jobs
  <2>1. \A w \in Chances : worker[w].job \in Jobs
    BY DEF Chances, MayCount, TypeInv, WorkerTypes
  <2> QED BY <1>1, <2>1 DEF Credited, TypeInv, GhostTypes
<1>3. /\ IsFiniteSet(Chances) /\ IsFiniteSet(Loose) /\ IsFiniteSet(Credited)
      /\ Cardinality(Chances) \in Nat /\ Cardinality(Loose) \in Nat
      /\ Cardinality(Credited) \in Nat
  BY <1>1, <1>2, FiniteAssumption, Smaller
<1>4. Slips \in Nat
  BY DEF Slips, TypeInv, FaultTypes, FaultKinds
<1> QED BY <1>3, <1>4 DEF FiniteInv, Due, Paid
LEMMA FiniteNext == TypeInv' => FiniteInv'
BY Finite, PTL

\* The ways a step keeps the balance: nothing more is due; a chance is lost
\* with at most one credit; a chance is handed over; a failure pays for a new
\* one; and a new job pays for its own.
LEMMA Keeps ==
    ASSUME TypeInv, TypeInv', Slips <= Slips', Chances' \subseteq Chances,
           Loose' \subseteq Loose, Credited \subseteq Credited'
    PROVE  Balanced
<1>1. FiniteInv /\ FiniteInv'
  BY Finite, FiniteNext
<1>2. Cardinality(Chances') <= Cardinality(Chances) /\ Cardinality(Loose') <= Cardinality(Loose)
  BY <1>1, Smaller DEF FiniteInv
<1>3. Cardinality(Credited) <= Cardinality(Credited')
  BY <1>1, Smaller DEF FiniteInv
<1> QED BY <1>1, <1>2, <1>3 DEF FiniteInv, Balanced, Due, Paid
LEMMA Loses ==
    ASSUME TypeInv, TypeInv', Slips <= Slips', NEW x, NEW j, Credited \subseteq Credited' \cup {j},
           \/ x \in Chances /\ Chances' \subseteq Chances \ {x} /\ Loose' \subseteq Loose
           \/ x \in Loose /\ Loose' \subseteq Loose \ {x} /\ Chances' \subseteq Chances
    PROVE  Balanced
<1>1. FiniteInv /\ FiniteInv'
  BY Finite, FiniteNext
<1>2. Cardinality(Chances') + Cardinality(Loose') + 1 <= Cardinality(Chances) + Cardinality(Loose)
  <2>1. CASE x \in Chances /\ Chances' \subseteq Chances \ {x} /\ Loose' \subseteq Loose
    <3>1. Cardinality(Chances') + 1 <= Cardinality(Chances)
      BY <1>1, <2>1, OneLess DEF FiniteInv
    <3>2. Cardinality(Loose') <= Cardinality(Loose)
      BY <1>1, <2>1, Smaller DEF FiniteInv
    <3> QED BY <1>1, <3>1, <3>2 DEF FiniteInv
  <2>2. CASE x \in Loose /\ Loose' \subseteq Loose \ {x} /\ Chances' \subseteq Chances
    <3>1. Cardinality(Loose') + 1 <= Cardinality(Loose)
      BY <1>1, <2>2, OneLess DEF FiniteInv
    <3>2. Cardinality(Chances') <= Cardinality(Chances)
      BY <1>1, <2>2, Smaller DEF FiniteInv
    <3> QED BY <1>1, <3>1, <3>2 DEF FiniteInv
  <2> QED BY <2>1, <2>2
<1>3. Cardinality(Credited) <= Cardinality(Credited') + 1
  BY <1>1, OneMore DEF FiniteInv
<1> QED BY <1>1, <1>2, <1>3 DEF FiniteInv, Balanced, Due, Paid
LEMMA HandsOver ==
    ASSUME TypeInv, TypeInv', Slips <= Slips', NEW w, NEW j, Credited \subseteq Credited',
           \/ /\ w \in Chances /\ Chances' \subseteq Chances \ {w}
              /\ Loose' \subseteq Loose \cup {j}
           \/ /\ j \in Loose /\ Loose' \subseteq Loose \ {j}
              /\ Chances' \subseteq Chances \cup {w}
    PROVE  Balanced
<1>1. FiniteInv /\ FiniteInv'
  BY Finite, FiniteNext
<1>2. Cardinality(Chances') + Cardinality(Loose') <= Cardinality(Chances) + Cardinality(Loose)
  <2>1. CASE /\ w \in Chances /\ Chances' \subseteq Chances \ {w}
             /\ Loose' \subseteq Loose \cup {j}
    <3>1. Cardinality(Chances') + 1 <= Cardinality(Chances)
      BY <1>1, <2>1, OneLess DEF FiniteInv
    <3>2. Cardinality(Loose') <= Cardinality(Loose) + 1
      BY <1>1, <2>1, OneMore DEF FiniteInv
    <3> QED BY <1>1, <3>1, <3>2 DEF FiniteInv
  <2>2. CASE /\ j \in Loose /\ Loose' \subseteq Loose \ {j}
             /\ Chances' \subseteq Chances \cup {w}
    <3>1. Cardinality(Loose') + 1 <= Cardinality(Loose)
      BY <1>1, <2>2, OneLess DEF FiniteInv
    <3>2. Cardinality(Chances') <= Cardinality(Chances) + 1
      BY <1>1, <2>2, OneMore DEF FiniteInv
    <3> QED BY <1>1, <3>1, <3>2 DEF FiniteInv
  <2> QED BY <2>1, <2>2
<1>3. Cardinality(Credited) <= Cardinality(Credited')
  BY <1>1, Smaller DEF FiniteInv
<1> QED BY <1>1, <1>2, <1>3 DEF FiniteInv, Balanced, Due, Paid
LEMMA Slipping ==
    ASSUME TypeInv, TypeInv', Slips + 1 <= Slips', NEW x, Credited \subseteq Credited',
           \/ Chances' \subseteq Chances \cup {x} /\ Loose' \subseteq Loose
           \/ Loose' \subseteq Loose \cup {x} /\ Chances' \subseteq Chances
    PROVE  Balanced
<1>1. FiniteInv /\ FiniteInv'
  BY Finite, FiniteNext
<1>2. Cardinality(Chances') + Cardinality(Loose') <= Cardinality(Chances) + Cardinality(Loose) + 1
  <2>1. CASE Chances' \subseteq Chances \cup {x} /\ Loose' \subseteq Loose
    <3>1. Cardinality(Chances') <= Cardinality(Chances) + 1
      BY <1>1, <2>1, OneMore DEF FiniteInv
    <3>2. Cardinality(Loose') <= Cardinality(Loose)
      BY <1>1, <2>1, Smaller DEF FiniteInv
    <3> QED BY <1>1, <3>1, <3>2 DEF FiniteInv
  <2>2. CASE Loose' \subseteq Loose \cup {x} /\ Chances' \subseteq Chances
    <3>1. Cardinality(Loose') <= Cardinality(Loose) + 1
      BY <1>1, <2>2, OneMore DEF FiniteInv
    <3>2. Cardinality(Chances') <= Cardinality(Chances)
      BY <1>1, <2>2, Smaller DEF FiniteInv
    <3> QED BY <1>1, <3>1, <3>2 DEF FiniteInv
  <2> QED BY <2>1, <2>2
<1>3. Cardinality(Credited) <= Cardinality(Credited')
  BY <1>1, Smaller DEF FiniteInv
<1> QED BY <1>1, <1>2, <1>3 DEF FiniteInv, Balanced, Due, Paid
LEMMA PaysForItself ==
    ASSUME TypeInv, TypeInv', Slips <= Slips', NEW j, j \notin Credited,
           Credited \cup {j} \subseteq Credited', Chances' \subseteq Chances,
           Loose' \subseteq Loose \cup {j}
    PROVE  Balanced
<1>1. FiniteInv /\ FiniteInv'
  BY Finite, FiniteNext
<1>2. Cardinality(Chances') <= Cardinality(Chances)
  BY <1>1, Smaller DEF FiniteInv
<1>3. Cardinality(Loose') <= Cardinality(Loose) + 1
  BY <1>1, OneMore DEF FiniteInv
<1>4. j \in Credited' /\ Credited \subseteq Credited' \ {j}
  OBVIOUS
<1>5. Cardinality(Credited) + 1 <= Cardinality(Credited')
  BY <1>1, <1>4, OneLess DEF FiniteInv
<1> QED BY <1>1, <1>2, <1>3, <1>5 DEF FiniteInv, Balanced, Due, Paid
\* A handler's step away from Bull keeps its job.
LEMMA HandlerStays ==
    ASSUME TypeInv, NEW w \in Workers, BodyAction(w) \/ EndAction(w)
    PROVE  /\ worker[w].pc # "idle" /\ worker'[w].pc # "idle"
           /\ worker'[w].job = worker[w].job
           /\ \A v \in Workers : v # w => worker'[v] = worker[v]
           /\ UNCHANGED jobs
<1>1. worker \in [Workers -> Handler]
  BY DEF TypeInv, WorkerTypes
<1>2. CASE BodyAction(w)
  <2>1. /\ worker[w].pc # "idle" /\ worker'[w].job = worker[w].job /\ UNCHANGED jobs
        /\ \A v \in Workers : v # w => worker'[v] = worker[v]
    BY <1>2, BodyStep
  <2>2. CASE CallAi(w)
    BY <1>1, <2>1, <2>2 DEF CallAi, Handler
  <2>3. CASE ReadTrainer(w)
    BY <1>1, <2>1, <2>3 DEF ReadTrainer, Caught, Handler
  <2>4. ASSUME ~CallAi(w), ~ReadTrainer(w)
        PROVE  \E pc \in Pcs \ {"idle"}, rate \in BOOLEAN : Goto(w, pc) \/ Caught(w, rate)
    BY <1>2, <2>4 DEF BodyAction, CheckOwner, RefreshLock, WriteQuestions, WipeResults,
       InsertResults, UpdateMastery, NotifyCompleted, CompleteTrainer, SyncReminders,
       ScheduleNotification, AiError, StepError, HandleErrorThrows, OnTrainer, Pcs, OwningPcs,
       EarlyPcs, LatePcs
  <2>5. ASSUME NEW pc \in Pcs \ {"idle"}, NEW rate \in BOOLEAN, Goto(w, pc) \/ Caught(w, rate)
        PROVE  worker'[w].pc # "idle"
    BY <1>1, <2>5 DEF Goto, Caught, Handler
  <2> QED BY <2>1, <2>2, <2>3, <2>4, <2>5
<1>3. CASE EndAction(w)
  <2>1. PICK pc : Goto(w, pc) /\ pc \in {"finish", "failing"} /\ worker[w].pc # "idle"
    BY <1>3 DEF EndAction, ReleaseLock, HandleError
  <2> QED BY <1>1, <1>3, <2>1 DEF Goto, Handler, EndAction, ReleaseLock, HandleError
<1> QED BY <1>2, <1>3

\* What such a step does to the chances and the credits.
LEMMA HandlerSets ==
    ASSUME TypeInv, Ties, NEW w \in Workers, worker[w].pc # "idle",
           worker'[w].job = worker[w].job,
           \A v \in Workers : v # w => worker'[v] = worker[v], UNCHANGED jobs,
           passed \subseteq passed'
    PROVE  /\ Loose' = Loose /\ Chances' \subseteq Chances \cup {w}
           /\ worker'[w].pc \notin MayCount => Chances' \subseteq Chances \ {w}
           /\ Credited \subseteq Credited' \cup {worker[w].job}
           /\ \/ worker[w].pc \notin MayCount \/ worker'[w].pc \in MayCount
              \/ worker[w].job \in passed
              => Credited \subseteq Credited'
<1>1. \A v \in Workers : worker'[v].job = worker[v].job
  OBVIOUS
<1>2. Loose' = Loose
  <2>1. ASSUME NEW j \in Jobs PROVE Adrift(j)' <=> Adrift(j)
    <3>1. jobs[j].state = "active" => jobs[j].by \in Workers
      BY DEF Ties
    <3> QED BY <1>1, <3>1 DEF Adrift
  <2> QED BY <2>1 DEF Loose
<1>3. Chances' \subseteq Chances \cup {w}
  BY DEF Chances
<1>4. worker'[w].pc \notin MayCount => Chances' \subseteq Chances \ {w}
  BY DEF Chances
<1>5. Credited \subseteq Credited' \cup {worker[w].job}
  BY <1>2 DEF Credited, Chances
<1>6. ASSUME \/ worker[w].pc \notin MayCount \/ worker'[w].pc \in MayCount
             \/ worker[w].job \in passed
      PROVE  Credited \subseteq Credited'
  BY <1>2, <1>6 DEF Credited, Chances
<1> QED BY <1>2, <1>3, <1>4, <1>5, <1>6

\* Failures are only ever added.
LEMMA SlipsGrow ==
    ASSUME TypeInv, [Next]_vars
    PROVE  Slips <= Slips'
<1>1. CASE UNCHANGED faults
  BY <1>1 DEF Slips, TypeInv, FaultTypes, FaultKinds
<1>2. ASSUME NEW f \in FaultKinds, Strike(f) PROVE Slips <= Slips'
  BY <1>2 DEF Strike, Slips, TypeInv, FaultTypes, FaultKinds
<1> QED BY <1>1, <1>2, Struck
LEMMA SlipCounts ==
    ASSUME TypeInv, NEW f \in {"lateError", "workerCrash", "stall"}, Strike(f)
    PROVE  Slips + 1 <= Slips'
BY DEF Strike, Slips, TypeInv, FaultTypes, FaultKinds

\* What a handler does between two awaits is balanced.
LEMMA HandlerBalanced ==
    ASSUME TypeInv, TypeInv', Ties, [Next]_vars, NEW w \in Workers, BodyAction(w) \/ EndAction(w)
    PROVE  Balanced
<1>1. /\ worker[w].pc # "idle" /\ worker'[w].pc # "idle"
      /\ worker'[w].job = worker[w].job
      /\ \A v \in Workers : v # w => worker'[v] = worker[v]
      /\ UNCHANGED jobs
  BY HandlerStays
<1>2. passed \subseteq passed'
  BY DEF BodyAction, CheckOwner, RefreshLock, CallAi, WriteQuestions, WipeResults, InsertResults,
     UpdateMastery, ReadTrainer, NotifyCompleted, CompleteTrainer, SyncReminders,
     ScheduleNotification, AiError, StepError, HandleErrorThrows, EndAction, ReleaseLock,
     HandleError
<1>3. /\ Loose' = Loose /\ Chances' \subseteq Chances \cup {w}
      /\ worker'[w].pc \notin MayCount => Chances' \subseteq Chances \ {w}
      /\ Credited \subseteq Credited' \cup {worker[w].job}
      /\ worker[w].pc \notin MayCount \/ worker'[w].pc \in MayCount => Credited \subseteq Credited'
  BY <1>1, <1>2, HandlerSets
<1>4. Slips <= Slips'
  BY SlipsGrow
<1>5. CASE worker[w].pc \in MayCount
  <2>1. w \in Chances
    BY <1>5 DEF Chances
  <2>2. CASE worker'[w].pc \in MayCount
    BY <1>3, <1>4, <2>1, <2>2, Keeps
  <2>3. CASE worker'[w].pc \notin MayCount
    BY <1>3, <1>4, <2>1, <2>3, Loses
  <2> QED BY <2>2, <2>3
<1>6. CASE worker[w].pc \notin MayCount
  <2>1. CASE worker'[w].pc \notin MayCount
    BY <1>3, <1>4, <1>6, <2>1, Keeps
  <2>2. CASE StepError(w) /\ Strike("lateError")
    BY <1>3, <1>6, <2>2, SlipCounts, Slipping
  <2>3. CASE StepError(w) /\ ~Strike("lateError")
    BY <1>6, <2>3 DEF StepError, MayCount, EarlyPcs
  <2>4. ASSUME ~StepError(w) PROVE worker'[w].pc \notin MayCount
    <3>1. worker[w].pc \in {"schedule", "release"}
      BY <1>6, <2>4 DEF BodyAction, CheckOwner, RefreshLock, CallAi, WriteQuestions, WipeResults,
         InsertResults, UpdateMastery, ReadTrainer, NotifyCompleted, CompleteTrainer,
         SyncReminders, ScheduleNotification, AiError, HandleErrorThrows, EndAction,
         ReleaseLock, HandleError, OnTrainer, MayCount
    <3>2. ScheduleNotification(w) \/ ReleaseLock(w)
      BY <2>4, <3>1 DEF BodyAction, CheckOwner, RefreshLock, CallAi, WriteQuestions, WipeResults,
         InsertResults, UpdateMastery, ReadTrainer, NotifyCompleted, CompleteTrainer,
         SyncReminders, AiError, HandleErrorThrows, EndAction, HandleError, OnTrainer
    <3>3. worker \in [Workers -> Handler]
      BY DEF TypeInv, WorkerTypes
    <3> QED BY <3>2, <3>3 DEF ScheduleNotification, ReleaseLock, Goto, Handler, MayCount
  <2> QED BY <2>1, <2>2, <2>3, <2>4
<1> QED BY <1>5, <1>6
\* What is left alone stays due and stays paid.
LEMMA NothingMoves ==
    ASSUME TypeInv, TypeInv', [Next]_vars, UNCHANGED <<jobs, worker, passed>>
    PROVE  Balanced
<1>1. Chances' = Chances
  BY DEF Chances
<1>2. Loose' = Loose
  BY DEF Loose, Adrift
<1>3. Credited' = Credited
  BY <1>1, <1>2 DEF Credited
<1> QED BY <1>1, <1>2, <1>3, SlipsGrow, Keeps

\* The end of an attempt: the handler parks, and the job, if it is still the
\* handler's, is over or will be handed out again.
LEMMA EndBalanced ==
    ASSUME TypeInv, TypeInv', Ties, [Next]_vars, NEW w \in Workers, NEW r,
           worker[w].pc \in {"finish", "failing"}, EndJob(w, r), UNCHANGED passed,
           r.state \in Done \/ (worker[w].pc = "failing" /\ r.state = "delayed")
    PROVE  Balanced
<1>1. PICK j \in Jobs : j = worker[w].job
  BY DEF TypeInv, WorkerTypes
<1>2. /\ worker \in [Workers -> Handler] /\ jobs \in [Jobs -> Job]
      /\ \A i \in Jobs : jobs[i].state = "active" => jobs[i].by \in Workers
  BY DEF TypeInv, WorkerTypes, JobTypes, Ties
<1>3. /\ worker'[w] = Idle /\ \A v \in Workers : v # w => worker'[v] = worker[v]
      /\ Idle.job = NoJob /\ Idle.pc = "idle" /\ NoJob \notin Jobs
  BY <1>2, SentinelAssumption DEF EndJob, Idle
<1>4. Chances' = Chances \ {w}
  BY <1>3 DEF Chances, MayCount
<1>5. /\ \A i \in Jobs : i # j => jobs'[i] = jobs[i]
      /\ ~Holds(w) => jobs' = jobs
      /\ Holds(w) => jobs'[j] = r
  BY <1>1, <1>2 DEF EndJob
<1>6. ASSUME NEW i \in Jobs, i # j \/ ~Holds(w) PROVE Adrift(i)' <=> Adrift(i)
  <2>1. jobs'[i] = jobs[i]
    BY <1>5, <1>6
  <2>2. ASSUME jobs[i].state = "active", jobs[i].by = w
        PROVE  worker[w].job # i /\ worker'[w].job # i
    BY <1>1, <1>3, <1>6, <2>2 DEF Holds
  <2> QED BY <1>2, <1>3, <2>1, <2>2 DEF Adrift
<1>7. Holds(w) => ~Adrift(j)
  BY <1>1 DEF Holds, Adrift
<1>8. Holds(w) => (Adrift(j)' <=> r.state = "delayed")
  BY <1>1, <1>5 DEF Adrift, Done
<1>9. Loose' = Loose \/ (Holds(w) /\ worker[w].pc = "failing" /\ Loose' = Loose \cup {j})
  <2>1. CASE Holds(w)
    BY <1>6, <1>7, <1>8, <2>1 DEF Loose, Done
  <2>2. CASE ~Holds(w)
    BY <1>6, <2>2 DEF Loose
  <2> QED BY <2>1, <2>2
<1>10. \A v \in Chances' : v \in Chances /\ worker'[v].job = worker[v].job
  BY <1>3, <1>4 DEF Chances
<1>11. \A v \in Chances : v = w \/ (v \in Chances' /\ worker'[v].job = worker[v].job)
  BY <1>3, <1>4 DEF Chances
<1>12. Slips <= Slips'
  BY SlipsGrow
<1>13. CASE worker[w].pc = "finish"
  <2>1. w \notin Chances /\ Loose' = Loose
    BY <1>9, <1>13 DEF Chances, MayCount
  <2>2. Credited \subseteq Credited'
    BY <1>11, <2>1 DEF Credited
  <2> QED BY <1>4, <1>12, <2>1, <2>2, Keeps
<1>14. CASE worker[w].pc = "failing"
  <2>1. w \in Chances
    BY <1>14 DEF Chances, MayCount
  <2>2. CASE Loose' = Loose
    <3>1. Credited \subseteq Credited' \cup {j}
      BY <1>1, <1>11, <2>2 DEF Credited
    <3> QED BY <1>4, <1>12, <2>1, <2>2, <3>1, Loses
  <2>3. CASE Loose' = Loose \cup {j}
    <3>1. Credited \subseteq Credited'
      BY <1>1, <1>11, <2>3 DEF Credited
    <3> QED BY <1>4, <1>12, <2>1, <2>3, <3>1, HandsOver
  <2> QED BY <1>9, <2>2, <2>3
<1> QED BY <1>13, <1>14

\* Bull's steps are balanced.
LEMMA BullBalanced ==
    ASSUME TypeInv, TypeInv', Ties, [Next]_vars, NEW w \in Workers, BullAction(w)
    PROVE  Balanced
<1>1. /\ worker \in [Workers -> Handler] /\ jobs \in [Jobs -> Job]
      /\ \A i \in Jobs : jobs[i].state = "active" => jobs[i].by \in Workers
      /\ \A i \in Jobs : jobs[i].state \in Live => jobs[i].attempts < MaxAttempts
  BY DEF TypeInv, WorkerTypes, JobTypes, Ties
<1>2. Slips <= Slips'
  BY SlipsGrow
<1>3. ASSUME NEW j \in Jobs, PickJob(w, j) PROVE Balanced
  <2> DEFINE r == [jobs[j] EXCEPT !.state = "active", !.by = w]
             h == [Idle EXCEPT !.pc = "own", !.job = j, !.attempt = jobs[j].attempts]
  <2>1. /\ worker[w].pc = "idle" /\ jobs[j].state = "waiting" /\ UNCHANGED passed
        /\ jobs' = [jobs EXCEPT ![j] = r] /\ worker' = [worker EXCEPT ![w] = h]
    BY <1>3 DEF PickJob
  <2>2. r.state = "active" /\ r.by = w
    BY <1>1 DEF Job
  <2>3. h.pc = "own" /\ h.job = j
    BY DEF Idle
  <2> HIDE DEF r, h
  <2>4. /\ worker'[w] = h /\ \A v \in Workers : v # w => worker'[v] = worker[v]
        /\ jobs'[j] = r /\ \A i \in Jobs : i # j => jobs'[i] = jobs[i]
    BY <1>1, <2>1
  <2>5. worker[w].job = NoJob /\ NoJob \notin Jobs
    BY <2>1, SentinelAssumption DEF Ties
  <2>6. w \notin Chances /\ Chances' = Chances \cup {w}
    BY <2>1, <2>3, <2>4 DEF Chances, MayCount
  <2>7. ~Adrift(j)' /\ Adrift(j)
    BY <2>1, <2>2, <2>3, <2>4 DEF Adrift
  <2>8. ASSUME NEW i \in Jobs, i # j PROVE Adrift(i)' <=> Adrift(i)
    BY <1>1, <2>3, <2>4, <2>5, <2>8 DEF Adrift
  <2>9. j \in Loose /\ Loose' = Loose \ {j}
    BY <2>7, <2>8 DEF Loose
  <2>10. Credited \subseteq Credited'
    <3>1. \A v \in Chances : v \in Chances' /\ worker'[v].job = worker[v].job
      BY <2>4, <2>6 DEF Chances
    <3>2. w \in Chances' /\ worker'[w].job = j
      BY <2>3, <2>4, <2>6
    <3> QED BY <2>1, <2>9, <3>1, <3>2 DEF Credited
  <2> QED BY <1>2, <2>6, <2>9, <2>10, HandsOver
<1>4. CASE FinishJob(w)
  <2> DEFINE r == [jobs[worker[w].job] EXCEPT !.state = "completed", !.by = NoWorker]
  <2>1. worker[w].pc = "finish" /\ EndJob(w, r) /\ UNCHANGED passed
    BY <1>4 DEF FinishJob
  <2>2. worker[w].job \in Jobs
    BY <2>1 DEF TypeInv, WorkerTypes
  <2>3. r.state \in Done
    BY <1>1, <2>2 DEF Job, Done
  <2> HIDE DEF r
  <2> QED BY <2>1, <2>3, EndBalanced
<1>5. CASE FailJob(w)
  <2> DEFINE old == jobs[worker[w].job]
             r == [old EXCEPT !.state = IF old.attempts + 1 < MaxAttempts THEN "delayed" ELSE "failed",
                              !.by = NoWorker, !.attempts = old.attempts + 1]
  <2>1. worker[w].pc = "failing" /\ EndJob(w, r) /\ UNCHANGED passed
    BY <1>5 DEF FailJob
  <2>2. worker[w].job \in Jobs
    BY <2>1 DEF TypeInv, WorkerTypes
  <2>3. r.state \in Done \/ r.state = "delayed"
    BY <1>1, <2>2 DEF Job, Done
  <2> HIDE DEF r
  <2> QED BY <2>1, <2>3, EndBalanced
<1>6. CASE WorkerCrash(w)
  <2>1. /\ worker[w].pc # "idle" /\ Strike("workerCrash") /\ UNCHANGED <<jobs, passed>>
        /\ worker' = [worker EXCEPT ![w] = Idle]
    BY <1>6 DEF WorkerCrash
  <2>2. PICK j \in Jobs : j = worker[w].job
    BY <2>1 DEF TypeInv, WorkerTypes
  <2>3. /\ worker'[w] = Idle /\ \A v \in Workers : v # w => worker'[v] = worker[v]
        /\ Idle.job = NoJob /\ Idle.pc = "idle" /\ NoJob \notin Jobs
    BY <1>1, <2>1, SentinelAssumption DEF Idle
  <2>4. Chances' = Chances \ {w}
    BY <2>3 DEF Chances, MayCount
  <2>5. ASSUME NEW i \in Jobs, i # j PROVE Adrift(i)' <=> Adrift(i)
    BY <1>1, <2>1, <2>2, <2>3, <2>5 DEF Adrift
  <2>6. Adrift(j) => Adrift(j)'
    BY <1>1, <2>1, <2>2, <2>3 DEF Adrift
  <2>7. Loose' = Loose \/ Loose' = Loose \cup {j}
    BY <2>5, <2>6 DEF Loose
  <2>8. Slips + 1 <= Slips'
    BY <2>1, SlipCounts
  <2>9. \A v \in Chances : v = w \/ (v \in Chances' /\ worker'[v].job = worker[v].job)
    BY <2>3, <2>4 DEF Chances
  <2>10. CASE Loose' = Loose \cup {j}
    <3>1. Credited \subseteq Credited'
      BY <2>1, <2>2, <2>9, <2>10 DEF Credited
    <3> QED BY <2>4, <2>8, <2>10, <3>1, Slipping
  <2>11. CASE Loose' = Loose /\ w \in Chances
    <3>1. Credited \subseteq Credited' \cup {j}
      BY <2>1, <2>2, <2>9, <2>11 DEF Credited
    <3> QED BY <1>2, <2>4, <2>11, <3>1, Loses
  <2>12. CASE Loose' = Loose /\ w \notin Chances
    <3>1. Credited \subseteq Credited'
      BY <2>1, <2>9, <2>12 DEF Credited
    <3> QED BY <1>2, <2>4, <2>12, <3>1, Keeps
  <2> QED BY <2>7, <2>10, <2>11, <2>12
<1> QED BY <1>3, <1>4, <1>5, <1>6 DEF BullAction

\* So are those of a request, a retry and the stalled-job check.
LEMMA JobBalanced ==
    ASSUME TypeInv, TypeInv', Ties, [Next]_vars, NEW j \in Jobs, JobAction(j)
    PROVE  Balanced
<1>1. /\ worker \in [Workers -> Handler] /\ jobs \in [Jobs -> Job]
      /\ \A i \in Jobs : jobs[i].state = "active" => jobs[i].by \in Workers
  BY DEF TypeInv, WorkerTypes, JobTypes, Ties
<1>2. Slips <= Slips'
  BY SlipsGrow
<1>3. CASE AcquireOrGetActive(j) \/ UndoLock(j) \/ EnqueueError(j) \/ RequestCrash(j)
  BY <1>3, NothingMoves DEF AcquireOrGetActive, UndoLock, EnqueueError, RequestCrash
<1>4. ASSUME UNCHANGED <<worker, passed>>, \A i \in Jobs : i # j => jobs'[i] = jobs[i]
      PROVE  /\ Chances' = Chances
             /\ Adrift(j)' => Loose' = Loose \cup {j}
             /\ ~Adrift(j)' => Loose' = Loose \ {j}
             /\ Credited \subseteq Credited' \cup {j}
             /\ Adrift(j)' \/ ~Adrift(j) => Credited \subseteq Credited'
  <2>1. Chances' = Chances
    BY <1>4 DEF Chances
  <2>2. ASSUME NEW i \in Jobs, i # j PROVE Adrift(i)' <=> Adrift(i)
    BY <1>4, <2>2 DEF Adrift
  <2>3. (Adrift(j)' => Loose' = Loose \cup {j}) /\ (~Adrift(j)' => Loose' = Loose \ {j})
    BY <2>2 DEF Loose
  <2>4. Credited \subseteq Credited' \cup {j}
    BY <1>4, <2>1, <2>3 DEF Credited
  <2>5. Adrift(j)' \/ ~Adrift(j) => Credited \subseteq Credited'
    BY <1>4, <2>1, <2>3 DEF Credited, Loose
  <2> QED BY <2>1, <2>3, <2>4, <2>5
<1>5. CASE Enqueue(j)
  <2> DEFINE r == [jobs[j] EXCEPT !.state = "waiting"]
  <2>1. /\ jobs[j] = Unqueued /\ UNCHANGED <<worker, passed>>
        /\ jobs' = [jobs EXCEPT ![j] = r]
    BY <1>5 DEF Enqueue, TypeInv, Submitted
  <2>2. r.state = "waiting" /\ jobs[j].state = "none"
    BY <2>1 DEF Unqueued
  <2> HIDE DEF r
  <2>3. Adrift(j)' /\ ~Adrift(j)
    BY <1>1, <2>1, <2>2 DEF Adrift
  <2>4. Chances' = Chances /\ Loose' = Loose \cup {j} /\ Credited \subseteq Credited'
    BY <1>1, <1>4, <2>1, <2>3
  <2>5. j \notin Credited
    <3>1. j \notin passed /\ j \notin Loose
      BY <2>2, <2>3 DEF Ties, Loose
    <3>2. \A w \in Chances : worker[w].job # j
      BY <2>2 DEF Ties, Chances, MayCount
    <3> QED BY <3>1, <3>2 DEF Credited
  <2>6. j \in Credited'
    BY <2>4 DEF Credited
  <2> QED BY <1>2, <2>4, <2>5, <2>6, PaysForItself
<1>6. CASE RetryDue(j)
  <2> DEFINE r == [jobs[j] EXCEPT !.state = "waiting"]
  <2>1. /\ jobs[j].state = "delayed" /\ UNCHANGED <<worker, passed>>
        /\ jobs' = [jobs EXCEPT ![j] = r]
    BY <1>6 DEF RetryDue
  <2>2. r.state = "waiting"
    BY <1>1 DEF Job
  <2> HIDE DEF r
  <2>3. Adrift(j)' /\ Adrift(j)
    BY <1>1, <2>1, <2>2 DEF Adrift
  <2>4. Chances' = Chances /\ Loose' = Loose \cup {j} /\ Credited \subseteq Credited'
    BY <1>1, <1>4, <2>1, <2>3
  <2>5. j \in Loose
    BY <2>3 DEF Loose
  <2> QED BY <1>2, <2>4, <2>5, Keeps
<1>7. CASE Stall(j)
  <2> DEFINE r == [jobs[j] EXCEPT !.state = IF jobs[j].stalled THEN "failed" ELSE "waiting",
                                  !.by = NoWorker, !.stalled = TRUE]
  <2>1. /\ jobs[j].state = "active" /\ UNCHANGED <<worker, passed>>
        /\ jobs' = [jobs EXCEPT ![j] = r]
        /\ worker[jobs[j].by].job # j \/ Strike("stall")
    BY <1>7 DEF Stall
  <2>2. r.state \in {"failed", "waiting"}
    BY <1>1 DEF Job
  <2> HIDE DEF r
  <2>3. jobs'[j] = r /\ \A i \in Jobs : i # j => jobs'[i] = jobs[i]
    BY <1>1, <2>1
  <2>4. /\ Chances' = Chances
        /\ Adrift(j)' => Loose' = Loose \cup {j}
        /\ ~Adrift(j)' => Loose' = Loose \ {j}
        /\ Credited \subseteq Credited' \cup {j}
        /\ Adrift(j)' \/ ~Adrift(j) => Credited \subseteq Credited'
    BY <1>4, <2>1, <2>3
  <2>5. CASE Adrift(j) /\ Adrift(j)'
    <3>1. j \in Loose
      BY <2>5 DEF Loose
    <3> QED BY <1>2, <2>4, <2>5, <3>1, Keeps
  <2>6. CASE Adrift(j) /\ ~Adrift(j)'
    <3>1. j \in Loose
      BY <2>6 DEF Loose
    <3> QED BY <1>2, <2>4, <2>6, <3>1, Loses
  <2>7. CASE ~Adrift(j)
    <3>1. Strike("stall")
      BY <2>1, <2>7 DEF Adrift
    <3>2. Slips + 1 <= Slips'
      BY <3>1, SlipCounts
    <3>3. Loose' \subseteq Loose \cup {j}
      BY <2>4
    <3> QED BY <2>4, <2>7, <3>2, <3>3, Slipping
  <2> QED BY <2>5, <2>6, <2>7
<1> QED BY <1>3, <1>5, <1>6, <1>7 DEF JobAction

LEMMA StepBalanced == ASSUME TypeInv, TypeInv', Ties, [Next]_vars PROVE Balanced
<1>1. CASE Expire \/ UNCHANGED vars \/ \E kind \in Kinds : DeleteTrainer(kind)
  BY <1>1, NothingMoves DEF Expire, DeleteTrainer, vars
<1> QED BY <1>1, JobBalanced, BullBalanced, HandlerBalanced, Actions

\* A handler that is about to store a count was so before, or has just read
\* the pass count and added its own.
LEMMA CountRead ==
    ASSUME TypeInv, [Next]_vars, NEW w \in Workers, worker'[w].pc \in Storing
    PROVE  \/ /\ worker[w].pc \in Storing /\ worker'[w].count = worker[w].count
              /\ worker'[w].pass = worker[w].pass
           \/ /\ worker'[w].count = repeat + (IF worker'[w].pass THEN 1 ELSE 0)
              /\ UNCHANGED repeat
<1>1. worker \in [Workers -> Handler] /\ repeat \in Nat
  BY DEF TypeInv, WorkerTypes, DataTypes
<1>2. CASE worker'[w] = worker[w]
  BY <1>2
<1>3. ASSUME NEW v \in Workers, BodyAction(v) \/ EndAction(v), v # w PROVE worker'[w] = worker[w]
  BY <1>3, HandlerStays
<1>4. CASE ReadTrainer(w)
  <2>1. worker[w].pass \in BOOLEAN
    BY <1>1 DEF Handler
  <2>2. CASE Caught(w, FALSE)
    BY <1>1, <2>2 DEF Caught, Handler, Storing
  <2>3. CASE ~Caught(w, FALSE)
    <3> DEFINE count == IF worker[w].pass THEN repeat + 1 ELSE repeat
    <3>1. /\ UNCHANGED repeat
          /\ worker' = [worker EXCEPT ![w] =
                 [@ EXCEPT !.pc = IF count >= MaxRepeat THEN "notify" ELSE "sync", !.count = count]]
      BY <1>4, <2>3 DEF ReadTrainer, data
    <3>2. worker'[w].count = count /\ worker'[w].pass = worker[w].pass
      BY <1>1, <3>1 DEF Handler
    <3>3. count = repeat + (IF worker[w].pass THEN 1 ELSE 0)
      BY <1>1
    <3> HIDE DEF count
    <3> QED BY <3>1, <3>2, <3>3
  <2> QED BY <2>2, <2>3
<1>5. CASE NotifyCompleted(w)
  BY <1>1, <1>5 DEF NotifyCompleted, Goto, Handler, Storing
<1>6. CASE CallAi(w)
  BY <1>1, <1>6 DEF CallAi, Handler, Storing
<1>7. ASSUME BodyAction(w) \/ EndAction(w), ~ReadTrainer(w), ~NotifyCompleted(w), ~CallAi(w)
      PROVE  FALSE
  <2>1. \E pc \in Pcs \ Storing, rate \in BOOLEAN : Goto(w, pc) \/ Caught(w, rate)
    BY <1>7 DEF BodyAction, CheckOwner, RefreshLock, WriteQuestions, WipeResults,
       InsertResults, UpdateMastery, CompleteTrainer, SyncReminders, ScheduleNotification,
       AiError, StepError, HandleErrorThrows, EndAction, ReleaseLock, HandleError, OnTrainer,
       Pcs, OwningPcs, EarlyPcs, LatePcs, Storing
  <2> QED BY <1>1, <2>1 DEF Goto, Caught, Handler, Storing
<1>8. ASSUME NEW v \in Workers, BullAction(v) PROVE worker'[w] = worker[w]
  <2>1. \/ worker' = [worker EXCEPT ![v] = Idle]
        \/ \E j \in Jobs : worker' = [worker EXCEPT ![v] =
              [Idle EXCEPT !.pc = "own", !.job = j, !.attempt = jobs[j].attempts]]
    BY <1>8 DEF BullAction, PickJob, FinishJob, FailJob, WorkerCrash, EndJob
  <2>2. ASSUME v = w PROVE worker'[w].pc \in {"idle", "own"}
    <3>1. CASE worker' = [worker EXCEPT ![w] = Idle]
      BY <1>1, <3>1 DEF Idle
    <3>2. ASSUME NEW j \in Jobs, worker' = [worker EXCEPT ![w] =
                    [Idle EXCEPT !.pc = "own", !.job = j, !.attempt = jobs[j].attempts]]
          PROVE  worker'[w].pc = "own"
      BY <1>1, <3>2 DEF Idle
    <3> QED BY <2>1, <2>2, <3>1, <3>2
  <2> QED BY <1>1, <2>1, <2>2 DEF Storing
<1>9. CASE UNCHANGED worker
  BY <1>2, <1>9
<1>10. (\E v \in Workers : BullAction(v) \/ BodyAction(v) \/ EndAction(v)) \/ UNCHANGED worker
  BY Actions DEF Expire, JobAction, AcquireOrGetActive, Enqueue, UndoLock, EnqueueError,
     RequestCrash, RetryDue, Stall, DeleteTrainer, vars
<1> QED BY <1>2, <1>3, <1>4, <1>5, <1>6, <1>7, <1>8, <1>9, <1>10

\* Who holds what stays tied together.
LEMMA TiesStep == ASSUME TypeInv, TypeInv', Ties, [Next]_vars PROVE Ties'
<1>1. /\ worker \in [Workers -> Handler] /\ jobs \in [Jobs -> Job]
      /\ \A i \in Jobs : jobs[i].state \in Live => jobs[i].attempts < MaxAttempts
      /\ \A w \in Workers : worker[w].pc # "idle" => worker[w].job \in Jobs
  BY DEF TypeInv, WorkerTypes, JobTypes
<1>2. Idle.pass = FALSE /\ Idle.pc = "idle" /\ Idle.job = NoJob /\ NoJob \notin Jobs
  BY SentinelAssumption DEF Idle
<1>3. ASSUME UNCHANGED <<worker, passed>>, NEW j \in Jobs,
             \A i \in Jobs : i # j => jobs'[i] = jobs[i],
             jobs'[j].state = "active" => jobs'[j].by \in Workers, jobs'[j].state # "none"
      PROVE  Ties'
  <2>1. \A i \in Jobs : /\ jobs'[i].state = "active" => jobs'[i].by \in Workers
                       /\ i \in passed => jobs'[i].state # "none"
    BY <1>3 DEF Ties
  <2>2. ASSUME NEW w \in Workers, worker[w].pc # "idle" PROVE jobs'[worker[w].job].state # "none"
    BY <1>1, <1>3, <2>2 DEF Ties
  <2> QED BY <1>3, <2>1, <2>2 DEF Ties
<1>4. CASE UNCHANGED <<jobs, worker, passed>>
  BY <1>4 DEF Ties
<1>5. ASSUME NEW j \in Jobs, Enqueue(j) \/ RetryDue(j) PROVE Ties'
  <2> DEFINE r == [jobs[j] EXCEPT !.state = "waiting"]
  <2>1. jobs' = [jobs EXCEPT ![j] = r] /\ UNCHANGED <<worker, passed>>
    BY <1>5 DEF Enqueue, RetryDue
  <2>2. r.state = "waiting"
    BY <1>1 DEF Job
  <2> HIDE DEF r
  <2> QED BY <1>1, <1>3, <2>1, <2>2
<1>6. ASSUME NEW j \in Jobs, Stall(j) PROVE Ties'
  <2> DEFINE r == [jobs[j] EXCEPT !.state = IF jobs[j].stalled THEN "failed" ELSE "waiting",
                                  !.by = NoWorker, !.stalled = TRUE]
  <2>1. jobs' = [jobs EXCEPT ![j] = r] /\ UNCHANGED <<worker, passed>>
    BY <1>6 DEF Stall
  <2>2. r.state \in {"failed", "waiting"}
    BY <1>1 DEF Job
  <2> HIDE DEF r
  <2> QED BY <1>1, <1>3, <2>1, <2>2
<1>7. ASSUME NEW w \in Workers, NEW j \in Jobs, PickJob(w, j) PROVE Ties'
  <2> DEFINE r == [jobs[j] EXCEPT !.state = "active", !.by = w]
             h == [Idle EXCEPT !.pc = "own", !.job = j, !.attempt = jobs[j].attempts]
  <2>1. /\ jobs[j].state = "waiting" /\ UNCHANGED passed
        /\ jobs' = [jobs EXCEPT ![j] = r] /\ worker' = [worker EXCEPT ![w] = h]
    BY <1>7 DEF PickJob
  <2>2. r.state = "active" /\ r.by = w
    BY <1>1 DEF Job
  <2>3. h.pc = "own" /\ h.job = j /\ h.pass = FALSE
    BY DEF Idle
  <2> HIDE DEF r, h
  <2> QED BY <1>1, <2>1, <2>2, <2>3 DEF Ties
<1>8. ASSUME NEW w \in Workers, worker' = [worker EXCEPT ![w] = Idle], UNCHANGED passed,
             \A i \in Jobs : \/ jobs'[i] = jobs[i]
                             \/ jobs'[i].state \notin {"active", "none"}
      PROVE  Ties'
  BY <1>1, <1>2, <1>8 DEF Ties
<1>9. ASSUME NEW w \in Workers, NEW r, worker[w].pc \in {"finish", "failing"}, EndJob(w, r),
             UNCHANGED passed, r.state \notin {"active", "none"}
      PROVE  Ties'
  <2>1. worker' = [worker EXCEPT ![w] = Idle]
    BY <1>9 DEF EndJob
  <2>2. \A i \in Jobs : jobs'[i] = jobs[i] \/ jobs'[i].state \notin {"active", "none"}
    BY <1>1, <1>9 DEF EndJob
  <2> QED BY <1>8, <1>9, <2>1, <2>2
<1>10. ASSUME NEW w \in Workers, FinishJob(w) PROVE Ties'
  <2> DEFINE r == [jobs[worker[w].job] EXCEPT !.state = "completed", !.by = NoWorker]
  <2>1. worker[w].pc = "finish" /\ EndJob(w, r) /\ UNCHANGED passed
    BY <1>10 DEF FinishJob
  <2>2. r.state \notin {"active", "none"}
    BY <1>1, <2>1 DEF Job
  <2> HIDE DEF r
  <2> QED BY <1>9, <2>1, <2>2
<1>11. ASSUME NEW w \in Workers, FailJob(w) PROVE Ties'
  <2> DEFINE old == jobs[worker[w].job]
             r == [old EXCEPT !.state = IF old.attempts + 1 < MaxAttempts THEN "delayed" ELSE "failed",
                              !.by = NoWorker, !.attempts = old.attempts + 1]
  <2>1. worker[w].pc = "failing" /\ EndJob(w, r) /\ UNCHANGED passed
    BY <1>11 DEF FailJob
  <2>2. r.state \notin {"active", "none"}
    BY <1>1, <2>1 DEF Job
  <2> HIDE DEF r
  <2> QED BY <1>9, <2>1, <2>2
<1>12. ASSUME NEW w \in Workers, WorkerCrash(w) PROVE Ties'
  BY <1>8, <1>12 DEF WorkerCrash
<1>13. ASSUME NEW w \in Workers, BodyAction(w) \/ EndAction(w) PROVE Ties'
  <2>1. /\ worker[w].pc # "idle" /\ worker'[w].pc # "idle"
        /\ worker'[w].job = worker[w].job
        /\ \A v \in Workers : v # w => worker'[v] = worker[v]
        /\ UNCHANGED jobs
    BY <1>13, HandlerStays
  <2>2. CASE CallAi(w)
    <3>1. PICK pass \in BOOLEAN :
             /\ worker' = [worker EXCEPT ![w] =
                  [@ EXCEPT !.pc = IF KindOf[worker[w].job] = "choice" THEN "questions" ELSE "wipe",
                            !.pass = pass]]
             /\ passed' = IF pass THEN passed \cup {worker[w].job} ELSE passed
      BY <2>2 DEF CallAi
    <3>2. worker'[w].pass = pass
      BY <1>1, <3>1 DEF Handler
    <3>3. passed \subseteq passed' /\ passed' \subseteq passed \cup {worker[w].job}
      BY <3>1
    <3>4. pass => worker[w].job \in passed'
      BY <3>1
    <3> QED BY <1>1, <2>1, <3>2, <3>3, <3>4 DEF Ties
  <2>3. ASSUME ~CallAi(w) PROVE worker'[w].pass = worker[w].pass /\ UNCHANGED passed
    <3>1. CASE ReadTrainer(w)
      BY <1>1, <3>1 DEF ReadTrainer, Caught, Handler
    <3>2. ASSUME ~ReadTrainer(w)
          PROVE  UNCHANGED passed /\ \E pc, rate : Goto(w, pc) \/ Caught(w, rate)
      BY <1>13, <2>3, <3>2 DEF BodyAction, CheckOwner, RefreshLock, WriteQuestions, WipeResults,
         InsertResults, UpdateMastery, NotifyCompleted, CompleteTrainer, SyncReminders,
         ScheduleNotification, AiError, StepError, HandleErrorThrows, EndAction, ReleaseLock,
         HandleError, OnTrainer
    <3> QED BY <1>1, <3>1, <3>2 DEF Goto, Caught, Handler
  <2>4. CASE ~CallAi(w)
    BY <2>1, <2>3, <2>4 DEF Ties
  <2> QED BY <2>2, <2>4
<1> QED
  BY <1>4, <1>5, <1>6, <1>7, <1>10, <1>11, <1>12, <1>13, Actions
  DEF Expire, JobAction, AcquireOrGetActive, UndoLock, EnqueueError, RequestCrash, BullAction,
      DeleteTrainer, vars

\* Only the transaction of a failed or not yet final pass stores a count.
LEMMA RepeatStored ==
    ASSUME [Next]_vars
    PROVE  UNCHANGED repeat \/ \E w \in Workers : SyncReminders(w)
<1>1. ASSUME NEW w \in Workers, BullAction(w) \/ BodyAction(w) \/ EndAction(w), ~SyncReminders(w)
      PROVE  UNCHANGED repeat
  BY <1>1 DEF BullAction, BodyAction, EndAction, PickJob, FinishJob, FailJob, WorkerCrash,
     CheckOwner, RefreshLock, CallAi, WriteQuestions, WipeResults, InsertResults, UpdateMastery,
     ReadTrainer, NotifyCompleted, CompleteTrainer, ScheduleNotification, AiError, StepError,
     HandleErrorThrows, ReleaseLock, HandleError, data
<1>2. ASSUME NEW j \in Jobs, JobAction(j) PROVE UNCHANGED repeat
  BY <1>2 DEF JobAction, AcquireOrGetActive, Enqueue, UndoLock, EnqueueError, RequestCrash,
     RetryDue, Stall, data
<1> QED BY <1>1, <1>2, Actions DEF Expire, DeleteTrainer, vars, data

\* Sums of which the second side grows at least as much as the first.
LEMMA Sums ==
    ASSUME NEW n \in Nat, NEW k \in Nat, NEW d \in Nat, NEW p \in Nat, NEW e \in Nat, NEW q \in Nat,
           n + d <= p + k, e + p <= d + q
    PROVE  n + e <= q + k
OBVIOUS
LEMMA SumsLess ==
    ASSUME NEW n \in Nat, NEW d \in Nat, NEW p \in Nat, NEW e \in Nat, NEW q \in Nat,
           n + d <= p + 1, e + 1 <= d, p <= q
    PROVE  n + e <= q
OBVIOUS
LEMMA SumsShift ==
    ASSUME NEW n \in Nat, NEW k \in Nat, NEW e \in Nat, NEW q \in Nat, n + e <= q
    PROVE  (n + k) + e <= q + k
OBVIOUS
LEMMA Numbers == ASSUME FiniteInv PROVE Due \in Nat /\ Paid \in Nat
BY DEF FiniteInv
LEMMA NumbersNext == ASSUME FiniteInv' PROVE Due' \in Nat /\ Paid' \in Nat
BY DEF FiniteInv

\* Storing a pass uses the handler's chance up and leaves its credit.
LEMMA StoreKeeps ==
    ASSUME PassInv, TypeInv', [Next]_vars, NEW w \in Workers, SyncReminders(w)
    PROVE  StoredPaid'
<1>1. TypeInv /\ StoredPaid /\ ReadPaid /\ Ties
  BY DEF PassInv
<1>2. FiniteInv /\ FiniteInv' /\ Balanced /\ Slips <= Slips'
  BY <1>1, Finite, FiniteNext, StepBalanced, SlipsGrow
<1>3. worker \in [Workers -> Handler] /\ repeat \in Nat /\ worker[w] \in Handler
  BY <1>1 DEF TypeInv, WorkerTypes, DataTypes
<1>4. worker[w].pc = "sync" /\ UNCHANGED passed /\ BodyAction(w)
  BY DEF SyncReminders, OnTrainer, BodyAction
<1>5. worker[w].count + Due <= Paid + (IF worker[w].pass THEN 1 ELSE 0)
  BY <1>1, <1>4 DEF ReadPaid, Storing
<1>n. Due \in Nat /\ Paid \in Nat /\ Due' \in Nat /\ Paid' \in Nat /\ worker[w].count \in Nat
  BY <1>2, <1>3, Numbers, NumbersNext DEF Handler
<1>6. CASE UNCHANGED repeat
  <2>1. repeat + Due <= Paid + 0
    BY <1>1, <1>n DEF StoredPaid
  <2>2. repeat + Due' <= Paid' + 0
    BY <1>2, <1>3, <1>n, <2>1, Sums DEF Balanced
  <2> QED BY <1>6, <1>n, <2>2 DEF StoredPaid
<1>7. CASE repeat' = worker[w].count /\ ~worker[w].pass
  <2>1. worker[w].count + Due <= Paid + 0
    BY <1>5, <1>7, <1>n
  <2>2. worker[w].count + Due' <= Paid' + 0
    BY <1>2, <1>n, <2>1, Sums DEF Balanced
  <2> QED BY <1>7, <1>n, <2>2 DEF StoredPaid
<1>8. CASE repeat' = worker[w].count /\ repeat' # repeat /\ worker[w].pass
  <2>1. Goto(w, "schedule")
    BY <1>8 DEF SyncReminders, OnTrainer, Present
  <2>2. worker'[w].pc \notin MayCount
    BY <1>3, <2>1 DEF Goto, Handler, MayCount
  <2>3. /\ worker[w].pc # "idle" /\ worker'[w].job = worker[w].job
        /\ \A v \in Workers : v # w => worker'[v] = worker[v]
        /\ UNCHANGED jobs
    BY <1>1, <1>4, HandlerStays
  <2>4. worker[w].job \in passed
    BY <1>1, <1>8 DEF Ties
  <2>5. Loose' = Loose /\ Chances' \subseteq Chances \ {w} /\ Credited \subseteq Credited'
    BY <1>1, <1>4, <2>2, <2>3, <2>4, HandlerSets
  <2>6. w \in Chances
    BY <1>4 DEF Chances, MayCount
  <2>7. Cardinality(Chances') + 1 <= Cardinality(Chances)
    BY <1>2, <2>5, <2>6, OneLess DEF FiniteInv
  <2>8. Cardinality(Credited) <= Cardinality(Credited')
    BY <1>2, <2>5, Smaller DEF FiniteInv
  <2>9. Due' + 1 <= Due
    BY <1>2, <2>5, <2>7 DEF FiniteInv, Due
  <2>10. Paid <= Paid'
    BY <1>2, <2>8 DEF FiniteInv, Paid
  <2>11. worker[w].count + Due <= Paid + 1
    BY <1>5, <1>8
  <2>12. worker[w].count + Due' <= Paid'
    BY <1>n, <2>9, <2>10, <2>11, SumsLess
  <2> QED BY <1>8, <2>12 DEF StoredPaid
<1> QED BY <1>3, <1>6, <1>7, <1>8 DEF SyncReminders, Handler

LEMMA PassStep == ASSUME PassInv, [Next]_vars PROVE PassInv'
<1>1. TypeInv /\ StoredPaid /\ ReadPaid /\ Ties /\ TypeInv'
  BY TypeStep DEF PassInv
<1>2. FiniteInv /\ FiniteInv' /\ Balanced
  BY <1>1, Finite, FiniteNext, StepBalanced
<1>3. repeat \in Nat /\ repeat' \in Nat /\ worker \in [Workers -> Handler]
      /\ worker' \in [Workers -> Handler]
  BY <1>1 DEF TypeInv, DataTypes, WorkerTypes
<1>n. Due \in Nat /\ Paid \in Nat /\ Due' \in Nat /\ Paid' \in Nat
  BY <1>2, Numbers, NumbersNext
<1>4. StoredPaid'
  <2>1. CASE UNCHANGED repeat
    <3>1. repeat + Due <= Paid + 0
      BY <1>1, <1>n DEF StoredPaid
    <3>2. repeat + Due' <= Paid' + 0
      BY <1>2, <1>3, <1>n, <3>1, Sums DEF Balanced
    <3> QED BY <2>1, <1>n, <3>2 DEF StoredPaid
  <2> QED BY <1>1, <2>1, RepeatStored, StoreKeeps
<1>5. ASSUME NEW w \in Workers, worker'[w].pc \in Storing
      PROVE  worker'[w].count + Due' <= Paid' + (IF worker'[w].pass THEN 1 ELSE 0)
  <2>1. /\ worker'[w].count \in Nat /\ worker[w].count \in Nat
        /\ worker[w].pass \in BOOLEAN /\ worker'[w].pass \in BOOLEAN
    BY <1>3 DEF Handler
  <2>2. CASE /\ worker[w].pc \in Storing /\ worker'[w].count = worker[w].count
             /\ worker'[w].pass = worker[w].pass
    <3>1. worker[w].count + Due <= Paid + (IF worker[w].pass THEN 1 ELSE 0)
      BY <1>1, <2>2 DEF ReadPaid
    <3>2. (IF worker[w].pass THEN 1 ELSE 0) \in Nat
      OBVIOUS
    <3>3. worker[w].count + Due' <= Paid' + (IF worker[w].pass THEN 1 ELSE 0)
      <4>1. PICK k \in Nat : k = IF worker[w].pass THEN 1 ELSE 0
        BY <3>2
      <4>2. worker[w].count + Due' <= Paid' + k
        BY <1>2, <1>n, <2>1, <3>1, <4>1, Sums DEF Balanced
      <4> QED BY <4>1, <4>2
    <3> QED BY <2>2, <3>3
  <2>3. CASE /\ worker'[w].count = repeat + (IF worker'[w].pass THEN 1 ELSE 0)
             /\ UNCHANGED repeat
    <3>1. repeat + Due' <= Paid'
      BY <1>4, <2>3 DEF StoredPaid
    <3>2. PICK k \in Nat : k = IF worker'[w].pass THEN 1 ELSE 0
      OBVIOUS
    <3>3. (repeat + k) + Due' <= Paid' + k
      BY <1>3, <1>n, <3>1, <3>2, SumsShift
    <3> QED BY <2>3, <3>2, <3>3
  <2> QED BY <1>1, <1>5, <2>2, <2>3, CountRead
<1> QED BY <1>1, <1>4, <1>5, TiesStep DEF PassInv, ReadPaid

\* Each credit without a pass stands for something that is still due.
LEMMA PaidUp == PassInv => PassesCountedOnce
<1> SUFFICES ASSUME PassInv PROVE PassesCountedOnce
  OBVIOUS
<1>1. TypeInv /\ StoredPaid /\ FiniteInv /\ repeat \in Nat
  BY Finite DEF PassInv, TypeInv, DataTypes
<1> DEFINE Held == {worker[w].job : w \in Chances}
           of == [w \in Chances |-> worker[w].job]
<1>2. IsFiniteSet(Held) /\ Cardinality(Held) <= Cardinality(Chances)
  <2>1. of \in Surjection(Chances, Held)
    BY DEF Surjection
  <2> QED BY <1>1, <2>1, FS_Surjection DEF FiniteInv
<1>3. passed \subseteq Credited /\ Credited = (passed \cup Loose) \cup Held
  BY DEF Credited
<1>4. IsFiniteSet(passed) /\ Cardinality(passed) \in Nat
  BY <1>1, <1>3, Smaller DEF FiniteInv
<1> HIDE DEF Held, of
<1>5. /\ IsFiniteSet(passed \cup Loose) /\ Cardinality(passed \cup Loose) \in Nat
      /\ Cardinality(passed \cup Loose) <= Cardinality(passed) + Cardinality(Loose)
  <2>1. /\ IsFiniteSet(passed \cup Loose)
        /\ Cardinality(passed \cup Loose)
             = Cardinality(passed) + Cardinality(Loose) - Cardinality(passed \cap Loose)
    BY <1>1, <1>4, FS_Union DEF FiniteInv
  <2>2. Cardinality(passed \cap Loose) \in Nat
    BY <1>4, Smaller
  <2> QED BY <1>1, <1>4, <2>1, <2>2, FS_CardinalityType DEF FiniteInv
<1>6. Cardinality(Credited) <= Cardinality(passed \cup Loose) + Cardinality(Held)
  <2>1. /\ IsFiniteSet((passed \cup Loose) \cup Held)
        /\ Cardinality((passed \cup Loose) \cup Held)
             = Cardinality(passed \cup Loose) + Cardinality(Held)
               - Cardinality((passed \cup Loose) \cap Held)
    BY <1>2, <1>5, FS_Union
  <2>2. Cardinality((passed \cup Loose) \cap Held) \in Nat
    BY <1>5, Smaller
  <2>3. Cardinality(Held) \in Nat
    BY <1>2, FS_CardinalityType
  <2> QED BY <1>3, <1>5, <2>1, <2>2, <2>3
<1>7. Cardinality(Credited) <= Cardinality(passed) + Due
  <2>1. Cardinality(Held) \in Nat
    BY <1>2, FS_CardinalityType
  <2> QED BY <1>1, <1>2, <1>4, <1>5, <1>6, <2>1 DEF FiniteInv, Due
<1>8. repeat + Due <= Cardinality(Credited) + Slips
  BY <1>1 DEF StoredPaid, Paid
<1>9. repeat <= Cardinality(passed) + Slips
  BY <1>1, <1>4, <1>7, <1>8 DEF FiniteInv
<1>10. /\ faults["lateError"] \in Nat /\ faults["workerCrash"] \in Nat /\ faults["stall"] \in Nat
  BY <1>1 DEF TypeInv, FaultTypes, FaultKinds
<1> QED BY <1>1, <1>4, <1>9, <1>10 DEF PassesCountedOnce, Slips

LEMMA PassInit == Init => PassInv
<1> SUFFICES ASSUME Init PROVE PassInv
  OBVIOUS
<1>1. TypeInv
  BY InitTypes
<1>2. /\ \A w \in Workers : worker[w] = Idle
      /\ \A j \in Jobs : jobs[j] = Unqueued
      /\ passed = {} /\ repeat = 0
  BY DEF Init
<1>3. Idle.pc = "idle" /\ Idle.job = NoJob /\ Idle.pass = FALSE /\ Unqueued.state = "none"
  BY DEF Idle, Unqueued
<1>4. Ties
  BY <1>2, <1>3 DEF Ties
<1>5. Chances = {} /\ Loose = {}
  BY <1>2, <1>3 DEF Chances, MayCount, Loose, Adrift
<1>6. Due = 0
  BY <1>5, FS_EmptySet DEF Due
<1>7. FiniteInv
  BY <1>1, Finite
<1>8. StoredPaid
  BY <1>2, <1>6, <1>7 DEF StoredPaid, FiniteInv
<1>9. ReadPaid
  BY <1>2, <1>3 DEF ReadPaid, Storing
<1> QED BY <1>1, <1>4, <1>8, <1>9 DEF PassInv

\* However a submission is retried, requeued or overtaken, it is counted as
\* one pass: what is stored never exceeds the submissions that passed and the
\* failures past a stored count, for any number of jobs, workers and faults.
THEOREM PassesCountedOnceCorrect == Spec => []PassesCountedOnce
<1>1. PassInv /\ UNCHANGED vars => PassInv'
  BY PassStep
<1> QED BY PassInit, PassStep, PaidUp, PTL DEF Spec

-----------------------------------------------------------------------------
(* The settings of the AI calls: theorems about AiSettings, for any number *)
(* of users, requests and calls, any models and any defaults.              *)

AllKinds == {"text", "audio", "chat"}

\* What the assumptions on the constants amount to.
Supposed ==
    /\ None \notin Users /\ None \notin Providers /\ None \notin Models
    /\ None \notin Values
    /\ MaxIds \in Nat /\ CallKinds \subseteq AllKinds /\ WrittenKeys \subseteq Keys
    /\ WrittenValues \subseteq Values
    /\ "gemini" \in Providers
    /\ \A p \in Providers, k \in AllKinds : DefaultModels[<<p, k>>] \subseteq Models
    /\ \E m \in Models : DefaultModels[<<"omniroute", "audio">>] = {m}

LEMMA SettingsFacts == Supposed
<1>1. DefaultModels \in [Providers \X AllKinds -> SUBSET Models]
  BY SettingsAssumption DEF AllKinds
<1>2. \A p \in Providers, k \in AllKinds : DefaultModels[<<p, k>>] \in SUBSET Models
  BY <1>1
<1> QED BY <1>2, SettingsAssumption DEF Providers, Values, AllKinds, Supposed

-----------------------------------------------------------------------------
(* The rows. *)

RowInv == /\ rows \subseteq Row
          /\ nextId \in 1..MaxIds + 1
          /\ writes \in [Writers -> Write]
          /\ OneRow

\* A row with another value is a row of the same owner and key.
LEMMA Revalued ==
  ASSUME NEW r \in Row, NEW v \in Values
  PROVE  /\ [r EXCEPT !.value = v] \in Row
         /\ [r EXCEPT !.value = v].owner = r.owner /\ [r EXCEPT !.value = v].key = r.key
BY DEF Row

\* Values change, owners and keys do not.
LEMMA Overwritten ==
  ASSUME RowInv, NEW v \in Values, NEW S \in SUBSET rows,
         rows' = {IF r \in S THEN [r EXCEPT !.value = v] ELSE r : r \in rows}
  PROVE  rows' \subseteq Row /\ OneRow'
<1>1. \A r \in rows : r \in Row
  BY DEF RowInv
<1>2. rows' \subseteq Row
  BY <1>1, Revalued
<1>3. ASSUME NEW a \in rows', NEW b \in rows', a.owner = b.owner, a.key = b.key PROVE a = b
  <2>1. PICK r \in rows : a = IF r \in S THEN [r EXCEPT !.value = v] ELSE r
    OBVIOUS
  <2>2. PICK q \in rows : b = IF q \in S THEN [q EXCEPT !.value = v] ELSE q
    OBVIOUS
  <2>3. a.owner = r.owner /\ a.key = r.key /\ b.owner = q.owner /\ b.key = q.key
    BY <2>1, <2>2, <1>1, Revalued
  <2>4. r = q
    BY <2>3, <1>3 DEF RowInv, OneRow
  <2> QED BY <2>1, <2>2, <2>4
<1> QED BY <1>2, <1>3 DEF OneRow

\* A new row of an owner and a key that have none.
LEMMA Added ==
  ASSUME Supposed, RowInv, nextId <= MaxIds,
         NEW o \in Owners, NEW k \in Keys, NEW v \in Values,
         Of(o, k) = {},
         rows' = rows \cup {[id |-> nextId, owner |-> o, key |-> k, value |-> v]}
  PROVE  rows' \subseteq Row /\ OneRow' /\ nextId + 1 \in 1..MaxIds + 1
<1>1. nextId \in 1..MaxIds /\ MaxIds \in Nat /\ nextId + 1 \in 1..MaxIds + 1
  BY DEF RowInv, Supposed
<1>2. [id |-> nextId, owner |-> o, key |-> k, value |-> v] \in Row
  BY <1>1 DEF Row
<1>3. \A r \in rows : ~(r.owner = o /\ r.key = k)
  BY DEF Of
<1> QED BY <1>1, <1>2, <1>3 DEF RowInv, OneRow

LEMMA WriteTypes ==
  ASSUME writes \in [Writers -> Write], NEW w \in Writers, NEW x \in
           {"new", "find", "update", "create", "delete", "done", "failed"},
         NEW i \in 0..MaxIds
  PROVE  /\ [writes EXCEPT ![w].pc = x] \in [Writers -> Write]
         /\ [writes EXCEPT ![w].pc = x, ![w].id = i] \in [Writers -> Write]
<1>1. writes[w] \in Write
  OBVIOUS
<1>2. [writes[w] EXCEPT !.pc = x] \in Write
  BY <1>1 DEF Write
<1>3. [[writes[w] EXCEPT !.pc = x] EXCEPT !.id = i] \in Write
  BY <1>2 DEF Write
<1>4. [writes EXCEPT ![w].pc = x] \in [Writers -> Write]
  BY <1>2
<1>5. [writes EXCEPT ![w].pc = x, ![w].id = i] \in [Writers -> Write]
  BY <1>3
<1> QED BY <1>4, <1>5

\* An update has a value to write: it was found by a request that sets one.
ValueInv == \A w \in Writers :
    /\ writes[w].pc \in {"update", "create"} => writes[w].value \in Values
    /\ writes[w].pc = "create" => writes[w].owner = "system"

LEMMA Ended ==
  ASSUME writes \in [Writers -> Write], ValueInv, NEW w \in Writers,
         NEW x \in {"done", "failed"}, writes' = [writes EXCEPT ![w].pc = x]
  PROVE  writes' \in [Writers -> Write] /\ ValueInv'
<1>1. writes[w] \in Write
  OBVIOUS
<1>2. [writes[w] EXCEPT !.pc = x] \in Write /\ [writes[w] EXCEPT !.pc = x].pc = x
  BY <1>1 DEF Write
<1>3. writes' \in [Writers -> Write]
  BY <1>2
<1>4. \A v \in Writers : writes'[v] = writes[v] \/ writes'[v].pc \in {"done", "failed"}
  BY <1>2
<1> QED BY <1>3, <1>4 DEF ValueInv

LEMMA WriteKeepsRows ==
  ASSUME Supposed, RowInv, ValueInv, NEW w \in Writers, WriteStep(w)
  PROVE  RowInv' /\ ValueInv'
<1> DEFINE write == writes[w]
<1>0. /\ writes \in [Writers -> Write] /\ write \in Write
      /\ write.owner \in Owners /\ write.key \in Keys
      /\ write.value \in Values \cup {None} /\ MaxIds \in Nat
      /\ rows \subseteq Row /\ nextId \in 1..MaxIds + 1
      /\ 0 \in 0..MaxIds /\ None \notin Values
  <2>1. writes \in [Writers -> Write] /\ write \in Write
        /\ rows \subseteq Row /\ nextId \in 1..MaxIds + 1
    BY DEF RowInv
  <2>2. /\ write.owner \in Owners /\ write.key \in Keys
        /\ write.value \in Values \cup {None}
    BY <2>1 DEF Write
  <2>3. None \notin Values /\ MaxIds \in Nat
    BY DEF Supposed
  <2> QED BY <2>1, <2>2, <2>3
<1>1. CASE RequestSetting(w)
  <2>0. PICK o \in Owners, k \in WrittenKeys :
          \E v \in (Accepted(k) \cap WrittenValues) \cup {None} :
               writes' = [writes EXCEPT ![w] = [pc |-> "find", owner |-> o, key |-> k,
                                                value |-> v, id |-> 0]]
    BY <1>1 DEF RequestSetting
  <2>1. PICK v \in (Accepted(k) \cap WrittenValues) \cup {None} :
               writes' = [writes EXCEPT ![w] = [pc |-> "find", owner |-> o, key |-> k,
                                                value |-> v, id |-> 0]]
    BY <2>0
  <2>2. k \in Keys /\ v \in Values \cup {None}
    BY DEF Supposed
  <2>3. [pc |-> "find", owner |-> o, key |-> k, value |-> v, id |-> 0] \in Write
    BY <2>2, <1>0 DEF Write
  <2>4. writes' \in [Writers -> Write]
    BY <2>1, <2>3, <1>0
  <2>5. ValueInv'
    BY <2>1, <1>0 DEF ValueInv
  <2> QED BY <1>1, <2>4, <2>5 DEF RequestSetting, RowInv, OneRow
<1>2. CASE UpsertUserConfig(w)
  <2>1. writes' = [writes EXCEPT ![w].pc = "done"] /\ nextId <= MaxIds /\ write.value # None
    BY <1>2 DEF UpsertUserConfig, Finish
  <2>2. writes' \in [Writers -> Write] /\ ValueInv' /\ write.value \in Values
    BY <2>1, <1>0, Ended DEF ValueInv
  <2> DEFINE old == Of(write.owner, write.key)
  <2>3. CASE old # {}
    <3>1. rows' = {IF r \in old THEN [r EXCEPT !.value = write.value] ELSE r : r \in rows}
          /\ nextId' = nextId
      BY <1>2, <2>3 DEF UpsertUserConfig
    <3>2. old \in SUBSET rows
      BY DEF Of
    <3> HIDE DEF old
    <3> QED BY <3>1, <3>2, <2>2, Overwritten DEF RowInv
  <2>4. CASE old = {}
    <3>1. rows' = rows \cup {[id |-> nextId, owner |-> write.owner, key |-> write.key,
                              value |-> write.value]} /\ nextId' = nextId + 1
      BY <1>2, <2>4 DEF UpsertUserConfig
    <3> QED BY <3>1, <2>1, <2>2, <2>4, <1>0, Added DEF RowInv
  <2> QED BY <2>3, <2>4
<1>3. CASE FindConfig(w)
  <2>1. UNCHANGED <<rows, nextId>>
    BY <1>3 DEF FindConfig
  <2>2. PICK x \in {"update", "delete", "create", "failed"}, i \in 0..MaxIds :
          /\ \/ writes' = [writes EXCEPT ![w].pc = x, ![w].id = i]
             \/ writes' = [writes EXCEPT ![w].pc = x]
          /\ x \in {"update", "create"} => write.value # None
          /\ x = "create" => write.owner = "system"
    <3>1. \A r \in Of(write.owner, write.key) : r.id \in 0..MaxIds
      BY <1>0 DEF Of, Row
    <3> QED BY <1>3, <3>1, <1>0 DEF FindConfig, Finish
  <2>3. writes' \in [Writers -> Write]
    <3>1. x \in {"new", "find", "update", "create", "delete", "done", "failed"}
      OBVIOUS
    <3>2. [writes EXCEPT ![w].pc = x] \in [Writers -> Write]
          /\ [writes EXCEPT ![w].pc = x, ![w].id = i] \in [Writers -> Write]
      <4>1. writes \in [Writers -> Write]
        BY <1>0
      <4> QED BY <3>1, <4>1, WriteTypes
    <3> QED BY <2>2, <3>2
  <2>4. ValueInv'
    BY <2>2, <1>0 DEF ValueInv, Write
  <2> QED BY <2>1, <2>3, <2>4 DEF RowInv, OneRow
<1>4. CASE CreateConfig(w)
  <2>1. /\ writes' = [writes EXCEPT ![w].pc = "done"] /\ nextId <= MaxIds /\ nextId' = nextId + 1
        /\ rows' = rows \cup {[id |-> nextId, owner |-> write.owner, key |-> write.key,
                               value |-> write.value]}
        /\ Of(write.owner, write.key) = {} /\ write.pc = "create"
    BY <1>4 DEF CreateConfig, Finish, Unique
  <2>2. writes' \in [Writers -> Write] /\ ValueInv' /\ write.value \in Values
    BY <2>1, <1>0, Ended DEF ValueInv
  <2> QED BY <2>1, <2>2, <1>0, Added DEF RowInv
<1>5. CASE UpdateConfig(w)
  <2>1. /\ writes' = [writes EXCEPT ![w].pc = "done"] /\ nextId' = nextId
        /\ rows' = {IF r.id = write.id THEN [r EXCEPT !.value = write.value] ELSE r : r \in rows}
        /\ write.pc = "update"
    BY <1>5 DEF UpdateConfig, Finish
  <2>2. writes' \in [Writers -> Write] /\ ValueInv' /\ write.value \in Values
    BY <2>1, <1>0, Ended DEF ValueInv
  <2>3. PICK S \in SUBSET rows : S = {r \in rows : r.id = write.id}
    OBVIOUS
  <2>4. rows' = {IF r \in S THEN [r EXCEPT !.value = write.value] ELSE r : r \in rows}
    BY <2>1, <2>3
  <2> QED BY <2>1, <2>2, <2>4, Overwritten DEF RowInv
<1>6. CASE DeleteConfig(w)
  <2>1. writes' = [writes EXCEPT ![w].pc = "done"] /\ nextId' = nextId /\ rows' \subseteq rows
    BY <1>6 DEF DeleteConfig, Finish
  <2>2. writes' \in [Writers -> Write] /\ ValueInv'
    BY <2>1, <1>0, Ended DEF ValueInv
  <2> QED BY <2>1, <2>2, <1>0 DEF RowInv, OneRow
<1>7. CASE CreateConflict(w) \/ RowGone(w)
  <2>1. writes' = [writes EXCEPT ![w].pc = "failed"] /\ UNCHANGED <<rows, nextId>>
    BY <1>7 DEF CreateConflict, RowGone, Finish
  <2>2. writes' \in [Writers -> Write] /\ ValueInv'
    BY <2>1, <1>0, Ended DEF ValueInv
  <2> QED BY <2>1, <2>2 DEF RowInv, OneRow
<1> QED BY <1>1, <1>2, <1>3, <1>4, <1>5, <1>6, <1>7 DEF WriteStep

-----------------------------------------------------------------------------
(* The walk over the keys. *)

\* The value that a user's or the system's row, or neither, gives a key.
LEMMA OneValue ==
  ASSUME OneRow, NEW o, NEW k, NEW r \in Of(o, k)
  PROVE  {q.value : q \in Of(o, k)} = {r.value}
<1>1. \A q \in Of(o, k) : q = r
  BY DEF OneRow, Of
<1> QED BY <1>1

LEMMA ChosenOne ==
  ASSUME NEW u, NEW k, NEW G
  PROVE  Chosen(u, <<k>>, G) = IF Effective(u, k) \cap G # {} THEN Effective(u, k) ELSE {}
<1> DEFINE keys == <<k>>
           hits == {i \in DOMAIN keys : Effective(u, keys[i]) \cap G # {}}
<1>1. DOMAIN keys = {1} /\ keys[1] = k
  OBVIOUS
<1>2. hits = IF Effective(u, k) \cap G # {} THEN {1} ELSE {}
  BY <1>1
<1>3. (CHOOSE i \in {1} : \A j \in {1} : i <= j) = 1
  OBVIOUS
<1> QED BY <1>1, <1>2, <1>3 DEF Chosen

LEMMA ChosenOfTwo ==
  ASSUME NEW u, NEW k, NEW l, NEW G
  PROVE  Chosen(u, <<k, l>>, G) =
            IF Effective(u, k) \cap G # {} THEN Effective(u, k)
            ELSE IF Effective(u, l) \cap G # {} THEN Effective(u, l) ELSE {}
<1> DEFINE keys == <<k, l>>
           hits == {i \in DOMAIN keys : Effective(u, keys[i]) \cap G # {}}
<1>1. DOMAIN keys = {1, 2} /\ keys[1] = k /\ keys[2] = l
  OBVIOUS
<1>2. CASE Effective(u, k) \cap G # {}
  <2>1. 1 \in hits /\ hits \subseteq {1, 2}
    BY <1>1, <1>2
  <2>2. (CHOOSE i \in hits : \A j \in hits : i <= j) = 1
    <3> HIDE DEF hits
    <3>1. \A i \in hits : (\A j \in hits : i <= j) <=> i = 1
      BY <2>1
    <3> QED BY <2>1, <3>1
  <2> QED BY <1>1, <1>2, <2>1, <2>2 DEF Chosen
<1>3. CASE Effective(u, k) \cap G = {} /\ Effective(u, l) \cap G # {}
  <2>1. hits = {2}
    BY <1>1, <1>3
  <2>2. (CHOOSE i \in {2} : \A j \in {2} : i <= j) = 2
    OBVIOUS
  <2> QED BY <1>1, <1>3, <2>1, <2>2 DEF Chosen
<1>4. CASE Effective(u, k) \cap G = {} /\ Effective(u, l) \cap G = {}
  <2>1. hits = {}
    BY <1>1, <1>4
  <2> QED BY <1>4, <2>1 DEF Chosen
<1> QED BY <1>2, <1>3, <1>4

\* The orders of the code have a key or two, and the first that will do decides.
IsOrder(order) == (\E k \in Keys : order = <<k>>)
                  \/ (\E k, l \in Keys : order = <<k, l>>)
First(user, order, good) ==
    IF Effective(user, order[1]) \cap good # {} THEN Effective(user, order[1])
    ELSE IF Len(order) = 2 /\ Effective(user, order[2]) \cap good # {}
    THEN Effective(user, order[2]) ELSE {}

LEMMA ChosenIsFirst ==
  ASSUME NEW u, NEW order, IsOrder(order), NEW G
  PROVE  Chosen(u, order, G) = First(u, order, G)
<1>1. ASSUME NEW k \in Keys, order = <<k>> PROVE Chosen(u, order, G) = First(u, order, G)
  <2>1. Len(order) = 1 /\ order[1] = k
    BY <1>1
  <2> QED BY <1>1, <2>1, ChosenOne DEF First
<1>2. ASSUME NEW k \in Keys, NEW l \in Keys, order = <<k, l>>
      PROVE  Chosen(u, order, G) = First(u, order, G)
  <2>1. Len(order) = 2 /\ order[1] = k /\ order[2] = l
    BY <1>2
  <2> QED BY <1>2, <2>1, ChosenOfTwo DEF First
<1> QED BY <1>1, <1>2 DEF IsOrder

\* A call on its way along the keys has passed by nothing that would do.
Walking(user, order, good, keys, own) ==
    /\ \/ keys = order
       \/ Len(order) = 2 /\ keys = <<order[2]>> /\ Effective(user, order[1]) \cap good = {}
    /\ own => user # None
    /\ ~own /\ user # None => Of(user, Head(keys)) = {}

LEMMA WalkBegins ==
  ASSUME NEW user, NEW order, NEW good, NEW own, own <=> user # None
  PROVE  Walking(user, order, good, order, own)
BY DEF Walking

\* The value read is what the user's view gives the key; None when there is none.
Reads(user, key, v) == Effective(user, key) = {v} \/ (Effective(user, key) = {} /\ v = None)

LEMMA WalkEnds ==
  ASSUME NEW user, NEW order, IsOrder(order), NEW good, NEW keys, NEW own, NEW v, None \notin good,
         Walking(user, order, good, keys, own), Reads(user, Head(keys), v)
  PROVE  /\ v \in good => v \in First(user, order, good)
         /\ v \notin good /\ ~(Len(keys) > 1) => First(user, order, good) = {}
         /\ v \notin good /\ Len(keys) > 1 =>
               \A o \in BOOLEAN : o = (user # None) => Walking(user, order, good, Tail(keys), o)
<1>0. /\ v \in good => Effective(user, Head(keys)) = {v}
      /\ v \notin good => Effective(user, Head(keys)) \cap good = {}
  BY DEF Reads
<1>1. ASSUME NEW k \in Keys, order = <<k>>
      PROVE  /\ v \in good => v \in First(user, order, good)
             /\ v \notin good => First(user, order, good) = {} /\ ~(Len(keys) > 1)
  <2>1. keys = <<k>> /\ Head(keys) = k /\ Len(keys) = 1
    BY <1>1 DEF Walking
  <2> QED BY <1>0, <1>1, <2>1 DEF First
<1>2. ASSUME NEW k \in Keys, NEW l \in Keys, order = <<k, l>>
      PROVE  /\ v \in good => v \in First(user, order, good)
             /\ v \notin good /\ ~(Len(keys) > 1) => First(user, order, good) = {}
             /\ v \notin good /\ Len(keys) > 1 =>
                   \A o \in BOOLEAN : o = (user # None) => Walking(user, order, good, Tail(keys), o)
  <2>0. Len(order) = 2 /\ order[1] = k /\ order[2] = l
    BY <1>2
  <2>1. CASE keys = order
    <3>1. Head(keys) = k /\ Len(keys) = 2 /\ Tail(keys) = <<l>>
      BY <1>2, <2>1
    <3> QED BY <1>0, <1>2, <2>0, <3>1 DEF Walking, First
  <2>2. CASE keys = <<l>> /\ Effective(user, k) \cap good = {}
    <3>1. Head(keys) = l /\ Len(keys) = 1
      BY <2>2
    <3> QED BY <1>0, <1>2, <2>2, <3>1 DEF First
  <2> QED BY <2>0, <2>1, <2>2 DEF Walking
<1> QED BY <1>1, <1>2 DEF IsOrder

-----------------------------------------------------------------------------
(* The calls. *)

ProviderNamed(call) ==
    LET named == First(call.user, ProviderOrder(call.kind), Providers)
    IN  IF named = {} THEN {"gemini"} ELSE named
ModelNamed(call) ==
    LET model == First(ModelUser(call.kind, call.user),
                       ModelOrder(call.provider, call.kind), Models)
    IN  IF model = {} THEN DefaultModels[<<call.provider, call.kind>>]
        ELSE {Normal(call.provider, call.kind, m) : m \in model}

\* What is true of a call on its way, and at its end, if no setting changed meanwhile.
CallOK(call) ==
    /\ call.pc = "provider" =>
          Walking(call.user, ProviderOrder(call.kind), Providers, call.keys, call.own)
    /\ call.pc = "model" =>
          /\ Walking(ModelUser(call.kind, call.user),
                     ModelOrder(call.provider, call.kind), Models, call.keys, call.own)
          /\ call.provider \in Configured
    /\ call.pc \in {"model", "api", "answered", "failed"} => call.provider \in ProviderNamed(call)
    /\ call.pc \in {"api", "answered", "failed"} =>
          /\ call.provider \notin Configured <=> call.tried = <<>>
          /\ call.tried # <<>> => call.tried[1] \in ModelNamed(call)

\* A call that got past the provider has one, and one that got past the model has tried it.
Progress(call) ==
    /\ call.pc \in {"model", "api", "answered", "failed"} => call.provider \in Providers
    /\ call.pc \in {"new", "provider", "model"} => call.tried = <<>>
    /\ call.pc \in {"model", "api"} => call.provider \in Configured
    /\ call.pc = "api" => call.tried # <<>>
    /\ call.pc \in {"provider", "model"} => call.keys # <<>>

\* A transcription is asked of one model, or of another and then of the default.
TriesOK(call) == \/ Len(call.tried) \in {0, 1}
                 \/ Len(call.tried) = 2 /\ call.tried[1] # call.tried[2]

CallInv(call) == /\ call \in Call
                 /\ Progress(call)
                 /\ TriesOK(call)
                 /\ ~call.disturbed => CallOK(call)
CallsInv == calls \in [Calls -> Call] /\ \A c \in Calls : CallInv(calls[c])

LEMMA OrderFacts ==
  ASSUME NEW k \in AllKinds, NEW p \in Providers
  PROVE  /\ IsOrder(ProviderOrder(k)) /\ IsOrder(ModelOrder(p, k))
         /\ ProviderOrder(k) \in Seq(Keys) \ {<<>>}
         /\ ModelOrder(p, k) \in Seq(Keys) \ {<<>>}
<1>1. IsOrder(ProviderOrder(k))
  BY DEF IsOrder, ProviderOrder, Keys, ProviderKeys, AllKinds
<1>2. IsOrder(ModelOrder(p, k))
  <2>1. CASE k = "audio" /\ p \in {"cloudflare", "omniroute"}
    <3>1. ModelOrder(p, k) = <<"ai.audio.model">>
      BY <2>1 DEF ModelOrder
    <3> QED BY <3>1 DEF IsOrder, Keys, ProviderKeys
  <2>2. CASE k = "audio" /\ p \notin {"cloudflare", "omniroute"}
    <3>1. ModelOrder(p, k) = <<"ai.audio.model", "ai.model">>
      BY <2>2 DEF ModelOrder
    <3> QED BY <3>1 DEF IsOrder, Keys, ProviderKeys
  <2>3. CASE k # "audio" /\ p = "cloudflare"
    <3>1. ModelOrder(p, k) = <<"ai.chat.model">>
      BY <2>3 DEF ModelOrder
    <3> QED BY <3>1 DEF IsOrder, Keys, ProviderKeys
  <2>4. CASE k # "audio" /\ p # "cloudflare"
    <3>1. ModelOrder(p, k) = <<"ai.model">>
      BY <2>4 DEF ModelOrder
    <3> QED BY <3>1 DEF IsOrder, Keys, ProviderKeys
  <2> QED BY <2>1, <2>2, <2>3, <2>4
<1>3. \A q : IsOrder(q) => q \in Seq(Keys) \ {<<>>}
  <2> SUFFICES ASSUME NEW q, IsOrder(q) PROVE q \in Seq(Keys) \ {<<>>}
    OBVIOUS
  <2>1. ASSUME NEW a \in Keys, q = <<a>> PROVE q \in Seq(Keys) \ {<<>>}
    BY <2>1
  <2>2. ASSUME NEW a \in Keys, NEW b \in Keys, q = <<a, b>>
        PROVE  q \in Seq(Keys) \ {<<>>}
    BY <2>2
  <2> QED BY <2>1, <2>2 DEF IsOrder
<1> QED BY <1>1, <1>2, <1>3

\* The invariant of a call is about the rows only while it is undisturbed.
LEMMA RowsKept ==
  ASSUME rows' = rows, NEW c \in Calls, NEW call, calls'[c] = call, CallInv(call)
  PROVE  CallInv(calls[c])'
<1>1. \A o, k : Of(o, k)' = Of(o, k)
  BY DEF Of
<1>2. \A u, k : Effective(u, k)' = Effective(u, k)
  BY DEF Effective, Of
<1>3. \A u, q, G : First(u, q, G)' = First(u, q, G)
  BY <1>2 DEF First
<1>4. ProviderNamed(calls[c])' = ProviderNamed(call) /\ ModelNamed(calls[c])' = ModelNamed(call)
  BY <1>3 DEF ProviderNamed, ModelNamed
<1>5. \A u, q, G, keys, own : Walking(u, q, G, keys, own)' = Walking(u, q, G, keys, own)
  BY <1>1, <1>2 DEF Walking
<1>6. CallOK(call) => CallOK(calls[c])'
  BY <1>4, <1>5 DEF CallOK
<1> QED BY <1>6 DEF CallInv, Progress, TriesOK

LEMMA WriteKeepsCalls ==
  ASSUME CallsInv, NEW w \in Writers, WriteStep(w) PROVE CallsInv'
<1>1. CASE UNCHANGED <<rows, calls>>
  BY <1>1, RowsKept DEF CallsInv
<1>2. CASE Disturb
  <2>1. calls' = [c \in Calls |-> [calls[c] EXCEPT !.disturbed = @ \/ calls[c].pc # "new"]]
    BY <1>2 DEF Disturb
  <2>2. ASSUME NEW c \in Calls PROVE calls'[c] \in Call /\ CallInv(calls[c])'
    <3>1. calls[c] \in Call /\ CallInv(calls[c])
      BY DEF CallsInv
    <3>2. calls'[c] = [calls[c] EXCEPT !.disturbed = @ \/ calls[c].pc # "new"]
      BY <2>1
    <3>3. CASE calls[c].pc = "new"
      <4>1. (calls[c].disturbed \/ calls[c].pc # "new") = calls[c].disturbed
        BY <3>1, <3>3 DEF Call
      <4>2. calls'[c] = calls[c]
        BY <3>1, <3>2, <4>1 DEF Call
      <4> QED BY <3>1, <3>3, <4>2 DEF CallInv, Progress, TriesOK, CallOK
    <3>4. CASE calls[c].pc # "new"
      <4>1. calls'[c] = [calls[c] EXCEPT !.disturbed = TRUE]
        BY <3>1, <3>2, <3>4 DEF Call
      <4>2. /\ calls'[c] \in Call /\ calls'[c].disturbed
            /\ calls'[c].pc = calls[c].pc /\ calls'[c].provider = calls[c].provider
            /\ calls'[c].tried = calls[c].tried /\ calls'[c].keys = calls[c].keys
        BY <3>1, <4>1 DEF Call
      <4> QED BY <3>1, <4>2 DEF CallInv, Progress, TriesOK
    <3> QED BY <3>3, <3>4
  <2> QED BY <2>1, <2>2 DEF CallsInv
<1> QED BY <1>1, <1>2
        DEF WriteStep, RequestSetting, UpsertUserConfig, FindConfig,
            CreateConfig, CreateConflict, UpdateConfig,
            DeleteConfig, RowGone
\* What a step makes of a call; the others are as they were.
Became(c, x, p, keys, own, tried) ==
    /\ calls' \in [Calls -> Call]
    /\ \A b \in Calls \ {c} : calls'[b] = calls[b]
    /\ calls'[c].pc = x /\ calls'[c].provider = p /\ calls'[c].keys = keys
    /\ calls'[c].own = own /\ calls'[c].tried = tried
    /\ calls'[c].kind = calls[c].kind /\ calls'[c].user = calls[c].user
    /\ calls'[c].disturbed = calls[c].disturbed

Phases == {"new", "provider", "model", "api", "answered", "failed"}

LEMMA CallStepped ==
  ASSUME CallsInv, rows' = rows, NEW c \in Calls, calls' \in [Calls -> Call],
         \A b \in Calls \ {c} : calls'[b] = calls[b], CallInv(calls'[c])
  PROVE  CallsInv'
<1>1. ASSUME NEW b \in Calls PROVE CallInv(calls[b])'
  <2>0. PICK d : d = calls'[c]
    OBVIOUS
  <2>1. CASE b = c
    BY <2>0, <2>1, RowsKept
  <2>2. CASE b # c
    <3>1. calls'[b] = calls[b] /\ CallInv(calls[b])
      BY <2>2 DEF CallsInv
    <3> QED BY <3>1, RowsKept
  <2> QED BY <2>1, <2>2
<1> QED BY <1>1 DEF CallsInv

LEMMA AlongBecame ==
  ASSUME calls \in [Calls -> Call], NEW c \in Calls, NEW x \in Phases,
         NEW p \in Providers \cup {None}, NEW keys \in Seq(Keys),
         NEW own \in BOOLEAN,
         calls' = [calls EXCEPT ![c].pc = x, ![c].provider = p, ![c].keys = keys, ![c].own = own]
  PROVE  Became(c, x, p, keys, own, calls[c].tried)
<1>1. calls[c] \in Call
  OBVIOUS
<1>2. calls'[c] = [[[[calls[c] EXCEPT !.pc = x] EXCEPT !.provider = p] EXCEPT !.keys = keys]
                   EXCEPT !.own = own]
  OBVIOUS
<1>3. /\ calls'[c] \in Call
      /\ calls'[c].pc = x /\ calls'[c].provider = p /\ calls'[c].keys = keys
      /\ calls'[c].own = own /\ calls'[c].tried = calls[c].tried
      /\ calls'[c].kind = calls[c].kind /\ calls'[c].user = calls[c].user
      /\ calls'[c].disturbed = calls[c].disturbed
  BY <1>1, <1>2 DEF Call, Phases
<1>4. calls' \in [Calls -> Call] /\ \A b \in Calls \ {c} : calls'[b] = calls[b]
  BY <1>3
<1> QED BY <1>3, <1>4 DEF Became

LEMMA RefusedBecame ==
  ASSUME calls \in [Calls -> Call], NEW c \in Calls, NEW x \in Phases,
         NEW p \in Providers \cup {None},
         calls' = [calls EXCEPT ![c].pc = x, ![c].provider = p]
  PROVE  Became(c, x, p, calls[c].keys, calls[c].own, calls[c].tried)
<1>1. calls[c] \in Call
  OBVIOUS
<1>2. calls'[c] = [[calls[c] EXCEPT !.pc = x] EXCEPT !.provider = p]
  OBVIOUS
<1>3. /\ calls'[c] \in Call
      /\ calls'[c].pc = x /\ calls'[c].provider = p /\ calls'[c].keys = calls[c].keys
      /\ calls'[c].own = calls[c].own /\ calls'[c].tried = calls[c].tried
      /\ calls'[c].kind = calls[c].kind /\ calls'[c].user = calls[c].user
      /\ calls'[c].disturbed = calls[c].disturbed
  BY <1>1, <1>2 DEF Call, Phases
<1>4. calls' \in [Calls -> Call] /\ \A b \in Calls \ {c} : calls'[b] = calls[b]
  BY <1>3
<1> QED BY <1>3, <1>4 DEF Became

LEMMA TriedBecame ==
  ASSUME calls \in [Calls -> Call], NEW c \in Calls, NEW x \in Phases,
         NEW tried \in Seq(Models),
         calls' = [calls EXCEPT ![c].pc = x, ![c].tried = tried]
  PROVE  Became(c, x, calls[c].provider, calls[c].keys, calls[c].own, tried)
<1>1. calls[c] \in Call
  OBVIOUS
<1>2. calls'[c] = [[calls[c] EXCEPT !.pc = x] EXCEPT !.tried = tried]
  OBVIOUS
<1>3. /\ calls'[c] \in Call
      /\ calls'[c].pc = x /\ calls'[c].provider = calls[c].provider
      /\ calls'[c].keys = calls[c].keys
      /\ calls'[c].own = calls[c].own /\ calls'[c].tried = tried
      /\ calls'[c].kind = calls[c].kind /\ calls'[c].user = calls[c].user
      /\ calls'[c].disturbed = calls[c].disturbed
  BY <1>1, <1>2 DEF Call, Phases
<1>4. calls' \in [Calls -> Call] /\ \A b \in Calls \ {c} : calls'[b] = calls[b]
  BY <1>3
<1> QED BY <1>3, <1>4 DEF Became

\* A single field.
LEMMA FieldBecame ==
  ASSUME calls \in [Calls -> Call], NEW c \in Calls
  PROVE  /\ \A x \in Phases : calls' = [calls EXCEPT ![c].pc = x] =>
               Became(c, x, calls[c].provider, calls[c].keys, calls[c].own, calls[c].tried)
         /\ calls' = [calls EXCEPT ![c].own = FALSE] =>
               Became(c, calls[c].pc, calls[c].provider, calls[c].keys, FALSE, calls[c].tried)
         /\ \A t \in Seq(Models) : calls' = [calls EXCEPT ![c].tried = t] =>
               Became(c, calls[c].pc, calls[c].provider, calls[c].keys, calls[c].own, t)
<1>1. calls[c] \in Call
  OBVIOUS
<1>2. ASSUME NEW x \in Phases, calls' = [calls EXCEPT ![c].pc = x]
      PROVE  Became(c, x, calls[c].provider, calls[c].keys, calls[c].own, calls[c].tried)
  <2>1. calls'[c] = [calls[c] EXCEPT !.pc = x]
    BY <1>2
  <2>2. [calls[c] EXCEPT !.pc = x] \in Call
    BY <1>1 DEF Call, Phases
  <2>3. calls' \in [Calls -> Call]
    BY <1>2, <2>2
  <2> QED BY <1>1, <1>2, <2>1, <2>3 DEF Became, Call
<1>3. ASSUME calls' = [calls EXCEPT ![c].own = FALSE]
      PROVE  Became(c, calls[c].pc, calls[c].provider, calls[c].keys, FALSE, calls[c].tried)
  <2>1. calls'[c] = [calls[c] EXCEPT !.own = FALSE]
    BY <1>3
  <2>2. [calls[c] EXCEPT !.own = FALSE] \in Call
    BY <1>1 DEF Call
  <2>3. calls' \in [Calls -> Call]
    BY <1>3, <2>2
  <2> QED BY <1>1, <1>3, <2>1, <2>3 DEF Became, Call
<1>4. ASSUME NEW t \in Seq(Models), calls' = [calls EXCEPT ![c].tried = t]
      PROVE  Became(c, calls[c].pc, calls[c].provider, calls[c].keys, calls[c].own, t)
  <2>1. calls'[c] = [calls[c] EXCEPT !.tried = t]
    BY <1>4
  <2>2. [calls[c] EXCEPT !.tried = t] \in Call
    BY <1>1 DEF Call
  <2>3. calls' \in [Calls -> Call]
    BY <1>4, <2>2
  <2> QED BY <1>1, <1>4, <2>1, <2>3 DEF Became, Call
<1> QED BY <1>2, <1>3, <1>4
LEMMA StartKeeps ==
  ASSUME Supposed, CallsInv, NEW c \in Calls, Start(c)
  PROVE  CallsInv'
<1> DEFINE call == calls[c]
           d == calls'[c]
<1>1. PICK kind \in CallKinds, user \in Users \cup {None} :
        calls' = [calls EXCEPT ![c] = [@ EXCEPT !.pc = "provider", !.kind = kind, !.user = user,
                                       !.keys = ProviderOrder(kind), !.own = user # None]]
  BY DEF Start
<1>2. call \in Call /\ call.pc = "new" /\ call.tried = <<>> /\ kind \in AllKinds
      /\ rows' = rows /\ calls \in [Calls -> Call]
  BY DEF Supposed, Start, CallsInv, CallInv, Progress
<1>3. ProviderOrder(kind) \in Seq(Keys) \ {<<>>}
  BY <1>2, OrderFacts DEF Supposed
<1>4. PICK keys, own : keys = ProviderOrder(kind) /\ own = (user # None)
                       /\ keys \in Seq(Keys) \ {<<>>} /\ own \in BOOLEAN
  BY <1>3
<1>5. d = [[[[[call EXCEPT !.pc = "provider"] EXCEPT !.kind = kind] EXCEPT !.user = user]
                   EXCEPT !.keys = keys] EXCEPT !.own = own]
  BY <1>1, <1>2, <1>4
<1>6. /\ d \in Call
      /\ d.pc = "provider" /\ d.tried = <<>> /\ d.kind = kind /\ d.user = user
      /\ d.keys = keys /\ d.own = own
  BY <1>2, <1>4, <1>5 DEF Call, AllKinds
<1>7. calls' \in [Calls -> Call] /\ \A b \in Calls \ {c} : calls'[b] = calls[b]
  BY <1>1, <1>2, <1>6
<1>8. CallInv(d)
  <2>1. Walking(user, ProviderOrder(kind), Providers, keys, own)
    BY <1>4, WalkBegins
  <2>2. Len(<<>>) = 0
    OBVIOUS
  <2> HIDE DEF d
  <2> QED BY <1>4, <1>6, <2>1, <2>2 DEF CallInv, Progress, TriesOK, CallOK
<1> QED BY <1>2, <1>7, <1>8, CallStepped
\* Whose row a call looks for.
Asker(call) == IF call.pc = "model" THEN ModelUser(call.kind, call.user) ELSE call.user

LEMMA EnterModelKeeps ==
  ASSUME Supposed, CallsInv, rows' = rows, NEW c \in Calls,
         calls[c].pc = "provider", NEW p \in Providers,
         ~calls[c].disturbed => p \in ProviderNamed(calls[c]), EnterModel(c, p)
  PROVE  CallsInv'
<1> DEFINE call == calls[c]
           d == calls'[c]
           order == ModelOrder(p, call.kind)
           asker == ModelUser(call.kind, call.user)
<1>1. /\ call \in Call /\ CallInv(call) /\ call.tried = <<>> /\ call.kind \in AllKinds
      /\ calls \in [Calls -> Call]
  BY DEF CallsInv, CallInv, Progress, Call, AllKinds
<1>2. order \in Seq(Keys) \ {<<>>} /\ (asker # None) \in BOOLEAN
  BY <1>1, OrderFacts
<1>3. CASE p \in Configured
  <2>0. PICK own : own = (asker # None) /\ own \in BOOLEAN
    BY <1>2
  <2>1. calls' = [calls EXCEPT ![c].pc = "model", ![c].provider = p, ![c].keys = order, ![c].own = own]
    BY <1>3, <2>0 DEF EnterModel, Lookup
  <2>2. "model" \in Phases /\ p \in Providers \cup {None} /\ order \in Seq(Keys)
    BY <1>2 DEF Phases
  <2>3. Became(c, "model", p, order, own, call.tried)
    <3> HIDE DEF order
    <3> QED BY <1>1, <2>0, <2>1, <2>2, AlongBecame
  <2>4. d \in Call /\ d.pc = "model" /\ d.provider = p /\ d.keys = order /\ d.own = own
        /\ d.tried = <<>> /\ d.kind = call.kind /\ d.user = call.user
        /\ d.disturbed = call.disturbed /\ calls' \in [Calls -> Call]
        /\ \A b \in Calls \ {c} : calls'[b] = calls[b]
    BY <1>1, <2>3 DEF Became
  <2>5. Walking(asker, order, Models, order, own)
    BY <2>0, WalkBegins
  <2>6. ~d.disturbed => d.provider \in ProviderNamed(d)
    BY <2>4 DEF ProviderNamed
  <2>7. CallInv(d)
    <3>0. Len(<<>>) = 0
      OBVIOUS
    <3> HIDE DEF d
    <3> QED BY <3>0, <1>2, <1>3, <2>4, <2>5, <2>6 DEF CallInv, Progress, TriesOK, CallOK
  <2> QED BY <2>4, <2>7, CallStepped
<1>4. CASE p \notin Configured
  <2>1. calls' = [calls EXCEPT ![c].pc = "failed", ![c].provider = p]
    BY <1>4 DEF EnterModel
  <2>2. Became(c, "failed", p, call.keys, call.own, call.tried)
    BY <1>1, <2>1, RefusedBecame DEF Phases
  <2>3. d \in Call /\ d.pc = "failed" /\ d.provider = p
        /\ d.tried = <<>> /\ d.kind = call.kind /\ d.user = call.user
        /\ d.disturbed = call.disturbed /\ calls' \in [Calls -> Call]
        /\ \A b \in Calls \ {c} : calls'[b] = calls[b]
    BY <1>1, <2>2 DEF Became
  <2>4. ~d.disturbed => d.provider \in ProviderNamed(d)
    BY <2>3 DEF ProviderNamed
  <2>5. CallInv(d)
    <3>0. Len(<<>>) = 0
      OBVIOUS
    <3> HIDE DEF d
    <3> QED BY <3>0, <1>4, <2>3, <2>4 DEF CallInv, Progress, TriesOK, CallOK
  <2> QED BY <2>3, <2>5, CallStepped
<1> QED BY <1>3, <1>4

LEMMA UseKeeps ==
  ASSUME CallsInv, rows' = rows, NEW c \in Calls, calls[c].pc = "model", NEW m \in Models,
         ~calls[c].disturbed => m \in ModelNamed(calls[c]), Use(c, m)
  PROVE  CallsInv'
<1> DEFINE call == calls[c]
           d == calls'[c]
<1>1. /\ call \in Call /\ CallInv(call) /\ calls \in [Calls -> Call]
      /\ call.provider \in Providers /\ call.provider \in Configured
      /\ ~call.disturbed => call.provider \in ProviderNamed(call)
  BY DEF CallsInv, CallInv, Progress, CallOK
<1>2. PICK tried \in Seq(Models) : tried = <<m>> /\ Len(tried) = 1 /\ tried[1] = m /\ tried # <<>>
  <2>1. <<m>> \in Seq(Models) /\ Len(<<m>>) = 1 /\ <<m>>[1] = m
    OBVIOUS
  <2>2. Len(<<>>) = 0
    OBVIOUS
  <2> QED BY <2>1, <2>2
<1>3. calls' = [calls EXCEPT ![c].pc = "api", ![c].tried = tried]
  BY <1>2 DEF Use
<1>4. Became(c, "api", call.provider, call.keys, call.own, tried)
  BY <1>1, <1>3, TriedBecame DEF Phases
<1>5. d \in Call /\ d.pc = "api" /\ d.provider = call.provider
      /\ d.tried = tried /\ d.kind = call.kind /\ d.user = call.user
      /\ d.disturbed = call.disturbed /\ calls' \in [Calls -> Call]
      /\ \A b \in Calls \ {c} : calls'[b] = calls[b]
  BY <1>4 DEF Became
<1>6. ~d.disturbed => d.provider \in ProviderNamed(d) /\ m \in ModelNamed(d)
  BY <1>1, <1>5 DEF ProviderNamed, ModelNamed
<1>7. CallInv(d)
  <2> HIDE DEF d
  <2> QED BY <1>1, <1>2, <1>5, <1>6 DEF CallInv, Progress, TriesOK, CallOK
<1> QED BY <1>5, <1>7, CallStepped

\* A call is on its way along its keys: those of its provider, or of its model.
OnWay(call, keys, own) ==
    /\ call.pc = "provider" =>
          Walking(call.user, ProviderOrder(call.kind), Providers, keys, own)
    /\ call.pc = "model" =>
          Walking(ModelUser(call.kind, call.user),
                  ModelOrder(call.provider, call.kind), Models, keys, own)

LEMMA NotEmpty ==
  ASSUME NEW K, NEW keys \in Seq(K), Len(keys) > 0
  PROVE  keys # <<>>
OBVIOUS

LEMMA RestOfKeys ==
  ASSUME NEW K, NEW keys \in Seq(K), Len(keys) > 1
  PROVE  Tail(keys) \in Seq(K) /\ Tail(keys) # <<>>
<1>1. Tail(keys) \in Seq(K)
  OBVIOUS
<1>2. Len(Tail(keys)) > 0
  OBVIOUS
<1>3. Tail(keys) # <<>>
  BY <1>1, <1>2, NotEmpty
<1> QED BY <1>1, <1>3

LEMMA KeysKeep ==
  ASSUME CallsInv, rows' = rows, NEW c \in Calls,
         calls[c].pc \in {"provider", "model"}, NEW keys \in Seq(Keys), keys # <<>>,
         NEW own \in BOOLEAN, ~calls[c].disturbed => OnWay(calls[c], keys, own),
         Became(c, calls[c].pc, calls[c].provider, keys, own, calls[c].tried)
  PROVE  CallsInv'
<1> DEFINE call == calls[c]
           d == calls'[c]
<1>1. call \in Call /\ CallInv(call)
  BY DEF CallsInv
<1>2. d \in Call /\ d.pc = call.pc /\ d.provider = call.provider
      /\ d.keys = keys /\ d.own = own
      /\ d.tried = call.tried /\ d.kind = call.kind /\ d.user = call.user
      /\ d.disturbed = call.disturbed /\ calls' \in [Calls -> Call]
      /\ \A b \in Calls \ {c} : calls'[b] = calls[b]
  BY DEF Became
<1>3. CallInv(d)
  <2>1. ~d.disturbed /\ d.pc = "model" => d.provider \in ProviderNamed(d) /\ d.provider \in Configured
    BY <1>1, <1>2 DEF ProviderNamed, CallInv, CallOK
  <2>2. Progress(d) /\ TriesOK(d)
    BY <1>1, <1>2 DEF CallInv, Progress, TriesOK
  <2>3. ~d.disturbed => CallOK(d)
    <3> HIDE DEF d
    <3> QED BY <1>2, <2>1 DEF CallOK, OnWay
  <2> QED BY <1>2, <2>2, <2>3 DEF CallInv
<1> QED BY <1>2, <1>3, CallStepped

LEMMA NormalModel ==
  ASSUME Supposed, NEW p, NEW k, NEW m \in Models
  PROVE  Normal(p, k, m) \in Models
<1>1. PICK n \in Models : DefaultModels[<<"omniroute", "audio">>] = {n}
  BY DEF Supposed
<1>2. (CHOOSE a \in {n} : TRUE) = n
  OBVIOUS
<1> QED BY <1>1, <1>2 DEF Normal

\* A value read, good or not, or none, moves the call on along its keys.
LEMMA FoundKeeps ==
  ASSUME Supposed, CallsInv, rows' = rows, NEW c \in Calls,
         calls[c].pc \in {"provider", "model"}, NEW v,
         ~calls[c].disturbed => Reads(Asker(calls[c]), Head(calls[c].keys), v),
         Found(c, v)
  PROVE  CallsInv'
<1> DEFINE call == calls[c]
           porder == ProviderOrder(call.kind)
           morder == ModelOrder(call.provider, call.kind)
           masker == ModelUser(call.kind, call.user)
           more == Len(call.keys) > 1
<1>1. /\ call \in Call /\ CallInv(call) /\ calls \in [Calls -> Call]
      /\ call.keys \in Seq(Keys) /\ call.kind \in AllKinds
      /\ call.pc = "model" => call.provider \in Providers
      /\ ~call.disturbed => CallOK(call)
      /\ call.provider \in Providers \cup {None} /\ call.pc \in Phases
  BY DEF CallsInv, CallInv, Progress, Call, AllKinds, Phases
<1>2. None \notin Providers /\ None \notin Models /\ "gemini" \in Providers
  BY DEF Supposed
<1>3. ASSUME ~call.disturbed, call.pc = "provider"
      PROVE  /\ v \in Providers => v \in First(call.user, porder, Providers)
             /\ v \notin Providers /\ ~more =>
                   First(call.user, porder, Providers) = {}
             /\ v \notin Providers /\ more =>
                   \A o \in BOOLEAN : o = (call.user # None) =>
                      Walking(call.user, porder, Providers, Tail(call.keys), o)
  <2>1. IsOrder(porder)
    BY <1>1, <1>2, OrderFacts
  <2>2. Walking(call.user, porder, Providers, call.keys, call.own)
    BY <1>1, <1>3 DEF CallOK
  <2>3. Reads(call.user, Head(call.keys), v)
    BY <1>3 DEF Asker
  <2> DEFINE good == Providers
             keys == call.keys
             user == call.user
             own == call.own
  <2>4. None \notin good /\ IsOrder(porder) /\ Walking(user, porder, good, keys, own)
        /\ Reads(user, Head(keys), v)
    BY <1>2, <2>1, <2>2, <2>3
  <2> HIDE DEF porder, good, keys, user, own
  <2>5. /\ v \in good => v \in First(user, porder, good)
        /\ v \notin good /\ ~(Len(keys) > 1) => First(user, porder, good) = {}
        /\ v \notin good /\ Len(keys) > 1 =>
              \A o \in BOOLEAN : o = (user # None) => Walking(user, porder, good, Tail(keys), o)
    BY <2>4, WalkEnds
  <2> QED BY <2>5 DEF good, keys, user
<1>4. ASSUME ~call.disturbed, call.pc = "model"
      PROVE  /\ v \in Models => v \in First(masker, morder, Models)
             /\ v \notin Models /\ ~more => First(masker, morder, Models) = {}
             /\ v \notin Models /\ more =>
                   \A o \in BOOLEAN : o = (masker # None) =>
                      Walking(masker, morder, Models, Tail(call.keys), o)
  <2>1. IsOrder(morder)
    BY <1>1, <1>4, OrderFacts
  <2>2. Walking(masker, morder, Models, call.keys, call.own)
    BY <1>1, <1>4 DEF CallOK
  <2>3. Reads(masker, Head(call.keys), v)
    BY <1>4 DEF Asker
  <2> DEFINE keys == call.keys
             own == call.own
  <2>4. None \notin Models /\ IsOrder(morder) /\ Walking(masker, morder, Models, keys, own)
        /\ Reads(masker, Head(keys), v)
    BY <1>2, <2>1, <2>2, <2>3
  <2> HIDE DEF morder, masker, keys, own
  <2>5. /\ v \in Models => v \in First(masker, morder, Models)
        /\ v \notin Models /\ ~(Len(keys) > 1) => First(masker, morder, Models) = {}
        /\ v \notin Models /\ Len(keys) > 1 =>
              \A o \in BOOLEAN : o = (masker # None) => Walking(masker, morder, Models, Tail(keys), o)
    BY <2>4, WalkEnds
  <2> QED BY <2>5 DEF keys
<1>5. CASE call.pc = "provider" /\ v \in Providers /\ EnterModel(c, v)
  <2>1. ~call.disturbed => v \in ProviderNamed(call)
    BY <1>3, <1>5 DEF ProviderNamed
  <2> QED BY <1>5, <2>1, EnterModelKeeps
<1>6. CASE /\ call.pc = "provider" /\ v \notin Providers /\ ~more
           /\ EnterModel(c, "gemini")
  <2>1. ~call.disturbed => "gemini" \in ProviderNamed(call)
    BY <1>3, <1>6 DEF ProviderNamed
  <2> QED BY <1>2, <1>6, <2>1, EnterModelKeeps
<1>7. CASE /\ call.pc = "model" /\ v \in Models
           /\ Use(c, Normal(call.provider, call.kind, v))
  <2>1. ~call.disturbed => Normal(call.provider, call.kind, v) \in ModelNamed(call)
    BY <1>4, <1>7 DEF ModelNamed
  <2>2. Normal(call.provider, call.kind, v) \in Models
    BY <1>7, NormalModel
  <2> QED BY <1>7, <2>1, <2>2, UseKeeps
<1>8. CASE /\ call.pc = "model" /\ v \notin Models /\ ~more
           /\ \E m \in DefaultModels[<<call.provider, call.kind>>] : Use(c, m)
  <2>1. PICK m \in DefaultModels[<<call.provider, call.kind>>] : Use(c, m)
    BY <1>8
  <2>2. ~call.disturbed => m \in ModelNamed(call)
    BY <1>4, <1>8 DEF ModelNamed
  <2>3. m \in Models
    BY <1>1, <1>8 DEF Supposed
  <2> QED BY <1>8, <2>1, <2>2, <2>3, UseKeeps
<1>9. CASE /\ v \notin (IF call.pc = "provider" THEN Providers ELSE Models) /\ more
           /\ Lookup(c, call.pc, call.provider, Tail(call.keys),
                              IF call.pc = "model" THEN masker ELSE call.user)
  <2>1. PICK own : own \in BOOLEAN /\ own = (Asker(call) # None)
    OBVIOUS
  <2>2. PICK rest \in Seq(Keys) : rest = Tail(call.keys) /\ rest # <<>>
    BY <1>1, <1>9, RestOfKeys
  <2>3. PICK x \in Phases, p \in Providers \cup {None} : x = call.pc /\ p = call.provider
    BY <1>1
  <2>4. calls' = [calls EXCEPT ![c].pc = x, ![c].provider = p, ![c].keys = rest, ![c].own = own]
    BY <1>9, <2>1, <2>2, <2>3 DEF Lookup, Asker
  <2>6. ~call.disturbed => OnWay(call, rest, own)
    <3>1. ~call.disturbed /\ call.pc = "provider" =>
             Walking(call.user, porder, Providers, rest, own)
      BY <1>3, <1>9, <2>1, <2>2 DEF Asker
    <3>2. ~call.disturbed /\ call.pc = "model" => Walking(masker, morder, Models, rest, own)
      BY <1>4, <1>9, <2>1, <2>2 DEF Asker
    <3> QED BY <3>1, <3>2 DEF OnWay
  <2>7. x \in Phases /\ p \in Providers \cup {None} /\ rest \in Seq(Keys)
        /\ own \in BOOLEAN /\ rest # <<>> /\ x = calls[c].pc /\ p = calls[c].provider
        /\ (~calls[c].disturbed => OnWay(calls[c], rest, own))
    BY <2>1, <2>2, <2>3, <2>6
  <2>8. Became(c, x, p, rest, own, calls[c].tried)
    BY <1>1, <2>4, <2>7, AlongBecame
  <2> QED BY <2>7, <2>8, KeysKeep
<1> QED BY <1>5, <1>6, <1>7, <1>8, <1>9 DEF Found
\* At the head of its keys a call that nothing disturbed sees what the reference sees.
LEMMA HeadReads ==
  ASSUME OneRow, CallsInv, NEW c \in Calls, calls[c].pc \in {"provider", "model"},
         ~calls[c].disturbed
  PROVE  LET call == calls[c]
             key == Head(call.keys) IN
         /\ call.own => /\ Asker(call) = call.user
                        /\ \A r \in Of(call.user, key) : Reads(Asker(call), key, r.value)
         /\ ~call.own =>
               /\ \A r \in Of("system", key) : Reads(Asker(call), key, r.value)
               /\ Of("system", key) = {} => Reads(Asker(call), key, None)
<1> DEFINE call == calls[c]
           key == Head(call.keys)
           asker == Asker(call)
<1>1. CallOK(call) /\ call.own \in BOOLEAN
  BY DEF CallsInv, CallInv, Call
<1>2. /\ call.own => asker # None
      /\ ~call.own /\ asker # None => Of(asker, key) = {}
  BY <1>1 DEF CallOK, Walking, Asker
<1>3. CASE call.own
  <2>1. asker = call.user /\ call.user # None
    BY <1>2, <1>3 DEF Asker, ModelUser
  <2>2. ASSUME NEW r \in Of(call.user, key) PROVE Reads(asker, key, r.value)
    <3>1. PICK S : S = {q.value : q \in Of(call.user, key)} /\ S = {r.value}
      BY <2>2, OneValue
    <3>2. Effective(asker, key) = S
      BY <2>1, <2>2, <3>1 DEF Effective
    <3>3. S = {r.value}
      BY <3>1
    <3> HIDE DEF asker, key
    <3> QED BY <3>2, <3>3 DEF Reads
  <2> QED BY <1>3, <2>1, <2>2
<1>4. CASE ~call.own
  <2>1. PICK S : S = {q.value : q \in Of("system", key)} /\ Effective(asker, key) = S
    BY <1>2, <1>4 DEF Effective
  <2>2. ASSUME NEW r \in Of("system", key) PROVE Reads(asker, key, r.value)
    <3>1. S = {r.value}
      BY <2>1, <2>2, OneValue
    <3>2. Effective(asker, key) = S
      BY <2>1
    <3> HIDE DEF asker, key
    <3> QED BY <3>1, <3>2 DEF Reads
  <2>3. ASSUME Of("system", key) = {} PROVE Reads(asker, key, None)
    BY <2>1, <2>3 DEF Reads
  <2> QED BY <1>4, <2>2, <2>3
<1> QED BY <1>1, <1>3, <1>4

LEMMA FindUserKeeps ==
  ASSUME Supposed, RowInv, CallsInv, NEW c \in Calls, FindUserConfig(c)
  PROVE  CallsInv'
<1> DEFINE call == calls[c]
           d == calls'[c]
           own == Of(call.user, Head(call.keys))
<1>1. call.pc \in {"provider", "model"} /\ call.own /\ rows' = rows /\ OneRow
  BY DEF FindUserConfig, RowInv
<1>2. CASE own # {}
  <2>1. PICK r \in own : Found(c, r.value)
    BY <1>2 DEF FindUserConfig
  <2>2. ~call.disturbed => Reads(Asker(call), Head(call.keys), r.value)
    BY <1>1, HeadReads
  <2> QED BY <1>1, <2>1, <2>2, FoundKeeps
<1>3. CASE own = {}
  <2>1. calls' = [calls EXCEPT ![c].own = FALSE]
    BY <1>3 DEF FindUserConfig
  <2>2. call \in Call /\ CallInv(call) /\ call.keys \in Seq(Keys)
        /\ calls \in [Calls -> Call] /\ call.keys # <<>>
    BY <1>1 DEF CallsInv, CallInv, Call, Progress
  <2>3. Became(c, call.pc, call.provider, call.keys, FALSE, call.tried)
    BY <2>1, <2>2, FieldBecame
  <2>4. ~call.disturbed => OnWay(call, call.keys, FALSE)
    <3>1. ASSUME ~call.disturbed PROVE OnWay(call, call.keys, FALSE)
      <4>1. Asker(call) = call.user
        BY <1>1, <3>1, HeadReads
      <4>2. CallOK(call)
        BY <2>2, <3>1 DEF CallInv
      <4>3. CASE call.pc = "provider"
        BY <1>3, <4>1, <4>2, <4>3 DEF CallOK, OnWay, Walking
      <4>4. CASE call.pc = "model"
        BY <1>3, <4>1, <4>2, <4>4 DEF CallOK, OnWay, Walking, Asker
      <4> QED BY <1>1, <4>3, <4>4
    <3> QED BY <3>1
  <2> QED BY <1>1, <2>2, <2>3, <2>4, KeysKeep
<1> QED BY <1>2, <1>3

LEMMA FindSystemKeeps ==
  ASSUME Supposed, RowInv, CallsInv, NEW c \in Calls, FindSystemConfig(c)
  PROVE  CallsInv'
<1> DEFINE call == calls[c]
           common == Of("system", Head(call.keys))
<1>1. call.pc \in {"provider", "model"} /\ ~call.own /\ rows' = rows /\ OneRow
  BY DEF FindSystemConfig, RowInv
<1>2. CASE common # {}
  <2>1. PICK r \in common : Found(c, r.value)
    BY <1>2 DEF FindSystemConfig
  <2>2. ~call.disturbed => Reads(Asker(call), Head(call.keys), r.value)
    BY <1>1, HeadReads
  <2> QED BY <1>1, <2>1, <2>2, FoundKeeps
<1>3. CASE common = {}
  <2>1. Found(c, None)
    BY <1>3 DEF FindSystemConfig
  <2>2. ~call.disturbed => Reads(Asker(call), Head(call.keys), None)
    BY <1>1, <1>3, HeadReads
  <2> QED BY <1>1, <2>1, <2>2, FoundKeeps
<1> QED BY <1>2, <1>3

LEMMA EndKeeps ==
  ASSUME CallsInv, NEW c \in Calls, NEW x \in {"answered", "failed"}, calls[c].pc = "api",
         calls' = [calls EXCEPT ![c].pc = x], rows' = rows
  PROVE  CallsInv'
<1> DEFINE call == calls[c]
           d == calls'[c]
<1>1. call \in Call /\ CallInv(call) /\ calls \in [Calls -> Call]
      /\ x \in Phases
  BY DEF CallsInv, Phases
<1>2. Became(c, x, call.provider, call.keys, call.own, call.tried)
  BY <1>1, FieldBecame
<1>3. d \in Call /\ d.pc = x /\ d.provider = call.provider
      /\ d.tried = call.tried /\ d.kind = call.kind /\ d.user = call.user
      /\ d.disturbed = call.disturbed /\ calls' \in [Calls -> Call]
      /\ \A b \in Calls \ {c} : calls'[b] = calls[b]
  BY <1>2 DEF Became
<1>4. ProviderNamed(d) = ProviderNamed(call) /\ ModelNamed(d) = ModelNamed(call)
  BY <1>3 DEF ProviderNamed, ModelNamed
<1>5. CallInv(d)
  <2> HIDE DEF d
  <2> QED BY <1>1, <1>3, <1>4 DEF CallInv, Progress, TriesOK, CallOK
<1> QED BY <1>3, <1>5, CallStepped

LEMMA SecondTry ==
  ASSUME NEW S, NEW s \in Seq(S), NEW e \in S, Len(s) = 1
  PROVE  /\ Append(s, e) \in Seq(S) /\ Len(Append(s, e)) = 2
         /\ Append(s, e)[1] = s[1] /\ Append(s, e)[2] = e
<1>1. Append(s, e) \in Seq(S)
  OBVIOUS
<1>2. Len(Append(s, e)) = Len(s) + 1
  OBVIOUS
<1>3. Append(s, e)[1] = s[1]
  OBVIOUS
<1>4. Append(s, e)[Len(Append(s, e))] = e
  OBVIOUS
<1> QED BY <1>1, <1>2, <1>3, <1>4

LEMMA InvalidModelKeeps ==
  ASSUME Supposed, CallsInv, NEW c \in Calls, InvalidModel(c)
  PROVE  CallsInv'
<1> DEFINE call == calls[c]
           d == calls'[c]
<1>1. call.pc = "api" /\ Retries(call) /\ rows' = rows
  BY DEF InvalidModel
<1>2. PICK m \in DefaultModels[<<"omniroute", "audio">>] :
        calls' = [calls EXCEPT ![c].tried = Append(@, m)]
  BY DEF InvalidModel
<1>3. call \in Call /\ CallInv(call) /\ calls \in [Calls -> Call]
      /\ call.tried \in Seq(Models)
  BY DEF CallsInv, Call
<1>4. m \in Models /\ call.tried[1] # m /\ Len(call.tried) = 1
  BY <1>1 DEF Supposed, Retries
<1>5. PICK tried : tried \in Seq(Models) /\ tried = Append(call.tried, m) /\ Len(tried) = 2
                   /\ tried[1] = call.tried[1] /\ tried[2] = m
  <2>1. PICK s \in Seq(Models) : s = call.tried /\ Len(s) = 1
    BY <1>3, <1>4
  <2>2. /\ Append(s, m) \in Seq(Models) /\ Len(Append(s, m)) = 2
        /\ Append(s, m)[1] = s[1] /\ Append(s, m)[2] = m
    BY <1>4, <2>1, SecondTry
  <2> QED BY <2>1, <2>2
<1>6. calls' = [calls EXCEPT ![c].tried = tried]
  BY <1>2, <1>5
<1>7. Became(c, call.pc, call.provider, call.keys, call.own, tried)
  BY <1>3, <1>5, <1>6, FieldBecame
<1>8. d \in Call /\ d.pc = "api" /\ d.provider = call.provider
      /\ d.tried = tried /\ d.kind = call.kind /\ d.user = call.user
      /\ d.disturbed = call.disturbed /\ calls' \in [Calls -> Call]
      /\ \A b \in Calls \ {c} : calls'[b] = calls[b]
  BY <1>1, <1>7 DEF Became
<1>9. ProviderNamed(d) = ProviderNamed(call) /\ ModelNamed(d) = ModelNamed(call)
  BY <1>8 DEF ProviderNamed, ModelNamed
<1>10. tried # <<>>
  <2>1. Len(<<>>) = 0
    OBVIOUS
  <2> QED BY <1>5, <2>1
<1>11. CallInv(d)
  <2> HIDE DEF d
  <2>1. Progress(d)
    BY <1>1, <1>3, <1>8, <1>10 DEF Progress, CallInv
  <2>2. TriesOK(d)
    BY <1>4, <1>5, <1>8 DEF TriesOK
  <2>3. ~d.disturbed => CallOK(d)
    BY <1>1, <1>3, <1>5, <1>8, <1>9, <1>10 DEF CallOK, CallInv, Progress
  <2> QED BY <1>8, <2>1, <2>2, <2>3 DEF CallInv
<1> QED BY <1>1, <1>8, <1>11, CallStepped
-----------------------------------------------------------------------------
(* The theorems. *)

SettingsInv == RowInv /\ ValueInv /\ CallsInv

LEMMA CallStepKeeps ==
  ASSUME Supposed, SettingsInv, NEW c \in Calls, CallStep(c)
  PROVE  SettingsInv'
<1>1. UNCHANGED <<rows, nextId, writes>>
  BY DEF CallStep, Start, FindUserConfig, FindSystemConfig,
         Answer, Fail, InvalidModel
<1>2. RowInv' /\ ValueInv'
  BY <1>1 DEF SettingsInv, RowInv, ValueInv, OneRow
<1>3. CASE Start(c)
  BY <1>2, <1>3, StartKeeps DEF SettingsInv
<1>4. CASE FindUserConfig(c)
  BY <1>2, <1>4, FindUserKeeps DEF SettingsInv
<1>5. CASE FindSystemConfig(c)
  BY <1>2, <1>5, FindSystemKeeps DEF SettingsInv
<1>6. CASE Answer(c)
  BY <1>1, <1>2, <1>6, EndKeeps DEF SettingsInv, Answer
<1>7. CASE Fail(c)
  BY <1>1, <1>2, <1>7, EndKeeps DEF SettingsInv, Fail
<1>8. CASE InvalidModel(c)
  BY <1>2, <1>8, InvalidModelKeeps DEF SettingsInv
<1> QED BY <1>3, <1>4, <1>5, <1>6, <1>7, <1>8 DEF CallStep

LEMMA InitSettings ==
  ASSUME Supposed, SettingsInit PROVE SettingsInv
<1>1. RowInv /\ ValueInv
  <2>1. [pc |-> "new", owner |-> "system", key |-> "ai.provider", value |-> None, id |-> 0]
        \in Write
    BY DEF Write, Owners, Keys, ProviderKeys, Supposed
  <2>2. writes \in [Writers -> Write]
    BY <2>1 DEF SettingsInit
  <2>3. rows = {} /\ nextId \in 1..MaxIds + 1
    BY DEF SettingsInit, Supposed
  <2>4. \A w \in Writers : writes[w].pc = "new"
    BY DEF SettingsInit
  <2> QED BY <2>2, <2>3, <2>4 DEF RowInv, ValueInv, OneRow
<1>2. CallsInv
  <2>1. PICK e : e = <<>> /\ e \in Seq(Keys) /\ e \in Seq(Models) /\ Len(e) = 0
    <3>1. <<>> \in Seq(Keys)
      OBVIOUS
    <3>2. <<>> \in Seq(Models)
      OBVIOUS
    <3>3. Len(<<>>) = 0
      OBVIOUS
    <3> QED BY <3>1, <3>2, <3>3
  <2>2. [pc |-> "new", kind |-> "text", user |-> None, keys |-> e, own |-> FALSE,
         provider |-> None, tried |-> e, disturbed |-> FALSE] \in Call
    BY <2>1 DEF Call
  <2>3. calls = [c \in Calls |-> [pc |-> "new", kind |-> "text", user |-> None, keys |-> e,
                                  own |-> FALSE, provider |-> None, tried |-> e,
                                  disturbed |-> FALSE]]
    BY <2>1 DEF SettingsInit
  <2>4. \A c \in Calls : calls[c] \in Call /\ calls[c].pc = "new" /\ calls[c].tried = e
    BY <2>2, <2>3
  <2>5. calls \in [Calls -> Call]
    BY <2>2, <2>3
  <2> QED BY <2>1, <2>4, <2>5 DEF CallsInv, CallInv, Progress, TriesOK, CallOK
<1> QED BY <1>1, <1>2 DEF SettingsInv

LEMMA SettingsHold == SettingsSpec => []SettingsInv
<1>1. Supposed
  BY SettingsFacts
<1>2. SettingsInit => SettingsInv
  BY <1>1, InitSettings
<1>3. ASSUME SettingsInv, [SettingsNext]_settingsVars PROVE SettingsInv'
  <2>1. CASE SettingsNext
    <3>1. CASE \E w \in Writers : WriteStep(w)
      BY <1>1, <1>3, <3>1, WriteKeepsRows, WriteKeepsCalls DEF SettingsInv
    <3>2. CASE \E c \in Calls : CallStep(c)
      BY <1>1, <1>3, <3>2, CallStepKeeps
    <3> QED BY <2>1, <3>1, <3>2 DEF SettingsNext
  <2>2. CASE UNCHANGED settingsVars
    <3>1. rows' = rows /\ nextId' = nextId /\ writes' = writes /\ calls' = calls
      BY <2>2 DEF settingsVars
    <3>2. RowInv' /\ ValueInv'
      BY <1>3, <3>1 DEF SettingsInv, RowInv, ValueInv, OneRow
    <3>3. CallsInv'
      BY <1>3, <3>1, RowsKept DEF SettingsInv, CallsInv
    <3> QED BY <3>2, <3>3 DEF SettingsInv
  <2> QED BY <1>3, <2>1, <2>2
<1> QED BY <1>2, <1>3, PTL DEF SettingsSpec

\* The orders CallResolves writes down are those of the code.
LEMMA NamedByReference ==
  ASSUME Supposed, CallsInv
  PROVE  CallResolves
<1>1. ASSUME NEW c \in Calls, ~calls[c].disturbed, calls[c].pc \in {"api", "answered", "failed"}
      PROVE  LET call == calls[c]
                 named == Chosen(call.user, ProviderOrder(call.kind), Providers)
                 order == IF call.kind = "audio" /\ call.provider # "omniroute" /\ call.provider # "cloudflare"
                          THEN <<"ai.audio.model", "ai.model">>
                          ELSE IF call.kind = "audio" THEN <<"ai.audio.model">>
                          ELSE IF call.provider = "cloudflare" THEN <<"ai.chat.model">> ELSE <<"ai.model">>
                 model == Chosen(IF call.kind = "chat" THEN None ELSE call.user, order, Models)
             IN  /\ call.provider \in (IF named = {} THEN {"gemini"} ELSE named)
                 /\ call.provider \notin Configured <=> call.tried = <<>>
                 /\ call.tried # <<>> =>
                       call.tried[1] \in (IF model = {} THEN DefaultModels[<<call.provider, call.kind>>]
                                          ELSE {Normal(call.provider, call.kind, m) : m \in model})
  <2> DEFINE call == calls[c]
             porder == ProviderOrder(call.kind)
             morder == ModelOrder(call.provider, call.kind)
             order == IF call.kind = "audio" /\ call.provider # "omniroute" /\ call.provider # "cloudflare"
                      THEN <<"ai.audio.model", "ai.model">>
                      ELSE IF call.kind = "audio" THEN <<"ai.audio.model">>
                      ELSE IF call.provider = "cloudflare" THEN <<"ai.chat.model">> ELSE <<"ai.model">>
             asker == IF call.kind = "chat" THEN None ELSE call.user
  <2>1. CallOK(call) /\ call.kind \in AllKinds /\ call.provider \in Providers
    BY <1>1 DEF CallsInv, CallInv, Progress, Call, AllKinds
  <2>2. IsOrder(porder) /\ IsOrder(morder)
    BY <2>1, OrderFacts
  <2>3. order = morder
    BY <2>1 DEF ModelOrder
  <2>4. asker = ModelUser(call.kind, call.user)
    BY DEF ModelUser
  <2>5. PICK named : named = First(call.user, porder, Providers)
                     /\ named = Chosen(call.user, porder, Providers)
    BY <2>2, ChosenIsFirst
  <2>6. PICK model : model = First(asker, morder, Models)
                     /\ model = Chosen(asker, order, Models)
    BY <2>2, <2>3, ChosenIsFirst
  <2>7. call.provider \in (IF named = {} THEN {"gemini"} ELSE named)
    BY <1>1, <2>1, <2>5 DEF CallOK, ProviderNamed
  <2>8. call.provider \notin Configured <=> call.tried = <<>>
    BY <1>1, <2>1 DEF CallOK
  <2>9. call.tried # <<>> =>
           call.tried[1] \in (IF model = {} THEN DefaultModels[<<call.provider, call.kind>>]
                              ELSE {Normal(call.provider, call.kind, m) : m \in model})
    BY <1>1, <2>1, <2>4, <2>6 DEF CallOK, ModelNamed
  <2> HIDE DEF order, asker, porder
  <2> QED BY <2>5, <2>6, <2>7, <2>8, <2>9 DEF order, asker, porder
<1> QED BY <1>1 DEF CallResolves

LEMMA TriedOnceEach ==
  ASSUME CallsInv PROVE NoModelTriedTwice
<1>1. ASSUME NEW c \in Calls, NEW i \in DOMAIN calls[c].tried, NEW j \in DOMAIN calls[c].tried, i # j
      PROVE  calls[c].tried[i] # calls[c].tried[j]
  <2>1. calls[c].tried \in Seq(Models) /\ TriesOK(calls[c])
    BY DEF CallsInv, CallInv, Call
  <2>2. i \in 1..Len(calls[c].tried) /\ j \in 1..Len(calls[c].tried) /\ Len(calls[c].tried) \in Nat
    BY <2>1
  <2> QED BY <1>1, <2>1, <2>2 DEF TriesOK
<1> QED BY <1>1 DEF NoModelTriedTwice

\* The rows, the requests and the calls keep their types.
THEOREM SettingsTyped == SettingsSpec => []SettingsTypeOK
<1>1. SettingsInv => SettingsTypeOK
  BY DEF SettingsInv, RowInv, CallsInv, SettingsTypeOK
<1> QED BY <1>1, SettingsHold, PTL

\* However the requests of administrators and users interleave, a setting has one row.
THEOREM OneRowPerSetting == SettingsSpec => []OneRow
<1>1. SettingsInv => OneRow
  BY DEF SettingsInv, RowInv
<1> QED BY <1>1, SettingsHold, PTL

\* A transcription that OmniRoute refuses is not asked of the same model again.
THEOREM TriesDiffer == SettingsSpec => []NoModelTriedTwice
<1>1. SettingsInv => NoModelTriedTwice
  BY TriedOnceEach DEF SettingsInv
<1> QED BY <1>1, SettingsHold, PTL

\* The walk over rows and keys, own and the system's, ends at the provider and model that the
\* settings name, if none changed while it was under way.
THEOREM WalkFindsTheSettings == SettingsSpec => []CallResolves
<1>1. Supposed
  BY SettingsFacts
<1>2. SettingsInv => CallResolves
  BY <1>1, NamedByReference DEF SettingsInv
<1> QED BY <1>2, SettingsHold, PTL
=============================================================================
