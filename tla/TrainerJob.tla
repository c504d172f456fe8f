------------------------------ MODULE TrainerJob ------------------------------
(***************************************************************************)
(* The AI jobs of one user.  An API request takes the user's lock in Redis *)
(* (VocabTrainerJobLockService) and adds a Bull job that carries the lock's *)
(* token; a worker runs the job only while the token still holds the lock, *)
(* and Bull retries it.  Three kinds of job, each on a trainer of its own: *)
(*   choice   generate questions (both generation processors)              *)
(*   audio    evaluate a recording (AudioEvaluationProcessor)              *)
(*   fill     grade answers, count the pass, plan the reminders            *)
(*            (FillInBlankEvaluationProcessor)                             *)
(* Every await of a processor is a step.  A request and its job share one  *)
(* name, which also stands for the random lock token.                      *)
(***************************************************************************)
EXTENDS Naturals, FiniteSets

CONSTANTS Jobs, Workers,
          KindOf,       \* the kind of each job
          MaxAttempts,  \* attempts of QUEUE_CONFIG
          MaxRepeat,    \* EReminderRepeat.MAX_REPEAT
          UserDeletes,  \* the kinds of trainer the user may delete
          MaxRequests,  \* bound: requests the user makes
          FaultBudgets, \* what may strike in one behaviour: how often each fault
          NoJob, NoWorker

Kinds == {"choice", "audio", "fill"}
FaultKinds == {"enqueueError", "requestCrash", "aiError", "rateLimit", "earlyError",
               "lateError", "releaseError", "workerCrash", "stall", "expiry"}

ASSUME KindAssumption == KindOf \in [Jobs -> Kinds]
ASSUME LimitAssumption == MaxAttempts \in Nat \ {0} /\ MaxRepeat \in Nat \ {0}
ASSUME UserAssumption == UserDeletes \subseteq Kinds
ASSUME FiniteAssumption == IsFiniteSet(Jobs) /\ IsFiniteSet(Workers)
ASSUME BoundAssumption == MaxRequests \in Nat /\ FaultBudgets \subseteq [FaultKinds -> Nat]
ASSUME SentinelAssumption == NoJob \notin Jobs /\ NoWorker \notin Workers

VARIABLES
    lock,      \* the Redis key of the user: owner, and whether it has a TTL
    request,   \* progress of each API request
    jobs,      \* Bull job of each request: state, worker, attemptsMade, stalled once
    worker,    \* handler of each worker
    trainers,  \* kinds whose trainer exists
    repeat,    \* reminderRepeat of the fill trainer: passes counted so far
    output,    \* per job: its result rows or questions now in the database
    faults,    \* how often each fault has struck
    passed     \* jobs some attempt of which was graded as passed

vars == <<lock, request, jobs, worker, trainers, repeat, output, faults, passed>>
data == <<trainers, repeat, output>>

Unlocked == [owner |-> NoJob, ttl |-> FALSE]
Unqueued == [state |-> "none", by |-> NoWorker, attempts |-> 0, stalled |-> FALSE]
Idle == [pc |-> "idle", job |-> NoJob, attempt |-> 0, rate |-> FALSE, pass |-> FALSE,
         count |-> 0]

\* Between the ownership check and the release the job counts on its lock.
EarlyPcs == {"refresh", "ai", "questions", "wipe", "insert", "mastery", "read",
             "notify", "complete", "sync"}
LatePcs == {"schedule", "release"}
OwningPcs == EarlyPcs \cup LatePcs
Done == {"completed", "failed"}

TypeOK ==
    /\ lock \in [owner: Jobs \cup {NoJob}, ttl: BOOLEAN]
    /\ request \in [Jobs -> {"new", "acquired", "undo", "queued", "refused",
                             "error", "dead"}]
    /\ jobs \in [Jobs -> [state: {"none", "waiting", "active", "delayed"} \cup Done,
                          by: Workers \cup {NoWorker},
                          attempts: 0..MaxAttempts, stalled: BOOLEAN]]
    /\ worker \in [Workers -> [pc: {"idle", "own", "caught", "failing", "finish"}
                                     \cup OwningPcs,
                               job: Jobs \cup {NoJob}, attempt: 0..MaxAttempts,
                               rate: BOOLEAN, pass: BOOLEAN, count: Nat]]
    /\ trainers \subseteq Kinds
    /\ repeat \in Nat
    /\ output \in [Jobs -> Nat]
    /\ faults \in [FaultKinds -> Nat]
    /\ passed \subseteq Jobs

Init ==
    /\ lock = Unlocked
    /\ request = [j \in Jobs |-> "new"]
    /\ jobs = [j \in Jobs |-> Unqueued]
    /\ worker = [w \in Workers |-> Idle]
    /\ trainers = Kinds
    /\ repeat = 0
    /\ output = [j \in Jobs |-> 0]
    /\ faults = [f \in FaultKinds |-> 0]
    /\ passed = {}

Strike(f) ==
    /\ \E budget \in FaultBudgets :
          faults[f] < budget[f] /\ \A g \in FaultKinds : faults[g] <= budget[g]
    /\ faults' = [faults EXCEPT ![f] = @ + 1]

---------------------------------------------------------------------------
(* The lock.  Each script is one atomic step of Redis.                     *)

\* Mutant: the key is deleted without comparing the token.
ReleaseUnchecked(j) == lock' = Unlocked

\* RELEASE_SCRIPT.
Release(j) == lock' = IF lock.owner = j THEN Unlocked ELSE lock

\* Mutant: SET without EX drops the time to live.
RefreshWithoutTtl(j) == lock' = IF lock.owner = j THEN [lock EXCEPT !.ttl = FALSE] ELSE lock

\* REFRESH_SCRIPT; the caller ignores whether it succeeded.
Refresh(j) == lock' = IF lock.owner = j THEN [lock EXCEPT !.ttl = TRUE] ELSE lock

\* The TTL is made to outlive every attempt and its backoff, so it runs out
\* under a working owner only as a fault; a job that waits has no such claim.
Working(j) == \E w \in Workers : worker[w].job = j /\ worker[w].pc \in OwningPcs
Expire ==
    /\ lock.owner # NoJob /\ lock.ttl
    /\ \/ Working(lock.owner) /\ Strike("expiry")
       \/ ~Working(lock.owner) /\ UNCHANGED faults
    /\ lock' = Unlocked
    /\ UNCHANGED <<request, jobs, worker, data, passed>>

---------------------------------------------------------------------------
(* AiQueueService.withUserActiveJobLock                                    *)

RequestGoto(j, pc) == request' = [request EXCEPT ![j] = pc]

\* ACQUIRE_SCRIPT: the second request is answered with the active job.
AcquireOrGetActive(j) ==
    /\ request[j] = "new"
    /\ Cardinality({ i \in Jobs : request[i] # "new" }) < MaxRequests
    /\ \/ /\ lock.owner = NoJob
          /\ lock' = [owner |-> j, ttl |-> TRUE]
          /\ RequestGoto(j, "acquired")
       \/ /\ lock.owner # NoJob
          /\ RequestGoto(j, "refused")
          /\ UNCHANGED lock
    /\ UNCHANGED <<jobs, worker, data, faults, passed>>

Enqueue(j) ==
    /\ request[j] = "acquired"
    /\ jobs' = [jobs EXCEPT ![j] = [@ EXCEPT !.state = "waiting"]]
    /\ RequestGoto(j, "queued")
    /\ UNCHANGED <<lock, worker, data, faults, passed>>

EnqueueError(j) ==
    /\ request[j] = "acquired"
    /\ Strike("enqueueError")
    /\ RequestGoto(j, "undo")
    /\ UNCHANGED <<lock, jobs, worker, data, passed>>

UndoLock(j) ==
    /\ request[j] = "undo"
    /\ Release(j)
    /\ RequestGoto(j, "error")
    /\ UNCHANGED <<jobs, worker, data, faults, passed>>

RequestCrash(j) ==
    /\ request[j] \in {"acquired", "undo"}
    /\ Strike("requestCrash")
    /\ RequestGoto(j, "dead")
    /\ UNCHANGED <<lock, jobs, worker, data, passed>>

---------------------------------------------------------------------------
(* Bull                                                                    *)

PickJob(w, j) ==
    /\ worker[w].pc = "idle"
    /\ jobs[j].state = "waiting"
    /\ jobs' = [jobs EXCEPT ![j] = [@ EXCEPT !.state = "active", !.by = w]]
    /\ worker' = [worker EXCEPT ![w] = 
                    [Idle EXCEPT !.pc = "own", !.job = j, !.attempt = jobs[j].attempts]]
    /\ UNCHANGED <<lock, request, data, faults, passed>>

\* The end of a handler counts only while its worker holds the job.
Holds(w) == jobs[worker[w].job].state = "active" /\ jobs[worker[w].job].by = w
EndJob(w, outcome) ==
    /\ jobs' = IF Holds(w) THEN [jobs EXCEPT ![worker[w].job] = outcome] ELSE jobs
    /\ worker' = [worker EXCEPT ![w] = Idle]

FinishJob(w) ==
    /\ worker[w].pc = "finish"
    /\ EndJob(w, [jobs[worker[w].job] EXCEPT !.state = "completed", !.by = NoWorker])
    /\ UNCHANGED <<lock, request, data, faults, passed>>

\* The handler threw: backoff and retry until the attempts are used up.  Bull
\* does not know bullmq's UnrecoverableError and retries it like any other.
FailJob(w) ==
    LET old == jobs[worker[w].job] IN
    /\ worker[w].pc = "failing"
    /\ EndJob(w, [old EXCEPT !.state = IF old.attempts + 1 < MaxAttempts THEN "delayed" ELSE "failed",
                             !.by = NoWorker, !.attempts = old.attempts + 1])
    /\ UNCHANGED <<lock, request, data, faults, passed>>

RetryDue(j) ==
    /\ jobs[j].state = "delayed"
    /\ jobs' = [jobs EXCEPT ![j] = [@ EXCEPT !.state = "waiting"]]
    /\ UNCHANGED <<lock, request, worker, data, faults, passed>>

WorkerCrash(w) ==
    /\ worker[w].pc # "idle"
    /\ Strike("workerCrash")
    /\ worker' = [worker EXCEPT ![w] = Idle]
    /\ UNCHANGED <<lock, request, jobs, data, passed>>

\* The stalled-job check requeues a job once; the second time it fails it,
\* and no handler runs that could release the lock.
Stall(j) ==
    /\ jobs[j].state = "active"
    /\ \/ worker[jobs[j].by].job # j /\ UNCHANGED faults
       \/ worker[jobs[j].by].job = j /\ Strike("stall")
    /\ jobs' = [jobs EXCEPT ![j] =
                  [jobs[j] EXCEPT !.state = IF jobs[j].stalled THEN "failed" ELSE "waiting",
                            !.by = NoWorker, !.stalled = TRUE]]
    /\ UNCHANGED <<lock, request, worker, data, passed>>

---------------------------------------------------------------------------
(* The processors                                                          *)

Goto(w, pc) == worker' = [worker EXCEPT ![w].pc = pc]

\* isOwner: a job that lost the lock while it waited is skipped.
CheckOwner(w) ==
    /\ worker[w].pc = "own"
    /\ Goto(w, IF lock.owner = worker[w].job THEN "refresh" ELSE "finish")
    /\ UNCHANGED <<lock, request, jobs, data, faults, passed>>

RefreshLock(w) ==
    /\ worker[w].pc = "refresh"
    /\ Refresh(worker[w].job)
    /\ Goto(w, "ai")
    /\ UNCHANGED <<request, jobs, data, faults, passed>>

\* The AI answers; for a fill job the answers pass (70 % or more) or fail.
CallAi(w) ==
    LET j == worker[w].job IN
    /\ worker[w].pc = "ai"
    /\ \E pass \in IF KindOf[j] = "fill" THEN BOOLEAN ELSE {FALSE} :
          /\ worker' = [worker EXCEPT ![w] =
                [@ EXCEPT !.pc = IF KindOf[j] = "choice" THEN "questions" ELSE "wipe",
                          !.pass = pass]]
          /\ passed' = IF pass THEN passed \cup {j} ELSE passed
    /\ UNCHANGED <<lock, request, jobs, data, faults>>

Caught(w, rate) ==
    worker' = [worker EXCEPT ![w] = [@ EXCEPT !.pc = "caught", !.rate = rate]]

AiError(w) ==
    /\ worker[w].pc = "ai"
    /\ \E f \in {"aiError", "rateLimit"} : Strike(f) /\ Caught(w, f = "rateLimit")
    /\ UNCHANGED <<lock, request, jobs, data, passed>>

\* What a statement on a trainer does when the trainer is gone: the foreign
\* key, P2025 or the null check throws.
OnTrainer(w, pc, next) ==
    /\ worker[w].pc = pc
    /\ IF KindOf[worker[w].job] \in trainers THEN Goto(w, next) ELSE Caught(w, FALSE)
Present(w) == KindOf[worker[w].job] \in trainers
Wiped(kind) == [i \in Jobs |-> IF KindOf[i] = kind THEN 0 ELSE output[i]]

\* updateVocabTrainerFields replaces the questions.
WriteQuestions(w) ==
    LET j == worker[w].job IN
    /\ OnTrainer(w, "questions", "release")
    /\ output' = IF Present(w) THEN [Wiped(KindOf[j]) EXCEPT ![j] = 1] ELSE output
    /\ UNCHANGED <<lock, request, jobs, trainers, repeat, faults, passed>>

\* Mutant: the old result rows are not deleted.
WipeNothing(w) ==
    /\ worker[w].pc = "wipe"
    /\ Goto(w, "insert")
    /\ UNCHANGED <<lock, request, jobs, data, faults, passed>>

\* deleteVocabTrainerResults and the insert are separate statements.
WipeResults(w) ==
    /\ worker[w].pc = "wipe"
    /\ output' = Wiped(KindOf[worker[w].job])
    /\ Goto(w, "insert")
    /\ UNCHANGED <<lock, request, jobs, trainers, repeat, faults, passed>>

InsertResults(w) ==
    LET j == worker[w].job IN
    /\ OnTrainer(w, "insert", IF KindOf[j] = "audio" THEN "release" ELSE "mastery")
    /\ output' = IF Present(w) THEN [output EXCEPT ![j] = @ + 1] ELSE output
    /\ UNCHANGED <<lock, request, jobs, trainers, repeat, faults, passed>>

\* updateMastery for every answer, whose rows are not part of this module.
UpdateMastery(w) ==
    /\ worker[w].pc = "mastery"
    /\ Goto(w, "read")
    /\ UNCHANGED <<lock, request, jobs, data, faults, passed>>

\* Mutant: the pass count is stored before the reminders are planned.
ReadTrainerAndCount(w) ==
    LET count == IF worker[w].pass THEN repeat + 1 ELSE repeat IN
    /\ worker[w].pc = "read"
    /\ IF Present(w)
       THEN worker' = [worker EXCEPT ![w] =
              [@ EXCEPT !.pc = IF count >= MaxRepeat THEN "notify" ELSE "sync", !.count = count]]
       ELSE Caught(w, FALSE)
    /\ repeat' = count
    /\ UNCHANGED <<lock, request, jobs, trainers, output, faults, passed>>

\* findVocabTrainerByIdMinimal: the pass count read here is written later.
ReadTrainer(w) ==
    LET count == IF worker[w].pass THEN repeat + 1 ELSE repeat IN
    /\ worker[w].pc = "read"
    /\ IF Present(w)
       THEN worker' = [worker EXCEPT ![w] =
              [@ EXCEPT !.pc = IF count >= MaxRepeat THEN "notify" ELSE "sync", !.count = count]]
       ELSE Caught(w, FALSE)
    /\ UNCHANGED <<lock, request, jobs, data, faults, passed>>

\* The last pass: first the notification, then one transaction that cancels
\* the reminders and deletes the trainer with its results.
NotifyCompleted(w) ==
    /\ worker[w].pc = "notify"
    /\ Goto(w, "complete")
    /\ UNCHANGED <<lock, request, jobs, data, faults, passed>>

CompleteTrainer(w) ==
    /\ OnTrainer(w, "complete", "release")
    /\ trainers' = trainers \ {"fill"}
    /\ output' = Wiped("fill")
    /\ UNCHANGED <<lock, request, jobs, repeat, faults, passed>>

\* Any other result: the user is read, and one transaction plans the
\* reminders and stores the pass count.
SyncReminders(w) ==
    /\ OnTrainer(w, "sync", "schedule")
    /\ repeat' = IF Present(w) THEN worker[w].count ELSE repeat
    /\ UNCHANGED <<lock, request, jobs, trainers, output, faults, passed>>

\* A delayed in-app notification, a Bull job of another queue.
ScheduleNotification(w) ==
    /\ worker[w].pc = "schedule"
    /\ Goto(w, "release")
    /\ UNCHANGED <<lock, request, jobs, data, faults, passed>>

ReleaseLock(w) ==
    /\ worker[w].pc = "release"
    /\ Release(worker[w].job)
    /\ Goto(w, "finish")
    /\ UNCHANGED <<request, jobs, data, faults, passed>>

\* Redis or PostgreSQL refuses: before the writes that count are committed,
\* or after.
StepError(w) ==
    /\ \/ worker[w].pc \in EarlyPcs \cup {"own"} /\ Strike("earlyError")
       \/ worker[w].pc \in LatePcs /\ Strike("lateError")
    /\ Caught(w, FALSE)
    /\ UNCHANGED <<lock, request, jobs, data, passed>>

\* The catch block keeps the lock for the next attempt, and gives it up after
\* a rate limit or the last attempt.
HandleError(w) ==
    /\ worker[w].pc = "caught"
    /\ IF worker[w].rate \/ worker[w].attempt + 1 >= MaxAttempts
       THEN Release(worker[w].job) ELSE UNCHANGED lock
    /\ Goto(w, "failing")
    /\ UNCHANGED <<request, jobs, data, faults, passed>>

\* The release in the catch block throws.
HandleErrorThrows(w) ==
    /\ worker[w].pc = "caught"
    /\ Strike("releaseError")
    /\ Goto(w, "failing")
    /\ UNCHANGED <<lock, request, jobs, data, passed>>

\* VocabTrainerService.delete; the results go with the trainer.
DeleteTrainer(kind) ==
    /\ kind \in UserDeletes \cap trainers
    /\ trainers' = trainers \ {kind}
    /\ output' = Wiped(kind)
    /\ UNCHANGED <<lock, request, jobs, worker, repeat, faults, passed>>

---------------------------------------------------------------------------
RequestStep(j) == AcquireOrGetActive(j) \/ Enqueue(j) \/ UndoLock(j)
HandlerStep(w) ==
    \/ CheckOwner(w) \/ RefreshLock(w) \/ CallAi(w) \/ WriteQuestions(w)
    \/ WipeResults(w) \/ InsertResults(w) \/ UpdateMastery(w) \/ ReadTrainer(w)
    \/ NotifyCompleted(w) \/ CompleteTrainer(w) \/ SyncReminders(w)
    \/ ScheduleNotification(w) \/ ReleaseLock(w) \/ HandleError(w)
    \/ FinishJob(w) \/ FailJob(w)

Next ==
    \/ Expire
    \/ \E j \in Jobs : \/ RequestStep(j) \/ EnqueueError(j) \/ RequestCrash(j)
                       \/ RetryDue(j) \/ Stall(j)
    \/ \E w \in Workers : \/ \E j \in Jobs : PickJob(w, j)
                          \/ HandlerStep(w) \/ AiError(w) \/ StepError(w)
                          \/ HandleErrorThrows(w) \/ WorkerCrash(w)
    \/ \E kind \in Kinds : DeleteTrainer(kind)

Spec == Init /\ [][Next]_vars
---------------------------------------------------------------------------
(* Properties                                                              *)

\* As long as the lock outlives the work and no live worker is taken for dead.
Quiet == faults["expiry"] = 0 /\ faults["stall"] = 0

\* A job that works for the user holds the user's lock from its ownership
\* check to its release, however often it was retried, requeued after a crash
\* or overtaken while it waited.  So no two jobs of a user work at a time.
WorkersOwnLock == Quiet =>
    /\ \A w \in Workers : worker[w].pc \in OwningPcs => lock.owner = worker[w].job
    /\ \A v, w \in Workers :
          worker[v].pc \in OwningPcs /\ worker[w].pc \in OwningPcs => v = w

\* What a trainer shows is the work of one job, written once, although the
\* delete and the insert are separate and every attempt repeats both.
OutputOfOneJob == Quiet =>
    \A i, j \in Jobs :
        /\ output[j] <= 1
        /\ KindOf[i] = KindOf[j] /\ output[i] # 0 /\ output[j] # 0 => i = j

\* A submission is counted as one pass, however often it is retried; only a
\* failure past the commit of its count, or a second worker on the same job,
\* can make it count again.
PassesCountedOnce ==
    repeat <= Cardinality(passed) + faults["lateError"] + faults["workerCrash"] + faults["stall"]

---------------------------------------------------------------------------
(* Fairness: Redis expires keys, Bull hands out jobs in order, retries them *)
(* and checks for stalled ones, requests and handlers run to their end.    *)
Fairness ==
    /\ WF_vars(Expire)
    /\ \A j \in Jobs : /\ WF_vars(Enqueue(j) \/ UndoLock(j))
                       /\ WF_vars(RetryDue(j)) /\ WF_vars(Stall(j))
                       /\ SF_vars(\E w \in Workers : PickJob(w, j))
    /\ \A w \in Workers : WF_vars(HandlerStep(w))
FairSpec == Spec /\ Fairness

\* A user is never locked out for good, whatever dies while it holds the lock.
UserUnblocked == []<>(lock.owner = NoJob)
=============================================================================
