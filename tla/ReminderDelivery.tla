---------------------------- MODULE ReminderDelivery ----------------------------
(***************************************************************************)
(* Reminder mails of one vocab trainer, from the exam submission that      *)
(* schedules them to the mail provider that takes them:                    *)
(*   exam requests   submitChoiceBasedExam / the fill-in-blank processor,  *)
(*                   with VocabTrainerReminderAfterExamService             *)
(*   pollers         SchedulerPollerService, one per app instance          *)
(*   jobs            the Bull queue email-reminder, one job id per row     *)
(*   workers         EmailProcessor.handleReminderScheduleEmail            *)
(*   reconciler      ReminderReconciliationService                         *)
(* Every await of the code is a step of its own.  An exam transaction      *)
(* keeps the row locks of its UPDATE until it ends (READ COMMITTED).       *)
(***************************************************************************)
EXTENDS ReminderSchedule

CONSTANTS Pollers, Workers,
          BatchSize,     \* REMINDER_CONFIG.poller.batchSize
          UserEdits,     \* subset of {"disable", "delete"} the user may do
          SixthPass,     \* may a submission be the one that completes the trainer
          FaultBudgets,  \* what may strike in one behaviour: how often each fault
          NoSlot, NoWorker

FaultKinds == {"pollerCrash", "workerCrash", "requestCrash", "handlerError",
               "enqueueError", "rollbackError", "sendError", "jobLoss", "stall"}

ASSUME BatchSizeAssumption == BatchSize \in Nat \ {0}
ASSUME UserAssumption == UserEdits \subseteq {"disable", "delete"} /\ SixthPass \in BOOLEAN
ASSUME FaultBudgetAssumption == FaultBudgets \subseteq [FaultKinds -> Nat]
ASSUME SentinelAssumption == NoSlot \notin Slots /\ NoWorker \notin Workers

VARIABLES
    rows,     \* reminder_schedule
    trainer,  \* the vocab_trainer row: exists, reminderDisabled, lastExamSubmittedAt
    clock,    \* exam timestamps handed out so far
    jobs,     \* Bull job of each row: state, running worker, stalled once
    poller,   \* tick() of each poller: pc, rows left of the batch, current row
    worker,   \* handler of each worker: pc, row, sentAt
    recon,    \* run() of the reconciler: pc, QUEUED rows to look at, current row
    request,  \* exam requests: pc, chain index, stale reminderDisabled, locked rows
    faults,   \* how often each fault has struck
    mails,    \* per row: sends the provider confirmed
    calls     \* per row: calls of the provider

vars == <<rows, trainer, clock, jobs, poller, worker, recon, request, faults,
          mails, calls>>
actors == <<poller, worker, recon, request>>
ghosts == <<mails, calls>>

NoJob == [state |-> "none", by |-> NoWorker, stalled |-> FALSE]
Job == [state: {"none", "waiting", "active", "failed"},
        by: Workers \cup {NoWorker}, stalled: BOOLEAN]

PollerIdle == [pc |-> "idle", batch |-> {}, cur |-> NoSlot]
PollerState == [pc: {"idle", "each", "cas", "remove", "undo", "rollback"},
                batch: SUBSET Slots, cur: Slots \cup {NoSlot}]

WorkerIdle == [pc |-> "idle", slot |-> NoSlot, sentAt |-> 0]
SendingPcs == {"check", "siblings", "self", "send", "record", "failed", "hardfail"}
WorkerPcs == {"idle", "read", "promote", "cas", "finish"} \cup SendingPcs
WorkerState == [pc: WorkerPcs, slot: Slots \cup {NoSlot}, sentAt: Nat]

ReconState == [pc: {"idle", "scan", "orphans", "reset", "collapse", "repair"},
               todo: SUBSET Slots, cur: Slots \cup {NoSlot}]

RequestState == [pc: {"idle", "read", "count", "insert", "delete",
                      "committed", "deleted", "duplicate", "failed"},
                 chain: Nat, disabled: BOOLEAN, locks: SUBSET Slots]
RequestIdle == [pc |-> "idle", chain |-> 0, disabled |-> FALSE, locks |-> {}]

TypeOK ==
    /\ rows \in [Slots -> Row]
    /\ trainer \in [exists: BOOLEAN, disabled: BOOLEAN, lastExam: Nat]
    /\ clock \in Nat
    /\ jobs \in [Slots -> Job]
    /\ poller \in [Pollers -> PollerState]
    /\ worker \in [Workers -> WorkerState]
    /\ recon \in ReconState
    /\ request \in [Requests -> RequestState]
    /\ faults \in [FaultKinds -> Nat]
    /\ mails \in [Slots -> Nat]
    /\ calls \in [Slots -> Nat]

Init ==
    /\ rows = [s \in Slots |-> AbsentRow]
    /\ trainer = [exists |-> TRUE, disabled |-> FALSE, lastExam |-> 0]
    /\ clock = 0
    /\ jobs = [s \in Slots |-> NoJob]
    /\ poller = [p \in Pollers |-> PollerIdle]
    /\ worker = [w \in Workers |-> WorkerIdle]
    /\ recon = [pc |-> "idle", todo |-> {}, cur |-> NoSlot]
    /\ request = [q \in Requests |-> RequestIdle]
    /\ faults = [f \in FaultKinds |-> 0]
    /\ mails = [s \in Slots |-> 0]
    /\ calls = [s \in Slots |-> 0]

\* Row locks of the open exam transactions.  An UPDATE that matches a locked
\* row waits for the transaction to end; a plain SELECT does not.
Locked == UNION {request[q].locks : q \in Requests}

Strike(f) ==
    /\ \E budget \in FaultBudgets :
          faults[f] < budget[f] /\ \A g \in FaultKinds : faults[g] <= budget[g]
    /\ faults' = [faults EXCEPT ![f] = @ + 1]

---------------------------------------------------------------------------
(* Time.  dueAt = sentAt + level days: a level comes due after the lower   *)
(* levels of its INITIAL; backoff ends at any moment.                      *)
BecomeDue(s) ==
    /\ rows[s].status = "PENDING"
    /\ rows[s].due # "yes"
    /\ rows[s].due = "no" =>
          \A l \in 1..(s[2] - 1) :
             rows[<<s[1], l>>].status = "PENDING" => rows[<<s[1], l>>].due # "no"
    /\ rows' = [rows EXCEPT ![s].due = "yes"]
    /\ UNCHANGED <<trainer, clock, jobs, actors, faults, ghosts>>

---------------------------------------------------------------------------
(* SchedulerPollerService                                                  *)

\* tick: claimDueBatch skips locked rows and takes at most BatchSize rows.
Claim(p) ==
    /\ poller[p].pc = "idle"
    /\ \E batch \in SUBSET (Claimable(rows) \ Locked) :
          /\ batch # {}
          /\ \/ Cardinality(batch) = BatchSize
             \/ Cardinality(batch) < BatchSize /\ batch = Claimable(rows) \ Locked
          /\ rows' = ClaimDueBatch(rows, batch)
          /\ poller' = [poller EXCEPT ![p] =
                          [pc |-> "each", batch |-> batch, cur |-> NoSlot]]
    /\ UNCHANGED <<trainer, clock, jobs, worker, recon, request, faults, ghosts>>

PollerNext(p) ==
    poller' = [poller EXCEPT ![p] =
        IF poller[p].batch = {} THEN PollerIdle
        ELSE [poller[p] EXCEPT !.pc = "each", !.cur = NoSlot]]
PollerGoto(p, pc) == poller' = [poller EXCEPT ![p].pc = pc]

\* enqueueOne: Bull ignores an add whose job id is still known.
AddJob(p) ==
    /\ poller[p].pc = "each"
    /\ \E s \in poller[p].batch :
          /\ jobs' = IF jobs[s].state = "none"
                     THEN [jobs EXCEPT ![s].state = "waiting"] ELSE jobs
          /\ poller' = [poller EXCEPT ![p] =
                [pc |-> "cas", batch |-> poller[p].batch \ {s}, cur |-> s]]
    /\ UNCHANGED <<rows, trainer, clock, worker, recon, request, faults, ghosts>>

\* enqueueOne: the add itself throws, so no job handle exists to remove.
AddJobError(p) ==
    /\ poller[p].pc = "each"
    /\ Strike("enqueueError")
    /\ \E s \in poller[p].batch :
          poller' = [poller EXCEPT ![p] =
                [pc |-> "rollback", batch |-> poller[p].batch \ {s}, cur |-> s]]
    /\ UNCHANGED <<rows, trainer, clock, jobs, worker, recon, request, ghosts>>

\* enqueueOne: CAS CLAIMED -> QUEUED after the job is visible to the workers.
MarkQueued(p) ==
    LET s == poller[p].cur IN
    /\ poller[p].pc = "cas"
    /\ s \notin Locked
    /\ rows' = Transition(rows, s, "CLAIMED", "QUEUED")
    /\ IF CanTransition(rows, s, "CLAIMED") THEN PollerNext(p)
       ELSE PollerGoto(p, "remove")
    /\ UNCHANGED <<trainer, clock, jobs, worker, recon, request, faults, ghosts>>

MarkQueuedError(p) ==
    /\ poller[p].pc = "cas"
    /\ Strike("enqueueError")
    /\ PollerGoto(p, "undo")
    /\ UNCHANGED <<rows, trainer, clock, jobs, worker, recon, request, ghosts>>

\* job.remove(): Bull refuses a job some worker holds.  After a lost CAS the
\* refusal throws into the catch block, which tries once more and ignores it.
RemoveJob(p) ==
    LET s == poller[p].cur IN
    /\ poller[p].pc \in {"remove", "undo"}
    /\ jobs' = IF jobs[s].state = "active" THEN jobs
               ELSE [jobs EXCEPT ![s] = NoJob]
    /\ \/ poller[p].pc = "remove" /\ jobs[s].state # "active" /\ PollerNext(p)
       \/ poller[p].pc = "remove" /\ jobs[s].state = "active" /\ PollerGoto(p, "undo")
       \/ poller[p].pc = "undo" /\ PollerGoto(p, "rollback")
    /\ UNCHANGED <<rows, trainer, clock, worker, recon, request, faults, ghosts>>

\* enqueueOne, catch: CAS CLAIMED -> PENDING, whoever holds the claim by now.
RollbackClaim(p) ==
    LET s == poller[p].cur IN
    /\ poller[p].pc = "rollback"
    /\ s \notin Locked
    /\ rows' = Transition(rows, s, "CLAIMED", "PENDING")
    /\ PollerNext(p)
    /\ UNCHANGED <<trainer, clock, jobs, worker, recon, request, faults, ghosts>>

\* The instance dies, or the rollback throws out of tick(): the rest of the
\* batch stays CLAIMED.
PollerAbort(p) ==
    /\ poller[p].pc # "idle"
    /\ \/ Strike("pollerCrash")
       \/ poller[p].pc = "rollback" /\ Strike("rollbackError")
    /\ poller' = [poller EXCEPT ![p] = PollerIdle]
    /\ UNCHANGED <<rows, trainer, clock, jobs, worker, recon, request, ghosts>>

---------------------------------------------------------------------------
(* Bull: at most one job per row; the worker that holds it is jobs[s].by.  *)

PickJob(w, s) ==
    /\ worker[w].pc = "idle"
    /\ jobs[s].state = "waiting"
    /\ jobs' = [jobs EXCEPT ![s] = [@ EXCEPT !.state = "active", !.by = w]]
    /\ worker' = [worker EXCEPT ![w] = [pc |-> "read", slot |-> s, sentAt |-> 0]]
    /\ UNCHANGED <<rows, trainer, clock, poller, recon, request, faults, ghosts>>

Holds(w) == jobs[worker[w].slot].state = "active" /\ jobs[worker[w].slot].by = w

\* The handler returned: removeOnComplete drops the job, if still held.
FinishJob(w) ==
    /\ worker[w].pc = "finish"
    /\ jobs' = IF Holds(w) THEN [jobs EXCEPT ![worker[w].slot] = NoJob] ELSE jobs
    /\ worker' = [worker EXCEPT ![w] = WorkerIdle]
    /\ UNCHANGED <<rows, trainer, clock, poller, recon, request, faults, ghosts>>

\* The handler threw (database or Redis error): attempts is 1, so the job
\* fails for good, and removeOnFail keeps it under its id.
HandlerError(w) ==
    /\ worker[w].pc \notin {"idle", "finish"}
    /\ Strike("handlerError")
    /\ jobs' = IF Holds(w)
               THEN [jobs EXCEPT ![worker[w].slot] =
                          [@ EXCEPT !.state = "failed", !.by = NoWorker]]
               ELSE jobs
    /\ worker' = [worker EXCEPT ![w] = WorkerIdle]
    /\ UNCHANGED <<rows, trainer, clock, poller, recon, request, ghosts>>

WorkerCrash(w) ==
    /\ worker[w].pc # "idle"
    /\ Strike("workerCrash")
    /\ worker' = [worker EXCEPT ![w] = WorkerIdle]
    /\ UNCHANGED <<rows, trainer, clock, jobs, poller, recon, request, ghosts>>

\* Stalled-job check: the lock of an active job expired because its worker is
\* gone, or alive but late.  The first stall requeues, the second fails it.
Stall(s) ==
    /\ jobs[s].state = "active"
    /\ \/ worker[jobs[s].by].slot # s /\ UNCHANGED faults
       \/ worker[jobs[s].by].slot = s /\ Strike("stall")
    /\ jobs' = [jobs EXCEPT ![s] =
                  [state |-> IF @.stalled THEN "failed" ELSE "waiting",
                   by |-> NoWorker, stalled |-> TRUE]]
    /\ UNCHANGED <<rows, trainer, clock, actors, ghosts>>

\* Redis loses a job that no worker runs.
LoseJob(s) ==
    /\ jobs[s].state = "waiting"
    /\ Strike("jobLoss")
    /\ jobs' = [jobs EXCEPT ![s] = NoJob]
    /\ UNCHANGED <<rows, trainer, clock, actors, ghosts>>

---------------------------------------------------------------------------
(* EmailProcessor.handleReminderScheduleEmail                              *)

WorkerGoto(w, pc) == worker' = [worker EXCEPT ![w].pc = pc]

\* findById: only QUEUED and PENDING rows go on; a PENDING one is first
\* promoted, without looking at dueAt or nextAttemptAt.
ReadRow(w) ==
    /\ worker[w].pc = "read"
    /\ LET status == rows[worker[w].slot].status IN
          \/ status = "QUEUED" /\ WorkerGoto(w, "cas")
          \/ status = "PENDING" /\ WorkerGoto(w, "promote")
          \/ status \notin {"QUEUED", "PENDING"} /\ WorkerGoto(w, "finish")
    /\ UNCHANGED <<rows, trainer, clock, jobs, poller, recon, request, faults, ghosts>>

\* The CAS PENDING -> QUEUED and the CAS QUEUED -> SENDING; losing one ends
\* the job.
WorkerCas(w, pc, from, to, next) ==
    LET s == worker[w].slot IN
    /\ worker[w].pc = pc
    /\ s \notin Locked
    /\ rows' = Transition(rows, s, from, to)
    /\ WorkerGoto(w, IF CanTransition(rows, s, from) THEN next ELSE "finish")
    /\ UNCHANGED <<trainer, clock, jobs, poller, recon, request, faults, ghosts>>

\* Mutant: the row is set to SENDING by id, without the status in the WHERE.
BeginSendById(w) ==
    /\ worker[w].pc = "cas"
    /\ worker[w].slot \notin Locked
    /\ rows' = SetStatus(rows, {worker[w].slot}, "SENDING")
    /\ WorkerGoto(w, "check")
    /\ UNCHANGED <<trainer, clock, jobs, poller, recon, request, faults, ghosts>>

Promote(w) == WorkerCas(w, "promote", "PENDING", "QUEUED", "cas")
BeginSend(w) == WorkerCas(w, "cas", "QUEUED", "SENDING", "check")

\* ActedCheckRegistry.hasActedSince with VocabTrainerActedCheck: a deleted
\* trainer counts as acted; only escalations are checked.
HasActedSince(t) == ~trainer.exists \/ trainer.lastExam > t
CheckActed(w) ==
    LET s == worker[w].slot
        acted == ~IsInitial(s) /\ HasActedSince(rows[s].ackAfter) IN
    /\ worker[w].pc = "check"
    /\ WorkerGoto(w, IF acted THEN "siblings" ELSE "send")
    /\ UNCHANGED <<rows, trainer, clock, jobs, poller, recon, request, faults, ghosts>>

CancelSiblings(w) ==
    LET s == worker[w].slot IN
    /\ worker[w].pc = "siblings"
    /\ CancellableSiblings(rows, s) \cap Locked = {}
    /\ rows' = CancelSiblingEscalations(rows, s)
    /\ WorkerGoto(w, "self")
    /\ UNCHANGED <<trainer, clock, jobs, poller, recon, request, faults, ghosts>>

CancelSelf(w) == WorkerCas(w, "self", "SENDING", "CANCELLED", "finish")

\* sendReminderEmail returned; sentAt is read right after it.
SendOk(w) ==
    LET s == worker[w].slot IN
    /\ worker[w].pc = "send"
    /\ mails' = [mails EXCEPT ![s] = @ + 1]
    /\ calls' = [calls EXCEPT ![s] = @ + 1]
    /\ worker' = [worker EXCEPT ![w] = [@ EXCEPT !.pc = "record", !.sentAt = clock]]
    /\ UNCHANGED <<rows, trainer, clock, jobs, poller, recon, request, faults>>

\* sendReminderEmail threw: a transient error or one that is terminal at once
\* (EENVELOPE, or a message about the recipient).
SendError(w) ==
    LET s == worker[w].slot IN
    /\ worker[w].pc = "send"
    /\ Strike("sendError")
    /\ calls' = [calls EXCEPT ![s] = @ + 1]
    /\ \E pc \in {"failed", "hardfail"} : WorkerGoto(w, pc)
    /\ UNCHANGED <<rows, trainer, clock, jobs, poller, recon, request, mails>>

\* Mutant: the escalations are left to the reconciler.
RecordSentOnly(w) ==
    /\ worker[w].pc = "record"
    /\ rows' = MarkSent(rows, worker[w].slot, worker[w].sentAt)
    /\ WorkerGoto(w, "finish")
    /\ UNCHANGED <<trainer, clock, jobs, poller, recon, request, faults, ghosts>>

\* One transaction: SENT, and for an INITIAL its escalations.
RecordSent(w) ==
    LET s == worker[w].slot
        sent == MarkSent(rows, s, worker[w].sentAt) IN
    /\ worker[w].pc = "record"
    /\ rows' = IF rows[s].status = "SENDING" /\ IsInitial(s)
               THEN CreateEscalationsForInitials(sent, {s[1]})
               ELSE sent
    /\ WorkerGoto(w, "finish")
    /\ UNCHANGED <<trainer, clock, jobs, poller, recon, request, faults, ghosts>>

\* handleSendFailure: FAILED_TERMINAL on the last attempt or a hard error,
\* else back to PENDING until the backoff is over.
RecordFailure(w) ==
    LET s == worker[w].slot
        next == rows[s].attempt + 1 IN
    /\ worker[w].pc \in {"failed", "hardfail"}
    /\ rows' = IF worker[w].pc = "hardfail" \/ next >= MaxAttempts
               THEN Transition(rows, s, "SENDING", "FAILED_TERMINAL")
               ELSE ResetToRetry(rows, s, next)
    /\ WorkerGoto(w, "finish")
    /\ UNCHANGED <<trainer, clock, jobs, poller, recon, request, faults, ghosts>>

---------------------------------------------------------------------------
(* ReminderReconciliationService.run.  A claim may have grown stale at any *)
(* moment after it was taken.                                              *)

ReconGoto(pc) == recon' = [recon EXCEPT !.pc = pc]

\* Mutant: rows stuck in SENDING are released like claims.
ReleaseStaleAndSending ==
    /\ recon.pc = "idle"
    /\ \E stale \in SUBSET (WithStatus(rows, {"CLAIMED", "SENDING"}) \ Locked) :
          rows' = ReleaseStaleClaims(rows, stale)
    /\ ReconGoto("scan")
    /\ UNCHANGED <<trainer, clock, jobs, poller, worker, request, faults, ghosts>>

ReleaseStale ==
    /\ recon.pc = "idle"
    /\ \E stale \in SUBSET (WithStatus(rows, {"CLAIMED"}) \ Locked) :
          rows' = ReleaseStaleClaims(rows, stale)
    /\ ReconGoto("scan")
    /\ UNCHANGED <<trainer, clock, jobs, poller, worker, request, faults, ghosts>>

\* findQueuedScheduleIds.
ScanQueued ==
    /\ recon.pc = "scan"
    /\ recon' = [recon EXCEPT !.pc = "orphans", !.todo = WithStatus(rows, {"QUEUED"})]
    /\ UNCHANGED <<rows, trainer, clock, jobs, poller, worker, request, faults, ghosts>>

\* Mutant: a QUEUED row is an orphan when its job failed, not when it is gone.
LookupFailedJob ==
    /\ recon.pc = "orphans"
    /\ \E s \in recon.todo :
          recon' = IF jobs[s].state = "failed"
                   THEN [pc |-> "reset", todo |-> recon.todo \ {s}, cur |-> s]
                   ELSE [recon EXCEPT !.todo = @ \ {s}]
    /\ UNCHANGED <<rows, trainer, clock, jobs, poller, worker, request, faults, ghosts>>

\* getReminderScheduleJob: a job in any state, failed ones included, is found.
LookupJob ==
    /\ recon.pc = "orphans"
    /\ \E s \in recon.todo :
          recon' = IF jobs[s].state = "none"
                   THEN [pc |-> "reset", todo |-> recon.todo \ {s}, cur |-> s]
                   ELSE [recon EXCEPT !.todo = @ \ {s}]
    /\ UNCHANGED <<rows, trainer, clock, jobs, poller, worker, request, faults, ghosts>>

\* Mutant: the orphan is reset by id, whatever happened since the scan.
ResetOrphanById ==
    /\ recon.pc = "reset"
    /\ recon.cur \notin Locked
    /\ rows' = SetStatus(rows, {recon.cur}, "PENDING")
    /\ recon' = [recon EXCEPT !.pc = "orphans", !.cur = NoSlot]
    /\ UNCHANGED <<trainer, clock, jobs, poller, worker, request, faults, ghosts>>

ResetOrphan ==
    /\ recon.pc = "reset"
    /\ recon.cur \notin Locked
    /\ rows' = Transition(rows, recon.cur, "QUEUED", "PENDING")
    /\ recon' = [recon EXCEPT !.pc = "orphans", !.cur = NoSlot]
    /\ UNCHANGED <<trainer, clock, jobs, poller, worker, request, faults, ghosts>>

ScanDone ==
    /\ recon.pc = "orphans" /\ recon.todo = {}
    /\ ReconGoto("collapse")
    /\ UNCHANGED <<rows, trainer, clock, jobs, poller, worker, request, faults, ghosts>>

Collapse ==
    /\ recon.pc = "collapse"
    /\ Collapsible(rows) \cap Locked = {}
    /\ rows' = CollapseOverdueEscalations(rows)
    /\ ReconGoto("repair")
    /\ UNCHANGED <<trainer, clock, jobs, poller, worker, request, faults, ghosts>>

\* repairMissingEscalations: backfill the SENT INITIALs, an hour old or more,
\* that have no escalation and whose user did not submit an exam since.
MissingEscalations ==
    {q \in Requests :
        LET r == rows[Initial(q)] IN
        /\ r.status = "SENT"
        /\ ~HasEscalations(rows, q)
        /\ ~(trainer.exists /\ trainer.lastExam > r.sentAt)}
RepairMissing ==
    /\ recon.pc = "repair"
    /\ \E old \in SUBSET MissingEscalations :
          rows' = CreateEscalationsForInitials(rows, old)
    /\ ReconGoto("idle")
    /\ UNCHANGED <<trainer, clock, jobs, poller, worker, request, faults, ghosts>>

---------------------------------------------------------------------------
(* Exam submission: submitChoiceBasedExam and the fill-in-blank processor, *)
(* from the read of the trainer on, with syncRemindersAfterExamSubmission. *)

RequestEnd(q, pc) ==
    request' = [request EXCEPT ![q] = [@ EXCEPT !.pc = pc, !.locks = {}]]

\* findByIdWithVocabsAndResults: reminderDisabled is read here and used later.
ReadTrainer(q) ==
    /\ request[q].pc = "idle"
    /\ trainer.exists
    /\ request' = [request EXCEPT ![q] =
                    [@ EXCEPT !.pc = "read", !.disabled = trainer.disabled]]
    /\ UNCHANGED <<rows, trainer, clock, jobs, poller, worker, recon, faults, ghosts>>

\* cancelSchedulesForTrainerTx opens the transaction.  The rows it cancels
\* stay as they are for everybody else, and locked, until the commit.  The
\* sixth pass goes on to delete the trainer, any other result to the sync.
TxCancel(q) ==
    /\ request[q].pc = "read"
    /\ Cancellable(rows) \cap Locked = {}
    /\ \E pc \in {IF request[q].disabled THEN "insert" ELSE "count"} \cup
               (IF SixthPass THEN {"delete"} ELSE {}) :
          request' = [request EXCEPT ![q] =
                          [@ EXCEPT !.pc = pc, !.locks = Cancellable(rows)]]
    /\ UNCHANGED <<rows, trainer, clock, jobs, poller, worker, recon, faults, ghosts>>

\* count of the terminal INITIAL rows: chain 0 stands for "insert nothing".
TxCount(q) ==
    LET terminal == Cardinality(TerminalInitials(rows)) IN
    /\ request[q].pc = "count"
    /\ request' = [request EXCEPT ![q] = [@ EXCEPT !.pc = "insert",
                      !.chain = IF terminal >= MaxChain THEN 0 ELSE terminal + 1]]
    /\ UNCHANGED <<rows, trainer, clock, jobs, poller, worker, recon, faults, ghosts>>

\* INSERT of the INITIAL row, UPDATE of the trainer and COMMIT.  P2002 is
\* caught, but PostgreSQL has aborted the transaction: the UPDATE fails and
\* everything, the cancellations included, is rolled back.
Committed(q) == SetStatus(rows, request[q].locks, "CANCELLED")
DuplicateKey(q) ==
    request[q].chain # 0 /\ DedupeHolder(Committed(q), request[q].chain, 0) # {}

TxCommit(q) ==
    /\ request[q].pc = "insert"
    /\ trainer.exists
    /\ ~DuplicateKey(q)
    /\ rows' = IF request[q].chain = 0 THEN Committed(q)
               ELSE [Committed(q) EXCEPT ![Initial(q)] = InitialRow(request[q].chain)]
    /\ clock' = clock + 1
    /\ trainer' = [trainer EXCEPT !.disabled = FALSE, !.lastExam = clock + 1]
    /\ RequestEnd(q, "committed")
    /\ UNCHANGED <<jobs, poller, worker, recon, faults, ghosts>>

TxDuplicate(q) ==
    /\ request[q].pc = "insert"
    /\ DuplicateKey(q)
    /\ RequestEnd(q, "duplicate")
    /\ UNCHANGED <<rows, trainer, clock, jobs, poller, worker, recon, faults, ghosts>>

\* deleteVocabTrainerRow after the sixth pass, and the commit.
TxDelete(q) ==
    /\ request[q].pc = "delete"
    /\ trainer.exists
    /\ rows' = Committed(q)
    /\ trainer' = [trainer EXCEPT !.exists = FALSE]
    /\ RequestEnd(q, "deleted")
    /\ UNCHANGED <<clock, jobs, poller, worker, recon, faults, ghosts>>

\* The trainer is gone, or the API process dies: rollback.
TxRollback(q) ==
    /\ request[q].pc \in {"read", "count", "insert", "delete"}
    /\ \/ /\ ~trainer.exists
          /\ request[q].pc = "delete" \/ (request[q].pc = "insert" /\ ~DuplicateKey(q))
          /\ UNCHANGED faults
       \/ Strike("requestCrash")
    /\ RequestEnd(q, "failed")
    /\ UNCHANGED <<rows, trainer, clock, jobs, poller, worker, recon, ghosts>>

\* VocabTrainerService.update with reminderDisabled, and .delete: neither
\* touches reminder_schedule.
DisableReminders ==
    /\ "disable" \in UserEdits /\ trainer.exists /\ ~trainer.disabled
    /\ trainer' = [trainer EXCEPT !.disabled = TRUE]
    /\ UNCHANGED <<rows, clock, jobs, actors, faults, ghosts>>

DeleteTrainer ==
    /\ "delete" \in UserEdits /\ trainer.exists
    /\ trainer' = [trainer EXCEPT !.exists = FALSE]
    /\ UNCHANGED <<rows, clock, jobs, actors, faults, ghosts>>

---------------------------------------------------------------------------
PollerStep(p) ==
    \/ Claim(p) \/ AddJob(p) \/ MarkQueued(p) \/ RemoveJob(p) \/ RollbackClaim(p)
HandlerStep(w) ==
    \/ ReadRow(w) \/ Promote(w) \/ BeginSend(w) \/ CheckActed(w)
    \/ CancelSiblings(w) \/ CancelSelf(w) \/ SendOk(w) \/ RecordSent(w)
    \/ RecordFailure(w) \/ FinishJob(w)
ReconStep ==
    \/ ReleaseStale \/ ScanQueued \/ LookupJob \/ ResetOrphan \/ ScanDone
    \/ Collapse \/ RepairMissing
TxStep(q) ==
    TxCancel(q) \/ TxCount(q) \/ TxCommit(q) \/ TxDuplicate(q) \/ TxDelete(q)

Next ==
    \/ \E s \in Slots : BecomeDue(s) \/ Stall(s) \/ LoseJob(s)
    \/ \E p \in Pollers : \/ PollerStep(p) \/ AddJobError(p)
                          \/ MarkQueuedError(p) \/ PollerAbort(p)
    \/ \E w \in Workers : \/ \E s \in Slots : PickJob(w, s)
                          \/ HandlerStep(w) \/ SendError(w)
                          \/ HandlerError(w) \/ WorkerCrash(w)
    \/ ReconStep
    \/ \E q \in Requests : ReadTrainer(q) \/ TxStep(q) \/ TxRollback(q)
    \/ DisableReminders \/ DeleteTrainer

Spec == Init /\ [][Next]_vars
---------------------------------------------------------------------------
(* Properties                                                              *)

\* Two workers never handle the same row past the CAS QUEUED -> SENDING, and
\* no poller, reconciler or exam submission takes the row away from the one
\* that does, although a stalled job runs twice and ids are enqueued again.
SendExclusive ==
    /\ \A w \in Workers : worker[w].pc \in SendingPcs =>
          rows[worker[w].slot].status = "SENDING"
    /\ \A v, w \in Workers :
          /\ worker[v].pc \in SendingPcs /\ worker[w].pc \in SendingPcs
          /\ worker[v].slot = worker[w].slot
          => v = w

\* A mail the provider confirmed is never sent again: its row is SENDING with
\* nobody left to call the provider, or SENT.  (EmailProcessor; the retry and
\* the orphan reset must not resurrect such a row.)
MailedOnce ==
    \A s \in Slots : mails[s] # 0 =>
        /\ mails[s] = 1
        /\ rows[s].status \in {"SENDING", "SENT"}
        /\ \A w \in Workers : worker[w].slot = s =>
              worker[w].pc \notin {"check", "siblings", "self", "send", "failed", "hardfail"}

\* The provider is called at most MaxAttempts times for one row, however often
\* the row goes through the queue (handleSendFailure).
CallsBounded == \A s \in Slots : calls[s] <= MaxAttempts

\* The trainer has at most one INITIAL on its way: the count of terminal
\* INITIALs, the dedupe key and the cancellation together keep two exam
\* submissions from starting two reminder cycles.
Live(s) == rows[s].status \in ActiveCancelStatuses \cup {"SENDING"}
OneLiveInitial ==
    \A q, r \in Requests : Live(Initial(q)) /\ Live(Initial(r)) => q = r

\* A SENT INITIAL always has its escalations, whatever crashed: they are
\* inserted by the transaction that marks it SENT, so the reconciler's
\* backfill finds nothing to do.
SentHasEscalations ==
    \A q \in Requests : rows[Initial(q)].status = "SENT" =>
        \A l \in Levels \ {0} : rows[<<q, l>>].status # "ABSENT"

\* SENT, FAILED_TERMINAL, CANCELLED and EXPIRED are final for every actor, the
\* ones acting on a stale read included.
TerminalIsFinal ==
    [][\A s \in Slots : rows[s].status \in TerminalStatuses =>
          rows'[s].status = rows[s].status]_vars

\* The refinement mapping: a mail counts as delivered from the moment the
\* provider confirmed it, also while the row is still SENDING.
PhaseOf(s) ==
    CASE rows[s].status = "ABSENT" -> "none"
      [] rows[s].status \in ActiveCancelStatuses -> "scheduled"
      [] rows[s].status = "SENDING" -> IF mails[s] = 0 THEN "sending" ELSE "delivered"
      [] rows[s].status = "SENT" -> "delivered"
      [] OTHER -> "dropped"
Intent == INSTANCE ReminderIntent WITH
             Cycles <- Requests, phase <- [s \in Slots |-> PhaseOf(s)]

\* The whole pipeline (pollers, Bull, workers, reconciler, exam transactions,
\* faults) only ever moves reminders the way ReminderIntent allows.
ImplementsIntent == Intent!Spec

---------------------------------------------------------------------------
(* Fairness.  A live process takes its next step: setInterval drives the   *)
(* poller and the reconciler, Bull hands out waiting jobs and checks for   *)
(* stalled ones, a request runs to its end.  No fairness for faults, users *)
(* and new requests.  Bull's wait list is first in, first out, so no job   *)
(* is passed over for ever, and a claim that nobody finishes is older than *)
(* staleClaimedAfterMs in every pass but finitely many: strong fairness.   *)
ReleaseOf(s) == ReleaseStale /\ rows[s].status = "CLAIMED" /\ rows'[s].status = "PENDING"
Fairness ==
    /\ \A s \in Slots : WF_vars(BecomeDue(s)) /\ WF_vars(Stall(s)) /\ SF_vars(ReleaseOf(s))
    /\ \A p \in Pollers : WF_vars(PollerStep(p))
    /\ \A s \in Slots : SF_vars(\E w \in Workers : PickJob(w, s))
    /\ \A w \in Workers : WF_vars(HandlerStep(w))
    /\ WF_vars(ReconStep)
    /\ \A q \in Requests : WF_vars(TxStep(q) \/ TxRollback(q))
FairSpec == Spec /\ Fairness

\* A row never stays CLAIMED: the poller queues it or rolls it back, and the
\* reconciler releases it when the poller died or its rollback threw.  Nor QUEUED:
\* a worker takes it, or the reconciler finds it has lost its job (Redis, or a
\* worker that came before MarkQueued) and resets it.  Nor SENDING: the worker
\* records an outcome.
InFlightRecovered ==
    \A s \in Slots, status \in {"CLAIMED", "QUEUED", "SENDING"} :
        rows[s].status = status ~> rows[s].status # status
=============================================================================
