# TLA+ models of the vocab management backend

This directory holds a verification development of the NestJS backend in this
repository: TLA+ modules translated from the source, TLC configurations that
check them on small instances, and proofs checked by TLAPS. Paths below are
relative to the repository; the lines behind every definition are in
`PROJECT.json` under `map`, the hazards the properties are aimed at under
`hazards`.

1. The system
2. Modules, runs and proofs at a glance
3. Reminders
4. AI jobs
5. Chat
6. Exam submission, mastery and dashboard
7. Exam questions
8. Related words
9. Accounts and the HTTP pipeline
10. Vocabulary content and quotas
11. Notifications and devices
12. Caches
13. What the code does that its authors may not expect
14. Not modelled

## 1. The system

| Component | State it keeps | Operations | Interacts with |
|---|---|---|---|
| Reminder schedule (`domains/reminder/repositories`, `prisma/schema.prisma`) | one row per mail to send: status, attempt, due time, claim, chain number, escalation level | the SQL statements of `ReminderScheduleRepository` | poller, worker, reconciler, exam submission |
| Poller, email worker, reconciler | claimed batches, the row at work | claim, enqueue, send, record, recover | table, Bull, mail provider, trainer row |
| Exam submission (`vocab-trainer/services`, `ai/processors`) | trainer row, results | grade, update mastery, count passes, reschedule reminders | everything above, notifications |
| Exam questions (`vocab-trainer`, `ai/processors`) | `questionAnswers` of a trainer | open an exam, generate, store, announce | AI lock, events |
| AI jobs (`domains/ai`) | Redis lock per user (token, TTL 330 s), Bull jobs | acquire, refresh, release, generate, evaluate | exam submission, events |
| Vocabulary mastery and dashboard (`vocab/services/vocab-mastery.service.ts`) | score and counters per word and user, history | get-or-create, update, aggregate | exam submission |
| Chat (`domains/chat`) | messages, pending confirmations, abort controllers | send, cancel, confirm, agentic loop | Bull, Redis, vocabulary services |
| Related words (`vocab-related-word.*`) | relations, each link stored twice; advisory locks | upsert, import, delete, upgrade of free texts | entries |
| Vocabulary (`domains/vocab`), subjects, plan quotas | entries, text targets, subjects, daily counter in Redis, translation jobs | create, edit, delete, import, translate | quotas, AI, subjects |
| Accounts (`domains/identity`, `src/auth`) | the Supabase account and the local row | sign up, sign in, synchronise, switch off, delete | every request |
| HTTP pipeline (`shared/guards`, controllers) | rate-limit counters | route, authenticate, throttle, authorise | accounts |
| AI settings (`platform/config`, `ai/providers`) | rows of `config`, per user or the system's | set, delete, look up the provider and the model of a call | every AI call |
| Notifications and push | notification rows with recipients, device tokens, queue | create, mark read, expire, register, push | Bull, FCM |
| Caches (`shared/services/cache-manager.service.ts`, repositories) | copies of rows and lists in Redis | read, fill, drop | the database |

What is hard here, and hard to test: several instances of poller and reconciler
share one table without owning its rows; a job becomes visible before the row
says QUEUED; Bull runs a stalled job twice; a worker may die between telling the
provider and telling the table; exam submissions overlap each other and the
user's edits, with every statement a step of its own; retries of AI jobs repeat
half-done writes; locks in Redis expire under their owner; two systems (Supabase
and the database, Redis and the database) are changed by separate calls; caches
are dropped around transactions; the order of guards and routes decides who may
do what.

What makes each component correct:

* reminders: one sender per row, one mail per intent, bounded retries, final
  statuses, one cycle per trainer, SENT together with its escalations, no row
  stuck, and the whole pipeline an implementation of a five-phase intent;
* AI jobs: at most one live job per user that believes it holds the lock,
  effects of an evaluation applied once, the lock given back;
* exams: scores and passes are earned, an answer counts once unless its job is repeated, results
  belong to one exam, whoever waits for questions is told an end;
* dashboard: its queries agree with each other and with the table;
* chat: one end told per message, a cancellation hits what was running and no
  later message, a tool that writes needs a confirmation of its own;
* related words: links are mirrored and unique, requests end;
* accounts and requests: both sides tell the same users, a deactivated user
  reaches no handler, limits are one's own, routes are the declared ones;
* vocabulary: translations land or stay accounted for, the daily quota holds, the quota of
  subjects but for what overlaps, imports land;
* AI settings: one row per key and owner, a call finds what the settings name;
* notifications: one per job, devices told the truth;
* caches: stale only through a named gap, a failure, or a row put too late.

## 2. Modules, runs and proofs at a glance

| Modules | Run | Instance for TLC | Proofs |
|---|---|---|---|
| `ReminderSchedule`, `ReminderDelivery`, `ReminderIntent`, `MC_ReminderDelivery` | `reminder_delivery`, `reminder_recovery` | 3 | `ReminderDelivery_proofs` |
| `TrainerJob`, `MC_TrainerJob` | `trainer_jobs` | 4 | `TrainerJob_proofs` |
| `AiSettings`, `MC_AiSettings` | `ai_settings` | 4 | `TrainerJob_proofs` |
| `ChatSession`, `MC_ChatSession` | `chat_session` | 5 | `ChatSession_proofs` |
| `VocabMastery`, `ExamSubmission`, `MasteryDashboard`, `MC_ExamSubmission` | `exam_submission` | 6 | `ExamSubmission_proofs` |
| `ExamQuestions`, `MC_ExamQuestions` | `exam_questions` | 7 | `Requests_proofs` |
| `RelatedWords`, `MC_RelatedWords` | `related_words` | 8 | `RelatedWords_proofs` |
| `Accounts`, `HttpRoutes`, `HttpPipeline`, `MC_HttpPipeline` | `http_pipeline` | 9 | `Requests_proofs` |
| `VocabContent`, `MC_VocabContent` | `vocab_content` | 10 | `VocabContent_proofs` |
| `Notifications`, `MC_Notifications` | `notifications` | 11 | `Notifications_proofs` |
| `CacheAside`, `MC_CacheAside` | `cache_aside` | 12 | `RelatedWords_proofs` |

`MasteryDashboard` extends `ExamSubmission`, which extends `VocabMastery`;
`HttpPipeline` extends `Accounts` and `HttpRoutes` and takes their steps as its
own; `ReminderDelivery` implements `ReminderIntent`. `Requests_proofs` extends
both `HttpPipeline` and `ExamQuestions` and proves about each on its own;
so do `TrainerJob_proofs` with `TrainerJob` and `AiSettings`, and `RelatedWords_proofs`
with `RelatedWords` and `CacheAside`.
Each run is one question about one component, or about several at work together.
In every run TLC finds no violation.

A configuration whose system may simply stop (every request served, every job
ended) does not check for deadlock; the two reminder runs and `cache_aside` do.
Symmetry is used only where no liveness property is checked and no value of the
set is told apart.

What TLC alone checks: liveness. Every invariant and every action property that a
run checks is proved too. Every theorem holds for any values of the constants that
satisfy the named assumptions of the module, and those assumptions are evaluated
by every run.

## 3. Reminders

### Correspondence

One trainer is modelled: every statement of the repository selects rows by id,
by `initialReminderId`, by `entityId`, or by status and time, so rows of
different trainers interact only through page limits (below).

| Code | Model |
|---|---|
| row of `reminder_schedule` | `rows[<<q, l>>]`: the INITIAL (`l = 0`) of submission `q`, or its escalation `l`; `ABSENT` before its insert |
| `dueAt`, `nextAttemptAt` against `now()` | `due`: `"no"`, `"backoff"`, `"yes"`; `BecomeDue` is the passing of time |
| `lastExamSubmittedAt`, `sentAt`, `actedCheckAfter` | positions in the order of the exam timestamps (`clock`) |
| `dedupe_key` and its partial unique index | `DedupeHolder` on `<<chain, level>>` |
| `tick`, `enqueueOne` | `Claim`, `AddJob`, `MarkQueued`, `RemoveJob`, `RollbackClaim`, and their failures |
| Bull | `jobs`: one job per row id; an add under a known id is ignored; removal on completion; failed jobs stay; a stalled job is requeued once, then failed |
| `handleReminderScheduleEmail` | one action per await: `ReadRow`, `Promote`, `BeginSend`, `CheckActed`, `CancelSiblings`, `CancelSelf`, `SendOk`/`SendError`, `RecordSent`, `RecordFailure` |
| `run` of the reconciler | `ReleaseStale`, `ScanQueued`, `LookupJob`, `ResetOrphan`, `ScanDone`, `Collapse`, `RepairMissing` |
| `submitChoiceBasedExam`, fill-in-blank processor | `ReadTrainer`, `TxCancel`, `TxCount`, then `TxCommit`, `TxDuplicate`, `TxDelete` or `TxRollback` |
| PostgreSQL, READ COMMITTED | the rows an open transaction has updated are `Locked`: other updates of them wait, `SKIP LOCKED` passes over them, reads see the old version |
| `update` with `reminderDisabled`, `delete` | `DisableReminders`, `DeleteTrainer` |

`mails` and `calls` are history variables: what the provider confirmed, and how
often it was called. Crashes lose the memory of an actor, never the table.

Abstracted: page limits of the reconciler's queries (50 and 20 rows), the
retention of at most 500 failed jobs, the content of mails, the moment a claim
is old enough to be stale (any moment), time jitter.

### Runs

| Run | Question | Instance |
|---|---|---|
| `reminder_delivery` | can a row have two senders, a mail go out twice, two cycles live at once, a final row revive, retries exceed their bound, SENT come without its escalations? is it all an implementation of `ReminderIntent`? | 2 submissions, 1 poller, 2 workers, 2 attempts, 1 escalation, sixth pass, deletion of the trainer; any one of: a request dies, a worker dies, a handler throws, a live worker is taken for stalled, the provider fails (as often as there are attempts) |
| `reminder_recovery` | does every claimed and queued row move on? | 1 submission, 1 poller, 1 worker, 1 escalation, chain of 2, batches of 2, reminders disabled; a dying poller, a lost job, a failed enqueue and a rollback that throws, each once; with fairness |

Bounds. Two attempts (3 in the code) reach both outcomes of
`handleSendFailure`; one escalation (3) is collapsed and cancelled as a sibling
as soon as its INITIAL or the user acts; a chain of 1 or 2 (30) reaches the limit
and the step before it; a batch of one claims row by row, a batch of two splits and
fills up (30). Two submissions are two rivals for one cycle, or one and its successor;
two workers are the least number that can share a row. The faults strike one at
a time in `reminder_delivery`, since each opens a different race, and together in
`reminder_recovery`, since the reconciler has to clear up after all. Deadlock
is checked in both.

Fairness (`FairSpec`): pollers and reconciler are driven by `setInterval`, Bull
hands out waiting jobs and checks for stalled ones, requests run to their end:
weak fairness for each. Bull's wait list is first in, first out, so no job is
passed over for ever: strong fairness of its hand-out. A claim nobody finishes is older than
`staleClaimedAfterMs` in all but finitely many passes of the reconciler: strong
fairness of its release. Faults, users and new requests are not fair.

`reminder_recovery` has no dying workers: one leaves its row SENDING, where no
process looks, and a job whose worker dies twice stays in Bull as failed and hides
its QUEUED row from the reconciler, which only asks whether a job exists under
the id (section 13).

### Proofs

`ReminderDelivery_proofs` proves for any number of submissions, pollers and
workers, any limits and any fault budget:

| Theorem | Statement |
|---|---|
| `TypeCorrect` | `Spec => []TypeOK` |
| `Invariant` | `Spec => []IInv` |
| `SendersExclude` | `Spec => []SendExclusive` |
| `NoSecondMail` | `Spec => []MailedOnce` |
| `OneCycleAtATime` | `Spec => []OneLiveInitial` |
| `FinalIsFinal` | `Spec => TerminalIsFinal` |
| `CallsBoundedCorrect` | `Spec => []CallsBounded` |
| `SentHasEscalationsCorrect` | `Spec => []SentHasEscalations` |
| `ImplementsIntentCorrect` | `Spec => ImplementsIntent` |

Assumptions: the named `ASSUME`s of the two modules (finitely many
submissions, positive limits, sentinels that are not data).

The argument. `IInv` adds to the checked invariants what makes them inductive.
`ActorsOK`: an actor past its read names a row. `LocksOK`: an open exam
transaction only locks rows that are still PENDING, CLAIMED or QUEUED, and no
two lock the same, so its commit never overwrites a row that is being sent.
`InsertedOnce`: an INITIAL appears with the commit of its own submission and
escalations only once it is SENT, so no insert overwrites a row. `ChainOK`: the
INITIALs that were sent or given up hold the chain numbers 1..n without gaps, a
live one holds n + 1, and a transaction never carries a number above n + 1; an
insert that is not a duplicate therefore carries n + 1 exactly, which no live
INITIAL can hold. The steps are first sorted into kinds (`StepKinds`,
`ExamKinds`): most actions of all five processes are, for these invariants, one
of six kinds, and each layer is then shown to survive each kind.

What a row remembers. `CallInv`: the attempt number bounds the calls. A row that
may still be sent has had at most `attempt` calls and `attempt < MaxAttempts`;
while it is SENDING one more call may be unrecorded, but not before its worker has
made it. `EscalationChains`: an escalation has the chain number of its INITIAL, so
the holder of its dedupe key would be an escalation of another INITIAL with the
same number, which `ChainOK` excludes; the transaction of SENT therefore skips
none.

The refinement. The phase of an intent depends only on the status of its row and
on its mails, so the same kinds of steps are the abstract steps: Started begins an
intent, Mailed delivers it, Ended retries or abandons it when no mail was
confirmed and otherwise only schedules the escalations of an INITIAL that is
delivered already (`MailedBeforeRecord`: a worker about to record SENT has had its
mail confirmed); a commit starts a cycle only if it drops the INITIAL that was on
its way, because after it `OneLiveInitial` holds.

Only model-checked: liveness (out of the prover's reach).

## 4. AI jobs

### Correspondence

`TrainerJob` is about one user, the scope of the lock's key, and one trainer for
each kind of job.

| Code | Model |
|---|---|
| Redis key of `VocabTrainerJobLockService` | `lock`: the token's owner, and whether the key has a TTL |
| `ACQUIRE_SCRIPT`, `REFRESH_SCRIPT`, `RELEASE_SCRIPT` | `AcquireOrGetActive`, `Refresh`, `Release`, one step each |
| `withUserActiveJobLock` | `AcquireOrGetActive`, `Enqueue` or `EnqueueError`, `UndoLock`, `RequestCrash` |
| Bull | `jobs`; `PickJob`, `FinishJob`, `FailJob`, `RetryDue`, `WorkerCrash`, `Stall` |
| the four processors | `CheckOwner`, `RefreshLock`, `CallAi`, then `WriteQuestions`, or `WipeResults`, `InsertResults` and, for fill in the blank, `UpdateMastery` ... `ScheduleNotification`; `ReleaseLock` |
| the catch block | `HandleError`, `HandleErrorThrows` |
| questions and result rows | `output[j]`: how many copies of job `j`'s work the database shows |
| `reminderRepeat` | `repeat` |
| `VocabTrainerService.delete` | `DeleteTrainer` |

`passed` is a history variable: the jobs some attempt of which was graded as passed.
Both generation processors are one kind: they differ in the prompt.

Abstracted: what the model answers (any grade), the mastery rows, progress events
to the browser, the rows of the reminder schedule (section 3). Bull does not
know `UnrecoverableError`, a class of bullmq, so a rate limit is retried like
any other error, without the lock.

### Run

`trainer_jobs`: does a job at work hold the lock, alone; is what a trainer shows
the work of one job; is a pass counted once; does the user get the lock back? Two
fill-in-blank evaluations of one trainer, an audio evaluation and a generation, of which two
are requested; 2 workers, 2 attempts, completion at 2 passes, deletion of the audio
trainer; any one fault of ten: a model error, a rate limit, errors before
and after the commit, a dying worker, a stall, an expiry under a working owner, a
failed enqueue, a dying request, a catch block that throws.

Bounds: two attempts (3) are the first number that tells the last attempt from
the rest; two passes (6) reach the last one; two jobs are a stale one and its
successor, or two kinds that share the lock; two workers are the least number that
overlap. `PassesCountedOnce` allows one extra pass for each fault that can strike
after the commit (`lateError`, `workerCrash`), which is what the code does
(section 13). Deadlock is not checked: requests come once, and when all jobs have ended
nothing is left to do.

The TTL (330 s and the backoffs) is meant to outlive an attempt and the wait for
the next one. `Expire` under a working owner is therefore a fault of its own,
`expiry`, and so is `stall`, Bull taking a live worker for dead; `WorkersOwnLock`
and `OutputOfOneJob` speak of runs without these two (`Quiet`), `UserUnblocked` and
`PassesCountedOnce` of all. While its job waits, the key may expire at any time.

Fairness (`FairSpec`): Redis expires keys that have a TTL, Bull retries what is due
and checks for stalled jobs, handlers and requests run to their end (weak); the
wait list is first in, first out (strong, per job). New requests, faults and
deletions are not fair.

### Proofs

`TrainerJob_proofs` proves for any number of jobs and workers:

| Theorem | Statement |
|---|---|
| `TypeCorrect` | `Spec => []TypeOK` |
| `WorkersOwnLockCorrect` | `Spec => []WorkersOwnLock` |
| `OutputOfOneJobCorrect` | `Spec => []OutputOfOneJob` |
| `PassesCountedOnceCorrect` | `Spec => []PassesCountedOnce` |

Types need two facts beside themselves: a job that has not ended has an attempt
left, and a job is in its initial state until its request has queued it. For the lock, the
invariant joins Bull's side (`HoldsJob`: a handler that runs is the worker of
an active job) to the lock's (`LockUsed`). A lock names one job and a job one
worker, so an owner is alone; a release by a failing request cannot hit an
owner, because its job was never queued, and one by a failing handler only
touches the lock of the one worker its job has.

The output rests on that: `OneOutput` says that the work shown for a trainer is one
copy of one job's, `Cleared` that a handler about to insert finds nothing of its
kind. Only the owner of the lock writes, every other step leaves the output
alone or deletes some (`OutputChanges`), and a second handler about to insert
would be a second owner.

The count of passes is an account. Still to come is one pass for each chance to
store it: a handler that has not stored its count (`Chances`) and a job that is in
nobody's hands and may be handed out again (`Loose`); together they are `Due`.
Paid for are the jobs credited so far (graded as passed, in a handler that may
still grade, or loose) and one for each slip that lets a job count twice (an error
after the commit, a dying worker, a stall). `StoredPaid` is `repeat + Due <= Paid`, and `ReadPaid`
says the same of the count a handler has read and not yet stored. Every step is
`Balanced`: what it adds to one side it adds to the other. In the end nobody is due
and only passed jobs are credited, which is `PassesCountedOnce`. Counting needs
finitely many jobs and workers (`FiniteAssumption`).

Only model-checked: liveness.

### Settings of the providers

`AiSettings` is about the rows that name the provider and the model of a call.

| Code | Model |
|---|---|
| rows of `config` | `rows`: owner (a user or the system), key, value |
| `ConfigPipe` | `Accepted`: what may be written under a key |
| `upsertUserConfig` | `UpsertUserConfig`, one statement on the unique index |
| `upsertSystemConfig`, the deletions | `FindConfig`, then `UpdateConfig`, `CreateConfig`, `DeleteConfig`, or a failure (`CreateConflict`, `RowGone`); the system's keys have a partial unique index |
| `AiProviderFactory`, `getModelName`, `getAudioModelName` | `Start`, then `FindUserConfig` and `FindSystemConfig`, one query each, first along `ProviderOrder`, then along `ModelOrder` |
| the call of the provider | `Answer`, `Fail`, `InvalidModel` (OmniRoute's second try with its default) |

At each key a user's own row hides the system's, whatever it holds; a value that
will not do (an empty or unknown one, `"junk"`) passes on to the next key, after the last
one to the default. `chat` asks for the system's model although the provider may be the
user's own. Abstracted: case and blanks of provider names, the cache of
provider objects (they hold no setting), `isActive` (no code switches a row off), retries
by the SDK (`maxRetries` is 0).

Run `ai_settings`: does a call during which no setting changes end up with what the
settings name (`CallResolves`)? One user, three requests that set or delete four of the
keys, one call of any kind, three models, one of them an alias of OmniRoute's, three of five
providers configured. Three requests are a system row, an own row, and a rival for
either. No fairness, no deadlock check: everybody acts once.

`TrainerJob_proofs` proves for any number of users, requests, calls and models that
satisfy `SettingsAssumption`:

| Theorem | Statement |
|---|---|
| `OneRowPerSetting` | `SettingsSpec => []OneRow` |
| `TriesDiffer` | `SettingsSpec => []NoModelTriedTwice` |
| `WalkFindsTheSettings` | `SettingsSpec => []CallResolves` |
| `SettingsTyped` | `SettingsSpec => []SettingsTypeOK` |

`SettingsInv` joins the rows (ids below `nextId` and all different, one row per
owner and key), the values requests carry (accepted ones), and, for each call that nothing has
disturbed, that the keys it has passed hold nothing that will do (`CallInv`), so that
the first value it takes is the one the reference picks. The first two properties are
proved only: they need no run to say what they say.

## 5. Chat

### Correspondence

`ChatSession` is about one user: every key, channel and controller of the chat is
per user.

| Code | Model |
|---|---|
| `CHAT_CANCEL_KEY` | `flag`; `flagSets` counts the SETs that were issued and have not reached Redis |
| `saveAndEnqueue` | `ClearFlag`, `SaveMessage`, `Enqueue`, or `RequestError` before any of them |
| `handleCancelGeneration`, `deleteHistory` | `Cancel`, `DeleteHistory`, then `SetFlag` whenever the SET arrives |
| `AbortControllerRegistry` | `registry`: per process the run whose controller is kept; `aborted` in the run is its signal |
| `handleDisconnect` | `Disconnect` |
| `confirm_response`, BRPOP on `chat:{userId}:confirm:{requestId}` | `asks`: one record per request id with the list under its key; `Answer`, `AwaitAnswer` |
| `handleChatJob`, `runAgenticLoop` | `runs[w].pc` and one action per await, from `CheckCancelled` to `Tell` |
| `catch` and `finally` | `ModelCancelled`, `FailJob`, `FinishJob`, `Forget` |
| `handleJobFailed` | `FailJob`, then `TellError` or `ReportError` |
| Bull | `jobs`; `PickJob`, `FinishJob`, `FailJob`, `RetryDue`, `Stall`, `Crash` |

`told` (the final events of each message) and `excused` (the messages a
cancellation or a newer run may have hit) are history variables. `acts` counts
what interferes, the user's own cancellations among it, against one budget.

Abstracted: everything the model says (any text, any tool, any number of times),
tools that only read, the texts of the messages, the assistant's rows, the
progress events, the window of ten messages (a message with ten newer ones is not
found any more, like a deleted one). A run that
is aborted may go on: whether the provider looks at the signal is its own affair.

### Run

`chat_session`: does a write need a confirmation of its own, is it not repeated, does
an old cancellation spare new messages, is the client told one end of every message,
sooner or later? Two messages side by side on two processes, one tool that
writes, two iterations, two attempts; any one of eleven interferences (a failing model,
tool, store or request, a tool that fails after its commit or times out, a crash, a stall, a cancellation, a
disconnection, a deleted history), and besides it a report of a failure that is lost.

Bounds: two iterations (3 for a guest, 7 and 10 for the others) are a call and
the last one, which may repeat the tool; two attempts are those of the queue; two messages
are the least number for a stale flag and for two runs that disturb each other, two processes the least for a
cancellation that must travel through Redis. The lost report has a budget of its
own because it only matters after something else has failed.
Deadlock is not checked: when all messages are answered nothing is left to do.

`OneWritePerMessage` allows one more write for each failure that can strike once a
tool has begun its write, and `ToldOnce` one more end for each crash or stall, which
repeat a job that has told its end already: the code has no protection there. A tool
may fail on either side of its commit: `create` of an entry commits
(vocab.service.ts:177), then queues the translation and clears caches, each of
which may throw. The loop hands the model a failure either way, and the model may
call the tool again, so `ToolErrorAfterWrite` (kind `writeError`) counts in the bound
and `ToolError`, which has changed nothing, does not. Nothing is allowed for late
answers, cancellations, reconnections or tools that fail before their commit.

Fairness (`FairSpec`): every await of a handler returns, BRPOP by its timeout;
requests run to their end; Bull hands out, retries and checks for stalled jobs.
The user is not fair: no answer, cancellation or flag has to come.

### Proofs

`ChatSession_proofs` proves for any number of messages, handlers, processes and
iterations, any tools and any budget:

| Theorem | Statement |
|---|---|
| `TypeCorrect` | `Spec => []TypeOK` |
| `OnlyConfirmed` | `Spec => []OnlyConfirmedWrites` |
| `CancelledForCauseCorrect` | `Spec => []CancelledForCause` |
| `ToldOnceCorrect` | `Spec => []ToldOnce` |
| `OneWriteCorrect` | `Spec => []OneWritePerMessage` |

Types need `RunTypes` (a handler at work has a message, a kept controller is a run
of its own process inside the `try`, and a run that waits has asked) and
`JobTypes` (a job that has not ended has an attempt left). `OnlyConfirmed` rests
on `WriteInv`: the list under a confirm key holds at most the one answer to that
request; the confirmation a run waits for has led to nothing yet and, once the
run is about to execute the tool, was a yes; no two runs wait for the same one.
Most steps leave the confirmations alone (`CalmSteps`); the seven that do not are
treated one by one, a tool that writes after its timeout included: its run has
moved on, so nobody waits for that confirmation.

`CancelledForCauseCorrect` rests on `CauseInv`: while the cancel flag is set, or a
SET of it is on its way, every message between its request and its job is excused
(`FlagCause`: a message sent later clears the flag first); a run that found the
flag, was aborted, or holds the outcome `cancelled` belongs to an excused message
(`RunCause`: whoever aborts a run excuses its message, and a run at work has a
queued one); and what was told agrees. The invariant is needed in all three parts,
for the flag reaches the client only through a run. Steps that cannot make a run
`Caught` are `Harmless` and treated together; checking the flag, aborting and
telling are treated one by one.

`ToldOnceCorrect` and `OneWriteCorrect` count chances. For a set of steps,
`Chances(steps, m)` are the handlers at one of them with message `m`, and one more
while the job is in nobody's hands. `ToldInv` says that the ends told and the
chances to tell one never exceed 1 plus the crashes and stalls, `WrittenInv` that
the confirmations acted on and the chances to write never exceed 1 plus the
failures that repeat a job. Telling uses up the chance of the handler that tells, a write that
of the handler that waited; a job in nobody's hands is one chance
and turns into one handler; only a failure makes a chance, and it is on the other side.

Only model-checked: liveness.

## 6. Exam submission, mastery and dashboard

### Correspondence

`ExamSubmission` is about one trainer of one user, `VocabMastery` has the rows and
the arithmetic of mastery, `MasteryDashboard` the queries over them.

| Code | Model |
|---|---|
| `submitChoiceBasedExam` | `SubmitChoice` (read and grade), then a step for each await below |
| `submitFillInBlank`, `FillInBlankEvaluationProcessor` | `SubmitFill`, `CallAi`, then the same steps; an error starts the job again (`Abort`) while it has attempts |
| matching of answers with words | `LastCarrier`, `FirstCarrier`: the one overwrites, the other takes the first |
| `deleteResultsByTrainerId`, `createResults` | `WipeResults`, `CreateResults` |
| `updateMastery` for each result in turn | `FindMastery`, `CreateMastery`, `UpdateMastery`, `SaveHistory` |
| `passCount`, the transaction, the completion | `CountPass`, `SyncTrainer`, `NotifyCompleted`, `CompleteTrainer`, `ScheduleNotification` |
| `VocabTrainerService.update` | `EditTrainer` (the read), `WriteTrainer` (every field, as the client gives it or as it was read; `Repeats` are the values of `reminderRepeat` a client may give) |
| deletion of trainer and words, with their cascades | `DeleteTrainer`, `DeleteWord` |
| `VocabMasteryRepository` aggregates | the operators of `MasteryDashboard`, one per query; `DashboardAgrees` joins `QueriesAgree` and `TrendsComparable` |

`passes` (gradings that ended as passed), `granted` (how far the user has set
`reminderRepeat` beyond them), `asked` (answers submitted for each word), `again` (answers
a failed attempt had counted before its job was repeated) and `met` (which requests were in
flight together) are history variables.
Abstracted: the text of questions, names, the reminders of the transaction
(section 3) and the lock around the job (section 4); dates, so that the progress is
taken over all days and the trends compare with the snapshot of now.

### Run

`exam_submission`: are scores and passes earned, is an answer counted once unless its job is repeated
after counting it, do results belong to one exam, and do the queries of the dashboard agree with each other? Two
requests or jobs, two words of which one text is shared, so that an answer can be
credited to either; a trainer of one or both words; two languages, a subject that
one word links to twice; pages of one row; 2 attempts, completion at 2
passes, scores up to 2, one error, crash or deletion. 1.3 million states.

Bounds: two requests are a submission and its rival, or a submission and an edit;
a score of 2 (10) reaches both ends of the scale and the middle; one pass is left,
so that a completion is one submission away and a count can be lost, and the user may set
the count back to 0 or to the last one; a page of one
(10) makes every list of two overflow. The ratios of the health thresholds (0.6,
0.4) are the code's: with two answers per word they are met, missed and tied.

There is no liveness here: a request ends with its awaits, the job with its
attempts (section 4).

### Proofs

`ExamSubmission_proofs` proves for any number of requests, words, texts and limits:

| Theorem | Statement |
|---|---|
| `SpecInv` | the inductive invariant below |
| `ScoreEarnedCorrect` | `Spec => []ScoreEarned` |
| `PassesEarnedCorrect` | `Spec => []PassesEarned` |
| `ResultsOfOneExamCorrect` | `Spec => []ResultsOfOneExam` |
| `AnswersCountedOnceCorrect` | `Spec => []AnswersCountedOnce` |
| `DashboardAgreesCorrect` | `Spec => []DashboardAgrees` |

The argument. Updates overlap and are lost, so nothing can be said of a row by
comparing it with its predecessor; what survives is that every row in a table
*or in the hands of a request* is earned (`ProcInv`, `MasteryInv`): a row read
stale and written late is still a row that was earned once. The same holds of the
count (`PassInv`): each count read or carried is covered by the credit of the trainer
(`Credit`), what the user has set it to and the passes graded since, and this only grows. For the results, `AllMet` says that being in flight together
is symmetric and covers whoever is in flight now, `Writers` that a row was written by a request that had started,
`Inserting` that whoever has wiped the results and not yet inserted its own only
finds rows of requests it has met.

Answers are counted as in an account: `Pending(w)` are the answers to word `w` a request
holds and has not yet carried over to its mastery, `Counted` those a row holds. `CountInv`
says that counted and pending answers together are never more than are due (`Due`:
submitted, or counted before by an attempt that was repeated), of the row in the table
and of the row in the hands of a request about to write it (`WordInv`). An answer stops
being pending with the step that counts it, a lost update only lowers the count, and a job
that starts again has as many answers more to count as it had counted.

`DashboardAgrees` has two halves. That the queries agree (`QueriesAgree`) needs no
more than the type of the table: a `SUM` counts pairs, `Sum(g, S)`, so it is added
up, compared, multiplied and split into parts by bijections between sets of pairs
(`SumAdds`, `SumMonotone`, `SumScales`, `SumOfParts`), and a page has its size because
a ranking without ties is a bijection onto the places. It assumes finitely many
words, scores of at most 10, where the last range of the distribution ends, and a
number of links for every word and subject. That the trends follow the history
(`TrendsComparable`) needs `TrendInv`: while no two requests have met and nothing
has failed (`Calm`), the history of a word has a row for each answer its mastery row
counts and ends with that row (`Settled`), but for one row that a request about to
write it holds (`Unrecorded`). A request that starts while another is in flight,
a failure and a deletion all end the calm for good, so the request at work is alone
with its word (`AloneWhenCalm`). `NamedInv` says that it has a word.

## 7. Exam questions

`ExamQuestions` is about all trainers of one user: where the questions of an exam
come from, and what a client that was told a job id can wait for.

| Code | Model |
|---|---|
| `findOneAndExam` | `OpenChoice`, `WipeQuestions`, `OpenBuilt`, `OpenDialogue`, `WriteDialogue` |
| the three submissions | `SubmitChoice`, `SubmitBlank`, `SubmitAudio`, as far as they touch the questions or the lock |
| `withUserActiveJobLock` | `AcquireOrGetActive`, `Enqueue`, `EnqueueError`, `RequestError` |
| the four processors | `Start`, `SaveQuestions` or `SaveResults`, `EmitCompleted`, `Release` |
| failed attempts, stalls, the TTL | `Fail`, `Stall`, `Expire` |

A request, its job and the questions that job writes share one name. Lock and
retries are as coarse as the questions allow; `TrainerJob` has them step by step.

Run `exam_questions`: is whoever was answered with a job id told the end of that
job (`WaitIsAnswered`); has a choice exam that was opened questions, or work under
way on them, or a reason why not (`QuestionsAccounted`)? Two choice trainers, one
fill in the blank, one audio; four requests; two errors, stalls or expiries. Two
choice trainers are needed because the lock is per user: a request on one is
answered with the job of the other. With four requests a question set is
generated, submitted, emptied and generated again while a second job holds the lock.

Both invariants exempt requests and jobs hit by a process that ended or a
lock that ran out: a stalled job that is given up, or a job that finds its lock gone, ends
without any event (section 13).

Both invariants are proved in `Requests_proofs`, for any number of trainers,
requests, errors, stalls and expiries (`WaitIsAnsweredCorrect`,
`QuestionsAccountedCorrect`). They are not inductive as they stand. The first needs
`LockInv`: a job that is not over, or about to be queued, owns the lock unless its
request was hit; so whoever holds the lock is past asking for it and is itself
waited for rightly (`Awaited`), and a client told the holder's id is told a job of
that kind. `Queued` says that a job exists only once its request is answered, so a
release never takes the lock from a request about to queue. The second needs
`ExamInv`, which leaves out the jobs that have saved questions: if the questions are
gone although a job saved them, a later request emptied them, and it is that
request that accounts for the exam. `JobStep` and `GoneStep` state once what the
steps of jobs and of ending requests have in common.

## 8. Related words

| Code | Model |
|---|---|
| `VocabRelatedWord` rows | `rows`; a link is two mirrored rows, a free text one |
| `pg_advisory_xact_lock`, ids in ascending order | `locks`, `NextLock`, `Lock`; `Victim` is the deadlock detector, `TimedOut` Prisma's five seconds |
| `upsertForVocab`, CSV import | `Upsert`, `CsvRelated`, `ReadNeighbours` (second batch of locks), `Write` |
| deletion of one relation | `FindPair`, `DeletePair` |
| creation and `upgradeFreeTextToLinkedInTransaction` | `Create`, `ReadMatching`, `CommitCreation` |
| deletion of an entry, cascades | `DeleteVocab` |
| unique indexes and foreign keys | `Refused`, `CreationFails` |

PostgreSQL runs READ COMMITTED: the reads and the commit of a transaction are
steps of their own, its writes appear at the commit. `raced` is a history variable:
the pairs a creation linked while a request that had read the same rows was under
way; the upgrade takes no lock, so for these pairs the mirror may be lost.

Run `related_words`: are links mirrored, rows unique, deadlocks only those of the
second batch, and does every request end? Three entries of which one is
created during the run, two requests at a time of three in all, two kinds of
relation, one word per request. Two concurrent requests over three ordered ids are
the least that can wait for each other in the second batch; the third
request makes the rows the other two disagree about. One word per request keeps the
instance small; a second word would only add locks of the first batch, which are
taken in order.

Fairness (`Fairness`, part of `Spec`): the server goes on with every request (weak),
the database hands a free lock to one of its waiters again and again (strong) and
ends a cycle of waiters. A client's timeout is not fair: `RequestsEnd` does not
rely on it. Deadlock is not checked: when the requests are used up nothing is left to do.

`RelatedWords_proofs` proves `OneRowPerPair`, `DeadlockNeedsSecondBatch` and
`LinksMirrored` for any number of entries, requests and words. `LockOrder`: what a request in the first
batch holds lies below what it still wants, and nobody idle holds a lock; in a
cycle of such requests take the lowest lock any of them waits for: whoever holds
it waits for one of the others' locks, and the one it holds for the cycle would be
lower still. `RowsStored` and `Known`: relations lead from stored entries, links to
stored ones, and the entry of a creation under way is unknown to everybody else,
so no link names it before the commit; the rows that a replacement or a creation
adds then differ in their keys from each other (the words were validated) and from
the rows that stay (the former links of the entry and of its mirrors are gone).

`LinksMirrored` needs `MirrorInv`: a request that goes on to write has seen every
row of its entry and of the entries it may link (`SeesAll`), or the pair it has missed
is in `raced` (`Noticed`): its locks keep everybody else away (`HasLocks`), except a creation, which
takes none. Rows carry the number of the request that wrote them (0 for those an
upgrade adds on the other side), so that a free text and the link it was upgraded to are
never both there (`Numbers`, `NoTwins`).

`RequestsEnd` is only model-checked.

## 9. Accounts and the HTTP pipeline

| Code | Model |
|---|---|
| Supabase user, local row | `sup[s]`, `rows[s]`, both under the Supabase id |
| `signUp`, administrator's `create` | `FindByEmail` or `CreateByAdmin`, `SupabaseSignUp`, `CreateRow`, `Compensate` |
| `signIn`, `verifyOtp`, `changePassword` | `SignIn`, `VerifyOtp`, `ChangePassword` |
| `syncUserFromSupabase` | `Sync`, `SyncCreate`, `SyncUpdate` |
| user service | `UpdateRow`, `DeleteSelf`, `ChangeEmail` ... `RowEmail`, `Delete` ... `RowDelete` |
| decorators of the controllers | `HttpRoutes`: method, path, roles, public, limit, guard, in the order of registration |
| router | `Dispatch`: the first route that takes the URL |
| `GlobalAuthGuard`, `bindRequestUser` | `Authenticate` |
| `UserThrottlerGuard` | `Throttle`, `WindowEnds` |
| `RolesGuard`, `RestrictedGuard`, guards of a handler | `Authorize` |

`offs[s]` counts how often account `s` was switched off and on; `disturbed` are the
accounts on which two calls met or which a fault hit that nothing compensates. An
account is `moved` once its user has changed its address with a code of type
`email_change`, of which the row is told nothing; an `obfuscated` one is the user
Supabase makes up when somebody signs up on a confirmed address, whose identifier the
services store a row under. `BothSidesAgree` excepts these by name.
Names, passwords and the contents of tokens other than roles are left out.

Run `http_pipeline`: do the two systems tell the same users; is a deactivated user
locked out whatever is done between; is a user throttled only for what its own account
has sent, and on public routes, where the code knows only addresses, for what came from
its address, which people behind one address share; does
each of the routes reach its own handler? Two Supabase ids of which one has an
account, two addresses, two calls at a time, three calls and requests in all, one
fault; two requests in progress behind one address, the case in which a counter could confuse
two accounts. Every route is observed in turn,
one per behaviour, since nothing but the user is shared between routes; the accounts
change only while `POST /auth/change-password` is observed, a route that both
verifies tokens twice and asks for the row. A limit of 50 or more admits two
requests, a lower one one: enough to tell one's own request from another's.

Bounds: two ids and two addresses are a user and a rival for the same address; one
fault hits any single step. No fairness and no liveness: each call is a
straight line. Deadlock is not checked, since calls are used up.

`Requests_proofs` proves for any number of Supabase ids, addresses, calls, requests
and faults, and any behaviour of the route observed:

| Theorem | Statement |
|---|---|
| `BothSidesAgreeCorrect` | `PipelineSpec => []BothSidesAgree` |
| `DeactivatedLockedOutCorrect` | `PipelineSpec => []DeactivatedLockedOut` |
| `ThrottledByOwnRequestsCorrect` | `PipelineSpec => []ThrottledByOwnRequests` |
| `DispatchedAsDeclaredCorrect` | `PipelineSpec => []DispatchedAsDeclared` |

The invariant `PipelineInv` has four layers. `SidesInv`: an account nothing has
disturbed is either at rest, and its two sides agree (`Settled`), or has exactly one
call under way, and that call knows where the two sides stand (`Stage`). `OffsInv`: a
row is active exactly when its count of switches is even, a missing row has
an even count, and counts only grow. `ReqInv`: a request past authentication on a
route that is not public, sent while its account was off, was overtaken by a switch, for
otherwise it would have been refused; its tracker names the account of its token.
`HitsInv`: a window counts, under a tracker, only requests of the account or from the
address the tracker names; that a refused user has then sent more than the limit itself
is a count of the window's entries.

That a request reaches the handler declared for it follows from `ReqInv` and from a
fact about the tables alone (`DispatchExact`): the first route that takes the URLs of
a route is that route. It is proved as a table is put together. The lines of one
controller differ by method, by length of the path or by a word where the later path
has another (`Differ`), line by line; a prefix changes nothing between them
(`UnderInOrder`); tables whose paths begin with different words take nothing from each
other (`JoinHeaded`), which is all that is needed between controllers
(`NextController`), except under `vocabs`, where five tables share a prefix and
the second words of their paths tell them apart (`VocabsInOrder`). A route added to a
controller is compared with its neighbours only.

Assumptions: no row is the value for "no row" (`RowAssumption`), no token the value for
"no token" (`TokensAssumption`).

## 10. Vocabulary content and quotas

| Code | Model |
|---|---|
| entries with text targets and subject links | `vocabs`, `subjects` |
| `PlanQuotaService` | `CountVocab`, `GiveBack` (the daily counter), `CountSubjects` |
| creation by name of missing subjects | `UpsertSubject`, one per name, in parallel |
| `create`, `quickAdd`, `update`, `delete`, single targets | `Create`, `Queue`, `Update`, `Delete`, `AddTarget`, `EditTarget`, `RemoveTarget` |
| deletion of a subject | `CheckSubject` (count outside), `DeleteSubject` (count and delete in one serializable transaction); `OtherUserDrops`, the same by the owner of a subject this user's targets link |
| `importCsv` | `Load` (one read), `MergeGroup` or `NewGroup` per group, `EndImport` |
| translation queue | `Take` (reads the entry), `Strip` (removes the placeholder it has seen), `Translate`; `RunFails` and `LockLapses` at any of these |
| a failing call | `CallDies` |

A text is a value with a `Lower` form: uniqueness in the database is exact, the
import compares without case. The identifiers of subjects that come with single
targets and with updates are linked as they come, so `Foreign` subjects of another user may be
among them. `made` (entries the guest has created) and `peak` (the most names of a
guest that were between their count and their creation at one time) are history variables.

Run `vocab_content`: do translations land, do the quotas hold, does an import report
what it has not stored? Four entries, four subjects, one of them another user's, two calls
at a time of three in all, two workers, limits of one entry and
one subject, two attempts, two faults. The bodies are chosen to collide: two
sources that differ in case, a placeholder, two new subjects at once, an import
of three rows in two groups, links to the other user's subject. Two faults are needed for a
job whose runs all fail before the placeholder is removed, and for one that stalls twice. No fairness: the queue's own retries are bounded, and
that a job ends is the subject of section 4.

`VocabContent_proofs` proves, for any number of entries, calls and workers and any
limits:

| Theorem | Statement |
|---|---|
| `GuestQuotaCorrect` | `Spec => []GuestQuota` |
| `TranslationAccountedCorrect` | `Spec => []TranslationAccounted` |
| `ImportLandsCorrect` | `Spec => []ImportLands` |
| `SubjectQuotaCorrect` | `Spec => []SubjectQuota` |

For the daily quota, the invariant counts the requests that hold a unit
of the counter: entries made plus requests between increment and creation (or
give-back) never exceed the counter, and a request that goes on to create has seen a
counter within the limit. For subjects, `SubjectInv` says that the guest's subjects and the
names between count and creation, if there are any of either, stay below the limit plus
`peak`: a count that finds room adds one name to those that are under way, a creation turns a name
into a subject, and nothing else adds to the sum.

For the other two the steps are first sorted by what they may do: to an entry
(`Effect`, `RowsMove`: it may be made, edited, cut off from a subject or deleted, and
keeps its texts otherwise), to a job (`JobsMove`) and to the rows an import carries
(`CallEffect`). `TransInv` then says that an entry that still has its placeholder and that nobody
has edited has a job whose attempts and stalls so far are each a fault (`Spent`), is about to get one,
or was kept from it by a fault (`Due`), and that a worker that asks the AI about such an
entry finds the placeholder gone (`RunOK`). `LandInv` says that each row an import has
merged is in the entry it was merged into (`Stored`), unless that entry has been
changed since, and that what it has read it may go on using.

`TextsAssumption`: lower-casing twice is lower-casing once, and the texts of a CSV row
are not empty.

## 11. Notifications and devices

| Code | Model |
|---|---|
| notification with recipients | `notes` |
| controller and service | `Post`, `Put`, `MarkAsRead`, `MarkAllAsRead`, `Delete`, `CleanupExpired` |
| `NotificationProcessor`, Bull | `AddJob`, `Take`, `Commit`, `Throw`, `Finish`, `Crash`, `Stall` |
| `FcmService.registerToken`, `unregisterToken` | `ReadRegister`, `Register`, `ReadUnregister`, `Unregister` |
| `NotificationFcmProcessor` | `ReadTokens`, `Send` |

`updateStatus` is no action: it looks for a recipient whose id is that of the
notification, and refuses every call. `misled` is a history variable: a
registration or a push told somebody what was not so at any moment of the call.

Run `notifications`: does a job create one notification, and are devices told the
truth? Two users who share a device, one job that two runs of the handler may have
at once, two device calls, two attempts, two crashes or errors. The second run is a
stalled job handed out again, the second device call an unregistration between read and
push. `JobsAccounted` allows one more notification for each stall or lost answer:
nothing in the row identifies the job. No fairness.

`Notifications_proofs` proves `JobsAccountedCorrect` and `DevicesToldTrulyCorrect`
for any number of users, tokens, jobs, runs and calls. For the first, each
notification of a job is charged to the run that made it, and a job has one run plus
one for each stall and each retry after a lost answer; a run that failed before its
commit has made none. For the second, what a call has read was
active when it read it, and `active` collects everything active since.

## 12. Caches

`CacheAside` has every cached operation of the repositories as a script: the commit
of the database, the entries it refreshes with the row it returns, those it drops,
those it looks for with `KEYS` and drops then. One entry and one aspect of the data
behind it are followed at a time, any ones: entries do not influence each other.

| Code | Model |
|---|---|
| `getOrSet` style reads | `Read`: `Get`, `Query`, `JsonSet` |
| `create` / `update` / `delete` of each repository | `Store`, `Put`, `PutNew`, `Drop`, `DropFound` in its script |
| `clearListCaches`, `clearVocabCache`, `clearAllCaches` | scripts of the same name |
| time to live, a failing Redis, a dying process | `Expire`, `LostSet`, `Cut` |

A copy is `late` if what should replace it comes no more: the row was read before a commit and
put after it, or put while an operation that has dropped the entry already is yet to commit
(`DroppedFirst`; only the deletion of a subject does that).

Run `cache_aside`: is a stale copy always late, or due to an operation that has written and not
ended, to one that was cut short, or to one of the listed gaps (`StaleOnlyIfOverlapped`)? That
two operations overlap does not excuse it: a copy put in time has to be seen to. Two
operations at a time, any two of 34, all eleven kinds of entries, one cut. Two are enough: staleness
needs one reader and one writer; a third operation can only drop. `Gaps` lists the changes that
are not carried over to an entry even by an operation that runs alone, the deletion of a user and what
goes with it among them, and is the result of the analysis as much as the
invariant (section 13). The gaps are followed like the other aspects; the property excuses
them. Deadlock is checked.

`RelatedWords_proofs` proves `StaleOnlyIfOverlapped` of every entry and aspect, for any number
of operations at once and any number of cuts. The scripts first: each change of the aspect is
followed by a step that refreshes or drops the entry, or looks for it to drop it, or the
operation has dropped the entry before and makes none (`deleteSubject`, which drops before its
commit); and nothing ends an operation between the two, for it asks neither the database nor
Redis anything there. Only an import goes on after a refusal, and its fourth step sees
to the entry (`Fits`, shown for every script along its concatenations: `Clears`, `Leads`).
The interleaving then keeps `CacheInv`, for an aspect that is not a gap, which joins

* `HealOK`: behind a stale copy that is not late is an operation that has
  changed the aspect and has the entry still to see to, unless one was cut short;
* `EmptyOK`: while an operation that has dropped the entry has its change still to make, a
  copy in Redis is late.

The last one is what the order of `deleteSubject` costs: a reader who fills the entry in
between leaves the old row there (section 13).

## 13. What the code does that its authors may not expect

Found while the modules were written. The models follow the code, so these are
behaviours of the models too; a property that would forbid one says what it
allows instead, or the run names the fault it leaves out.

Reminders and exams

* A worker that dies after the CAS to SENDING (`email.processor.ts:71`) leaves
  the row there: no process looks at SENDING rows. A job whose worker dies twice
  stays in Bull as failed; the reconciler (`reminder-reconciliation.service.ts:70`)
  asks only whether a job exists under the id, so the row stays QUEUED.
* `VocabTrainerService.delete` and `update` never touch the schedule: a pending
  INITIAL is mailed although its trainer is gone or its reminders are off.
* A unique violation in the exam transaction is caught, but PostgreSQL has
  aborted the transaction: the submission that loses is lost whole.
* An error after the commit of the pass (a notification that cannot be scheduled)
  has Bull repeat the job, and the submission counts twice: a trainer may be
  completed, and deleted, before its sixth pass.
* A choice submission writes back the name and the time limit it read before the
  grading and sets `reminderDisabled` to false (`vocab-trainer.service.ts:641`): an
  edit meanwhile is undone, and reminders the user had switched off are on again.
* Two words of one trainer with a text in common: an answer is credited to the last
  assigned one in a choice exam (569), to the first in a fill-in-the-blank exam (309).
* Words without a translation give an exam job that ends with "completed" and no
  questions. Opening a choice exam that was submitted empties its questions
  before the lock is asked for.
* The job id a client is answered with may be that of another trainer, or of an
  evaluation: the lock is one per user. A job that finds its lock gone is skipped
  without an event.
* One live evaluation that Bull takes for stalled runs twice under the same
  token, which the lock does not tell apart (`queue.config.ts:45`). Bull does not
  know bullmq's `UnrecoverableError`: a rate limit is retried.

* A fill-in-the-blank job that fails after it has counted the answers in the mastery rows
  (`fill-in-blank-evaluation.processor.ts:87`) counts them again when it is repeated.
* An edit of a trainer may set `reminderRepeat`, the count of its passes, to any number from
  zero up (`vocab-trainer.input.ts:55`).

Chat

* A failure after a write has Bull repeat the whole message, the write included;
  a tool that timed out goes on in the background.
* A tool that throws after its commit (`vocab.service.ts:195`) is told to the model as a tool
  that failed, and the loop may call it again.

Vocabulary, subjects, quotas

* The subject quota is a count before the insert (`plan-quota.service.ts:71`):
  parallel requests, and the names of one request, pass it together.
  `createBulk` passes no role, so the daily quota does not count it.
* The routes of single targets, and updates, link any subject that exists, another user's too
  (`vocab-text-target.service.ts:57`). The deletion of a subject counts the entries of its owner
  only (`subject.repository.ts:294`): foreign links go with it, unnoticed.
* A crash between the commit of an entry and the queueing of its translation leaves
  the placeholder, and so does a job each run of which fails before it removes it
  (`vocab-translation.processor.ts:50`); a subject deleted after the queueing fails every attempt on its
  foreign key; a target of spaces only is never queued.
* A CSV import replaces linked related words by free texts.
* Upserts of related words take their locks in two sorted batches and can wait for
  each other (`vocab-related-word.repository.ts:143`); the upgrade of free texts
  takes none (246), and a mirror may be lost.
* Pages of the needs-review list are ordered by keys that are not unique: a word may
  appear on two pages, or on none. The mean of a subject weighs a word by the
  number of its targets that name it.

Caches (the `Gaps` of `CacheAside`)

* No operation refreshes the entries of vocabularies after a change of mastery,
  of a word type, a language, the subject of another user, or after a cascade; the removal of a single target
  leaves the entry of its word (`deleteTextTargetById`); a list is not dropped when
  its folder changes; folder entries keep their old language.
* The deletion of a user (`user.service.ts:134`) removes words, subjects and folders by cascade
  and drops none of their entries.
* `deleteInTransaction` of a subject drops its entries before the commit
  (`subject.repository.ts:321`), so a reader in between keeps the old row.
* A pipeline of `JSON.SET` reports its errors to nobody.

Accounts and notifications

* `PATCH /notifications/my/mark-all-as-read` marks the notifications of every user
  (`notification.controller.ts:84`); `updateStatus` (133)
  always refuses; `deleteMy` (144) deletes the notification for all its recipients.
* The compensation of a sign-up (`auth.service.ts:84`) may delete the account of a
  second sign-up with the same address that has stored its row meanwhile; other
  services do not compensate.
* A one-time code of type `email_change` (`auth.service.ts:260`) changes the address of
  the account; the row keeps the old one, and password changes sign in with it
  (`auth.service.ts:214`).
* With confirmation of addresses switched on, Supabase answers a sign-up on a confirmed
  address with an obfuscated user and no error; `signUp` (`auth.service.ts:72`) and the
  administrator's `create` store a row under its identifier if no row has the address.
* On public routes the rate limit counts per address (`user-throttler.guard.ts:38`):
  people behind one address share a window.
* One device token may be active for two users, and one that fails is never
  deactivated; a repeated job creates its notification again.
* The listener of the dead letter queue subscribes with the `QueueEvents` of bullmq
  while the queues are Bull's: the queue stays empty.

## 14. Not modelled

* Dead letter queue: its rows are read by operators only, and see the last point above.
* System configuration and administration, but for the AI settings (section 4): reads
  and single statements over one table.
* Media storage: wrappers around Cloudinary and Supabase storage, pure I/O.
* Shared infrastructure: clients, filters, logging, bootstrap. DTO mappers,
  validation pipes and formatting keep no state.
* Parts of modelled components, named in `PROJECT.json`: the chat's rate limit,
  greeting and unread counter; the quota on folders, which has the shape of that on
  subjects; search, random selection, conflicts and export of vocabularies, which
  only read; API keys' own CRUD; the merging of queue options and priorities;
  the reading of notification lists. Sockets and server-sent events keep no state
  beyond a connection.
* Time: due, backoff and expiry are events that may come, not durations. What
  depends on a duration (a claim that is stale after three minutes, a lock of 330 s)
  is stated where it is assumed.
* What AI, mail, push and storage providers answer is any of their answers.

Out of the prover's reach: liveness (`InFlightRecovered`, `UserUnblocked`,
`EveryMessageAnswered`, `RequestsEnd`), which TLC checks.
