---------------------------- MODULE Notifications ----------------------------
(***************************************************************************)
(* In-app notifications, the devices registered for push messages, and the *)
(* queue whose jobs create notifications.                                  *)
(*                                                                         *)
(* A request on the notification tables ends in one SQL statement; the     *)
(* reads before it only choose how it is refused, so each is one action.   *)
(* updateStatus changes nothing: it looks for a recipient whose id is that *)
(* of the notification, and refuses every call.                            *)
(* Registrations and pushes read, then act on what they read: two actions. *)
(***************************************************************************)
EXTENDS Naturals, FiniteSets

CONSTANTS
  Users, Tokens,      \* accounts and device tokens
  Jobs,               \* create-notification jobs
  Runners,            \* runs of the queue's handler that may be under way
  Calls,              \* requests on devices that may be under way
  NoteIds,            \* the notifications of one behaviour, given out in order
  Attempts,           \* QUEUE_CONFIG.NOTIFICATION.defaultJobOptions.attempts
  MaxUpsets,          \* runs cut short or errors of the database
  MaxRequests,        \* requests of users
  MaxPushes,          \* registrations, cancellations and pushes
  Nobody

ASSUME NotificationsAssumption ==
  /\ NoteIds \subseteq Nat /\ IsFiniteSet(NoteIds) /\ IsFiniteSet(Runners) /\ Nobody \notin Jobs
  /\ Attempts \in Nat \ {0} /\ MaxUpsets \in Nat /\ MaxRequests \in Nat

VARIABLES
  notes,              \* the notification table with the rows of its recipients
  jobs,               \* the queue
  runners,            \* the runs of its handler
  devices,            \* user_fcm_token: the state of each user's token
  calls,              \* requests on devices under way
  upsets, requests, pushes,
  misled              \* history: a device request was answered wrongly

vars == <<notes, jobs, runners, devices, calls, upsets, requests, pushes, misled>>

None == [active |-> FALSE, expired |-> FALSE, live |-> FALSE, used |-> FALSE, job |-> Nobody,
         to |-> [u \in Users |-> "none"]]
NoRun == [job |-> Nobody, turn |-> 0, done |-> FALSE]
Idle == [op |-> "idle", to |-> {}, seen |-> {}, active |-> {}]
Registered == { d \in Users \X Tokens : devices[d] = "active" }

Init ==
  /\ notes = [n \in NoteIds |-> None]
  /\ jobs = [j \in Jobs |->
       [st |-> "none", to |-> {}, valid |-> TRUE, tries |-> 0, stalls |-> 0, lost |-> 0]]
  /\ runners = [r \in Runners |-> NoRun]
  /\ devices = [d \in Users \X Tokens |-> "none"]
  /\ calls = [c \in Calls |-> Idle]
  /\ upsets = 0 /\ requests = 0 /\ pushes = 0 /\ misled = FALSE

----------------------------------------------------------------------------
(* The notification tables.  A recipient's row is "unread" or "read": no   *)
(* request gets as far as setting isDeleted.                               *)

Fresh(n) == ~notes[n].used /\ \A k \in NoteIds : k < n => notes[k].used
Note(job, to) ==
  [active |-> TRUE, expired |-> FALSE, live |-> TRUE, used |-> TRUE, job |-> job,
   to |-> [u \in Users |-> IF u \in to THEN "unread" ELSE "none"]]

\* createWithRecipients: the notification and its recipients in one statement.
Insert(n, job, to) == Fresh(n) /\ notes' = [notes EXCEPT ![n] = Note(job, to)]

Request ==
  /\ requests < MaxRequests /\ requests' = requests + 1
  /\ UNCHANGED <<jobs, runners, devices, calls, upsets, pushes, misled>>
Change(n, note) == notes[n].live /\ notes' = [notes EXCEPT ![n] = note]
Dropped(n) == [None EXCEPT !.used = TRUE, !.job = notes[n].job]

Post == Request /\ \E n \in NoteIds, to \in (SUBSET Users) \ {{}} : Insert(n, Nobody, to)

\* update: any member of the staff may switch any notification off and on.
Put == Request /\ \E n \in NoteIds, on \in BOOLEAN : Change(n, [notes[n] EXCEPT !.active = on])

\* The row of this user, or P2025.
MarkAsRead(user) == Request /\ \E n \in NoteIds :
  notes[n].to[user] # "none" /\ Change(n, [notes[n] EXCEPT !.to[user] = "read"])

\* The route has no :id, so userId is undefined and Prisma drops the condition.
MarkAllAsRead(user) ==
  /\ Request
  /\ notes' = [n \in NoteIds |-> [notes[n] EXCEPT !.to =
       [u \in Users |-> IF @[u] = "unread" THEN "read" ELSE @[u]]]]

\* deleteMy and delete: the notification with the rows of all its recipients.
Delete == Request /\ \E n \in NoteIds : Change(n, Dropped(n))

CleanupExpired ==
  /\ Request
  /\ notes' = [n \in NoteIds |-> IF notes[n].live /\ notes[n].expired THEN Dropped(n) ELSE notes[n]]

\* expiresAt passes.
Expire ==
  /\ \E n \in NoteIds : ~notes[n].expired /\ Change(n, [notes[n] EXCEPT !.expired = TRUE])
  /\ UNCHANGED <<jobs, runners, devices, calls, upsets, requests, pushes, misled>>

----------------------------------------------------------------------------
(* The queue. A job whose list of recipients names an unknown account or   *)
(* one account twice violates a constraint on every attempt.               *)

QueueOnly == UNCHANGED <<devices, calls, requests, pushes, misled>>

AddJob(j) ==
  /\ jobs[j].st = "none"
  /\ \E to \in (SUBSET Users) \ {{}}, valid \in BOOLEAN :
       jobs' = [jobs EXCEPT ![j].st = "wait", ![j].to = to, ![j].valid = valid]
  /\ UNCHANGED <<notes, runners, upsets>> /\ QueueOnly

Take(r, j) ==
  /\ jobs[j].st = "wait" /\ runners[r].job = Nobody
  /\ jobs' = [jobs EXCEPT ![j].st = "active"]
  /\ runners' = [runners EXCEPT ![r] = [job |-> j, turn |-> jobs[j].stalls, done |-> FALSE]]
  /\ UNCHANGED <<notes, upsets>> /\ QueueOnly

\* handleCreateNotification up to the commit.
Commit(r) ==
  LET j == runners[r].job IN
  /\ j # Nobody /\ ~runners[r].done /\ jobs[j].valid
  /\ \E n \in NoteIds : Insert(n, j, jobs[j].to)
  /\ runners' = [runners EXCEPT ![r].done = TRUE]
  /\ UNCHANGED <<jobs, upsets>> /\ QueueOnly

\* The end of a run: the queue moves the job, unless the job is no longer this
\* run's. A run that has been taken for stalled may still hold the token.
Settle(r, job) ==
  /\ runners' = [runners EXCEPT ![r] = NoRun]
  /\ \/ jobs[runners[r].job].st = "active" /\ jobs' = [jobs EXCEPT ![runners[r].job] = job]
     \/ /\ jobs[runners[r].job].st # "active" \/ runners[r].turn # jobs[runners[r].job].stalls
        /\ jobs' = [jobs EXCEPT ![runners[r].job].lost = job.lost]
  /\ UNCHANGED notes /\ QueueOnly

\* Mutant: the handler logs the error and does not throw it again.
RetriedSwallowed(job, lost) == [job EXCEPT !.st = "completed", !.lost = @ + lost]
\* An attempt that failed: the queue tries again while attempts are left.
Retried(job, lost) ==
  [job EXCEPT !.tries = @ + 1, !.lost = @ + lost,
              !.st = IF job.tries + 1 < Attempts THEN "wait" ELSE "failed"]

\* The statement is refused, or the database fails; its answer may be lost
\* after the commit.
Throw(r) ==
  LET job == jobs[runners[r].job] IN
  /\ runners[r].job # Nobody
  /\ job.valid => upsets < MaxUpsets
  /\ upsets' = IF job.valid THEN upsets + 1 ELSE upsets
  /\ Settle(r, Retried(job, IF runners[r].done THEN 1 ELSE 0))

Finish(r) ==
  /\ runners[r].job # Nobody /\ runners[r].done
  /\ Settle(r, [jobs[runners[r].job] EXCEPT !.st = "completed"]) /\ UNCHANGED upsets

\* The process of a run ends.
Crash(r) ==
  /\ runners[r].job # Nobody /\ upsets < MaxUpsets /\ upsets' = upsets + 1
  /\ runners' = [runners EXCEPT ![r] = NoRun]
  /\ UNCHANGED <<notes, jobs>> /\ QueueOnly

\* The lock of an active job has run out, its run over or not: back to the
\* queue the first time, failed the second time.
Stall(j) ==
  /\ jobs[j].st = "active"
  /\ IF \E r \in Runners : runners[r].job = j
     THEN upsets < MaxUpsets /\ upsets' = upsets + 1
     ELSE UNCHANGED upsets
  /\ jobs' = [jobs EXCEPT ![j].stalls = @ + 1,
                          ![j].st = IF jobs[j].stalls = 0 THEN "wait" ELSE "failed"]
  /\ UNCHANGED <<notes, runners>> /\ QueueOnly

----------------------------------------------------------------------------
(* Devices. *)

DeviceOnly == UNCHANGED <<notes, jobs, runners, upsets, requests>>

\* findManyActiveByUserIds.
Addressed(to) == { d \in Registered : d[1] \in to }

Read(c, op, to, seen) ==
  /\ calls[c] = Idle /\ pushes < MaxPushes /\ pushes' = pushes + 1
  /\ calls' = [calls EXCEPT ![c] = [op |-> op, to |-> to, seen |-> seen, active |-> Registered]]
  /\ DeviceOnly /\ UNCHANGED <<devices, misled>>

\* findByUserAndToken of registerToken and of unregisterToken, which refuses an
\* unknown or inactive token.
ReadRegister(c) == \E d \in Users \X Tokens : Read(c, "register", {d}, {devices[d]})
ReadUnregister(c) == \E d \in Registered : Read(c, "unregister", {d}, {devices[d]})
\* The tokens of a push: of the caller for a test message, of the users of a job.
ReadTokens(c) == \E to \in (SUBSET Users) \ {{}} : Read(c, "push", to, Addressed(to))

\* What is active now counts as active during every call under way.
Answer(c, table, wrong) ==
  /\ devices' = table
  /\ calls' = [k \in Calls |->
       IF k = c \/ calls[k] = Idle THEN Idle
       ELSE [calls[k] EXCEPT !.active = @ \cup { d \in Users \X Tokens : table[d] = "active" }]]
  /\ misled' = (misled \/ wrong)
  /\ DeviceOnly /\ UNCHANGED pushes

\* Mutant: a token seen inactive only gets its new device type.
RegisteredRowKeep(d, seen) == IF seen = "none" THEN "active" ELSE devices[d]
\* create, reactivation, or at most a new device type.
RegisteredRow(d, seen) == IF seen = "active" THEN devices[d] ELSE "active"

\* The second of two creations violates the primary key and is told so.
Register(c) ==
  /\ calls[c].op = "register"
  /\ \E d \in calls[c].to, seen \in calls[c].seen :
       IF seen = "none" /\ devices[d] # "none" THEN Answer(c, devices, FALSE)
       ELSE LET table == [devices EXCEPT ![d] = RegisteredRow(d, seen)] IN
            Answer(c, table, table[d] # "active" /\ d \notin calls[c].active)

Unregister(c) ==
  /\ calls[c].op = "unregister"
  /\ \E d \in calls[c].to : Answer(c, [devices EXCEPT ![d] = "inactive"], FALSE)

\* sendToMultipleDevices: failures of single devices are logged, and the message
\* is not sent again.
Send(c) ==
  /\ calls[c].op = "push"
  /\ \E reached \in SUBSET calls[c].seen :
       Answer(c, devices, \E d \in reached : \A e \in calls[c].active :
                            e[2] = d[2] => e[1] \notin calls[c].to)

----------------------------------------------------------------------------
Requests ==
  \/ Post \/ Put \/ Delete \/ CleanupExpired
  \/ \E u \in Users : MarkAsRead(u) \/ MarkAllAsRead(u)
Queue ==
  \/ \E j \in Jobs : AddJob(j) \/ Stall(j) \/ \E r \in Runners : Take(r, j)
  \/ \E r \in Runners : Commit(r) \/ Throw(r) \/ Finish(r) \/ Crash(r)
Devices ==
  \E c \in Calls : \/ ReadRegister(c) \/ ReadUnregister(c) \/ ReadTokens(c)
                  \/ Register(c) \/ Unregister(c) \/ Send(c)
Next == Requests \/ Expire \/ Queue \/ Devices
Spec == Init /\ [][Next]_vars

----------------------------------------------------------------------------
(* Properties. *)

Made(j) == { n \in NoteIds : notes[n].used /\ notes[n].job = j }

\* A job creates one notification, and one more at most for each time its run
\* was taken for stalled or its answer was lost; a job that completed has
\* created one, a job that names a wrong recipient none (notification.processor,
\* retries of the queue).
JobsAccounted == \A j \in Jobs :
  /\ Cardinality(Made(j)) <= 1 + jobs[j].stalls + jobs[j].lost
  /\ jobs[j].st = "completed" => Made(j) # {}
  /\ ~jobs[j].valid => Made(j) = {} /\ jobs[j].st # "completed"

\* A registration that succeeds has had the device active during the call, and a
\* push reaches only devices that one of the users it is for had registered at
\* some moment since it read the tokens (fcm.service, notification-fcm.processor).
DevicesToldTruly == ~misled
=============================================================================
