------------------------ MODULE Notifications_proofs ------------------------
(***************************************************************************)
(* Proofs about Notifications, for any number of users, tokens, jobs, runs *)
(* and requests: what a job creates is accounted for, and devices are told *)
(* the truth.                                                              *)
(***************************************************************************)
EXTENDS Notifications, FiniteSetTheorems, TLAPS

----------------------------------------------------------------------------
(* Types *)

NoteType == [active : BOOLEAN, expired : BOOLEAN, live : BOOLEAN, used : BOOLEAN,
             job : Jobs \cup {Nobody}, to : [Users -> {"none", "unread", "read"}]]
States == {"none", "wait", "active", "completed", "failed"}
JobType == [st : States, to : SUBSET Users, valid : BOOLEAN, tries : Nat, stalls : Nat, lost : Nat]
RunType == [job : Jobs \cup {Nobody}, turn : Nat, done : BOOLEAN]

Types ==
  /\ notes \in [NoteIds -> NoteType] /\ \A n \in NoteIds : notes[n].live => notes[n].used
  /\ jobs \in [Jobs -> JobType]
  /\ runners \in [Runners -> RunType]

----------------------------------------------------------------------------
(* The accounts of a job                                                   *)

\* Runs that may still create the notification.
Open(j) == { r \in Runners : runners[r].job = j /\ ~runners[r].done }
\* A run the queue still owes.
Due(j) == IF jobs[j].st \in {"none", "wait"} THEN 1 ELSE 0

Balance(j) ==
  Cardinality(Made(j)) + Cardinality(Open(j)) + Due(j) <= 1 + jobs[j].stalls + jobs[j].lost
Untouched(j) ==
  jobs[j].st = "none" => Made(j) = {} /\ \A r \in Runners : runners[r].job # j
DoneMade(j) ==
  \A r \in Runners : runners[r].job = j /\ runners[r].done => jobs[j].valid /\ Made(j) # {}
Completed(j) == jobs[j].st = "completed" => jobs[j].valid /\ Made(j) # {}
Invalid(j) == ~jobs[j].valid => Made(j) = {}
Account(j) == Balance(j) /\ Untouched(j) /\ DoneMade(j) /\ Completed(j) /\ Invalid(j)

QueueInv == Types /\ \A j \in Jobs : Account(j)

LEMMA FiniteParts ==
  ASSUME NEW j
  PROVE  /\ IsFiniteSet(Made(j)) /\ Cardinality(Made(j)) \in Nat
         /\ IsFiniteSet(Open(j)) /\ Cardinality(Open(j)) \in Nat
<1>1. Made(j) \in SUBSET NoteIds /\ Open(j) \in SUBSET Runners
  BY DEF Made, Open
<1> QED
  BY <1>1, FS_Subset, FS_CardinalityType, NotificationsAssumption

LEMMA InitQueue == Init => QueueInv
<1> SUFFICES ASSUME Init PROVE QueueInv
  OBVIOUS
<1>1. Types
  BY NotificationsAssumption DEF Init, Types, None, NoRun, NoteType, JobType, RunType, States
<1>2. ASSUME NEW j \in Jobs PROVE Account(j)
  <2>1. Made(j) = {} /\ Open(j) = {}
    BY NotificationsAssumption DEF Init, Made, Open, None, NoRun
  <2>2. jobs[j].st = "none" /\ jobs[j].valid /\ jobs[j].stalls = 0 /\ jobs[j].lost = 0
    BY DEF Init
  <2>3. Cardinality({}) = 0
    BY FS_EmptySet
  <2>4. \A r \in Runners : runners[r].job # j
    BY NotificationsAssumption DEF Init, NoRun
  <2>5. Balance(j)
    BY <2>1, <2>2, <2>3 DEF Balance, Due
  <2> QED
    BY <2>1, <2>2, <2>4, <2>5 DEF Account, Untouched, DoneMade, Completed, Invalid
<1> QED
  BY <1>1, <1>2 DEF QueueInv

\* Requests of users and the clock leave the accounts of the jobs alone.
Kept == \A n \in NoteIds :
  /\ notes[n].used => notes'[n].used /\ notes'[n].job = notes[n].job
  /\ ~notes[n].used /\ notes'[n].used => notes'[n].job = Nobody

LEMMA KeptAccounts ==
  ASSUME QueueInv, Types', Kept, UNCHANGED <<jobs, runners>>
  PROVE  QueueInv'
<1>1. ASSUME NEW j \in Jobs PROVE Made(j)' = Made(j)
  BY NotificationsAssumption DEF Made, Kept
<1>2. ASSUME NEW j \in Jobs PROVE Open(j)' = Open(j)
  BY DEF Open
<1>3. ASSUME NEW j \in Jobs PROVE Account(j)'
  <2>1. Account(j)
    BY DEF QueueInv
  <2> QED
    BY <1>1, <1>2, <2>1 DEF Account, Balance, Due, Untouched, DoneMade, Completed, Invalid
<1> QED
  BY <1>3 DEF QueueInv

\* One note changes.
LEMMA NoteTypes ==
  ASSUME Types, NEW n \in NoteIds, NEW note \in NoteType, note.live => note.used,
         notes' = [notes EXCEPT ![n] = note]
  PROVE  /\ notes' \in [NoteIds -> NoteType]
         /\ \A k \in NoteIds : notes'[k].live => notes'[k].used
BY DEF Types

LEMMA RequestStep ==
  ASSUME QueueInv, Requests \/ Expire
  PROVE  QueueInv'
<1> USE DEF QueueInv
<1>0. UNCHANGED <<jobs, runners>>
  BY DEF Requests, Expire, Request, Post, Put, Delete, CleanupExpired, MarkAsRead, MarkAllAsRead
<1>1. ASSUME NEW n \in NoteIds, NEW note \in NoteType, note.live => note.used,
             notes' = [notes EXCEPT ![n] = note],
             notes[n].used => note.used /\ note.job = notes[n].job,
             ~notes[n].used => note.job = Nobody
      PROVE  Types' /\ Kept
  BY <1>0, <1>1, NoteTypes DEF Types, Kept
<1>2. CASE Post
  <2>1. PICK n \in NoteIds, to \in SUBSET Users : Insert(n, Nobody, to)
    BY <1>2 DEF Post
  <2>2. Note(Nobody, to) \in NoteType /\ Note(Nobody, to).used /\ Note(Nobody, to).job = Nobody
    BY DEF Note, NoteType
  <2> QED
    BY <1>0, <1>1, <2>1, <2>2, KeptAccounts DEF Insert, Fresh
<1>3. ASSUME NEW n \in NoteIds, NEW note \in NoteType, Change(n, note),
             note.used, note.job = notes[n].job
      PROVE  QueueInv'
  <2>1. notes[n].used
    BY <1>3 DEF Change, Types
  <2> QED
    BY <1>0, <1>1, <1>3, <2>1, KeptAccounts DEF Change
<1>4. CASE Put
  <2>1. PICK n \in NoteIds, on \in BOOLEAN : Change(n, [notes[n] EXCEPT !.active = on])
    BY <1>4 DEF Put
  <2> DEFINE note == [notes[n] EXCEPT !.active = on]
  <2>2. notes[n] \in NoteType /\ notes[n].used
    BY <2>1 DEF Types, Change
  <2>3. note \in NoteType /\ note.used /\ note.job = notes[n].job
    BY <2>2 DEF NoteType
  <2> QED
    BY <1>3, <2>1, <2>3
<1>5. ASSUME NEW u \in Users, MarkAsRead(u) PROVE QueueInv'
  <2>1. PICK n \in NoteIds : Change(n, [notes[n] EXCEPT !.to[u] = "read"])
    BY <1>5 DEF MarkAsRead
  <2> DEFINE note == [notes[n] EXCEPT !.to[u] = "read"]
  <2>2. notes[n] \in NoteType /\ notes[n].used
    BY <2>1 DEF Types, Change
  <2>3. note \in NoteType /\ note.used /\ note.job = notes[n].job
    BY <2>2 DEF NoteType
  <2> QED
    BY <1>3, <2>1, <2>3
<1>6. ASSUME NEW n \in NoteIds, notes[n].live
      PROVE  Dropped(n) \in NoteType /\ Dropped(n).used /\ Dropped(n).job = notes[n].job
  BY DEF Dropped, None, NoteType, Types
<1>7. CASE Delete
  <2>1. PICK n \in NoteIds : Change(n, Dropped(n))
    BY <1>7 DEF Delete
  <2> QED
    BY <1>3, <1>6, <2>1 DEF Change
<1>8. CASE Expire
  <2>1. PICK n \in NoteIds : Change(n, [notes[n] EXCEPT !.expired = TRUE])
    BY <1>8 DEF Expire
  <2> DEFINE note == [notes[n] EXCEPT !.expired = TRUE]
  <2>2. notes[n] \in NoteType /\ notes[n].used
    BY <2>1 DEF Types, Change
  <2>3. note \in NoteType /\ note.used /\ note.job = notes[n].job
    BY <2>2 DEF NoteType
  <2> QED
    BY <1>3, <2>1, <2>3
<1>9. CASE CleanupExpired
  <2>1. notes' = [n \in NoteIds |->
          IF notes[n].live /\ notes[n].expired THEN Dropped(n) ELSE notes[n]]
    BY <1>9 DEF CleanupExpired
  <2>2. Types'
    BY <1>0, <1>6, <2>1 DEF Types
  <2>3. Kept
    BY <1>6, <2>1 DEF Types, Kept
  <2> QED
    BY <1>0, <2>2, <2>3, KeptAccounts
<1>10. ASSUME NEW u \in Users, MarkAllAsRead(u) PROVE QueueInv'
  <2> DEFINE Row(n) == [notes[n] EXCEPT !.to =
               [v \in Users |-> IF @[v] = "unread" THEN "read" ELSE @[v]]]
  <2>1. notes' = [n \in NoteIds |-> Row(n)]
    BY <1>10 DEF MarkAllAsRead
  <2>2. ASSUME NEW n \in NoteIds
        PROVE  /\ Row(n) \in NoteType /\ Row(n).live = notes[n].live
               /\ Row(n).used = notes[n].used /\ Row(n).job = notes[n].job
    BY DEF Types, NoteType
  <2> HIDE DEF Row
  <2>3. Types' /\ Kept
    BY <1>0, <2>1, <2>2 DEF Types, Kept
  <2> QED
    BY <1>0, <2>3, KeptAccounts
<1> QED
  BY <1>2, <1>4, <1>5, <1>7, <1>8, <1>9, <1>10 DEF Requests

----------------------------------------------------------------------------
(* Steps of the queue                                                      *)

\* A step that leaves the notes alone and moves one job.
LEMMA JobMoves ==
  ASSUME QueueInv, UNCHANGED notes, NEW j \in Jobs, NEW job \in JobType,
         jobs' = [jobs EXCEPT ![j] = job],
         runners' \in [Runners -> RunType],
         \A r \in Runners : runners[r].job # j =>
            \/ runners'[r] = runners[r]
            \/ runners[r].job = Nobody /\ runners'[r].job = j
            \/ runners'[r].job = Nobody,
         \A r \in Runners : runners[r].job = j =>
            runners'[r] = runners[r] \/ runners'[r].job = Nobody,
         Account(j)'
  PROVE  QueueInv'
<1> USE DEF QueueInv
<1>1. Types'
  BY DEF Types
<1>2. ASSUME NEW k \in Jobs, k # j PROVE Account(k)'
  <2>1. Account(k) /\ jobs'[k] = jobs[k]
    BY <1>2 DEF Types
  <2>2. Made(k)' = Made(k)
    BY DEF Made
  <2>3. Open(k)' \subseteq Open(k)
    BY <1>2, NotificationsAssumption DEF Open
  <2>4. Cardinality(Open(k)') <= Cardinality(Open(k)) /\ Cardinality(Open(k)') \in Nat
    BY <2>3, FiniteParts, FS_Subset, FS_CardinalityType
  <2>5. Balance(k)'
    <3>1. jobs[k].stalls \in Nat /\ jobs[k].lost \in Nat
      BY DEF Types, JobType
    <3> QED
      BY <2>1, <2>2, <2>4, <3>1, FiniteParts DEF Account, Balance, Due
  <2>6. Untouched(k)'
    BY <2>1, <2>2, <1>2, NotificationsAssumption DEF Account, Untouched
  <2>7. DoneMade(k)'
    BY <2>1, <2>2, <1>2, NotificationsAssumption DEF Account, DoneMade
  <2> QED
    BY <2>1, <2>2, <2>5, <2>6, <2>7 DEF Account, Completed, Invalid
<1> QED
  BY <1>1, <1>2

LEMMA AddJobStep ==
  ASSUME QueueInv, NEW j \in Jobs, AddJob(j)
  PROVE  QueueInv'
<1>1. PICK to \in SUBSET Users, valid \in BOOLEAN :
        jobs' = [jobs EXCEPT ![j].st = "wait", ![j].to = to, ![j].valid = valid]
  BY DEF AddJob
<1> DEFINE job == [jobs[j] EXCEPT !.st = "wait", !.to = to, !.valid = valid]
<1>2. jobs[j].st = "none" /\ UNCHANGED <<notes, runners>> /\ Account(j) /\ jobs[j] \in JobType
  BY DEF AddJob, QueueInv, Types
<1>3. /\ job \in JobType /\ job.st = "wait" /\ job.stalls = jobs[j].stalls
      /\ job.lost = jobs[j].lost
  BY <1>2 DEF JobType, States
<1>4. jobs' = [jobs EXCEPT ![j] = job] /\ jobs'[j] = job
  BY <1>1 DEF QueueInv, Types
<1> HIDE DEF job
<1>5. Made(j)' = Made(j) /\ Open(j)' = Open(j)
  BY <1>2 DEF Made, Open
<1>6. Account(j)'
  BY <1>2, <1>3, <1>4, <1>5
     DEF Account, Balance, Due, Untouched, DoneMade, Completed, Invalid
<1> QED
  BY <1>2, <1>3, <1>4, <1>6, JobMoves DEF QueueInv, Types

\* A run more, and a run less.
LEMMA OpenMore ==
  ASSUME QueueInv, NEW j \in Jobs, NEW r \in Runners, runners[r].job # j,
         NEW run \in RunType, runners' = [runners EXCEPT ![r] = run]
  PROVE  Cardinality(Open(j)') <= Cardinality(Open(j)) + 1 /\ Cardinality(Open(j)') \in Nat
<1>1. Open(j)' \subseteq Open(j) \cup {r}
  BY DEF Open, QueueInv, Types
<1>2. r \notin Open(j)
  BY DEF Open
<1>3. IsFiniteSet(Open(j) \cup {r}) /\ Cardinality(Open(j) \cup {r}) = Cardinality(Open(j)) + 1
  BY <1>2, FS_AddElement, FiniteParts
<1> QED
  BY <1>1, <1>3, FS_Subset, FS_CardinalityType

LEMMA OpenLess ==
  ASSUME QueueInv, NEW j \in Jobs, NEW r \in Runners, runners[r].job = j,
         NEW run \in RunType, runners' = [runners EXCEPT ![r] = run], run.job # j \/ run.done
  PROVE  Cardinality(Open(j)') = Cardinality(Open(j)) - (IF runners[r].done THEN 0 ELSE 1)
<1>1. Open(j)' = Open(j) \ {r}
  BY DEF Open, QueueInv, Types
<1>2. Cardinality(Open(j) \ {r}) =
        IF r \in Open(j) THEN Cardinality(Open(j)) - 1 ELSE Cardinality(Open(j))
  BY FS_RemoveElement, FiniteParts
<1>3. CASE runners[r].done
  <2>1. r \notin Open(j)
    BY <1>3 DEF Open
  <2> QED
    BY <1>1, <1>2, <1>3, <2>1, FiniteParts
<1>4. CASE ~runners[r].done
  <2>1. r \in Open(j)
    BY <1>4 DEF Open
  <2> QED
    BY <1>1, <1>2, <1>4, <2>1
<1> QED
  BY <1>3, <1>4

LEMMA TakeStep ==
  ASSUME QueueInv, NEW r \in Runners, NEW j \in Jobs, Take(r, j)
  PROVE  QueueInv'
<1> DEFINE job == [jobs[j] EXCEPT !.st = "active"]
<1> DEFINE run == [job |-> j, turn |-> jobs[j].stalls, done |-> FALSE]
<1>1. /\ jobs[j].st = "wait" /\ UNCHANGED notes /\ Account(j) /\ jobs[j] \in JobType
      /\ runners[r].job = Nobody
  BY DEF Take, QueueInv, Types
<1>2. job \in JobType /\ job.st = "active" /\ job.stalls = jobs[j].stalls
      /\ job.lost = jobs[j].lost /\ job.valid = jobs[j].valid
  BY <1>1 DEF JobType, States
<1>3. run \in RunType
  BY <1>1 DEF RunType, JobType
<1>4. jobs' = [jobs EXCEPT ![j] = job] /\ jobs'[j] = job /\ runners' = [runners EXCEPT ![r] = run]
  BY DEF QueueInv, Types, Take
<1> HIDE DEF job, run
<1>5. Made(j)' = Made(j)
  BY <1>1 DEF Made
<1>6. Cardinality(Open(j)') <= Cardinality(Open(j)) + 1 /\ Cardinality(Open(j)') \in Nat
  BY <1>1, <1>3, <1>4, OpenMore, NotificationsAssumption
<1>7. Balance(j)'
  <2>1. jobs[j].stalls \in Nat /\ jobs[j].lost \in Nat
    BY <1>1 DEF JobType
  <2> QED
    BY <1>1, <1>2, <1>4, <1>5, <1>6, <2>1, FiniteParts DEF Account, Balance, Due
<1>8. DoneMade(j)'
  BY <1>1, <1>2, <1>4, <1>5 DEF Account, DoneMade, QueueInv, Types, run
<1>9. Account(j)'
  BY <1>1, <1>2, <1>4, <1>5, <1>7, <1>8 DEF Account, Untouched, Completed, Invalid
<1>10. runners' \in [Runners -> RunType]
  BY <1>3, <1>4 DEF QueueInv, Types
<1>11. \A k \in Runners : runners'[k] = runners[k] \/ (runners[k].job = Nobody /\ runners'[k].job = j)
  BY <1>1, <1>4 DEF QueueInv, Types, run
<1> QED
  BY <1>1, <1>2, <1>4, <1>9, <1>10, <1>11, JobMoves, NotificationsAssumption

LEMMA CommitStep ==
  ASSUME QueueInv, NEW r \in Runners, NEW j \in Jobs, runners[r].job = j, Commit(r)
  PROVE  QueueInv'
<1> DEFINE run == [runners[r] EXCEPT !.done = TRUE]
<1>1. ~runners[r].done /\ jobs[j].valid /\ UNCHANGED jobs
  BY DEF Commit, QueueInv, Types, RunType
<1>2. PICK n \in NoteIds : Insert(n, j, jobs[j].to)
  BY DEF Commit
<1> DEFINE note == Note(j, jobs[j].to)
<1>3. note \in NoteType /\ note.used /\ note.job = j
  BY <1>1 DEF Note, NoteType, QueueInv, Types, JobType
<1>4. run \in RunType /\ run.job = j /\ run.done
  BY DEF QueueInv, Types, RunType
<1>5. runners' = [runners EXCEPT ![r] = run] /\ notes' = [notes EXCEPT ![n] = note] /\ ~notes[n].used
  BY <1>2 DEF Commit, Insert, Fresh, QueueInv, Types
<1> HIDE DEF run, note
<1>6. Types'
  <2>1. runners' \in [Runners -> RunType]
    BY <1>4, <1>5 DEF QueueInv, Types
  <2> QED
    BY <1>1, <1>3, <1>5, <2>1, NoteTypes DEF QueueInv, Types
<1>7. ASSUME NEW k \in Jobs, k # j PROVE Account(k)'
  <2>1. Made(k)' = Made(k)
    BY <1>3, <1>5, <1>7 DEF Made, QueueInv, Types
  <2>2. Open(k)' = Open(k)
    BY <1>4, <1>5, <1>7 DEF Open, QueueInv, Types
  <2>3. Account(k)
    BY DEF QueueInv
  <2>4. \A x \in Runners : runners'[x].job = runners[x].job
                         /\ (runners[x].job = k => runners'[x] = runners[x])
    BY <1>4, <1>5, <1>7 DEF QueueInv, Types
  <2> QED
    BY <1>1, <2>1, <2>2, <2>3, <2>4
       DEF Account, Balance, Due, Untouched, DoneMade, Completed, Invalid
<1>8. Account(j)'
  <2>1. Made(j)' = Made(j) \cup {n} /\ n \notin Made(j)
    <3>1. notes'[n] = note /\ \A k \in NoteIds \ {n} : notes'[k] = notes[k]
      BY <1>5 DEF QueueInv, Types
    <3> QED
      BY <1>3, <1>5, <3>1 DEF Made
  <2>2. Cardinality(Made(j)') = Cardinality(Made(j)) + 1
    BY <2>1, FiniteParts, FS_AddElement
  <2>3. Cardinality(Open(j)') = Cardinality(Open(j)) - 1
    BY <1>1, <1>4, <1>5, OpenLess
  <2>4. Account(j) /\ jobs[j].stalls \in Nat /\ jobs[j].lost \in Nat
    BY <1>1 DEF QueueInv, Types, JobType
  <2>5. Balance(j)'
    BY <1>1, <2>2, <2>3, <2>4, FiniteParts DEF Account, Balance, Due
  <2>6. jobs[j].st # "none"
    BY <1>1, <2>4 DEF Account, Untouched
  <2> QED
    BY <1>1, <2>1, <2>4, <2>5, <2>6 DEF Account, Untouched, DoneMade, Completed, Invalid
<1> QED
  BY <1>6, <1>7, <1>8 DEF QueueInv

\* What the end of a run does to its job and to the runs.
LEMMA SettleStep ==
  ASSUME QueueInv, NEW r \in Runners, NEW j \in Jobs, runners[r].job = j,
         UNCHANGED notes, runners' = [runners EXCEPT ![r] = NoRun],
         NEW job \in JobType, jobs' = [jobs EXCEPT ![j] = job],
         job.valid = jobs[j].valid, job.stalls = jobs[j].stalls, job.st # "none",
         job.st = "completed" => jobs[j].st = "completed" \/ runners[r].done,
         jobs[j].lost <= job.lost,
         job.st = "wait" =>
            jobs[j].st = "wait" \/ ~runners[r].done \/ jobs[j].lost < job.lost
  PROVE  QueueInv'
<1>1. Account(j) /\ jobs[j] \in JobType /\ jobs'[j] = job
  BY DEF QueueInv, Types
<1>2. NoRun \in RunType /\ NoRun.job # j
  BY NotificationsAssumption DEF NoRun, RunType
<1>3. runners' \in [Runners -> RunType]
  BY <1>2 DEF QueueInv, Types
<1>4. Made(j)' = Made(j)
  BY DEF Made
<1>5. Cardinality(Open(j)') = Cardinality(Open(j)) - (IF runners[r].done THEN 0 ELSE 1)
  BY <1>2, OpenLess
<1>6. /\ jobs[j].stalls \in Nat /\ jobs[j].lost \in Nat /\ job.lost \in Nat
      /\ jobs[j].st # "none"
  BY <1>1 DEF JobType, Account, Untouched
<1>7. Balance(j)'
  <2>1. Due(j)' = IF job.st = "wait" THEN 1 ELSE 0
    BY <1>1 DEF Due
  <2>2. Due(j) = IF jobs[j].st = "wait" THEN 1 ELSE 0
    BY <1>6 DEF Due
  <2> QED
    BY <1>1, <1>4, <1>5, <1>6, <2>1, <2>2, FiniteParts DEF Account, Balance
<1>8. DoneMade(j)'
  BY <1>1, <1>2, <1>4 DEF Account, DoneMade, QueueInv, Types
<1>9. Account(j)'
  BY <1>1, <1>4, <1>7, <1>8 DEF Account, Untouched, DoneMade, Completed, Invalid
<1>10. \A k \in Runners : runners'[k] = runners[k] \/ runners'[k].job = Nobody
  BY DEF QueueInv, Types, NoRun
<1> QED
  BY <1>3, <1>9, <1>10, JobMoves

\* The two ways a run ends: its job moves, or only the ghost of a lost answer does.
LEMMA SettleCases ==
  ASSUME QueueInv, NEW r \in Runners, NEW j \in Jobs, runners[r].job = j,
         NEW job \in JobType, Settle(r, job),
         job.valid = jobs[j].valid, job.stalls = jobs[j].stalls, job.st # "none",
         job.st = "completed" => runners[r].done,
         jobs[j].lost <= job.lost,
         job.st = "wait" => ~runners[r].done \/ jobs[j].lost < job.lost
  PROVE  QueueInv'
<1>1. UNCHANGED notes /\ runners' = [runners EXCEPT ![r] = NoRun]
  BY DEF Settle
<1>2. jobs[j] \in JobType /\ Account(j)
  BY DEF QueueInv, Types
<1>3. CASE jobs' = [jobs EXCEPT ![j] = job]
  BY <1>1, <1>3, SettleStep
<1>4. CASE jobs' = [jobs EXCEPT ![j].lost = job.lost]
  <2> DEFINE same == [jobs[j] EXCEPT !.lost = job.lost]
  <2>1. /\ same \in JobType /\ same.valid = jobs[j].valid /\ same.stalls = jobs[j].stalls
        /\ same.st = jobs[j].st /\ same.lost = job.lost
    BY <1>2 DEF JobType
  <2>2. jobs' = [jobs EXCEPT ![j] = same]
    BY <1>4 DEF QueueInv, Types
  <2>3. jobs[j].st # "none"
    BY <1>2 DEF Account, Untouched
  <2> HIDE DEF same
  <2> QED
    BY <1>1, <2>1, <2>2, <2>3, SettleStep
<1> QED
  BY <1>3, <1>4 DEF Settle

LEMMA RunEnds ==
  ASSUME QueueInv, NEW r \in Runners, Throw(r) \/ Finish(r)
  PROVE  QueueInv'
<1>1. PICK j \in Jobs : runners[r].job = j
  BY DEF Throw, Finish, QueueInv, Types, RunType
<1>2. jobs[j] \in JobType
  BY DEF QueueInv, Types
<1>3. CASE Throw(r)
  <2> DEFINE lost == IF runners[r].done THEN 1 ELSE 0
             job == Retried(jobs[j], lost)
  <2>1. Settle(r, job)
    BY <1>1, <1>3 DEF Throw
  <2>2. lost \in Nat /\ jobs[j].lost \in Nat /\ jobs[j].tries \in Nat
    BY <1>2 DEF JobType
  <2>3. /\ job \in JobType /\ job.valid = jobs[j].valid /\ job.stalls = jobs[j].stalls
        /\ job.st \in {"wait", "failed"} /\ job.lost = jobs[j].lost + lost
    <3> DEFINE t == jobs[j].tries + 1
               l == jobs[j].lost + lost
               st == IF t < Attempts THEN "wait" ELSE "failed"
    <3>1. t \in Nat /\ l \in Nat /\ st \in {"wait", "failed"}
      BY <2>2
    <3>2. job = [jobs[j] EXCEPT !.tries = t, !.lost = l, !.st = st]
      BY <1>2 DEF Retried, JobType
    <3> HIDE DEF t, l, st
    <3>3. job \in JobType /\ job.st = st /\ job.lost = l
      BY <1>2, <3>1, <3>2 DEF JobType, States
    <3>4. job.valid = jobs[j].valid /\ job.stalls = jobs[j].stalls
      BY <1>2, <3>2 DEF JobType
    <3> QED
      BY <3>1, <3>3, <3>4 DEF l
  <2>4. jobs[j].lost <= job.lost /\ (~runners[r].done \/ jobs[j].lost < job.lost)
    BY <2>2, <2>3
  <2> HIDE DEF job
  <2> QED
    BY <1>1, <2>1, <2>3, <2>4, SettleCases
<1>4. CASE Finish(r)
  <2> DEFINE job == [jobs[j] EXCEPT !.st = "completed"]
  <2>1. Settle(r, job) /\ runners[r].done
    BY <1>1, <1>4 DEF Finish
  <2>2. /\ job \in JobType /\ job.valid = jobs[j].valid /\ job.stalls = jobs[j].stalls
        /\ job.st = "completed" /\ job.lost = jobs[j].lost /\ jobs[j].lost \in Nat
    BY <1>2 DEF JobType, States
  <2> HIDE DEF job
  <2> QED
    BY <1>1, <2>1, <2>2, SettleCases
<1> QED
  BY <1>3, <1>4

LEMMA CrashStep ==
  ASSUME QueueInv, NEW r \in Runners, Crash(r)
  PROVE  QueueInv'
<1>1. PICK j \in Jobs : runners[r].job = j
  BY DEF Crash, QueueInv, Types, RunType
<1>2. UNCHANGED <<notes, jobs>> /\ runners' = [runners EXCEPT ![r] = NoRun]
  BY DEF Crash
<1>3. PICK job \in JobType : job = jobs[j]
  BY DEF QueueInv, Types
<1>4. jobs' = [jobs EXCEPT ![j] = job]
  BY <1>2, <1>3 DEF QueueInv, Types
<1>5. job.st # "none" /\ job.lost <= job.lost
  BY <1>1, <1>3 DEF QueueInv, Account, Untouched, JobType
<1> QED
  BY <1>1, <1>2, <1>3, <1>4, <1>5, SettleStep

LEMMA StallStep ==
  ASSUME QueueInv, NEW j \in Jobs, Stall(j)
  PROVE  QueueInv'
<1> DEFINE st == IF jobs[j].stalls = 0 THEN "wait" ELSE "failed"
           stalls == jobs[j].stalls + 1
           job == [jobs[j] EXCEPT !.stalls = stalls, !.st = st]
<1>1. /\ jobs[j].st = "active" /\ UNCHANGED <<notes, runners>> /\ Account(j)
      /\ jobs[j] \in JobType
  BY DEF Stall, QueueInv, Types
<1>2. jobs[j].stalls \in Nat /\ jobs[j].lost \in Nat /\ stalls \in Nat /\ st \in {"wait", "failed"}
  BY <1>1 DEF JobType
<1>3. jobs' = [jobs EXCEPT ![j] = job] /\ jobs'[j] = job
  BY DEF Stall, QueueInv, Types
<1> HIDE DEF st, stalls
<1>4. /\ job \in JobType /\ job.st \in {"wait", "failed"} /\ job.stalls = stalls
      /\ job.lost = jobs[j].lost /\ job.valid = jobs[j].valid
  BY <1>1, <1>2 DEF JobType, States
<1> HIDE DEF job
<1>5. Made(j)' = Made(j) /\ Open(j)' = Open(j)
  BY <1>1 DEF Made, Open
<1>6. Balance(j)'
  BY <1>1, <1>2, <1>3, <1>4, <1>5, FiniteParts DEF Account, Balance, Due, stalls
<1>7. Account(j)'
  BY <1>1, <1>3, <1>4, <1>5, <1>6 DEF Account, Untouched, DoneMade, Completed, Invalid
<1> QED
  BY <1>1, <1>3, <1>4, <1>7, JobMoves DEF QueueInv, Types

LEMMA OtherStep ==
  ASSUME QueueInv, UNCHANGED <<notes, jobs, runners>>
  PROVE  QueueInv'
<1>1. \A j \in Jobs : Made(j)' = Made(j) /\ Open(j)' = Open(j)
  BY DEF Made, Open
<1>2. ASSUME NEW j \in Jobs PROVE Account(j)'
  BY <1>1 DEF QueueInv, Account, Balance, Due, Untouched, DoneMade, Completed, Invalid
<1> QED
  BY <1>2 DEF QueueInv, Types

LEMMA DeviceStep ==
  ASSUME Devices
  PROVE  UNCHANGED <<notes, jobs, runners>>
BY DEF Devices, ReadRegister, ReadUnregister, ReadTokens, Register, Unregister, Send,
       Read, Answer, DeviceOnly

LEMMA QueueStep ==
  ASSUME QueueInv, [Next]_vars
  PROVE  QueueInv'
<1>1. ASSUME NEW r \in Runners, Commit(r) PROVE QueueInv'
  <2>1. PICK j \in Jobs : runners[r].job = j
    BY <1>1 DEF Commit, QueueInv, Types, RunType
  <2> QED
    BY <1>1, <2>1, CommitStep
<1>2. CASE Queue
  BY <1>1, <1>2, AddJobStep, StallStep, TakeStep, RunEnds, CrashStep DEF Queue
<1>3. CASE Devices
  BY <1>3, DeviceStep, OtherStep
<1>4. CASE UNCHANGED vars
  BY <1>4, OtherStep DEF vars
<1> QED
  BY <1>2, <1>3, <1>4, RequestStep DEF Next

\* A job never creates more notifications than its stalls and lost answers
\* explain, one that completed created one, one with a wrong recipient none:
\* for any number of jobs, runs and requests of users (notification.processor).
THEOREM JobsAccountedCorrect == Spec => []JobsAccounted
<1>1. QueueInv => JobsAccounted
  <2> SUFFICES ASSUME QueueInv, NEW j \in Jobs
               PROVE  /\ Cardinality(Made(j)) <= 1 + jobs[j].stalls + jobs[j].lost
                      /\ jobs[j].st = "completed" => Made(j) # {}
                      /\ ~jobs[j].valid => Made(j) = {} /\ jobs[j].st # "completed"
    BY DEF JobsAccounted
  <2>1. Account(j) /\ jobs[j].stalls \in Nat /\ jobs[j].lost \in Nat
    BY DEF QueueInv, Types, JobType
  <2>2. Cardinality(Made(j)) <= 1 + jobs[j].stalls + jobs[j].lost
    BY <2>1, FiniteParts DEF Account, Balance, Due
  <2> QED
    BY <2>1, <2>2 DEF Account, Completed, Invalid
<1> QED
  BY <1>1, InitQueue, QueueStep, PTL DEF Spec

----------------------------------------------------------------------------
(* Devices *)

Pairs == Users \X Tokens
CallType == [op : {"idle", "register", "unregister", "push"},
             to : (SUBSET Users) \cup SUBSET Pairs,
             seen : (SUBSET {"none", "active", "inactive"}) \cup SUBSET Pairs,
             active : SUBSET Pairs]
\* What a call has read was so at a moment it still counts.
ReadTruly(call) ==
  /\ call.op = "register" =>
       /\ call.to \subseteq Pairs
       /\ "active" \in call.seen => call.to \subseteq call.active
  /\ call.op = "push" => /\ call.seen \subseteq call.active
                         /\ \A d \in call.seen : d[1] \in call.to

DeviceInv ==
  /\ devices \in [Pairs -> {"none", "active", "inactive"}]
  /\ calls \in [Calls -> CallType]
  /\ \A c \in Calls : ReadTruly(calls[c])
  /\ misled = FALSE

LEMMA IdleCall == Idle \in CallType /\ ReadTruly(Idle)
BY DEF Idle, CallType, ReadTruly

LEMMA ReadStep ==
  ASSUME DeviceInv, NEW c \in Calls, NEW op \in {"register", "unregister", "push"}, NEW to,
         NEW seen, to \subseteq Users \/ to \subseteq Pairs,
         seen \subseteq {"none", "active", "inactive"} \/ seen \subseteq Pairs,
         Read(c, op, to, seen),
         op = "register" => to \subseteq Pairs /\ ("active" \in seen => to \subseteq Registered),
         op = "push" => seen \subseteq Registered /\ \A d \in seen : d[1] \in to
  PROVE  DeviceInv'
<1> DEFINE call == [op |-> op, to |-> to, seen |-> seen, active |-> Registered]
<1>1. call \in CallType /\ ReadTruly(call)
  <2>1. to \in (SUBSET Users) \cup SUBSET Pairs
    OBVIOUS
  <2>2. seen \in (SUBSET {"none", "active", "inactive"}) \cup SUBSET Pairs
    OBVIOUS
  <2>3. Registered \in SUBSET Pairs
    BY DEF Registered, Pairs
  <2>4. call \in CallType
    BY <2>1, <2>2, <2>3 DEF CallType
  <2>5. ReadTruly(call)
    BY DEF ReadTruly
  <2> QED
    BY <2>4, <2>5
<1>2. calls' = [calls EXCEPT ![c] = call] /\ UNCHANGED <<devices, misled>>
  BY DEF Read
<1> HIDE DEF call
<1> QED
  BY <1>1, <1>2 DEF DeviceInv

\* A call that answers, and what the others have seen becomes no less true.
LEMMA AnswerStep ==
  ASSUME DeviceInv, NEW c \in Calls,
         NEW table \in [Pairs -> {"none", "active", "inactive"}],
         Answer(c, table, FALSE)
  PROVE  DeviceInv'
<1> DEFINE now == {d \in Pairs : table[d] = "active"}
           Grown(k) == [calls[k] EXCEPT !.active = @ \cup now]
<1>1. /\ devices' = table /\ misled' = FALSE
      /\ calls' = [k \in Calls |-> IF k = c \/ calls[k] = Idle THEN Idle ELSE Grown(k)]
  BY DEF Answer, DeviceInv, Pairs
<1>2. ASSUME NEW k \in Calls PROVE Grown(k) \in CallType /\ ReadTruly(Grown(k))
  <2>1. calls[k] \in CallType /\ ReadTruly(calls[k])
    BY DEF DeviceInv
  <2>2. now \subseteq Pairs
    OBVIOUS
  <2> HIDE DEF now
  <2>3. /\ Grown(k) \in CallType /\ Grown(k).op = calls[k].op /\ Grown(k).to = calls[k].to
        /\ Grown(k).seen = calls[k].seen /\ calls[k].active \subseteq Grown(k).active
    BY <2>1, <2>2 DEF CallType
  <2> HIDE DEF Grown
  <2> QED
    BY <2>1, <2>3 DEF ReadTruly
<1> HIDE DEF Grown
<1> QED
  BY <1>1, <1>2, IdleCall DEF DeviceInv

LEMMA RegisterStep ==
  ASSUME DeviceInv, NEW c \in Calls, Register(c)
  PROVE  DeviceInv'
<1>1. calls[c] \in CallType /\ ReadTruly(calls[c]) /\ calls[c].op = "register"
  BY DEF Register, DeviceInv
<1>2. PICK d \in calls[c].to, seen \in calls[c].seen :
        IF seen = "none" /\ devices[d] # "none" THEN Answer(c, devices, FALSE)
        ELSE LET table == [devices EXCEPT ![d] = RegisteredRow(d, seen)] IN
             Answer(c, table, table[d] # "active" /\ d \notin calls[c].active)
  BY DEF Register
<1>3. CASE seen = "none" /\ devices[d] # "none"
  BY <1>2, <1>3, AnswerStep DEF DeviceInv
<1>4. CASE ~(seen = "none" /\ devices[d] # "none")
  <2> DEFINE table == [devices EXCEPT ![d] = RegisteredRow(d, seen)]
  <2>1. d \in Pairs
    BY <1>1, <1>2 DEF ReadTruly
  <2>2. /\ table \in [Pairs -> {"none", "active", "inactive"}]
        /\ table[d] = RegisteredRow(d, seen)
    BY <2>1 DEF DeviceInv, RegisteredRow
  <2>3. Answer(c, table, table[d] # "active" /\ d \notin calls[c].active)
    BY <1>2, <1>4
  <2>4. (table[d] # "active" /\ d \notin calls[c].active) = FALSE
    BY <1>1, <1>2, <2>2 DEF ReadTruly, RegisteredRow
  <2> HIDE DEF table
  <2> QED
    BY <2>2, <2>3, <2>4, AnswerStep
<1> QED
  BY <1>3, <1>4

LEMMA SendStep ==
  ASSUME DeviceInv, NEW c \in Calls, Send(c)
  PROVE  DeviceInv'
<1>1. ReadTruly(calls[c]) /\ calls[c].op = "push"
  BY DEF Send, DeviceInv
<1>2. PICK reached \in SUBSET calls[c].seen :
        Answer(c, devices, \E d \in reached : \A e \in calls[c].active :
                             e[2] = d[2] => e[1] \notin calls[c].to)
  BY DEF Send
<1> DEFINE wrong == \E d \in reached : \A e \in calls[c].active :
                             e[2] = d[2] => e[1] \notin calls[c].to
<1>3. wrong = FALSE
  BY <1>1 DEF ReadTruly
<1>4. Answer(c, devices, wrong)
  BY <1>2
<1> HIDE DEF wrong
<1> QED
  BY <1>3, <1>4, AnswerStep DEF DeviceInv

LEMMA DevicesStep ==
  ASSUME DeviceInv, [Next]_vars
  PROVE  DeviceInv'
<1>1. ASSUME NEW c \in Calls, ReadRegister(c) PROVE DeviceInv'
  <2>1. PICK d \in Pairs : Read(c, "register", {d}, {devices[d]})
    BY <1>1 DEF ReadRegister, Pairs
  <2>2. devices[d] \in {"none", "active", "inactive"} /\ (devices[d] = "active" => d \in Registered)
    BY DEF DeviceInv, Registered, Pairs
  <2>3. PICK seen, to : seen = {devices[d]} /\ to = {d}
    OBVIOUS
  <2>4. Read(c, "register", to, seen)
    BY <2>1, <2>3
  <2>5. to \subseteq Pairs /\ ("active" \in seen => to \subseteq Registered)
    BY <2>2, <2>3
  <2>6. /\ to \subseteq Users \/ to \subseteq Pairs
        /\ seen \subseteq {"none", "active", "inactive"} \/ seen \subseteq Pairs
    BY <2>2, <2>3
  <2> QED
    BY <2>4, <2>5, <2>6, ReadStep
<1>2. ASSUME NEW c \in Calls, ReadUnregister(c) PROVE DeviceInv'
  <2>1. PICK d \in Pairs : Read(c, "unregister", {d}, {devices[d]})
    BY <1>2 DEF ReadUnregister, Registered, Pairs
  <2>2. PICK seen, to : seen = {devices[d]} /\ to = {d}
    OBVIOUS
  <2>3. Read(c, "unregister", to, seen)
    BY <2>1, <2>2
  <2>4. /\ to \subseteq Users \/ to \subseteq Pairs
        /\ seen \subseteq {"none", "active", "inactive"} \/ seen \subseteq Pairs
    BY <2>2 DEF DeviceInv
  <2> QED
    BY <2>3, <2>4, ReadStep
<1>3. ASSUME NEW c \in Calls, ReadTokens(c) PROVE DeviceInv'
  <2>1. PICK to \in SUBSET Users : Read(c, "push", to, Addressed(to))
    BY <1>3 DEF ReadTokens
  <2>2. Addressed(to) \subseteq Registered /\ Addressed(to) \subseteq Pairs
        /\ \A d \in Addressed(to) : d[1] \in to
    BY DEF Addressed, Registered, Pairs
  <2>3. PICK seen : seen = Addressed(to)
    OBVIOUS
  <2>4. /\ to \subseteq Users \/ to \subseteq Pairs
        /\ seen \subseteq {"none", "active", "inactive"} \/ seen \subseteq Pairs
    BY <2>2, <2>3
  <2>5. Read(c, "push", to, seen) /\ seen \subseteq Registered /\ \A d \in seen : d[1] \in to
    BY <2>1, <2>2, <2>3
  <2> QED
    BY <2>4, <2>5, ReadStep
<1>4. ASSUME NEW c \in Calls, Unregister(c) PROVE DeviceInv'
  <2>1. PICK d \in calls[c].to : Answer(c, [devices EXCEPT ![d] = "inactive"], FALSE)
    BY <1>4 DEF Unregister
  <2> DEFINE table == [devices EXCEPT ![d] = "inactive"]
  <2>2. table \in [Pairs -> {"none", "active", "inactive"}] /\ Answer(c, table, FALSE)
    BY <2>1 DEF DeviceInv
  <2> HIDE DEF table
  <2> QED
    BY <2>2, AnswerStep
<1>5. CASE UNCHANGED <<devices, calls, misled>>
  BY <1>5 DEF DeviceInv
<1>6. CASE Requests \/ Expire \/ Queue \/ UNCHANGED vars
  <2>1. UNCHANGED <<devices, calls, misled>>
    BY <1>6 DEF vars, Requests, Expire, Queue, Request, Post, Put, Delete, CleanupExpired,
       MarkAsRead, MarkAllAsRead, AddJob, Stall, Take, Commit, Throw, Finish, Crash, Settle,
       QueueOnly
  <2> QED
    BY <1>5, <2>1
<1>7. CASE Devices
  BY <1>1, <1>2, <1>3, <1>4, <1>7, RegisterStep, SendStep DEF Devices
<1> QED
  BY <1>6, <1>7 DEF Next

\* A registration that succeeds has had its device active during the call, and a
\* push reaches only devices one of its users had active since it read the
\* tokens, however registrations, cancellations and pushes overlap.
THEOREM DevicesToldTrulyCorrect == Spec => []DevicesToldTruly
<1>1. Init => DeviceInv
  BY IdleCall DEF Init, DeviceInv, Pairs
<1>2. DeviceInv => DevicesToldTruly
  BY DEF DeviceInv, DevicesToldTruly
<1> QED
  BY <1>1, <1>2, DevicesStep, PTL DEF Spec

=============================================================================
