------------------------ MODULE ReminderDelivery_proofs ------------------------
(***************************************************************************)
(* Proofs about ReminderDelivery, for any number of exam submissions,      *)
(* pollers and workers, any fault budget and any limits.                   *)
(*                                                                         *)
(* The invariant is built in layers, each inductive relative to the ones   *)
(* before it:                                                              *)
(*   ActorsOK     an actor that is past a read names a row                 *)
(*   LocksOK      an open exam transaction locks rows that are still       *)
(*                cancellable, and no other transaction locks them         *)
(*   InsertedOnce the INITIAL of a submission appears with its commit, its *)
(*                escalations with SENT                                    *)
(*   SendExclusive, MailedOnce                                             *)
(*   ChainOK      the terminal INITIALs hold the chain numbers 1..n and an *)
(*                INITIAL on its way holds n + 1                           *)
(***************************************************************************)
EXTENDS ReminderDelivery, FiniteSetTheorems, TLAPS

ActorsOK ==
    /\ \A w \in Workers : worker[w].pc # "idle" => worker[w].slot \in Slots
    /\ \A p \in Pollers : poller[p].pc \in {"cas", "remove", "undo", "rollback"}
                             => poller[p].cur \in Slots
    /\ recon.pc = "reset" => recon.cur \in Slots

LocksOK ==
    /\ \A q \in Requests : \A s \in request[q].locks :
          rows[s].status \in ActiveCancelStatuses
    /\ \A q, r \in Requests : q # r => request[q].locks \cap request[r].locks = {}

InsertedOnce ==
    /\ \A q \in Requests :
          rows[Initial(q)].status # "ABSENT" => request[q].pc = "committed"
    /\ \A q \in Requests : \A l \in Levels \ {0} :
          rows[<<q, l>>].status # "ABSENT" => rows[Initial(q)].status = "SENT"

Terminal == TerminalInitials(rows)
Holds0(q) == rows[Initial(q)].status \notin {"ABSENT", "CANCELLED", "EXPIRED"}
ChainOK ==
    /\ \A q \in Requests : rows[Initial(q)].status # "EXPIRED"
    /\ \A q, r \in Requests :
          /\ Holds0(q) /\ Holds0(r)
          /\ rows[Initial(q)].chain = rows[Initial(r)].chain
          => q = r
    /\ \A q \in Terminal : rows[Initial(q)].chain \in 1..Cardinality(Terminal)
    /\ \A c \in 1..Cardinality(Terminal) : \E q \in Terminal : rows[Initial(q)].chain = c
    /\ \A q \in Requests : Live(Initial(q)) =>
          rows[Initial(q)].chain = Cardinality(Terminal) + 1
    /\ \A q \in Requests : request[q].chain <= Cardinality(Terminal) + 1

IInv == TypeOK /\ ActorsOK /\ LocksOK /\ InsertedOnce /\ SendExclusive /\ MailedOnce /\ ChainOK

---------------------------------------------------------------------------
(* The statements of the repository keep a table a table, and what each of *)
(* them does to the status of a row.                                       *)

LEMMA SlotParts ==
    /\ \A s \in Slots : s[1] \in Requests /\ s[2] \in Levels /\ s = <<s[1], s[2]>>
    /\ \A q \in Requests : Initial(q) \in Slots
    /\ \A q \in Requests, l \in Levels : <<q, l>> \in Slots
    /\ 0 \in Levels
  BY MaxEscAssumption DEF Slots, Levels, Initial

\* An UPDATE of the status keeps the table a table and touches only its rows.
LEMMA SetStatusType ==
    ASSUME NEW t \in [Slots -> Row], NEW S, NEW to \in Statuses
    PROVE  /\ SetStatus(t, S, to) \in [Slots -> Row]
           /\ \A s \in Slots : SetStatus(t, S, to)[s].status =
                                IF s \in S THEN to ELSE t[s].status
           /\ \A s \in Slots : SetStatus(t, S, to)[s].chain = t[s].chain
  BY DEF SetStatus, Row

\* A compare-and-set moves one row, and only out of the status it names.
LEMMA TransitionType ==
    ASSUME NEW t \in [Slots -> Row], NEW s, NEW from \in Statuses, NEW to \in Statuses
    PROVE  /\ Transition(t, s, from, to) \in [Slots -> Row]
           /\ \A u \in Slots : Transition(t, s, from, to)[u].status =
                  IF u = s /\ t[s].status = from THEN to ELSE t[u].status
           /\ \A u \in Slots : Transition(t, s, from, to)[u].chain = t[u].chain
  BY SetStatusType DEF Transition, CanTransition

LEMMA MarkSentType ==
    ASSUME NEW t \in [Slots -> Row], NEW s \in Slots, NEW at \in Nat
    PROVE  /\ MarkSent(t, s, at) \in [Slots -> Row]
           /\ \A u \in Slots : MarkSent(t, s, at)[u].status =
                  IF u = s /\ t[s].status = "SENDING" THEN "SENT" ELSE t[u].status
           /\ \A u \in Slots : MarkSent(t, s, at)[u].chain = t[u].chain
  <1> DEFINE n == t[s].attempt + 1
             r == [t[s] EXCEPT !.status = "SENT", !.attempt = n, !.sentAt = at]
  <1>1. n \in Nat
    BY DEF Row
  <1>2. MarkSent(t, s, at) = IF t[s].status = "SENDING" THEN [t EXCEPT ![s] = r] ELSE t
    BY DEF MarkSent
  <1> HIDE DEF n
  <1>4. r \in Row /\ r.status = "SENT" /\ r.chain = t[s].chain
    BY <1>1 DEF Row, Statuses, TerminalStatuses
  <1>3. QED
    BY <1>4, <1>2

LEMMA ResetToRetryType ==
    ASSUME NEW t \in [Slots -> Row], NEW s \in Slots, NEW n \in Nat
    PROVE  /\ ResetToRetry(t, s, n) \in [Slots -> Row]
           /\ \A u \in Slots : ResetToRetry(t, s, n)[u].status =
                  IF u = s /\ t[s].status = "SENDING" THEN "PENDING" ELSE t[u].status
           /\ \A u \in Slots : ResetToRetry(t, s, n)[u].chain = t[u].chain
  <1> DEFINE r == [t[s] EXCEPT !.status = "PENDING", !.attempt = n, !.due = "backoff"]
  <1>1. r \in Row /\ r.status = "PENDING" /\ r.chain = t[s].chain
    BY DEF Row, Statuses, ActiveCancelStatuses
  <1>2. ResetToRetry(t, s, n) = IF t[s].status = "SENDING" THEN [t EXCEPT ![s] = r] ELSE t
    BY DEF ResetToRetry
  <1>3. QED
    BY <1>1, <1>2

\* The backfill only writes escalations of the given INITIALs, as PENDING.
LEMMA CreateEscalationsType ==
    ASSUME NEW t \in [Slots -> Row], NEW Q \in SUBSET Requests
    PROVE  /\ CreateEscalationsForInitials(t, Q) \in [Slots -> Row]
           /\ \A s \in Slots :
                 \/ CreateEscalationsForInitials(t, Q)[s] = t[s]
                 \/ /\ s[1] \in Q /\ ~IsInitial(s)
                    /\ CreateEscalationsForInitials(t, Q)[s].status = "PENDING"
  <1>1. \A q \in Requests : EscalationRow(t, q) \in Row
    BY SlotParts DEF EscalationRow, AbsentRow, Row, Statuses, ActiveCancelStatuses
  <1>2. \A q \in Requests : EscalationRow(t, q).status = "PENDING"
    BY DEF EscalationRow, AbsentRow
  <1>3. QED
    BY <1>1, <1>2, SlotParts DEF CreateEscalationsForInitials

LEMMA InitialRowType ==
    ASSUME NEW n \in Nat
    PROVE  InitialRow(n) \in Row /\ InitialRow(n).status = "PENDING" /\ InitialRow(n).chain = n
  BY DEF InitialRow, AbsentRow, Row, Statuses, ActiveCancelStatuses

---------------------------------------------------------------------------
(* Type correctness.                                                       *)

LEMMA StrikeType ==
    ASSUME faults \in [FaultKinds -> Nat], NEW f \in FaultKinds, Strike(f)
    PROVE  faults' \in [FaultKinds -> Nat]
  BY DEF Strike

LEMMA FaultNames ==
    {"pollerCrash", "workerCrash", "requestCrash", "handlerError", "enqueueError",
     "rollbackError", "sendError", "jobLoss", "stall"} \subseteq FaultKinds
  BY DEF FaultKinds

LEMMA StatusNames ==
    /\ ActiveCancelStatuses \subseteq Statuses
    /\ TerminalStatuses \subseteq Statuses
    /\ {"PENDING", "CLAIMED", "QUEUED", "SENDING", "SENT", "FAILED_TERMINAL",
        "CANCELLED", "EXPIRED", "ABSENT"} \subseteq Statuses
  BY DEF Statuses, ActiveCancelStatuses, TerminalStatuses

LEMMA PollerTypes ==
    ASSUME TypeOK, NEW p \in Pollers
    PROVE  /\ PollerNext(p) => poller' \in [Pollers -> PollerState]
           /\ \A pc \in {"idle", "each", "cas", "remove", "undo", "rollback"} :
                 PollerGoto(p, pc) => poller' \in [Pollers -> PollerState]
  <1>1. PollerIdle \in PollerState /\ poller[p] \in PollerState
    BY DEF TypeOK, PollerIdle, PollerState
  <1>2. [poller[p] EXCEPT !.pc = "each", !.cur = NoSlot] \in PollerState
    BY <1>1 DEF PollerState
  <1>3. PollerNext(p) => poller' \in [Pollers -> PollerState]
    BY <1>1, <1>2 DEF TypeOK, PollerNext
  <1>4. \A pc \in {"idle", "each", "cas", "remove", "undo", "rollback"} :
           [poller[p] EXCEPT !.pc = pc] \in PollerState
    BY <1>1 DEF PollerState
  <1>5. QED
    BY <1>3, <1>4 DEF TypeOK, PollerGoto

LEMMA WorkerTypes ==
    ASSUME TypeOK, NEW w \in Workers
    PROVE  /\ WorkerIdle \in WorkerState
           /\ \A pc \in WorkerPcs :
                 WorkerGoto(w, pc) => worker' \in [Workers -> WorkerState]
  BY DEF TypeOK, WorkerIdle, WorkerGoto, WorkerState, WorkerPcs

LEMMA CounterType ==
    \A f \in [Slots -> Nat], s \in Slots : [f EXCEPT ![s] = f[s] + 1] \in [Slots -> Nat]
  OBVIOUS

\* The updates of a request record keep its type.
LEMMA RequestTypes ==
    ASSUME TypeOK, NEW q \in Requests
    PROVE  /\ \A pc \in {"committed", "deleted", "duplicate", "failed"} :
                 RequestEnd(q, pc) => request' \in [Requests -> RequestState]
           /\ \A pc \in {"insert", "count", "delete"}, L \in SUBSET Slots :
                 [request[q] EXCEPT !.pc = pc, !.locks = L] \in RequestState
           /\ \A n \in Nat : [request[q] EXCEPT !.pc = "insert", !.chain = n] \in RequestState
  <1>1. request[q] \in RequestState
    BY DEF TypeOK
  <1>2. \A pc \in {"committed", "deleted", "duplicate", "failed"} :
           [request[q] EXCEPT !.pc = pc, !.locks = {}] \in RequestState
    BY <1>1 DEF RequestState
  <1>3. \A pc \in {"insert", "count", "delete"}, L \in SUBSET Slots :
           [request[q] EXCEPT !.pc = pc, !.locks = L] \in RequestState
    BY <1>1 DEF RequestState
  <1>4. \A n \in Nat : [request[q] EXCEPT !.pc = "insert", !.chain = n] \in RequestState
    BY <1>1 DEF RequestState
  <1>5. QED
    BY <1>2, <1>3, <1>4 DEF TypeOK, RequestEnd

LEMMA TerminalCount ==
    Cardinality(TerminalInitials(rows)) \in Nat
  BY RequestsAssumption, FS_Subset, FS_CardinalityType DEF TerminalInitials

\* A step keeps every variable in its type.
LEMMA TypeOKStep == TypeOK /\ ActorsOK /\ [Next]_vars => TypeOK'
  <1> SUFFICES ASSUME TypeOK, ActorsOK, [Next]_vars PROVE TypeOK'
    OBVIOUS
  <1>1. ASSUME NEW s \in Slots, BecomeDue(s) PROVE TypeOK'
    BY <1>1 DEF BecomeDue, TypeOK, actors, ghosts, Row
  <1>2. ASSUME NEW s \in Slots, Stall(s) PROVE TypeOK'
    BY <1>2, FaultNames, StrikeType DEF Stall, TypeOK, actors, ghosts, Job
  <1>3. ASSUME NEW s \in Slots, LoseJob(s) PROVE TypeOK'
    BY <1>3, FaultNames, StrikeType DEF LoseJob, NoJob, TypeOK, actors, ghosts, Job
  <1>4. ASSUME NEW p \in Pollers, Claim(p) PROVE TypeOK'
    BY <1>4, SetStatusType, StatusNames
      DEF Claim, ClaimDueBatch, Claimable, WithStatus, TypeOK, PollerState, ghosts
  <1>5. ASSUME NEW p \in Pollers, AddJob(p) PROVE TypeOK'
    BY <1>5 DEF AddJob, TypeOK, PollerState, Job, ghosts
  <1>6. ASSUME NEW p \in Pollers, MarkQueued(p) PROVE TypeOK'
    BY <1>6, PollerTypes, TransitionType, StatusNames DEF MarkQueued, TypeOK, ghosts
  <1>7. ASSUME NEW p \in Pollers, RemoveJob(p) PROVE TypeOK'
    BY <1>7, PollerTypes DEF RemoveJob, NoJob, Job, TypeOK, ghosts
  <1>8. ASSUME NEW p \in Pollers, RollbackClaim(p) PROVE TypeOK'
    BY <1>8, PollerTypes, TransitionType, StatusNames DEF RollbackClaim, TypeOK, ghosts
  <1>9. ASSUME NEW p \in Pollers, AddJobError(p) PROVE TypeOK'
    BY <1>9, FaultNames, StrikeType DEF AddJobError, TypeOK, PollerState, ghosts
  <1>10. ASSUME NEW p \in Pollers, MarkQueuedError(p) PROVE TypeOK'
    BY <1>10, FaultNames, StrikeType, PollerTypes DEF MarkQueuedError, TypeOK, ghosts
  <1>11. ASSUME NEW p \in Pollers, PollerAbort(p) PROVE TypeOK'
    BY <1>11, FaultNames, StrikeType
      DEF PollerAbort, PollerIdle, PollerState, TypeOK, ghosts
  <1>12. ASSUME NEW w \in Workers, NEW s \in Slots, PickJob(w, s) PROVE TypeOK'
    BY <1>12 DEF PickJob, TypeOK, Job, WorkerState, WorkerPcs, ghosts
  <1>13. ASSUME NEW w \in Workers, ReadRow(w) PROVE TypeOK'
    BY <1>13, WorkerTypes DEF ReadRow, TypeOK, WorkerPcs, SendingPcs, ghosts
  <1>14. ASSUME NEW w \in Workers, CheckActed(w) PROVE TypeOK'
    BY <1>14, WorkerTypes DEF CheckActed, TypeOK, WorkerPcs, SendingPcs, ghosts
  <1>15. ASSUME NEW w \in Workers, Promote(w) PROVE TypeOK'
    BY <1>15, WorkerTypes, TransitionType, StatusNames
      DEF Promote, WorkerCas, TypeOK, WorkerPcs, SendingPcs, ghosts
  <1>16. ASSUME NEW w \in Workers, BeginSend(w) PROVE TypeOK'
    BY <1>16, WorkerTypes, TransitionType, StatusNames
      DEF BeginSend, WorkerCas, TypeOK, WorkerPcs, SendingPcs, ghosts
  <1>17. ASSUME NEW w \in Workers, CancelSelf(w) PROVE TypeOK'
    BY <1>17, WorkerTypes, TransitionType, StatusNames
      DEF CancelSelf, WorkerCas, TypeOK, WorkerPcs, SendingPcs, ghosts
  <1>18. ASSUME NEW w \in Workers, CancelSiblings(w) PROVE TypeOK'
    BY <1>18, WorkerTypes, SetStatusType, StatusNames
      DEF CancelSiblings, CancelSiblingEscalations, TypeOK, WorkerPcs, SendingPcs, ghosts
  <1>19. ASSUME NEW w \in Workers, SendOk(w) PROVE TypeOK'
    <2>1. [worker[w] EXCEPT !.pc = "record", !.sentAt = clock] \in WorkerState
      BY DEF TypeOK, WorkerState, WorkerPcs, SendingPcs
    <2>2. worker' \in [Workers -> WorkerState]
      BY <1>19, <2>1 DEF SendOk, TypeOK
    <2>3. mails' \in [Slots -> Nat] /\ calls' \in [Slots -> Nat]
      BY <1>19, CounterType DEF SendOk, TypeOK, ActorsOK
    <2>4. QED
      BY <1>19, <2>2, <2>3 DEF SendOk, TypeOK
  <1>20. ASSUME NEW w \in Workers, SendError(w) PROVE TypeOK'
    <2>1. worker' \in [Workers -> WorkerState]
      BY <1>20, WorkerTypes DEF SendError, WorkerPcs, SendingPcs
    <2>2. calls' \in [Slots -> Nat]
      BY <1>20, CounterType DEF SendError, TypeOK, ActorsOK
    <2>3. faults' \in [FaultKinds -> Nat]
      BY <1>20, FaultNames, StrikeType DEF SendError, TypeOK
    <2>4. QED
      BY <1>20, <2>1, <2>2, <2>3 DEF SendError, TypeOK
  <1>21. ASSUME NEW w \in Workers, RecordSent(w) PROVE TypeOK'
    <2> DEFINE u == worker[w].slot
               sent == MarkSent(rows, u, worker[w].sentAt)
    <2>1. worker[w].sentAt \in Nat /\ worker' \in [Workers -> WorkerState]
      BY <1>21, WorkerTypes DEF RecordSent, TypeOK, WorkerState, WorkerPcs, SendingPcs
    <2>2. u \in Slots /\ u[1] \in Requests
      BY <1>21, SlotParts DEF RecordSent, ActorsOK
    <2>3. sent \in [Slots -> Row]
      BY <2>1, <2>2, MarkSentType DEF TypeOK
    <2>4. rows' \in [Slots -> Row]
      BY <1>21, <2>2, <2>3, CreateEscalationsType DEF RecordSent, TypeOK
    <2>5. QED
      BY <1>21, <2>1, <2>4 DEF RecordSent, TypeOK, ghosts
  <1>22. ASSUME NEW w \in Workers, RecordFailure(w) PROVE TypeOK'
    <2> DEFINE n == rows[worker[w].slot].attempt + 1
    <2>1. worker[w].slot \in Slots /\ n \in Nat
      BY <1>22 DEF RecordFailure, ActorsOK, TypeOK, Row
    <2>2. rows' \in [Slots -> Row]
      BY <1>22, <2>1, TransitionType, ResetToRetryType, StatusNames
        DEF RecordFailure, TypeOK
    <2>3. QED
      BY <1>22, <2>2, WorkerTypes
        DEF RecordFailure, TypeOK, WorkerPcs, SendingPcs, ghosts
  <1>23. ASSUME NEW w \in Workers, FinishJob(w) PROVE TypeOK'
    BY <1>23, WorkerTypes DEF FinishJob, NoJob, Job, TypeOK, ghosts
  <1>24. ASSUME NEW w \in Workers, HandlerError(w) PROVE TypeOK'
    <2>1. \A s \in Slots :
             [jobs[s] EXCEPT !.state = "failed", !.by = NoWorker] \in Job
      BY DEF TypeOK, Job
    <2>2. jobs' \in [Slots -> Job]
      BY <1>24, <2>1 DEF HandlerError, ActorsOK, TypeOK
    <2>3. QED
      BY <1>24, <2>2, WorkerTypes, FaultNames, StrikeType DEF HandlerError, TypeOK, ghosts
  <1>25. ASSUME NEW w \in Workers, WorkerCrash(w) PROVE TypeOK'
    BY <1>25, WorkerTypes, FaultNames, StrikeType DEF WorkerCrash, TypeOK, ghosts
  <1>26. ASSUME ReleaseStale PROVE TypeOK'
    BY <1>26, SetStatusType, StatusNames
      DEF ReleaseStale, ReleaseStaleClaims, ReconGoto, ReconState, TypeOK, ghosts
  <1>27. ASSUME ScanQueued PROVE TypeOK'
    BY <1>27 DEF ScanQueued, WithStatus, ReconState, TypeOK, ghosts
  <1>28. ASSUME LookupJob PROVE TypeOK'
    BY <1>28 DEF LookupJob, ReconState, TypeOK, ghosts
  <1>29. ASSUME ResetOrphan PROVE TypeOK'
    BY <1>29, TransitionType, StatusNames DEF ResetOrphan, ReconState, TypeOK, ghosts
  <1>30. ASSUME ScanDone PROVE TypeOK'
    BY <1>30 DEF ScanDone, ReconGoto, ReconState, TypeOK, ghosts
  <1>31. ASSUME Collapse PROVE TypeOK'
    BY <1>31, SetStatusType, StatusNames
      DEF Collapse, CollapseOverdueEscalations, ReconGoto, ReconState, TypeOK, ghosts
  <1>32. ASSUME RepairMissing PROVE TypeOK'
    BY <1>32, CreateEscalationsType
      DEF RepairMissing, MissingEscalations, ReconGoto, ReconState, TypeOK, ghosts
  <1>33. ASSUME NEW q \in Requests, ReadTrainer(q) PROVE TypeOK'
    BY <1>33 DEF ReadTrainer, TypeOK, RequestState, ghosts
  <1>34. ASSUME NEW q \in Requests, TxCancel(q) PROVE TypeOK'
    <2>1. Cancellable(rows) \in SUBSET Slots
      BY DEF Cancellable, WithStatus
    <2>2. PICK pc \in {"insert", "count", "delete"} :
             request' = [request EXCEPT ![q] =
                           [request[q] EXCEPT !.pc = pc, !.locks = Cancellable(rows)]]
      BY <1>34 DEF TxCancel, TypeOK
    <2>3. request' \in [Requests -> RequestState]
      BY <2>1, <2>2, RequestTypes DEF TypeOK
    <2>4. QED
      BY <1>34, <2>3 DEF TxCancel, TypeOK, ghosts
  <1>35. ASSUME NEW q \in Requests, TxCount(q) PROVE TypeOK'
    <2> DEFINE terminal == Cardinality(TerminalInitials(rows))
               n == IF terminal >= MaxChain THEN 0 ELSE terminal + 1
    <2>1. n \in Nat
      BY TerminalCount
    <2>2. request' = [request EXCEPT ![q] = [request[q] EXCEPT !.pc = "insert", !.chain = n]]
      BY <1>35 DEF TxCount, TypeOK
    <2> HIDE DEF n
    <2>3. request' \in [Requests -> RequestState]
      BY <2>1, <2>2, RequestTypes DEF TypeOK
    <2>4. QED
      BY <1>35, <2>3 DEF TxCount, TypeOK, ghosts
  <1>36. ASSUME NEW q \in Requests, TxCommit(q) PROVE TypeOK'
    <2>1. Committed(q) \in [Slots -> Row]
      BY SetStatusType, StatusNames DEF Committed, TypeOK
    <2>2. InitialRow(request[q].chain) \in Row
      BY InitialRowType DEF TypeOK, RequestState
    <2>3. rows' \in [Slots -> Row]
      BY <1>36, <2>1, <2>2 DEF TxCommit
    <2>4. request' \in [Requests -> RequestState]
      BY <1>36, RequestTypes DEF TxCommit
    <2> DEFINE n == clock + 1
    <2>5. n \in Nat /\ clock' = n
          /\ trainer' = [trainer EXCEPT !.disabled = FALSE, !.lastExam = n]
      BY <1>36 DEF TxCommit, TypeOK
    <2> HIDE DEF n
    <2>7. trainer' \in [exists: BOOLEAN, disabled: BOOLEAN, lastExam: Nat]
      BY <2>5 DEF TypeOK
    <2>8. QED
      BY <1>36, <2>3, <2>4, <2>5, <2>7 DEF TxCommit, TypeOK, ghosts
  <1>37. ASSUME NEW q \in Requests, TxDuplicate(q) PROVE TypeOK'
    BY <1>37, RequestTypes DEF TxDuplicate, TypeOK, ghosts
  <1>38. ASSUME NEW q \in Requests, TxDelete(q) PROVE TypeOK'
    <2>1. rows' \in [Slots -> Row]
      BY <1>38, SetStatusType, StatusNames DEF TxDelete, Committed, TypeOK
    <2>2. request' \in [Requests -> RequestState]
      BY <1>38, RequestTypes DEF TxDelete
    <2>3. trainer' \in [exists: BOOLEAN, disabled: BOOLEAN, lastExam: Nat]
      BY <1>38 DEF TxDelete, TypeOK
    <2>4. QED
      BY <1>38, <2>1, <2>2, <2>3 DEF TxDelete, TypeOK, ghosts
  <1>39. ASSUME NEW q \in Requests, TxRollback(q) PROVE TypeOK'
    BY <1>39, FaultNames, StrikeType, RequestTypes DEF TxRollback, TypeOK, ghosts
  <1>40. ASSUME DisableReminders PROVE TypeOK'
    BY <1>40 DEF DisableReminders, TypeOK, actors, ghosts
  <1>41. ASSUME DeleteTrainer PROVE TypeOK'
    BY <1>41 DEF DeleteTrainer, TypeOK, actors, ghosts
  <1>42. CASE UNCHANGED vars
    BY <1>42 DEF vars, TypeOK
  <1>43. QED
    BY <1>1, <1>2, <1>3, <1>4, <1>5, <1>6, <1>7, <1>8, <1>9, <1>10, <1>11, <1>12, <1>13, <1>14, <1>15, <1>16, <1>17, <1>18, <1>19, <1>20, <1>21, <1>22, <1>23, <1>24, <1>25, <1>26, <1>27, <1>28, <1>29, <1>30, <1>31, <1>32, <1>33, <1>34, <1>35, <1>36, <1>37, <1>38, <1>39, <1>40, <1>41, <1>42
       DEF Next, PollerStep, HandlerStep, ReconStep, TxStep

---------------------------------------------------------------------------
(* Who names a row: past its first read every actor holds a row of the     *)
(* table, whatever happened to that row since.                             *)
LEMMA PollerActors ==
    ASSUME TypeOK, ActorsOK, NEW p \in Pollers, UNCHANGED <<worker, recon>>
    PROVE  /\ PollerNext(p) => ActorsOK'
           /\ poller[p].pc \in {"cas", "remove", "undo"}
              => \A pc \in {"remove", "undo", "rollback"} : PollerGoto(p, pc) => ActorsOK'
  <1>1. ASSUME PollerNext(p) PROVE ActorsOK'
    <2> DEFINE new == IF poller[p].batch = {} THEN PollerIdle
                      ELSE [poller[p] EXCEPT !.pc = "each", !.cur = NoSlot]
    <2>1. new.pc \in {"idle", "each"}
      BY DEF PollerIdle, TypeOK, PollerState
    <2>2. poller' = [poller EXCEPT ![p] = new]
      BY <1>1 DEF PollerNext
    <2> HIDE DEF new
    <2>3. QED
      BY <2>1, <2>2 DEF ActorsOK, TypeOK
  <1>2. ASSUME poller[p].pc \in {"cas", "remove", "undo"},
               NEW pc \in {"remove", "undo", "rollback"}, PollerGoto(p, pc)
        PROVE  ActorsOK'
    BY <1>2 DEF ActorsOK, PollerGoto, TypeOK, PollerState
  <1>3. QED
    BY <1>1, <1>2

LEMMA ActorsOKStep == TypeOK /\ ActorsOK /\ [Next]_vars => ActorsOK'
  <1> SUFFICES ASSUME TypeOK, ActorsOK, [Next]_vars PROVE ActorsOK'
    OBVIOUS
  <1>1. ASSUME NEW s \in Slots, BecomeDue(s) PROVE ActorsOK'
    BY <1>1 DEF ActorsOK, BecomeDue, actors
  <1>2. ASSUME NEW s \in Slots, Stall(s) PROVE ActorsOK'
    BY <1>2 DEF ActorsOK, Stall, actors
  <1>3. ASSUME NEW s \in Slots, LoseJob(s) PROVE ActorsOK'
    BY <1>3 DEF ActorsOK, LoseJob, actors
  <1>4. ASSUME NEW p \in Pollers, Claim(p) PROVE ActorsOK'
    BY <1>4 DEF ActorsOK, Claim, TypeOK, PollerState
  <1>5. ASSUME NEW p \in Pollers, AddJob(p) PROVE ActorsOK'
    BY <1>5 DEF ActorsOK, AddJob, TypeOK, PollerState
  <1>6. ASSUME NEW p \in Pollers, MarkQueued(p) PROVE ActorsOK'
    BY <1>6, PollerActors DEF MarkQueued
  <1>7. ASSUME NEW p \in Pollers, RemoveJob(p) PROVE ActorsOK'
    BY <1>7, PollerActors DEF RemoveJob
  <1>8. ASSUME NEW p \in Pollers, RollbackClaim(p) PROVE ActorsOK'
    BY <1>8 DEF ActorsOK, RollbackClaim, TypeOK, PollerState, PollerNext, PollerIdle
  <1>9. ASSUME NEW p \in Pollers, AddJobError(p) PROVE ActorsOK'
    BY <1>9 DEF ActorsOK, AddJobError, TypeOK, PollerState
  <1>10. ASSUME NEW p \in Pollers, MarkQueuedError(p) PROVE ActorsOK'
    BY <1>10 DEF ActorsOK, MarkQueuedError, TypeOK, PollerState, PollerGoto
  <1>11. ASSUME NEW p \in Pollers, PollerAbort(p) PROVE ActorsOK'
    BY <1>11 DEF ActorsOK, PollerAbort, TypeOK, PollerState, PollerIdle
  <1>12. ASSUME NEW w \in Workers, NEW s \in Slots, PickJob(w, s) PROVE ActorsOK'
    BY <1>12 DEF ActorsOK, PickJob, TypeOK, WorkerState, WorkerGoto
  <1>13. ASSUME NEW w \in Workers, ReadRow(w) PROVE ActorsOK'
    BY <1>13 DEF ActorsOK, ReadRow, TypeOK, WorkerState, WorkerGoto
  <1>14. ASSUME NEW w \in Workers, CheckActed(w) PROVE ActorsOK'
    BY <1>14 DEF ActorsOK, CheckActed, TypeOK, WorkerState, WorkerGoto
  <1>15. ASSUME NEW w \in Workers, Promote(w) PROVE ActorsOK'
    BY <1>15 DEF ActorsOK, Promote, TypeOK, WorkerState, WorkerGoto, WorkerCas
  <1>16. ASSUME NEW w \in Workers, BeginSend(w) PROVE ActorsOK'
    BY <1>16 DEF ActorsOK, BeginSend, TypeOK, WorkerState, WorkerGoto, WorkerCas
  <1>17. ASSUME NEW w \in Workers, CancelSelf(w) PROVE ActorsOK'
    BY <1>17 DEF ActorsOK, CancelSelf, TypeOK, WorkerState, WorkerGoto, WorkerCas
  <1>18. ASSUME NEW w \in Workers, CancelSiblings(w) PROVE ActorsOK'
    BY <1>18 DEF ActorsOK, CancelSiblings, TypeOK, WorkerState, WorkerGoto
  <1>19. ASSUME NEW w \in Workers, SendOk(w) PROVE ActorsOK'
    BY <1>19 DEF ActorsOK, SendOk, TypeOK, WorkerState, WorkerGoto
  <1>20. ASSUME NEW w \in Workers, SendError(w) PROVE ActorsOK'
    BY <1>20 DEF ActorsOK, SendError, TypeOK, WorkerState, WorkerGoto
  <1>21. ASSUME NEW w \in Workers, RecordSent(w) PROVE ActorsOK'
    BY <1>21 DEF ActorsOK, RecordSent, TypeOK, WorkerState, WorkerGoto
  <1>22. ASSUME NEW w \in Workers, RecordFailure(w) PROVE ActorsOK'
    BY <1>22 DEF ActorsOK, RecordFailure, TypeOK, WorkerState, WorkerGoto
  <1>23. ASSUME NEW w \in Workers, FinishJob(w) PROVE ActorsOK'
    BY <1>23 DEF ActorsOK, FinishJob, TypeOK, WorkerState, WorkerGoto, WorkerIdle
  <1>24. ASSUME NEW w \in Workers, HandlerError(w) PROVE ActorsOK'
    BY <1>24 DEF ActorsOK, HandlerError, TypeOK, WorkerState, WorkerGoto, WorkerIdle
  <1>25. ASSUME NEW w \in Workers, WorkerCrash(w) PROVE ActorsOK'
    BY <1>25 DEF ActorsOK, WorkerCrash, TypeOK, WorkerState, WorkerGoto, WorkerIdle
  <1>26. ASSUME ReleaseStale PROVE ActorsOK'
    BY <1>26 DEF ActorsOK, ReleaseStale, TypeOK, ReconState, ReconGoto
  <1>27. ASSUME ScanQueued PROVE ActorsOK'
    BY <1>27 DEF ActorsOK, ScanQueued, TypeOK, ReconState, ReconGoto
  <1>28. ASSUME LookupJob PROVE ActorsOK'
    BY <1>28 DEF ActorsOK, LookupJob, TypeOK, ReconState, ReconGoto
  <1>29. ASSUME ResetOrphan PROVE ActorsOK'
    BY <1>29 DEF ActorsOK, ResetOrphan, TypeOK, ReconState, ReconGoto
  <1>30. ASSUME ScanDone PROVE ActorsOK'
    BY <1>30 DEF ActorsOK, ScanDone, TypeOK, ReconState, ReconGoto
  <1>31. ASSUME Collapse PROVE ActorsOK'
    BY <1>31 DEF ActorsOK, Collapse, TypeOK, ReconState, ReconGoto
  <1>32. ASSUME RepairMissing PROVE ActorsOK'
    BY <1>32 DEF ActorsOK, RepairMissing, TypeOK, ReconState, ReconGoto
  <1>33. ASSUME NEW q \in Requests, ReadTrainer(q) PROVE ActorsOK'
    BY <1>33 DEF ActorsOK, ReadTrainer
  <1>34. ASSUME NEW q \in Requests, TxCancel(q) PROVE ActorsOK'
    BY <1>34 DEF ActorsOK, TxCancel
  <1>35. ASSUME NEW q \in Requests, TxCount(q) PROVE ActorsOK'
    BY <1>35 DEF ActorsOK, TxCount
  <1>36. ASSUME NEW q \in Requests, TxCommit(q) PROVE ActorsOK'
    BY <1>36 DEF ActorsOK, TxCommit
  <1>37. ASSUME NEW q \in Requests, TxDuplicate(q) PROVE ActorsOK'
    BY <1>37 DEF ActorsOK, TxDuplicate
  <1>38. ASSUME NEW q \in Requests, TxDelete(q) PROVE ActorsOK'
    BY <1>38 DEF ActorsOK, TxDelete
  <1>39. ASSUME NEW q \in Requests, TxRollback(q) PROVE ActorsOK'
    BY <1>39 DEF ActorsOK, TxRollback
  <1>40. ASSUME DisableReminders PROVE ActorsOK'
    BY <1>40 DEF ActorsOK, DisableReminders, actors
  <1>41. ASSUME DeleteTrainer PROVE ActorsOK'
    BY <1>41 DEF ActorsOK, DeleteTrainer, actors
  <1>42. CASE UNCHANGED vars
    BY <1>42 DEF vars, ActorsOK
  <1>43. QED
    BY <1>1, <1>2, <1>3, <1>4, <1>5, <1>6, <1>7, <1>8, <1>9, <1>10, <1>11, <1>12, <1>13, <1>14, <1>15, <1>16, <1>17, <1>18, <1>19, <1>20, <1>21, <1>22, <1>23, <1>24, <1>25, <1>26, <1>27, <1>28, <1>29, <1>30, <1>31, <1>32, <1>33, <1>34, <1>35, <1>36, <1>37, <1>38, <1>39, <1>40, <1>41, <1>42
       DEF Next, PollerStep, HandlerStep, ReconStep, TxStep

LEMMA InitTypes == Init => TypeOK /\ ActorsOK
  BY DEF Init, TypeOK, ActorsOK, AbsentRow, Row, Statuses, NoJob, Job, PollerIdle,
        PollerState, WorkerIdle, WorkerState, WorkerPcs, ReconState, RequestIdle,
        RequestState

\* Every behaviour is type correct: the records of rows, jobs, actors and
\* exam requests never leave the domains the code gives them.
THEOREM TypeCorrect == Spec => []TypeOK
  <1>1. Init => TypeOK /\ ActorsOK
    BY InitTypes
  <1>2. TypeOK /\ ActorsOK /\ [Next]_vars => (TypeOK /\ ActorsOK)'
    BY TypeOKStep, ActorsOKStep
  <1>3. QED
    BY <1>1, <1>2, PTL DEF Spec

---------------------------------------------------------------------------
(* The kinds of steps.  Seen from the status of the rows, the workers past *)
(* the CAS QUEUED -> SENDING and the confirmed mails, every step of every  *)
(* process is one of the following, or a step of an exam request.          *)
OpenPcs == SendingPcs \ {"record"}
NoNewSender ==
    \A w \in Workers, Pcs \in {SendingPcs, OpenPcs, {"record"}} : worker'[w].pc \in Pcs =>
        worker[w].pc \in Pcs /\ worker'[w].slot = worker[w].slot
SameStatus(s) == rows'[s].status = rows[s].status
ChainsKept == \A q \in Requests : rows'[Initial(q)].chain = rows[Initial(q)].chain
Backfilled(s) ==
    /\ ~IsInitial(s) /\ rows[s].status = "ABSENT" /\ rows'[s].status = "PENDING"

\* Rows move between PENDING, CLAIMED and QUEUED, escalations are dropped, or
\* escalations of a SENT INITIAL appear.
Drift(s) ==
    \/ SameStatus(s)
    \/ /\ rows[s].status \in ActiveCancelStatuses /\ s \notin Locked
       /\ \/ rows'[s].status \in ActiveCancelStatuses
          \/ ~IsInitial(s) /\ rows'[s].status \in {"CANCELLED", "EXPIRED"}
    \/ Backfilled(s) /\ rows[Initial(s[1])].status = "SENT"
Benign ==
    /\ UNCHANGED <<mails, request>> /\ NoNewSender
    /\ ChainsKept /\ \A s \in Slots : Drift(s)

\* A worker wins the CAS QUEUED -> SENDING.
Started(w) ==
    /\ UNCHANGED <<mails, request>> /\ ChainsKept
    /\ \A v \in Workers \ {w} : worker'[v] = worker[v]
    /\ worker'[w].pc = "check" /\ worker'[w].slot = worker[w].slot
    /\ worker[w].slot \in Slots \ Locked
    /\ rows[worker[w].slot].status = "QUEUED"
    /\ rows'[worker[w].slot].status = "SENDING"
    /\ \A s \in Slots \ {worker[w].slot} : SameStatus(s)

\* The provider confirms a mail.
Mailed(w) ==
    /\ UNCHANGED <<rows, request>>
    /\ \A v \in Workers \ {w} : worker'[v] = worker[v]
    /\ worker[w].pc = "send" /\ worker'[w].pc = "record"
    /\ worker'[w].slot = worker[w].slot /\ worker[w].slot \in Slots
    /\ mails' = [mails EXCEPT ![worker[w].slot] = @ + 1]

\* A worker takes its row out of SENDING.
Ended(w) ==
    /\ UNCHANGED <<mails, request>> /\ ChainsKept
    /\ \A v \in Workers \ {w} : worker'[v] = worker[v]
    /\ worker'[w].pc = "finish"
    /\ worker[w].slot \in Slots /\ rows[worker[w].slot].status = "SENDING"
    /\ \/ /\ worker[w].pc \in OpenPcs
          /\ rows'[worker[w].slot].status \in {"CANCELLED", "FAILED_TERMINAL", "PENDING"}
          /\ \A s \in Slots \ {worker[w].slot} : SameStatus(s)
       \/ /\ worker[w].pc = "record"
          /\ rows'[worker[w].slot].status = "SENT"
          /\ \A s \in Slots \ {worker[w].slot} :
                SameStatus(s) \/ (Backfilled(s) /\ s[1] = worker[w].slot[1])

\* Exam requests.
Exam(q) == ReadTrainer(q) \/ TxStep(q) \/ TxRollback(q)

LEMMA Pcs ==
    /\ SendingPcs = {"check", "siblings", "self", "send", "record", "failed", "hardfail"}
    /\ OpenPcs = {"check", "siblings", "self", "send", "failed", "hardfail"}
  BY DEF SendingPcs, OpenPcs

\* The pc of one worker changes, to one that does not make it a sender.
LEMMA DriftingWorker ==
    ASSUME TypeOK, NEW w \in Workers, NEW rec \in WorkerState,
           worker' = [worker EXCEPT ![w] = rec],
           \A P \in {SendingPcs, OpenPcs, {"record"}} :
              rec.pc \in P => worker[w].pc \in P /\ rec.slot = worker[w].slot
    PROVE  NoNewSender
  BY DEF TypeOK, NoNewSender

LEMMA SameWorkers == worker' = worker => NoNewSender
  BY DEF NoNewSender
LEMMA SameRows == rows' = rows => ChainsKept /\ \A s \in Slots : Drift(s)
  BY DEF ChainsKept, Drift, SameStatus

\* A move inside PENDING, CLAIMED, QUEUED of unlocked rows.
LEMMA ActiveMove ==
    ASSUME TypeOK, NEW S, NEW to \in Statuses, rows' = SetStatus(rows, S, to),
           S \subseteq Cancellable(rows) \ Locked,
           to \in ActiveCancelStatuses
              \/ (to \in {"CANCELLED", "EXPIRED"} /\ \A s \in S : ~IsInitial(s))
    PROVE  ChainsKept /\ \A s \in Slots : Drift(s)
  <1>1. \A s \in Slots :
           /\ rows'[s].status = IF s \in S THEN to ELSE rows[s].status
           /\ rows'[s].chain = rows[s].chain
    BY SetStatusType DEF TypeOK
  <1>2. ChainsKept
    BY <1>1, SlotParts DEF ChainsKept
  <1>3. \A s \in S : s \notin Locked /\ rows[s].status \in ActiveCancelStatuses
    BY DEF Cancellable, WithStatus
  <1>4. \A s \in Slots : Drift(s)
    BY <1>1, <1>3 DEF Drift, SameStatus
  <1>5. QED
    BY <1>2, <1>4

LEMMA ActiveCas ==
    ASSUME TypeOK, NEW s \in Slots, s \notin Locked,
           NEW from \in ActiveCancelStatuses, NEW to \in ActiveCancelStatuses,
           rows' = Transition(rows, s, from, to)
    PROVE  ChainsKept /\ \A u \in Slots : Drift(u)
  <1>1. \A u \in Slots :
           /\ rows'[u].status = IF u = s /\ rows[s].status = from THEN to ELSE rows[u].status
           /\ rows'[u].chain = rows[u].chain
    <2>1. rows \in [Slots -> Row] /\ from \in Statuses /\ to \in Statuses
      BY StatusNames DEF TypeOK
    <2>2. QED
      BY <2>1, TransitionType
  <1>2. ChainsKept
    BY <1>1, SlotParts DEF ChainsKept
  <1>3. QED
    BY <1>1, <1>2 DEF Drift, SameStatus

LEMMA ActiveNames ==
    ActiveCancelStatuses = {"PENDING", "CLAIMED", "QUEUED"}
  BY DEF ActiveCancelStatuses

\* A worker that stays a sender keeps its row.
LEMMA SenderGoto ==
    ASSUME TypeOK, NEW w \in Workers, NEW pc \in WorkerPcs, WorkerGoto(w, pc),
           pc \in SendingPcs => worker[w].pc \in SendingPcs,
           pc \in OpenPcs => worker[w].pc \in OpenPcs, pc # "record"
    PROVE  NoNewSender
  BY DEF TypeOK, WorkerGoto, WorkerState, NoNewSender

LEMMA IdleWorker ==
    ASSUME TypeOK, NEW w \in Workers, worker' = [worker EXCEPT ![w] = WorkerIdle]
    PROVE  NoNewSender
  BY Pcs DEF TypeOK, WorkerIdle, NoNewSender

\* Every step is of one of the kinds.
LEMMA StepKinds ==
    ASSUME TypeOK, ActorsOK, InsertedOnce, SendExclusive, [Next]_vars
    PROVE  \/ Benign
           \/ \E w \in Workers : Started(w) \/ Mailed(w) \/ Ended(w)
           \/ \E q \in Requests : Exam(q)
  <1> DEFINE Moved(s, to) == \A u \in Slots :
                 /\ rows'[u].status = IF u = s THEN to ELSE rows[u].status
                 /\ rows'[u].chain = rows[u].chain
  <1>0. rows \in [Slots -> Row]
    BY DEF TypeOK
  <1>a. ASSUME NEW s \in Slots, NEW from \in Statuses, NEW to \in Statuses,
               rows' = Transition(rows, s, from, to), rows[s].status = from
        PROVE  Moved(s, to)
    <2>1. \A u \in Slots :
             /\ rows'[u].status = IF u = s /\ rows[s].status = from THEN to
                                  ELSE rows[u].status
             /\ rows'[u].chain = rows[u].chain
      BY <1>0, <1>a, TransitionType
    <2>2. QED
      BY <2>1, <1>a
  <1>b. ASSUME NEW s \in Slots, NEW n \in Nat,
               rows' = ResetToRetry(rows, s, n), rows[s].status = "SENDING"
        PROVE  Moved(s, "PENDING")
    <2>1. \A u \in Slots :
             /\ rows'[u].status = IF u = s /\ rows[s].status = "SENDING" THEN "PENDING"
                                  ELSE rows[u].status
             /\ rows'[u].chain = rows[u].chain
      BY <1>0, <1>b, ResetToRetryType
    <2>2. QED
      BY <2>1, <1>b
  <1>1. ASSUME NEW s \in Slots, Stall(s) PROVE Benign
    BY <1>1, SameWorkers, SameRows DEF Stall, Benign, actors, ghosts
  <1>2. ASSUME NEW s \in Slots, LoseJob(s) PROVE Benign
    BY <1>2, SameWorkers, SameRows DEF LoseJob, Benign, actors, ghosts
  <1>3. ASSUME NEW p \in Pollers, AddJob(p) PROVE Benign
    BY <1>3, SameWorkers, SameRows DEF AddJob, Benign, actors, ghosts
  <1>4. ASSUME NEW p \in Pollers, AddJobError(p) PROVE Benign
    BY <1>4, SameWorkers, SameRows DEF AddJobError, Benign, actors, ghosts
  <1>5. ASSUME NEW p \in Pollers, MarkQueuedError(p) PROVE Benign
    BY <1>5, SameWorkers, SameRows DEF MarkQueuedError, Benign, actors, ghosts
  <1>6. ASSUME NEW p \in Pollers, RemoveJob(p) PROVE Benign
    BY <1>6, SameWorkers, SameRows DEF RemoveJob, Benign, actors, ghosts
  <1>7. ASSUME NEW p \in Pollers, PollerAbort(p) PROVE Benign
    BY <1>7, SameWorkers, SameRows DEF PollerAbort, Benign, actors, ghosts
  <1>8. ASSUME ScanQueued PROVE Benign
    BY <1>8, SameWorkers, SameRows DEF ScanQueued, Benign, actors, ghosts
  <1>9. ASSUME LookupJob PROVE Benign
    BY <1>9, SameWorkers, SameRows DEF LookupJob, Benign, actors, ghosts
  <1>10. ASSUME ScanDone PROVE Benign
    BY <1>10, SameWorkers, SameRows DEF ScanDone, Benign, actors, ghosts
  <1>11. ASSUME DisableReminders PROVE Benign
    BY <1>11, SameWorkers, SameRows DEF DisableReminders, Benign, actors, ghosts
  <1>12. ASSUME DeleteTrainer PROVE Benign
    BY <1>12, SameWorkers, SameRows DEF DeleteTrainer, Benign, actors, ghosts
  <1>13. ASSUME NEW s \in Slots, BecomeDue(s) PROVE Benign
    <2>1. ChainsKept /\ \A u \in Slots : Drift(u)
      BY <1>13, SlotParts DEF BecomeDue, ChainsKept, Drift, SameStatus, TypeOK, Row
    <2>2. QED
      BY <1>13, <2>1, SameWorkers DEF BecomeDue, Benign, actors, ghosts
  <1>14. ASSUME NEW p \in Pollers, Claim(p) PROVE Benign
    <2>1. PICK batch \in SUBSET (Claimable(rows) \ Locked) : rows' = SetStatus(rows, batch, "CLAIMED")
      BY <1>14 DEF Claim, ClaimDueBatch
    <2>2. batch \subseteq Cancellable(rows) \ Locked
      BY ActiveNames DEF Claimable, Cancellable, WithStatus
    <2>3. ChainsKept /\ \A s \in Slots : Drift(s)
      BY <2>1, <2>2, ActiveMove, ActiveNames, StatusNames
    <2>4. QED
      BY <1>14, <2>3, SameWorkers DEF Claim, Benign, ghosts
  <1>15. ASSUME NEW p \in Pollers, MarkQueued(p) PROVE Benign
    <2>1. ChainsKept /\ \A s \in Slots : Drift(s)
      BY <1>15, ActiveCas, ActiveNames DEF MarkQueued, ActorsOK
    <2>2. QED
      BY <1>15, <2>1, SameWorkers DEF MarkQueued, Benign, ghosts
  <1>16. ASSUME NEW p \in Pollers, RollbackClaim(p) PROVE Benign
    <2>1. ChainsKept /\ \A s \in Slots : Drift(s)
      BY <1>16, ActiveCas, ActiveNames DEF RollbackClaim, ActorsOK
    <2>2. QED
      BY <1>16, <2>1, SameWorkers DEF RollbackClaim, Benign, ghosts
  <1>17. ASSUME ResetOrphan PROVE Benign
    <2>1. ChainsKept /\ \A s \in Slots : Drift(s)
      BY <1>17, ActiveCas, ActiveNames DEF ResetOrphan, ActorsOK
    <2>2. QED
      BY <1>17, <2>1, SameWorkers DEF ResetOrphan, Benign, ghosts
  <1>18. ASSUME NEW w \in Workers, NEW s \in Slots, PickJob(w, s) PROVE Benign
    <2>1. NoNewSender
      BY <1>18, Pcs DEF PickJob, TypeOK, NoNewSender
    <2>2. QED
      BY <1>18, <2>1, SameRows DEF PickJob, Benign, ghosts
  <1>19. ASSUME NEW w \in Workers, ReadRow(w) PROVE Benign
    <2>1. \E pc \in {"cas", "promote", "finish"} : WorkerGoto(w, pc)
      BY <1>19 DEF ReadRow
    <2>2. NoNewSender
      BY <2>1, SenderGoto, Pcs DEF WorkerPcs
    <2>3. QED
      BY <1>19, <2>2, SameRows DEF ReadRow, Benign, ghosts
  <1>20. ASSUME NEW w \in Workers, CheckActed(w) PROVE Benign
    <2>1. \E pc \in {"siblings", "send"} : WorkerGoto(w, pc)
      BY <1>20 DEF CheckActed
    <2>2. NoNewSender
      BY <1>20, <2>1, SenderGoto, Pcs DEF CheckActed, WorkerPcs
    <2>3. QED
      BY <1>20, <2>2, SameRows DEF CheckActed, Benign, ghosts
  <1>21. ASSUME NEW w \in Workers, Promote(w) PROVE Benign
    <2>1. worker[w].slot \in Slots
      BY <1>21 DEF Promote, WorkerCas, ActorsOK
    <2>2. ChainsKept /\ \A s \in Slots : Drift(s)
      BY <1>21, <2>1, ActiveCas, ActiveNames DEF Promote, WorkerCas
    <2>3. NoNewSender
      BY <1>21, SenderGoto, Pcs DEF Promote, WorkerCas, WorkerPcs
    <2>4. QED
      BY <1>21, <2>2, <2>3 DEF Promote, WorkerCas, Benign, ghosts
  <1>22. ASSUME NEW w \in Workers, SendError(w) PROVE Benign
    <2>1. \E pc \in {"failed", "hardfail"} : WorkerGoto(w, pc)
      BY <1>22 DEF SendError
    <2>2. NoNewSender
      BY <1>22, <2>1, SenderGoto, Pcs DEF SendError, WorkerPcs
    <2>3. QED
      BY <1>22, <2>2, SameRows DEF SendError, Benign
  <1>23. ASSUME NEW w \in Workers, FinishJob(w) PROVE Benign
    BY <1>23, IdleWorker, SameRows DEF FinishJob, Benign, ghosts
  <1>24. ASSUME NEW w \in Workers, HandlerError(w) PROVE Benign
    BY <1>24, IdleWorker, SameRows DEF HandlerError, Benign, ghosts
  <1>25. ASSUME NEW w \in Workers, WorkerCrash(w) PROVE Benign
    BY <1>25, IdleWorker, SameRows DEF WorkerCrash, Benign, ghosts
  <1>26. ASSUME NEW w \in Workers, CancelSiblings(w) PROVE Benign
    <2> DEFINE S == CancellableSiblings(rows, worker[w].slot)
    <2>1. /\ rows' = SetStatus(rows, S, "CANCELLED") /\ S \subseteq Cancellable(rows) \ Locked
          /\ \A s \in S : ~IsInitial(s)
      BY <1>26 DEF CancelSiblings, CancelSiblingEscalations, CancellableSiblings, Siblings
    <2> HIDE DEF S
    <2>2. ChainsKept /\ \A s \in Slots : Drift(s)
      BY <2>1, ActiveMove, StatusNames
    <2>3. NoNewSender
      BY <1>26, SenderGoto, Pcs DEF CancelSiblings, WorkerPcs
    <2>4. QED
      BY <1>26, <2>2, <2>3 DEF CancelSiblings, Benign, ghosts
  <1>27. ASSUME ReleaseStale PROVE Benign
    <2>1. PICK stale \in SUBSET (WithStatus(rows, {"CLAIMED"}) \ Locked) :
             rows' = SetStatus(rows, stale, "PENDING")
      BY <1>27 DEF ReleaseStale, ReleaseStaleClaims
    <2>2. stale \subseteq Cancellable(rows) \ Locked
      BY ActiveNames DEF Cancellable, WithStatus
    <2>3. ChainsKept /\ \A s \in Slots : Drift(s)
      BY <2>1, <2>2, ActiveMove, ActiveNames, StatusNames
    <2>4. QED
      BY <1>27, <2>3, SameWorkers DEF ReleaseStale, Benign, ghosts
  <1>28. ASSUME Collapse PROVE Benign
    <2> DEFINE S == Collapsible(rows)
    <2>1. /\ rows' = SetStatus(rows, S, "EXPIRED") /\ S \cap Locked = {}
          /\ \A s \in S : ~IsInitial(s) /\ s \in Cancellable(rows)
      BY <1>28, ActiveNames DEF Collapse, CollapseOverdueEscalations, Collapsible, Overdue,
                              WithStatus, Cancellable
    <2> HIDE DEF S
    <2>2. ChainsKept /\ \A s \in Slots : Drift(s)
      BY <2>1, ActiveMove, StatusNames
    <2>3. QED
      BY <1>28, <2>2, SameWorkers DEF Collapse, Benign, ghosts
  <1>29. ASSUME RepairMissing PROVE Benign
    <2>1. PICK Q \in SUBSET MissingEscalations : rows' = CreateEscalationsForInitials(rows, Q)
      BY <1>29 DEF RepairMissing
    <2>2. Q \in SUBSET Requests
      BY DEF MissingEscalations
    <2>3. \A s \in Slots : \/ rows'[s] = rows[s]
                           \/ s[1] \in Q /\ ~IsInitial(s) /\ rows'[s].status = "PENDING"
      BY <2>1, <2>2, CreateEscalationsType DEF TypeOK
    <2>4. \A s \in Slots : s[1] \in Q /\ ~IsInitial(s) =>
             rows[s].status = "ABSENT" /\ rows[Initial(s[1])].status = "SENT"
      BY SlotParts DEF MissingEscalations, HasEscalations, IsInitial
    <2>5. ChainsKept /\ \A s \in Slots : Drift(s)
      BY <2>3, <2>4, SlotParts DEF ChainsKept, Drift, SameStatus, Backfilled, Initial, IsInitial
    <2>6. QED
      BY <1>29, <2>5, SameWorkers DEF RepairMissing, Benign, ghosts
  <1>30. ASSUME NEW w \in Workers, BeginSend(w) PROVE Benign \/ Started(w)
    <2> DEFINE s == worker[w].slot
    <2>1. s \in Slots \ Locked
      BY <1>30 DEF BeginSend, WorkerCas, ActorsOK
    <2>2. rows' = Transition(rows, s, "QUEUED", "SENDING")
      BY <1>30 DEF BeginSend, WorkerCas
    <2>4. CASE rows[s].status = "QUEUED"
      <3>1. worker' = [worker EXCEPT ![w].pc = "check"]
        BY <1>30, <2>4 DEF BeginSend, WorkerCas, CanTransition, WorkerGoto
      <3>2. /\ worker'[w].pc = "check" /\ worker'[w].slot = s
            /\ \A v \in Workers \ {w} : worker'[v] = worker[v]
        BY <3>1 DEF TypeOK, WorkerState
      <3>3. Moved(s, "SENDING")
        BY <1>a, <2>1, <2>2, <2>4, StatusNames
      <3>4. ChainsKept
        BY <3>3, SlotParts DEF ChainsKept
      <3>5. QED
        BY <1>30, <2>1, <2>4, <3>2, <3>3, <3>4
          DEF Started, SameStatus, BeginSend, WorkerCas, ghosts
    <2>5. CASE rows[s].status # "QUEUED"
      <3>1. NoNewSender
        BY <1>30, <2>5, SenderGoto, Pcs DEF BeginSend, WorkerCas, CanTransition, WorkerPcs
      <3>2. rows' = rows
        BY <2>2, <2>5 DEF Transition, CanTransition
      <3>3. QED
        BY <1>30, <3>1, <3>2, SameRows DEF Benign, BeginSend, WorkerCas, ghosts
    <2>6. QED
      BY <2>4, <2>5
  <1>31. ASSUME NEW w \in Workers, CancelSelf(w) PROVE Ended(w)
    <2> DEFINE s == worker[w].slot
    <2>1. s \in Slots /\ worker[w].pc \in OpenPcs /\ rows[s].status = "SENDING"
      BY <1>31, Pcs DEF CancelSelf, WorkerCas, ActorsOK, SendExclusive
    <2>2. Moved(s, "CANCELLED")
      BY <1>31, <1>a, <2>1, StatusNames DEF CancelSelf, WorkerCas
    <2>3. ChainsKept
      BY <2>2, SlotParts DEF ChainsKept
    <2>4. worker' = [worker EXCEPT ![w].pc = "finish"]
      BY <1>31 DEF CancelSelf, WorkerCas, WorkerGoto
    <2>5. /\ worker'[w].pc = "finish"
          /\ \A v \in Workers \ {w} : worker'[v] = worker[v]
      BY <2>4 DEF TypeOK, WorkerState
    <2>6. QED
      BY <1>31, <2>1, <2>2, <2>3, <2>5 DEF Ended, SameStatus, CancelSelf, WorkerCas, ghosts
  <1>32. ASSUME NEW w \in Workers, RecordFailure(w) PROVE Ended(w)
    <2> DEFINE s == worker[w].slot
               n == rows[s].attempt + 1
    <2>1. s \in Slots /\ worker[w].pc \in OpenPcs /\ rows[s].status = "SENDING"
      BY <1>32, Pcs DEF RecordFailure, ActorsOK, SendExclusive
    <2>2. n \in Nat
      BY <2>1 DEF TypeOK, Row
    <2>3. PICK to \in {"FAILED_TERMINAL", "PENDING"} : Moved(s, to)
      <3>1. CASE rows' = Transition(rows, s, "SENDING", "FAILED_TERMINAL")
        BY <3>1, <1>a, <2>1, StatusNames
      <3>2. CASE rows' = ResetToRetry(rows, s, n)
        BY <3>2, <1>b, <2>1, <2>2
      <3>3. QED
        BY <1>32, <3>1, <3>2 DEF RecordFailure
    <2>4. ChainsKept
      BY <2>3, SlotParts DEF ChainsKept
    <2>5. /\ worker'[w].pc = "finish"
          /\ \A v \in Workers \ {w} : worker'[v] = worker[v]
      BY <1>32 DEF RecordFailure, WorkerGoto, TypeOK, WorkerState
    <2>6. QED
      BY <1>32, <2>1, <2>3, <2>4, <2>5 DEF Ended, SameStatus, RecordFailure, ghosts
  <1>33. ASSUME NEW w \in Workers, RecordSent(w) PROVE Ended(w)
    <2> DEFINE s == worker[w].slot
               sent == MarkSent(rows, s, worker[w].sentAt)
    <2>1. s \in Slots /\ worker[w].pc = "record" /\ rows[s].status = "SENDING"
      BY <1>33, Pcs DEF RecordSent, ActorsOK, SendExclusive
    <2>2. worker[w].sentAt \in Nat
      BY DEF TypeOK, WorkerState
    <2>3. /\ sent \in [Slots -> Row]
          /\ sent[s].status = "SENT"
          /\ \A u \in Slots \ {s} : sent[u].status = rows[u].status
          /\ \A u \in Slots : sent[u].chain = rows[u].chain
      <3>1. /\ sent \in [Slots -> Row]
            /\ \A u \in Slots : sent[u].status =
                  IF u = s /\ rows[s].status = "SENDING" THEN "SENT" ELSE rows[u].status
            /\ \A u \in Slots : sent[u].chain = rows[u].chain
        BY <1>0, <2>1, <2>2, MarkSentType
      <3> HIDE DEF sent
      <3>2. QED
        BY <2>1, <3>1
    <2> HIDE DEF sent
    <2>4. \A u \in Slots : \/ rows'[u] = sent[u]
                           \/ /\ IsInitial(s) /\ u[1] = s[1] /\ ~IsInitial(u)
                              /\ rows'[u].status = "PENDING"
      BY <1>33, <2>1, <2>3, CreateEscalationsType, SlotParts DEF RecordSent, sent
    <2>5. \A u \in Slots : IsInitial(s) /\ u[1] = s[1] /\ ~IsInitial(u) => rows[u].status = "ABSENT"
      BY <2>1, SlotParts DEF InsertedOnce, IsInitial, Initial
    <2>6. /\ rows'[s].status = "SENT"
          /\ \A u \in Slots \ {s} : SameStatus(u) \/ (Backfilled(u) /\ u[1] = s[1])
      <3>1. rows'[s] = sent[s]
        BY <2>1, <2>4
      <3>2. ASSUME NEW u \in Slots \ {s} PROVE SameStatus(u) \/ (Backfilled(u) /\ u[1] = s[1])
        <4>1. CASE rows'[u] = sent[u]
          BY <4>1, <2>3 DEF SameStatus
        <4>2. CASE rows'[u] # sent[u]
          <5>1. /\ IsInitial(s) /\ u[1] = s[1] /\ ~IsInitial(u)
                /\ rows'[u].status = "PENDING"
            BY <4>2, <2>4
          <5>2. QED
            BY <5>1, <2>5 DEF Backfilled
        <4>3. QED
          BY <4>1, <4>2
      <3>3. QED
        BY <2>3, <3>1, <3>2
    <2>7. ChainsKept
      BY <2>3, <2>4, SlotParts DEF ChainsKept, Initial, IsInitial
    <2>8. /\ worker'[w].pc = "finish"
          /\ \A v \in Workers \ {w} : worker'[v] = worker[v]
      BY <1>33 DEF RecordSent, WorkerGoto, TypeOK, WorkerState
    <2>9. QED
      BY <1>33, <2>1, <2>6, <2>7, <2>8 DEF Ended, RecordSent, ghosts
  <1>34. ASSUME NEW w \in Workers, SendOk(w) PROVE Mailed(w)
    <2>1. worker[w].slot \in Slots
      BY <1>34 DEF SendOk, ActorsOK
    <2>2. /\ worker'[w].pc = "record" /\ worker'[w].slot = worker[w].slot
          /\ \A v \in Workers \ {w} : worker'[v] = worker[v]
      BY <1>34 DEF SendOk, TypeOK, WorkerState
    <2>3. QED
      BY <1>34, <2>1, <2>2 DEF SendOk, Mailed
  <1>35. ASSUME UNCHANGED vars PROVE Benign
    BY <1>35, SameWorkers, SameRows DEF vars, Benign
  <1>36. QED
    BY <1>1, <1>2, <1>3, <1>4, <1>5, <1>6, <1>7, <1>8, <1>9, <1>10, <1>11, <1>12, <1>13, <1>14, <1>15, <1>16, <1>17, <1>18, <1>19, <1>20, <1>21, <1>22, <1>23, <1>24, <1>25, <1>26, <1>27, <1>28, <1>29, <1>30, <1>31, <1>32, <1>33, <1>34, <1>35
       DEF Next, PollerStep, HandlerStep, ReconStep, Exam

---------------------------------------------------------------------------
(* The kinds of steps of an exam request.                                  *)
OthersKept(q) ==
    UNCHANGED <<worker, mails>> /\ \A r \in Requests \ {q} : request'[r] = request[r]

\* It reads, counts, ends without effect, or locks what it will cancel.
ExamQuiet(q) ==
    /\ OthersKept(q) /\ UNCHANGED rows
    /\ request[q].pc # "committed" /\ request'[q].pc # "committed"
    /\ \/ request'[q].locks \in {{}, request[q].locks}
       \/ /\ request'[q].locks = Cancellable(rows)
          /\ Cancellable(rows) \cap Locked = {}
    /\ request'[q].chain \in {0, request[q].chain, Cardinality(Terminal) + 1}

\* It commits: the locked rows are cancelled and, if new, an INITIAL appears.
ExamCommitted(q, new) ==
    /\ OthersKept(q)
    /\ request[q].pc \in {"insert", "delete"}
    /\ request'[q].pc = (IF request[q].pc = "insert" THEN "committed" ELSE "deleted")
    /\ request'[q].locks = {} /\ request'[q].chain = request[q].chain
    /\ new => request[q].pc = "insert" /\ ~DuplicateKey(q) /\ request[q].chain # 0
    /\ \A s \in Slots :
          rows'[s].status = IF new /\ s = Initial(q) THEN "PENDING"
                            ELSE IF s \in request[q].locks THEN "CANCELLED"
                            ELSE rows[s].status
    /\ \A r \in Requests :
          rows'[Initial(r)].chain = IF new /\ r = q THEN request[q].chain
                                    ELSE rows[Initial(r)].chain

LEMMA ExamKinds ==
    ASSUME TypeOK, NEW q \in Requests, Exam(q)
    PROVE  ExamQuiet(q) \/ \E new \in BOOLEAN : ExamCommitted(q, new)
  <1>0. rows \in [Slots -> Row] /\ request \in [Requests -> RequestState]
    BY DEF TypeOK
  <1>1. CASE ReadTrainer(q)
    BY <1>0, <1>1, SameRows DEF ReadTrainer, RequestState, ExamQuiet, OthersKept, ghosts
  <1>2. CASE TxCancel(q)
    <2>1. PICK pc \in {"insert", "count", "delete"} :
             request' = [request EXCEPT ![q] =
                           [request[q] EXCEPT !.pc = pc, !.locks = Cancellable(rows)]]
      BY <1>2 DEF TxCancel, TypeOK
    <2>2. /\ request'[q].pc = pc /\ request'[q].locks = Cancellable(rows)
          /\ request'[q].chain = request[q].chain
          /\ \A r \in Requests \ {q} : request'[r] = request[r]
      BY <1>0, <2>1 DEF RequestState
    <2>3. QED
      BY <1>2, <2>2 DEF TxCancel, ExamQuiet, OthersKept, ghosts
  <1>3. CASE TxCount(q)
    <2>1. PICK n \in {0, Cardinality(Terminal) + 1} :
             request' = [request EXCEPT ![q] =
                                 [request[q] EXCEPT !.pc = "insert", !.chain = n]]
      BY <1>3 DEF TxCount, TypeOK, Terminal
    <2>2. /\ request'[q].pc = "insert" /\ request'[q].locks = request[q].locks
          /\ request'[q].chain = n
          /\ \A r \in Requests \ {q} : request'[r] = request[r]
      BY <1>0, <2>1 DEF RequestState
    <2>3. QED
      BY <1>3, <2>2 DEF TxCount, ExamQuiet, OthersKept, ghosts
  <1>4. ASSUME NEW pc \in {"committed", "deleted", "duplicate", "failed"}, RequestEnd(q, pc)
        PROVE  /\ request'[q].pc = pc /\ request'[q].locks = {}
               /\ request'[q].chain = request[q].chain
               /\ \A r \in Requests \ {q} : request'[r] = request[r]
    BY <1>0, <1>4 DEF RequestEnd, RequestState
  <1>5. CASE TxDuplicate(q)
    BY <1>4, <1>5 DEF TxDuplicate, ExamQuiet, OthersKept, ghosts
  <1>6. CASE TxRollback(q)
    BY <1>4, <1>6 DEF TxRollback, ExamQuiet, OthersKept, ghosts
  <1>7. /\ Committed(q) \in [Slots -> Row]
        /\ \A s \in Slots : Committed(q)[s].status =
              IF s \in request[q].locks THEN "CANCELLED" ELSE rows[s].status
        /\ \A s \in Slots : Committed(q)[s].chain = rows[s].chain
    BY <1>0, SetStatusType, StatusNames DEF Committed
  <1>8. CASE TxDelete(q)
    <2>1. \A s \in Slots :
             /\ rows'[s].status = IF s \in request[q].locks THEN "CANCELLED" ELSE rows[s].status
             /\ rows'[s].chain = rows[s].chain
      BY <1>7, <1>8 DEF TxDelete
    <2>2. ExamCommitted(q, FALSE)
      BY <1>4, <1>8, <2>1, SlotParts DEF TxDelete, ExamCommitted, OthersKept, ghosts
    <2>3. QED
      BY <2>2
  <1>9. CASE TxCommit(q)
    <2>1. CASE request[q].chain = 0
      <3>1. \A s \in Slots :
               /\ rows'[s].status = IF s \in request[q].locks THEN "CANCELLED"
                                    ELSE rows[s].status
               /\ rows'[s].chain = rows[s].chain
        BY <1>7, <1>9, <2>1 DEF TxCommit
      <3>2. ExamCommitted(q, FALSE)
        BY <1>4, <1>9, <3>1, SlotParts DEF TxCommit, ExamCommitted, OthersKept, ghosts
      <3>3. QED
        BY <3>2
    <2>2. CASE request[q].chain # 0
      <3>0. request[q].chain \in Nat
        BY <1>0 DEF RequestState
      <3>1. rows' = [Committed(q) EXCEPT ![Initial(q)] = InitialRow(request[q].chain)]
        BY <1>9, <2>2 DEF TxCommit
      <3>2. /\ rows'[Initial(q)].status = "PENDING"
            /\ rows'[Initial(q)].chain = request[q].chain
            /\ \A s \in Slots \ {Initial(q)} : rows'[s] = Committed(q)[s]
        BY <1>7, <3>0, <3>1, InitialRowType, SlotParts
      <3>3. \A r \in Requests : r # q => Initial(r) \in Slots \ {Initial(q)}
        BY SlotParts DEF Initial
      <3>4. \A s \in Slots : rows'[s].status =
               IF s = Initial(q) THEN "PENDING"
               ELSE IF s \in request[q].locks THEN "CANCELLED" ELSE rows[s].status
        BY <1>7, <3>2
      <3>5. \A r \in Requests : rows'[Initial(r)].chain =
               IF r = q THEN request[q].chain ELSE rows[Initial(r)].chain
        BY <1>7, <3>2, <3>3
      <3>6. ExamCommitted(q, TRUE)
        BY <1>4, <1>9, <2>2, <3>4, <3>5 DEF TxCommit, ExamCommitted, OthersKept, ghosts
      <3>7. QED
        BY <3>6
    <2>3. QED
      BY <2>1, <2>2
  <1>10. QED
    BY <1>1, <1>2, <1>3, <1>5, <1>6, <1>8, <1>9 DEF Exam, TxStep

\* The two lemmas together: what the invariants are proved over.
LEMMA Steps ==
    ASSUME TypeOK, ActorsOK, InsertedOnce, SendExclusive, [Next]_vars
    PROVE  \/ Benign
           \/ \E w \in Workers : Started(w) \/ Mailed(w) \/ Ended(w)
           \/ \E q \in Requests : ExamQuiet(q)
           \/ \E q \in Requests, new \in BOOLEAN : ExamCommitted(q, new)
  BY StepKinds, ExamKinds

---------------------------------------------------------------------------
(* Each layer of the invariant is kept by every kind of step.              *)

LEMMA StatusDistinct ==
    /\ "PENDING" \in ActiveCancelStatuses /\ "QUEUED" \in ActiveCancelStatuses
    /\ \A st \in {"ABSENT", "SENDING", "SENT", "CANCELLED", "EXPIRED", "FAILED_TERMINAL"} :
          st \notin ActiveCancelStatuses
  BY DEF ActiveCancelStatuses

\* A lock is only ever held on a row that is still cancellable: the open
\* transaction will overwrite nothing that became SENDING, SENT or final.
LEMMA LocksOKStep ==
    ASSUME TypeOK, ActorsOK, LocksOK, InsertedOnce, SendExclusive, [Next]_vars
    PROVE  LocksOK'
  <1>0. \A q \in Requests : request[q].locks \subseteq Slots
    BY DEF TypeOK, RequestState
  <1>1. CASE Benign
    <2>1. \A q \in Requests : \A s \in request[q].locks : SameStatus(s)
      BY <1>0, <1>1, StatusDistinct DEF Benign, Drift, Locked, LocksOK, Backfilled
    <2>2. QED
      BY <1>1, <2>1 DEF Benign, LocksOK, SameStatus
  <1>2. ASSUME NEW w \in Workers, Started(w) \/ Mailed(w) \/ Ended(w) PROVE LocksOK'
    <2>1. \A q \in Requests : \A s \in request[q].locks : SameStatus(s)
      BY <1>0, <1>2, StatusDistinct
        DEF Started, Mailed, Ended, Locked, LocksOK, Backfilled, SameStatus
    <2>2. request' = request
      BY <1>2 DEF Started, Mailed, Ended
    <2>3. QED
      BY <2>1, <2>2 DEF LocksOK, SameStatus
  <1>3. ASSUME NEW q \in Requests, ExamQuiet(q) PROVE LocksOK'
    BY <1>3 DEF ExamQuiet, OthersKept, LocksOK, Locked, Cancellable, WithStatus
  <1>4. ASSUME NEW q \in Requests, NEW new \in BOOLEAN, ExamCommitted(q, new) PROVE LocksOK'
    <2>1. /\ request'[q].locks = {}
          /\ \A r \in Requests \ {q} : request'[r].locks = request[r].locks
      BY <1>4 DEF ExamCommitted, OthersKept
    <2>2. new => rows[Initial(q)].status = "ABSENT"
      BY <1>4 DEF ExamCommitted, InsertedOnce
    <2>3. \A r \in Requests \ {q} : \A s \in request[r].locks :
             s \notin request[q].locks /\ (new => s # Initial(q))
      BY <2>2, StatusDistinct DEF LocksOK
    <2>4. \A r \in Requests \ {q} : \A s \in request[r].locks : SameStatus(s)
      BY <1>0, <1>4, <2>3 DEF ExamCommitted, SameStatus
    <2>5. QED
      BY <2>1, <2>4 DEF LocksOK, SameStatus
  <1>5. QED
    BY <1>1, <1>2, <1>3, <1>4, Steps

\* An INITIAL appears with the commit of its submission, once; escalations
\* appear once their INITIAL is SENT.
LEMMA InsertedOnceStep ==
    ASSUME TypeOK, ActorsOK, LocksOK, InsertedOnce, SendExclusive, [Next]_vars
    PROVE  InsertedOnce'
  <1>1. CASE Benign
    <2>1. \A q \in Requests :
             /\ rows'[Initial(q)].status # "ABSENT" => rows[Initial(q)].status # "ABSENT"
             /\ rows[Initial(q)].status = "SENT" => rows'[Initial(q)].status = "SENT"
      BY <1>1, SlotParts, StatusDistinct
        DEF Benign, Drift, SameStatus, Backfilled, Initial, IsInitial
    <2>2. \A q \in Requests, l \in Levels \ {0} :
             rows'[<<q, l>>].status # "ABSENT" =>
                rows[<<q, l>>].status # "ABSENT" \/ rows[Initial(q)].status = "SENT"
      BY <1>1, SlotParts, StatusDistinct DEF Benign, Drift, SameStatus
    <2>3. QED
      BY <1>1, <2>1, <2>2 DEF Benign, InsertedOnce
  <1>2. ASSUME NEW w \in Workers, Started(w) PROVE InsertedOnce'
    <2>1. \A s \in Slots : /\ rows'[s].status # "ABSENT" => rows[s].status # "ABSENT"
                           /\ rows[s].status = "SENT" => rows'[s].status = "SENT"
      BY <1>2 DEF Started, SameStatus
    <2>2. QED
      BY <1>2, <2>1, SlotParts DEF Started, InsertedOnce
  <1>3. ASSUME NEW w \in Workers, Mailed(w) PROVE InsertedOnce'
    BY <1>3 DEF Mailed, InsertedOnce
  <1>4. ASSUME NEW w \in Workers, Ended(w) PROVE InsertedOnce'
    <2> DEFINE s == worker[w].slot
    <2>0. s \in Slots /\ s[1] \in Requests /\ s = <<s[1], s[2]>>
      BY <1>4, SlotParts DEF Ended
    <2>1. \A q \in Requests :
             /\ rows'[Initial(q)].status # "ABSENT" => rows[Initial(q)].status # "ABSENT"
             /\ rows[Initial(q)].status = "SENT" => rows'[Initial(q)].status = "SENT"
      BY <1>4, SlotParts DEF Ended, SameStatus, Backfilled, Initial, IsInitial
    <2>2. ASSUME NEW q \in Requests, NEW l \in Levels \ {0}, rows'[<<q, l>>].status # "ABSENT"
          PROVE  rows'[Initial(q)].status = "SENT"
      <3>1. CASE rows[<<q, l>>].status # "ABSENT"
        BY <3>1, <2>1 DEF InsertedOnce
      <3>2. CASE rows[<<q, l>>].status = "ABSENT"
        <4>1. <<q, l>> \in Slots /\ <<q, l>> # s
          BY <1>4, <3>2, SlotParts DEF Ended
        <4>2. rows'[s].status = "SENT" /\ q = s[1]
          BY <1>4, <2>2, <3>2, <4>1 DEF Ended, SameStatus
        <4>3. CASE s[2] = 0
          BY <2>0, <4>2, <4>3 DEF Initial
        <4>4. CASE s[2] # 0
          <5>1. rows[<<q, s[2]>>].status # "ABSENT" /\ s[2] \in Levels \ {0}
            BY <1>4, <2>0, <4>2, <4>4, SlotParts DEF Ended
          <5>2. QED
            BY <2>1, <5>1 DEF InsertedOnce
        <4>5. QED
          BY <4>3, <4>4
      <3>3. QED
        BY <3>1, <3>2
    <2>3. QED
      BY <1>4, <2>1, <2>2 DEF Ended, InsertedOnce
  <1>5. ASSUME NEW q \in Requests, ExamQuiet(q) PROVE InsertedOnce'
    BY <1>5 DEF ExamQuiet, OthersKept, InsertedOnce
  <1>6. ASSUME NEW q \in Requests, NEW new \in BOOLEAN, ExamCommitted(q, new)
        PROVE  InsertedOnce'
    <2>1. rows[Initial(q)].status = "ABSENT"
      BY <1>6 DEF ExamCommitted, InsertedOnce
    <2>2. \A r \in Requests \ {q} : request'[r] = request[r]
      BY <1>6 DEF ExamCommitted, OthersKept
    <2>3. \A s \in Slots : rows[s].status = "ABSENT" =>
             rows'[s].status = "ABSENT" \/ (new /\ s = Initial(q))
      BY <1>6, StatusDistinct DEF ExamCommitted, LocksOK
    <2>4. \A s \in Slots : rows[s].status = "SENT" => rows'[s].status = "SENT"
      BY <1>6, <2>1, StatusDistinct DEF ExamCommitted, LocksOK
    <2>5. \A r \in Requests : rows'[Initial(r)].status # "ABSENT" => request'[r].pc = "committed"
      <3>1. ASSUME NEW r \in Requests \ {q}, rows'[Initial(r)].status # "ABSENT"
            PROVE  request'[r].pc = "committed"
        <4>1. Initial(r) \in Slots /\ Initial(r) # Initial(q)
          BY SlotParts DEF Initial
        <4>2. QED
          BY <2>2, <2>3, <3>1, <4>1 DEF InsertedOnce
      <3>2. ASSUME rows'[Initial(q)].status # "ABSENT" PROVE request'[q].pc = "committed"
        BY <1>6, <2>1, <2>3, <3>2, SlotParts DEF ExamCommitted
      <3>3. QED
        BY <3>1, <3>2
    <2>6. \A r \in Requests, l \in Levels \ {0} :
             rows'[<<r, l>>].status # "ABSENT" => rows'[Initial(r)].status = "SENT"
      BY <2>3, <2>4, SlotParts DEF InsertedOnce, Initial
    <2>7. QED
      BY <2>5, <2>6 DEF InsertedOnce
  <1>7. QED
    BY <1>1, <1>2, <1>3, <1>4, <1>5, <1>6, Steps

\* SendExclusive: whoever takes a row out of SENDING was its only sender.
LEMMA SendExclusiveStep ==
    ASSUME TypeOK, ActorsOK, LocksOK, InsertedOnce, SendExclusive, [Next]_vars
    PROVE  SendExclusive'
  <1>0. \A w \in Workers : worker[w].pc \in SendingPcs => worker[w].slot \in Slots
    BY Pcs DEF ActorsOK
  <1>1. ASSUME NoNewSender, \A s \in Slots : rows[s].status = "SENDING" => SameStatus(s)
        PROVE  SendExclusive'
    BY <1>0, <1>1 DEF NoNewSender, SendExclusive, SameStatus
  <1>2. CASE Benign
    BY <1>1, <1>2, StatusDistinct DEF Benign, Drift, Backfilled
  <1>3. ASSUME NEW w \in Workers, Started(w) PROVE SendExclusive'
    <2>1. \A v \in Workers : worker[v].pc \in SendingPcs => worker[v].slot # worker[w].slot
      BY <1>3 DEF Started, SendExclusive
    <2>2. QED
      BY <1>0, <1>3, <2>1, Pcs DEF Started, SendExclusive, SameStatus
  <1>4. ASSUME NEW w \in Workers, Mailed(w) PROVE SendExclusive'
    <2>1. \A v \in Workers : worker'[v].slot = worker[v].slot
                             /\ (worker'[v].pc \in SendingPcs => worker[v].pc \in SendingPcs)
      BY <1>4, Pcs DEF Mailed
    <2>2. QED
      BY <1>4, <2>1 DEF Mailed, SendExclusive
  <1>5. ASSUME NEW w \in Workers, Ended(w) PROVE SendExclusive'
    <2>1. worker'[w].pc \notin SendingPcs /\ worker[w].pc \in SendingPcs
      BY <1>5, Pcs DEF Ended
    <2>2. \A v \in Workers : worker'[v].pc \in SendingPcs =>
             /\ v # w /\ worker'[v] = worker[v]
             /\ worker[v].slot \in Slots \ {worker[w].slot}
             /\ rows[worker[v].slot].status = "SENDING"
      BY <1>0, <1>5, <2>1 DEF Ended, SendExclusive
    <2>3. \A s \in Slots \ {worker[w].slot} :
             rows[s].status = "SENDING" => rows'[s].status = "SENDING"
      BY <1>5 DEF Ended, SameStatus, Backfilled
    <2>4. QED
      BY <2>2, <2>3 DEF SendExclusive
  <1>6. ASSUME NEW q \in Requests, ExamQuiet(q) PROVE SendExclusive'
    BY <1>6 DEF ExamQuiet, OthersKept, SendExclusive
  <1>7. ASSUME NEW q \in Requests, NEW new \in BOOLEAN, ExamCommitted(q, new)
        PROVE  SendExclusive'
    <2>1. \A s \in Slots : rows[s].status = "SENDING" => SameStatus(s)
      BY <1>7, StatusDistinct DEF ExamCommitted, LocksOK, InsertedOnce, SameStatus
    <2>2. QED
      BY <1>1, <1>7, <2>1, SameWorkers DEF ExamCommitted, OthersKept
  <1>8. QED
    BY <1>2, <1>3, <1>4, <1>5, <1>6, <1>7, Steps

\* MailedOnce: a confirmed mail leaves its row SENDING, without an open sender,
\* or SENT.
LEMMA MailedOnceStep ==
    ASSUME TypeOK, ActorsOK, LocksOK, InsertedOnce, SendExclusive, MailedOnce, [Next]_vars
    PROVE  MailedOnce'
  <1> DEFINE NoneOpen(s) == \A w \in Workers : worker[w].slot = s => worker[w].pc \notin OpenPcs
  <1>0. MailedOnce <=> \A s \in Slots : mails[s] # 0 =>
                          mails[s] = 1 /\ rows[s].status \in {"SENDING", "SENT"} /\ NoneOpen(s)
    BY Pcs DEF MailedOnce
  <1>1. SUFFICES ASSUME NEW s \in Slots, mails'[s] # 0
                 PROVE  /\ mails'[s] = 1 /\ rows'[s].status \in {"SENDING", "SENT"}
                        /\ NoneOpen(s)'
    BY Pcs DEF MailedOnce
  <1>2. CASE Benign
    BY <1>0, <1>1, <1>2, Pcs, StatusDistinct
      DEF Benign, Drift, NoNewSender, SameStatus, Backfilled
  <1>3. ASSUME NEW w \in Workers, Started(w)
        PROVE  mails'[s] = 1 /\ rows'[s].status \in {"SENDING", "SENT"} /\ NoneOpen(s)'
    BY <1>0, <1>1, <1>3 DEF Started, SameStatus
  <1>4. ASSUME NEW w \in Workers, Mailed(w)
        PROVE  mails'[s] = 1 /\ rows'[s].status \in {"SENDING", "SENT"} /\ NoneOpen(s)'
    <2>1. CASE s # worker[w].slot
      BY <1>0, <1>1, <1>4, <2>1 DEF Mailed, TypeOK
    <2>2. CASE s = worker[w].slot
      <3>1. worker[w].pc \in OpenPcs /\ worker[w].pc \in SendingPcs
        BY <1>4, Pcs DEF Mailed
      <3>2. mails[s] = 0
        BY <1>0, <2>2, <3>1
      <3>3. mails'[s] = 1 /\ rows'[s].status = "SENDING"
        BY <1>4, <2>2, <3>1, <3>2 DEF Mailed, TypeOK, SendExclusive
      <3>4. \A v \in Workers \ {w} : worker[v].slot = s => worker[v].pc \notin SendingPcs
        BY <2>2, <3>1 DEF SendExclusive
      <3>5. NoneOpen(s)'
        BY <1>4, <3>4, Pcs DEF Mailed
      <3>6. QED
        BY <3>3, <3>5
    <2>3. QED
      BY <2>1, <2>2
  <1>5. ASSUME NEW w \in Workers, Ended(w)
        PROVE  mails'[s] = 1 /\ rows'[s].status \in {"SENDING", "SENT"} /\ NoneOpen(s)'
    <2>1. mails[s] = 1 /\ rows[s].status \in {"SENDING", "SENT"} /\ NoneOpen(s)
      BY <1>0, <1>1, <1>5 DEF Ended
    <2>2. rows'[s].status \in {"SENDING", "SENT"}
      BY <1>5, <2>1 DEF Ended, SameStatus, Backfilled
    <2>3. NoneOpen(s)'
      BY <1>5, <2>1, Pcs DEF Ended
    <2>4. QED
      BY <1>5, <2>1, <2>2, <2>3 DEF Ended
  <1>6. ASSUME NEW q \in Requests, ExamQuiet(q)
        PROVE  mails'[s] = 1 /\ rows'[s].status \in {"SENDING", "SENT"} /\ NoneOpen(s)'
    BY <1>0, <1>1, <1>6 DEF ExamQuiet, OthersKept
  <1>7. ASSUME NEW q \in Requests, NEW new \in BOOLEAN, ExamCommitted(q, new)
        PROVE  mails'[s] = 1 /\ rows'[s].status \in {"SENDING", "SENT"} /\ NoneOpen(s)'
    <2>1. mails[s] = 1 /\ rows[s].status \in {"SENDING", "SENT"} /\ NoneOpen(s)
      BY <1>0, <1>1, <1>7 DEF ExamCommitted, OthersKept
    <2>2. rows'[s].status = rows[s].status
      BY <1>7, <2>1, StatusDistinct DEF ExamCommitted, LocksOK, InsertedOnce
    <2>3. QED
      BY <1>7, <2>1, <2>2 DEF ExamCommitted, OthersKept
  <1>8. QED
    BY <1>2, <1>3, <1>4, <1>5, <1>6, <1>7, Steps

---------------------------------------------------------------------------
(* The chain numbers.                                                      *)

StatusOf(q) == rows[Initial(q)].status
LiveStatuses == ActiveCancelStatuses \cup {"SENDING"}
EndedStatuses == {"SENT", "FAILED_TERMINAL"}

\* An INITIAL stays as it is, or on its way, or is cancelled.
InitialKept(q) ==
    \/ StatusOf(q)' = StatusOf(q)
    \/ StatusOf(q) \in LiveStatuses /\ StatusOf(q)' \in LiveStatuses \cup {"CANCELLED"}
RequestsCount ==
    \A q \in Requests :
        request'[q].chain \in {0, request[q].chain, Cardinality(Terminal) + 1}

LEMMA LiveNames ==
    /\ LiveStatuses = {"PENDING", "CLAIMED", "QUEUED", "SENDING"}
    /\ \A q \in Requests : Live(Initial(q)) <=> StatusOf(q) \in LiveStatuses
  BY DEF LiveStatuses, ActiveCancelStatuses, Live, StatusOf

LEMMA ChainKept ==
    ASSUME TypeOK, ChainOK, ChainsKept, RequestsCount, \A q \in Requests : InitialKept(q)
    PROVE  ChainOK'
  <1>1. Terminal' = Terminal
    BY LiveNames DEF InitialKept, Terminal, TerminalInitials, StatusOf
  <1>2. Cardinality(Terminal) \in Nat
    BY TerminalCount DEF Terminal
  <1>3. \A q \in Requests :
           /\ rows'[Initial(q)].status # "EXPIRED"
           /\ Holds0(q)' => Holds0(q)
           /\ Live(Initial(q))' => Live(Initial(q))
    BY LiveNames DEF ChainOK, InitialKept, StatusOf, Holds0, Live, LiveStatuses
  <1>4. \A q \in Terminal : q \in Requests
    BY DEF Terminal, TerminalInitials
  <1>5. \A q \in Requests : request'[q].chain <= Cardinality(Terminal) + 1
    BY <1>2 DEF RequestsCount, ChainOK
  <1>6. \A q, r \in Requests :
           /\ Holds0(q)' /\ Holds0(r)'
           /\ rows'[Initial(q)].chain = rows'[Initial(r)].chain
           => q = r
    BY <1>3 DEF ChainOK, ChainsKept
  <1>7. QED
    BY <1>1, <1>3, <1>4, <1>5, <1>6 DEF ChainOK, ChainsKept

\* An INITIAL that is sent or given up takes the next chain number with it.
LEMMA ChainGrows ==
    ASSUME TypeOK, ChainOK, ChainsKept, request' = request, NEW q \in Requests,
           StatusOf(q) = "SENDING", StatusOf(q)' \in EndedStatuses,
           \A r \in Requests \ {q} : StatusOf(r)' = StatusOf(r)
    PROVE  ChainOK'
  <1> DEFINE n == Cardinality(Terminal)
  <1>1. n \in Nat /\ IsFiniteSet(Terminal)
    BY TerminalCount, RequestsAssumption, FS_Subset DEF Terminal, TerminalInitials
  <1>2. q \notin Terminal /\ Terminal' = Terminal \cup {q}
    BY DEF Terminal, TerminalInitials, StatusOf, EndedStatuses
  <1>3. Cardinality(Terminal') = n + 1
    BY <1>1, <1>2, FS_AddElement
  <1>4. rows[Initial(q)].chain = n + 1 /\ rows'[Initial(q)].chain = n + 1
    BY LiveNames DEF ChainOK, ChainsKept, LiveStatuses
  <1> HIDE DEF n
  <1>5. \A r \in Requests : StatusOf(r) # "EXPIRED" /\ StatusOf(r)' # "EXPIRED"
    BY DEF ChainOK, StatusOf, EndedStatuses
  <1>6. \A r \in Requests : Holds0(r)' => Holds0(r)
    BY DEF Holds0, StatusOf, EndedStatuses
  <1>7. \A r \in Requests \ {q} : ~Live(Initial(r))
    <2>1. SUFFICES ASSUME NEW r \in Requests \ {q}, Live(Initial(r)) PROVE FALSE
      OBVIOUS
    <2>2. rows[Initial(r)].chain = n + 1
      BY <2>1 DEF ChainOK, n
    <2>3. Holds0(r) /\ Holds0(q)
      BY <2>1 DEF Holds0, Live, ActiveCancelStatuses, StatusOf
    <2>4. QED
      BY <1>4, <2>1, <2>2, <2>3 DEF ChainOK
  <1>8. \A r \in Requests : ~Live(Initial(r))'
    BY <1>7 DEF Live, ActiveCancelStatuses, StatusOf, EndedStatuses
  <1>9. \A r \in Terminal' : rows'[Initial(r)].chain \in 1..(n + 1)
    <2>1. \A r \in Terminal : r \in Requests /\ rows[Initial(r)].chain \in 1..n
      BY DEF ChainOK, Terminal, TerminalInitials, n
    <2>2. \A r \in Terminal : rows'[Initial(r)].chain \in 1..(n + 1)
      BY <1>1, <2>1 DEF ChainsKept
    <2>3. QED
      BY <1>1, <1>2, <1>4, <2>2
  <1>10. \A c \in 1..(n + 1) : \E r \in Terminal' : rows'[Initial(r)].chain = c
    <2>1. SUFFICES ASSUME NEW c \in 1..(n + 1)
                   PROVE  \E r \in Terminal' : rows'[Initial(r)].chain = c
      OBVIOUS
    <2>2. CASE c = n + 1
      BY <1>2, <1>4, <2>2
    <2>3. CASE c # n + 1
      <3>1. c \in 1..n
        BY <1>1, <2>3
      <3>2. PICK r \in Terminal : rows[Initial(r)].chain = c
        BY <3>1 DEF ChainOK, n
      <3>3. r \in Requests /\ r \in Terminal'
        BY <1>2 DEF Terminal, TerminalInitials
      <3>4. QED
        BY <3>2, <3>3 DEF ChainsKept
    <2>4. QED
      BY <2>2, <2>3
  <1>11. \A r \in Requests : request'[r].chain <= (n + 1) + 1
    BY <1>1 DEF ChainOK, n, TypeOK, RequestState
  <1>12. \A r, u \in Requests :
           /\ Holds0(r)' /\ Holds0(u)'
           /\ rows'[Initial(r)].chain = rows'[Initial(u)].chain
           => r = u
    BY <1>6 DEF ChainOK, ChainsKept
  <1>13. QED
    BY <1>3, <1>5, <1>8, <1>9, <1>10, <1>11, <1>12 DEF ChainOK, StatusOf

\* A commit that inserts: the count was taken while no INITIAL was on its way
\* or, if that has changed, the dedupe key of the new row is taken.
LEMMA ChainStarts ==
    ASSUME TypeOK, LocksOK, InsertedOnce, ChainOK,
           NEW q \in Requests, ExamCommitted(q, TRUE)
    PROVE  ChainOK'
  <1> DEFINE n == Cardinality(Terminal)
             c == request[q].chain
  <1>0. n \in Nat /\ c \in Nat /\ c # 0 /\ c <= n + 1
    BY TerminalCount DEF Terminal, TypeOK, RequestState, ExamCommitted, ChainOK
  <1>1. StatusOf(q) = "ABSENT" /\ StatusOf(q)' = "PENDING" /\ rows'[Initial(q)].chain = c
    BY SlotParts DEF ExamCommitted, InsertedOnce, StatusOf
  <1>2. \A r \in Requests \ {q} :
           /\ rows'[Initial(r)].chain = rows[Initial(r)].chain
           /\ StatusOf(r)' = IF Initial(r) \in request[q].locks THEN "CANCELLED" ELSE StatusOf(r)
           /\ Initial(r) \in request[q].locks => StatusOf(r) \in ActiveCancelStatuses
    BY SlotParts DEF ExamCommitted, LocksOK, StatusOf, Initial
  <1>3. \A r \in Requests \ {q} : Holds0(r)' => rows'[Initial(r)].chain # c
    <2>1. SUFFICES ASSUME NEW r \in Requests \ {q}, Holds0(r)', rows'[Initial(r)].chain = c
                   PROVE  FALSE
      OBVIOUS
    <2>2. /\ Committed(q)[Initial(r)].status = rows'[Initial(r)].status
          /\ Committed(q)[Initial(r)].chain = rows'[Initial(r)].chain
      <3>1. \A s \in Slots : /\ Committed(q)[s].status =
                                 IF s \in request[q].locks THEN "CANCELLED" ELSE rows[s].status
                             /\ Committed(q)[s].chain = rows[s].chain
        BY SetStatusType, StatusNames DEF Committed, TypeOK
      <3>2. QED
        BY <1>2, <3>1, SlotParts DEF StatusOf
    <2>3. Initial(r) \in DedupeHolder(Committed(q), c, 0)
      BY <2>1, <2>2, SlotParts DEF DedupeHolder, Holds0, Initial
    <2>4. QED
      BY <2>3 DEF ExamCommitted, DuplicateKey
  <1>4. Terminal' = Terminal /\ \A r \in Terminal : r \in Requests \ {q}
    BY <1>1, <1>2, ActiveNames DEF Terminal, TerminalInitials, StatusOf
  <1>5. \A r \in Terminal : Holds0(r)' /\ rows'[Initial(r)].chain = rows[Initial(r)].chain
    <2>1. ASSUME NEW r \in Terminal PROVE StatusOf(r) \in EndedStatuses
      BY <1>4 DEF Terminal, TerminalInitials, StatusOf, EndedStatuses, ChainOK
    <2>2. ASSUME NEW r \in Terminal PROVE StatusOf(r)' = StatusOf(r)
      BY <1>2, <1>4, <2>1, ActiveNames DEF EndedStatuses
    <2>3. QED
      BY <1>2, <1>4, <2>1, <2>2 DEF Holds0, StatusOf, EndedStatuses
  <1>6. c = n + 1
    <2>1. SUFFICES ASSUME c \in 1..n PROVE FALSE
      BY <1>0
    <2>2. PICK r \in Terminal : rows[Initial(r)].chain = c
      BY <2>1 DEF ChainOK
    <2>3. QED
      BY <1>3, <1>4, <1>5, <2>2
  <1>7. \A r \in Requests \ {q} : Holds0(r)' => Holds0(r)
    BY <1>2, ActiveNames DEF Holds0, StatusOf
  <1>8. \A r \in Requests \ {q} : ~Live(Initial(r))'
    <2>1. SUFFICES ASSUME NEW r \in Requests \ {q}, Live(Initial(r))' PROVE FALSE
      OBVIOUS
    <2>2. Holds0(r)' /\ Live(Initial(r))
      BY <1>2, <2>1, ActiveNames DEF Live, Holds0, StatusOf
    <2>3. QED
      BY <1>2, <1>3, <1>6, <2>2 DEF ChainOK
  <1>9. \A r \in Requests : rows'[Initial(r)].status # "EXPIRED"
    BY <1>1, <1>2 DEF ChainOK, StatusOf
  <1>10. \A r, u \in Requests :
           /\ Holds0(r)' /\ Holds0(u)'
           /\ rows'[Initial(r)].chain = rows'[Initial(u)].chain
           => r = u
    BY <1>1, <1>2, <1>3, <1>7 DEF ChainOK
  <1>11. \A r \in Requests : request'[r].chain = request[r].chain
    BY DEF ExamCommitted, OthersKept
  <1>12. QED
    BY <1>1, <1>4, <1>5, <1>6, <1>8, <1>9, <1>10, <1>11 DEF ChainOK

LEMMA ChainOKStep ==
    ASSUME TypeOK, ActorsOK, LocksOK, InsertedOnce, SendExclusive, ChainOK, [Next]_vars
    PROVE  ChainOK'
  <1>1. CASE Benign
    <2>1. \A q \in Requests : InitialKept(q)
      BY <1>1, SlotParts DEF Benign, Drift, SameStatus, Backfilled, InitialKept, StatusOf,
                             LiveStatuses, Initial, IsInitial
    <2>2. QED
      BY <1>1, <2>1, ChainKept DEF Benign, RequestsCount
  <1>2. ASSUME NEW w \in Workers, Started(w) PROVE ChainOK'
    <2>1. \A q \in Requests : InitialKept(q)
      BY <1>2, SlotParts, LiveNames DEF Started, SameStatus, InitialKept, StatusOf
    <2>2. QED
      BY <1>2, <2>1, ChainKept DEF Started, RequestsCount
  <1>3. ASSUME NEW w \in Workers, Mailed(w) PROVE ChainOK'
    <2>1. /\ ChainsKept /\ \A q \in Requests : InitialKept(q)
      BY <1>3 DEF Mailed, ChainsKept, InitialKept, StatusOf
    <2>2. QED
      BY <1>3, <2>1, ChainKept DEF Mailed, RequestsCount
  <1>4. ASSUME NEW w \in Workers, Ended(w) PROVE ChainOK'
    <2> DEFINE s == worker[w].slot
    <2>0. \A q \in Requests : Initial(q) # s => StatusOf(q)' = StatusOf(q)
      BY <1>4, SlotParts DEF Ended, SameStatus, Backfilled, StatusOf, Initial, IsInitial
    <2>1. CASE \E q \in Requests : s = Initial(q) /\ rows'[s].status \in EndedStatuses
      <3>1. PICK q \in Requests : s = Initial(q) /\ rows'[s].status \in EndedStatuses
        BY <2>1
      <3>2. \A r \in Requests \ {q} : Initial(r) # s
        BY <3>1 DEF Initial
      <3>3. QED
        BY <1>4, <2>0, <3>1, <3>2, ChainGrows DEF Ended, StatusOf
    <2>2. CASE ~\E q \in Requests : s = Initial(q) /\ rows'[s].status \in EndedStatuses
      <3>1. \A q \in Requests : InitialKept(q)
        BY <1>4, <2>0, <2>2, LiveNames DEF Ended, InitialKept, StatusOf, EndedStatuses
      <3>2. QED
        BY <1>4, <3>1, ChainKept DEF Ended, RequestsCount
    <2>3. QED
      BY <2>1, <2>2
  <1>5. ASSUME NEW q \in Requests, ExamQuiet(q) PROVE ChainOK'
    <2>1. ChainsKept /\ RequestsCount /\ \A r \in Requests : InitialKept(r)
      BY <1>5 DEF ExamQuiet, OthersKept, ChainsKept, InitialKept, StatusOf, RequestsCount
    <2>2. QED
      BY <2>1, ChainKept
  <1>6. ASSUME NEW q \in Requests, NEW new \in BOOLEAN, ExamCommitted(q, new) PROVE ChainOK'
    <2>1. CASE new
      BY <1>6, <2>1, ChainStarts
    <2>2. CASE ~new
      <3>1. ChainsKept /\ RequestsCount
        BY <1>6, <2>2 DEF ExamCommitted, OthersKept, ChainsKept, RequestsCount
      <3>2. \A r \in Requests : InitialKept(r)
        BY <1>6, <2>2, SlotParts DEF ExamCommitted, LocksOK, InitialKept, StatusOf, LiveStatuses
      <3>3. QED
        BY <3>1, <3>2, ChainKept
    <2>3. QED
      BY <2>1, <2>2
  <1>7. QED
    BY <1>1, <1>2, <1>3, <1>4, <1>5, <1>6, Steps

---------------------------------------------------------------------------
(* The theorems.                                                           *)

\* In the initial state nothing is scheduled.
LEMMA InitIInv == Init => IInv
  <1> SUFFICES ASSUME Init PROVE IInv
    OBVIOUS
  <1>1. TypeOK /\ ActorsOK
    BY InitTypes
  <1>2. /\ \A s \in Slots : rows[s].status = "ABSENT" /\ mails[s] = 0
        /\ \A q \in Requests : request[q].locks = {} /\ request[q].chain = 0
        /\ \A w \in Workers : worker[w].pc = "idle"
    BY DEF Init, AbsentRow, RequestIdle, WorkerIdle
  <1>3. LocksOK /\ InsertedOnce
    BY <1>2, SlotParts DEF LocksOK, InsertedOnce
  <1>4. SendExclusive /\ MailedOnce
    BY <1>2, Pcs DEF SendExclusive, MailedOnce
  <1>5. Terminal = {} /\ Cardinality(Terminal) = 0
    BY <1>2, SlotParts, FS_EmptySet DEF Terminal, TerminalInitials
  <1>6. ChainOK
    BY <1>2, <1>5, SlotParts, LiveNames DEF ChainOK, Holds0, StatusOf, LiveStatuses
  <1>7. QED
    BY <1>1, <1>3, <1>4, <1>6 DEF IInv

LEMMA StepIInv == IInv /\ [Next]_vars => IInv'
  <1> SUFFICES ASSUME IInv, [Next]_vars PROVE IInv'
    OBVIOUS
  <1>1. /\ TypeOK /\ ActorsOK /\ LocksOK /\ InsertedOnce /\ SendExclusive /\ MailedOnce
        /\ ChainOK
    BY DEF IInv
  <1>2. TypeOK' /\ ActorsOK'
    BY <1>1, TypeOKStep, ActorsOKStep
  <1>3. LocksOK' /\ InsertedOnce'
    BY <1>1, LocksOKStep, InsertedOnceStep
  <1>4. SendExclusive' /\ MailedOnce'
    BY <1>1, SendExclusiveStep, MailedOnceStep
  <1>5. ChainOK'
    BY <1>1, ChainOKStep
  <1>6. QED
    BY <1>2, <1>3, <1>4, <1>5 DEF IInv

\* The inductive invariant, all layers together.
THEOREM Invariant == Spec => []IInv
  BY InitIInv, StepIInv, PTL DEF Spec

\* No two workers are ever past the CAS QUEUED -> SENDING of one row, and the
\* row stays SENDING while one is: over any number of stalls, duplicate jobs,
\* crashes and concurrent exam submissions.
THEOREM SendersExclude == Spec => []SendExclusive
  <1>1. IInv => SendExclusive
    BY DEF IInv
  <1>2. QED
    BY <1>1, Invariant, PTL

\* A mail the provider confirmed is never sent a second time.
THEOREM NoSecondMail == Spec => []MailedOnce
  <1>1. IInv => MailedOnce
    BY DEF IInv
  <1>2. QED
    BY <1>1, Invariant, PTL

\* However many exam submissions of a trainer run at the same time, at most one
\* INITIAL reminder is on its way.
THEOREM OneCycleAtATime == Spec => []OneLiveInitial
  <1>1. IInv => OneLiveInitial
    <2> SUFFICES ASSUME IInv, NEW q \in Requests, NEW r \in Requests,
                        Live(Initial(q)), Live(Initial(r))
                 PROVE  q = r
      BY DEF OneLiveInitial
    <2>1. rows[Initial(q)].chain = rows[Initial(r)].chain
      BY DEF IInv, ChainOK
    <2>2. Holds0(q) /\ Holds0(r)
      BY LiveNames DEF Holds0, StatusOf
    <2>3. QED
      BY <2>1, <2>2 DEF IInv, ChainOK
  <1>2. QED
    BY <1>1, Invariant, PTL

\* No actor, however stale what it read, moves a row out of SENT,
\* FAILED_TERMINAL, CANCELLED or EXPIRED.
THEOREM FinalIsFinal == Spec => TerminalIsFinal
  <1> DEFINE Final == \A s \in Slots : rows[s].status \in TerminalStatuses =>
                          rows'[s].status = rows[s].status
  <1>1. ASSUME IInv, [Next]_vars PROVE Final
    <2>1. /\ TypeOK /\ ActorsOK /\ LocksOK /\ InsertedOnce /\ SendExclusive
      BY <1>1 DEF IInv
    <2>2. \A st \in TerminalStatuses : st \notin LiveStatuses \cup {"ABSENT"}
      BY LiveNames DEF TerminalStatuses
    <2>3. CASE Benign
      BY <2>2, <2>3 DEF Benign, Drift, SameStatus, Backfilled, LiveStatuses
    <2>4. ASSUME NEW w \in Workers, Started(w) \/ Mailed(w) \/ Ended(w) PROVE Final
      BY <2>2, <2>4, LiveNames DEF Started, Mailed, Ended, SameStatus, Backfilled
    <2>5. ASSUME NEW q \in Requests, ExamQuiet(q) PROVE Final
      BY <2>5 DEF ExamQuiet
    <2>6. ASSUME NEW q \in Requests, NEW new \in BOOLEAN, ExamCommitted(q, new) PROVE Final
      BY <2>1, <2>2, <2>6 DEF ExamCommitted, LocksOK, InsertedOnce, LiveStatuses
    <2>7. QED
      BY <1>1, <2>1, <2>3, <2>4, <2>5, <2>6, Steps
  <1>2. QED
    BY <1>1, Invariant, PTL DEF Spec, TerminalIsFinal

-----------------------------------------------------------------------------
(***************************************************************************)
(* What a reminder row remembers: its attempt number bounds the calls of   *)
(* the mail provider, and its chain number, which an escalation shares     *)
(* with its INITIAL, keeps the transaction of SENT from skipping an        *)
(* escalation.                                                             *)
(***************************************************************************)

\* A worker that has won the CAS to SENDING and not called the provider yet.
BeforeCall == {"check", "siblings", "self", "send"}

\* Every call is counted by the attempt number once its outcome is recorded, and
\* a row that may still be sent has attempts left.
CallInv ==
    \A s \in Slots :
        /\ calls[s] <= MaxAttempts
        /\ rows[s].status = "ABSENT" => calls[s] = 0
        /\ rows[s].status \in ActiveCancelStatuses =>
              calls[s] <= rows[s].attempt /\ rows[s].attempt < MaxAttempts
        /\ rows[s].status = "SENDING" =>
              calls[s] <= rows[s].attempt + 1 /\ rows[s].attempt < MaxAttempts
        /\ \A w \in Workers : worker[w].slot = s /\ worker[w].pc \in BeforeCall =>
              calls[s] <= rows[s].attempt

EscalationChains ==
    \A q \in Requests, l \in Levels \ {0} :
        rows[<<q, l>>].status # "ABSENT" => rows[<<q, l>>].chain = rows[Initial(q)].chain

RowsInv == IInv /\ CallInv /\ EscalationChains /\ SentHasEscalations

---------------------------------------------------------------------------
(* What a step does to one row.                                            *)

Same(s) == rows'[s].status = rows[s].status /\ rows'[s].attempt = rows[s].attempt
Moved(s) ==
    /\ rows[s].status \in ActiveCancelStatuses
    /\ rows'[s].status \in ActiveCancelStatuses \cup {"SENDING"}
    /\ rows'[s].attempt = rows[s].attempt
Dropped(s) ==
    rows[s].status # "ABSENT" /\ rows'[s].status \in {"CANCELLED", "EXPIRED", "FAILED_TERMINAL"}
Retried(s) ==
    /\ rows[s].status = "SENDING" /\ rows'[s].status = "PENDING"
    /\ rows'[s].attempt = rows[s].attempt + 1 /\ rows'[s].attempt < MaxAttempts
Recorded(s) ==
    /\ rows[s].status = "SENDING" /\ rows'[s].status = "SENT"
    /\ IsInitial(s) => \A l \in Levels \ {0} : rows'[<<s[1], l>>].status # "ABSENT"
Inserted(s) ==
    /\ rows[s].status = "ABSENT" /\ rows'[s].status = "PENDING" /\ rows'[s].attempt = 0
    /\ ~IsInitial(s) => /\ rows[Initial(s[1])].status # "ABSENT"
                        /\ rows'[s].chain = rows[Initial(s[1])].chain
RowStep(s) ==
    \/ /\ rows'[s].chain = rows[s].chain
       /\ Same(s) \/ Moved(s) \/ Dropped(s) \/ Retried(s) \/ Recorded(s)
    \/ Inserted(s)

Callers ==
    \A w \in Workers : worker'[w].pc \in BeforeCall =>
        /\ worker'[w].slot = worker[w].slot
        /\ worker[w].pc \in BeforeCall \/ rows[worker[w].slot].status = "QUEUED"

\* Nobody calls the provider.
Uncalled == UNCHANGED calls /\ Callers /\ \A s \in Slots : RowStep(s)

\* A worker calls the provider.
Called(w) ==
    /\ UNCHANGED rows /\ worker[w].pc = "send" /\ worker[w].slot \in Slots
    /\ calls' = [calls EXCEPT ![worker[w].slot] = @ + 1]
    /\ worker'[w].pc \notin BeforeCall
    /\ \A v \in Workers \ {w} : worker'[v] = worker[v]

---------------------------------------------------------------------------
\* Either kind of step keeps the bound on the calls.
LEMMA CallsKept ==
    ASSUME TypeOK, SendExclusive, SendExclusive', CallInv, Uncalled,
           \A w \in Workers : worker[w].pc # "idle" => worker[w].slot \in Slots,
           TypeOK'
    PROVE  CallInv'
  <1> SUFFICES ASSUME NEW s \in Slots
               PROVE  /\ calls[s] <= MaxAttempts
                      /\ rows'[s].status = "ABSENT" => calls[s] = 0
                      /\ rows'[s].status \in ActiveCancelStatuses =>
                            calls[s] <= rows'[s].attempt /\ rows'[s].attempt < MaxAttempts
                      /\ rows'[s].status = "SENDING" =>
                            calls[s] <= rows'[s].attempt + 1 /\ rows'[s].attempt < MaxAttempts
                      /\ \A w \in Workers : worker'[w].slot = s /\ worker'[w].pc \in BeforeCall =>
                            calls[s] <= rows'[s].attempt
    BY DEF CallInv, Uncalled
  <1>1. /\ calls[s] \in Nat /\ rows[s].attempt \in Nat /\ rows'[s].attempt \in Nat /\ MaxAttempts \in Nat \ {0}
        /\ RowStep(s)
    BY MaxAttemptsAssumption DEF TypeOK, Row, Uncalled
  <1>2. /\ calls[s] <= MaxAttempts
        /\ rows[s].status = "ABSENT" => calls[s] = 0
        /\ rows[s].status \in ActiveCancelStatuses =>
              calls[s] <= rows[s].attempt /\ rows[s].attempt < MaxAttempts
        /\ rows[s].status = "SENDING" =>
              calls[s] <= rows[s].attempt + 1 /\ rows[s].attempt < MaxAttempts
        /\ \A w \in Workers : worker[w].slot = s /\ worker[w].pc \in BeforeCall =>
              calls[s] <= rows[s].attempt
    BY DEF CallInv
  <1>3. /\ rows'[s].status = "ABSENT" => calls[s] = 0
        /\ rows'[s].status \in ActiveCancelStatuses =>
              calls[s] <= rows'[s].attempt /\ rows'[s].attempt < MaxAttempts
        /\ rows'[s].status = "SENDING" =>
              calls[s] <= rows'[s].attempt + 1 /\ rows'[s].attempt < MaxAttempts
    BY <1>1, <1>2, ActiveNames DEF RowStep, Same, Moved, Dropped, Retried, Recorded, Inserted
  <1>4. ASSUME NEW w \in Workers, worker'[w].slot = s, worker'[w].pc \in BeforeCall
        PROVE  calls[s] <= rows'[s].attempt
    <2>1. rows'[s].status = "SENDING"
      BY <1>4, Pcs DEF SendExclusive, BeforeCall
    <2>2. worker[w].slot = s /\ (worker[w].pc \in BeforeCall \/ rows[s].status = "QUEUED")
      BY <1>4 DEF Uncalled, Callers
    <2>3. /\ rows'[s].attempt = rows[s].attempt
          /\ rows[s].status = "SENDING" \/ rows[s].status \in ActiveCancelStatuses
      BY <1>1, <2>1, ActiveNames DEF RowStep, Same, Moved, Dropped, Retried, Recorded, Inserted
    <2>4. QED
      BY <1>2, <2>2, <2>3, ActiveNames
  <1>5. QED
    BY <1>2, <1>3, <1>4

LEMMA CallCounted ==
    ASSUME TypeOK, SendExclusive, CallInv, NEW w \in Workers, Called(w)
    PROVE  CallInv'
  <1> PICK u \in Slots : u = worker[w].slot
    BY DEF Called
  <1>1. rows[u].status = "SENDING" /\ calls[u] <= rows[u].attempt /\ rows[u].attempt < MaxAttempts
    BY Pcs DEF Called, SendExclusive, CallInv, BeforeCall
  <1>2. calls[u] \in Nat /\ rows[u].attempt \in Nat /\ MaxAttempts \in Nat \ {0}
    BY MaxAttemptsAssumption DEF TypeOK, Row
  <1>3. /\ calls'[u] = calls[u] + 1
        /\ \A s \in Slots \ {u} : calls'[s] = calls[s]
        /\ \A v \in Workers : worker'[v].pc \in BeforeCall => v # w /\ worker'[v] = worker[v]
    BY DEF Called, TypeOK
  <1>4. \A v \in Workers : worker'[v].pc \in BeforeCall => worker'[v].slot # u
    BY <1>3, Pcs DEF Called, SendExclusive, BeforeCall
  <1>5. calls[u] + 1 <= rows[u].attempt + 1 /\ calls[u] + 1 <= MaxAttempts
    BY <1>1, <1>2
  <1>6. ASSUME NEW s \in Slots
        PROVE  /\ calls'[s] <= MaxAttempts
               /\ rows[s].status = "ABSENT" => calls'[s] = 0
               /\ rows[s].status \in ActiveCancelStatuses =>
                     calls'[s] <= rows[s].attempt /\ rows[s].attempt < MaxAttempts
               /\ rows[s].status = "SENDING" =>
                     calls'[s] <= rows[s].attempt + 1 /\ rows[s].attempt < MaxAttempts
               /\ \A v \in Workers : worker'[v].slot = s /\ worker'[v].pc \in BeforeCall =>
                     calls'[s] <= rows[s].attempt
    <2>1. CASE s = u
      BY <1>1, <1>3, <1>4, <1>5, <2>1, ActiveNames
    <2>2. CASE s # u
      BY <1>3, <2>2 DEF CallInv
    <2>3. QED
      BY <2>1, <2>2
  <1>7. QED
    BY <1>6 DEF CallInv, Called

\* An escalation keeps the chain number of its INITIAL, and an INITIAL that is
\* SENT keeps its escalations.
LEMMA ChainsShared ==
    ASSUME TypeOK, InsertedOnce, EscalationChains, SentHasEscalations, \A s \in Slots : RowStep(s)
    PROVE  EscalationChains' /\ SentHasEscalations'
  <1>1. ASSUME NEW q \in Requests, NEW l \in Levels \ {0}, rows'[<<q, l>>].status # "ABSENT"
        PROVE  rows'[<<q, l>>].chain = rows'[Initial(q)].chain
    <2> PICK s \in Slots, i \in Slots : s = <<q, l>> /\ i = Initial(q)
      BY SlotParts
    <2>1. s[1] = q /\ ~IsInitial(s) /\ RowStep(s) /\ RowStep(i)
      BY DEF IsInitial
    <2>2. rows[s].status # "ABSENT" => rows[i].status = "SENT" /\ rows[s].chain = rows[i].chain
      BY DEF InsertedOnce, EscalationChains
    <2>3. rows[i].status # "ABSENT" => rows'[i].chain = rows[i].chain
      BY <2>1 DEF RowStep, Inserted
    <2>4. CASE Inserted(s)
      BY <2>1, <2>3, <2>4 DEF Inserted
    <2>5. CASE rows'[s].chain = rows[s].chain /\ rows[s].status # "ABSENT"
      BY <2>2, <2>3, <2>5
    <2>6. rows[s].status # "ABSENT" \/ Inserted(s)
      BY <1>1, <2>1, ActiveNames DEF RowStep, Same, Moved, Dropped, Retried, Recorded
    <2>7. QED
      BY <2>1, <2>4, <2>5, <2>6 DEF RowStep, Inserted
  <1>2. ASSUME NEW q \in Requests, rows'[Initial(q)].status = "SENT", NEW l \in Levels \ {0}
        PROVE  rows'[<<q, l>>].status # "ABSENT"
    <2> PICK s \in Slots, i \in Slots : s = <<q, l>> /\ i = Initial(q)
      BY SlotParts
    <2>1. i[1] = q /\ IsInitial(i) /\ RowStep(s) /\ RowStep(i)
      BY DEF IsInitial, Initial
    <2>2. CASE Recorded(i)
      BY <2>1, <2>2 DEF Recorded
    <2>3. CASE rows[i].status = "SENT"
      <3>1. rows[s].status # "ABSENT"
        BY <2>3 DEF SentHasEscalations
      <3>2. QED
        BY <2>1, <3>1, ActiveNames DEF RowStep, Same, Moved, Dropped, Retried, Recorded, Inserted
    <2>4. QED
      BY <1>2, <2>1, <2>2, <2>3, ActiveNames DEF RowStep, Same, Moved, Dropped, Retried, Inserted
  <1>3. QED
    BY <1>1, <1>2 DEF EscalationChains, SentHasEscalations

---------------------------------------------------------------------------
(* The statements of the repository, row by row.                           *)

LEMMA StatusSet ==
    ASSUME TypeOK, NEW S, NEW to \in Statuses, rows' = SetStatus(rows, S, to),
           \A s \in S : s \in Slots =>
              \/ rows[s].status \in ActiveCancelStatuses /\ to \in ActiveCancelStatuses \cup {"SENDING"}
              \/ rows[s].status # "ABSENT" /\ to \in {"CANCELLED", "EXPIRED", "FAILED_TERMINAL"}
    PROVE  \A s \in Slots : RowStep(s)
  <1>1. ASSUME NEW s \in Slots
        PROVE  /\ rows'[s].status = IF s \in S THEN to ELSE rows[s].status
               /\ rows'[s].chain = rows[s].chain /\ rows'[s].attempt = rows[s].attempt
    BY DEF TypeOK, SetStatus, Row
  <1>2. QED
    BY <1>1 DEF RowStep, Same, Moved, Dropped

LEMMA StatusCas ==
    ASSUME TypeOK, NEW s \in Slots, NEW from \in Statuses, NEW to \in Statuses,
           rows' = Transition(rows, s, from, to),
           \/ from \in ActiveCancelStatuses /\ to \in ActiveCancelStatuses \cup {"SENDING"}
           \/ from # "ABSENT" /\ to \in {"CANCELLED", "EXPIRED", "FAILED_TERMINAL"}
    PROVE  \A u \in Slots : RowStep(u)
  <1>1. CASE rows[s].status = from
    <2>1. rows' = SetStatus(rows, {s}, to)
      BY <1>1 DEF Transition, CanTransition
    <2>2. QED
      BY <1>1, <2>1, StatusSet
  <1>2. CASE rows[s].status # from
    BY <1>2 DEF Transition, CanTransition, RowStep, Same
  <1>3. QED
    BY <1>1, <1>2

LEMMA SameTable == UNCHANGED rows => \A s \in Slots : RowStep(s)
  BY DEF RowStep, Same

LEMMA SameCallers == UNCHANGED worker => Callers
  BY DEF Callers

LEMMA WorkerMoves ==
    ASSUME TypeOK, NEW w \in Workers, NEW pc \in WorkerPcs, WorkerGoto(w, pc),
           pc \in BeforeCall => worker[w].pc \in BeforeCall \/ rows[worker[w].slot].status = "QUEUED"
    PROVE  Callers
  BY DEF TypeOK, WorkerGoto, WorkerState, Callers

LEMMA WorkerReplaced ==
    ASSUME TypeOK, NEW w \in Workers, NEW new \in WorkerState, new.pc \notin BeforeCall,
           worker' = [worker EXCEPT ![w] = new]
    PROVE  Callers
  BY DEF TypeOK, Callers

\* The transaction of SENT skips no escalation: the holder of a dedupe key would
\* be an escalation of another INITIAL with the same chain number, and there is
\* no such INITIAL.
LEMMA SentWithEscalations ==
    ASSUME IInv, EscalationChains, NEW q \in Requests, NEW n \in Nat,
           rows[Initial(q)].status = "SENDING",
           rows' = CreateEscalationsForInitials(MarkSent(rows, Initial(q), n), {q})
    PROVE  \A s \in Slots : RowStep(s)
  <1> PICK i \in Slots : i = Initial(q)
    BY SlotParts
  <1> DEFINE sent == MarkSent(rows, i, n)
  <1>1. /\ TypeOK /\ InsertedOnce /\ ChainOK /\ rows \in [Slots -> Row]
        /\ i[1] = q /\ i[2] = 0 /\ IsInitial(i) /\ Initial(i[1]) = i
    BY DEF IInv, TypeOK, IsInitial, Initial
  <1>2. /\ sent[i].status = "SENT" /\ sent[i].chain = rows[i].chain
        /\ \A s \in Slots \ {i} : sent[s] = rows[s]
    BY <1>1 DEF MarkSent, Row
  <1>3. ASSUME NEW l \in Levels \ {0}
        PROVE  DedupeHolder(sent, rows[i].chain, l) = {}
    <2>1. SUFFICES ASSUME NEW s \in DedupeHolder(sent, rows[i].chain, l) PROVE FALSE
      OBVIOUS
    <2>2. /\ s \in Slots /\ s[2] = l /\ sent[s].chain = rows[i].chain /\ sent[s].status # "ABSENT"
      BY <2>1 DEF DedupeHolder
    <2>3. s # i /\ sent[s] = rows[s]
      BY <1>1, <1>2, <2>2
    <2> PICK r \in Requests : s = <<r, l>>
      BY <2>2, SlotParts
    <2>4. rows[Initial(r)].status = "SENT" /\ rows[Initial(r)].chain = rows[i].chain
      BY <1>1, <2>2, <2>3 DEF InsertedOnce, EscalationChains
    <2>5. Holds0(r) /\ Holds0(q)
      BY <2>4 DEF Holds0
    <2>6. r = q
      BY <1>1, <2>4, <2>5 DEF ChainOK
    <2>7. QED
      BY <2>4, <2>6
  <1>4. ASSUME NEW s \in Slots, s[1] = q, ~IsInitial(s)
        PROVE  /\ Inserted(s)
               /\ rows'[s].status = "PENDING"
    <2>1. s[2] \in Levels \ {0} /\ s = <<q, s[2]>>
      BY <1>4, SlotParts DEF IsInitial
    <2>2. rows[s].status = "ABSENT"
      BY <1>1, <2>1 DEF InsertedOnce
    <2>3. rows'[s] = EscalationRow(sent, q)
      BY <1>2, <1>3, <1>4, <2>1 DEF CreateEscalationsForInitials
    <2>4. /\ EscalationRow(sent, q).status = "PENDING" /\ EscalationRow(sent, q).attempt = 0
          /\ EscalationRow(sent, q).chain = rows[i].chain
      BY <1>2 DEF EscalationRow, AbsentRow
    <2>5. QED
      BY <1>4, <2>2, <2>3, <2>4 DEF Inserted
  <1>5. ASSUME NEW s \in Slots, s[1] # q \/ IsInitial(s)
        PROVE  rows'[s] = sent[s]
    BY <1>5 DEF CreateEscalationsForInitials
  <1>6. RowStep(i)
    <2>1. \A l \in Levels \ {0} : rows'[<<q, l>>].status # "ABSENT"
      <3> SUFFICES ASSUME NEW l \in Levels \ {0} PROVE rows'[<<q, l>>].status # "ABSENT"
        OBVIOUS
      <3> PICK s \in Slots : s = <<q, l>>
        BY SlotParts
      <3>1. s[1] = q /\ ~IsInitial(s)
        BY DEF IsInitial
      <3>2. QED
        BY <1>4, <3>1
    <2>2. rows'[i].status = "SENT" /\ rows'[i].chain = rows[i].chain
      BY <1>1, <1>2, <1>5
    <2>3. QED
      BY <1>1, <2>1, <2>2 DEF RowStep, Recorded
  <1>7. ASSUME NEW s \in Slots, s # i, s[1] # q \/ IsInitial(s)
        PROVE  RowStep(s)
    BY <1>2, <1>5, <1>7 DEF RowStep, Same
  <1>8. QED
    BY <1>4, <1>6, <1>7 DEF RowStep

\* The backfill of the reconciler inserts only rows that are missing.
LEMMA Backfills ==
    ASSUME TypeOK, NEW old \in SUBSET MissingEscalations,
           rows' = CreateEscalationsForInitials(rows, old)
    PROVE  \A s \in Slots : RowStep(s)
  <1> SUFFICES ASSUME NEW s \in Slots PROVE RowStep(s)
    OBVIOUS
  <1>1. CASE rows'[s] = rows[s]
    BY <1>1 DEF RowStep, Same
  <1>2. CASE s[1] \in old /\ ~IsInitial(s) /\ rows'[s] = EscalationRow(rows, s[1])
    <2>1. s[1] \in Requests /\ rows[Initial(s[1])].status = "SENT" /\ ~HasEscalations(rows, s[1])
      BY <1>2 DEF MissingEscalations
    <2>2. s[2] \in Levels \ {0} /\ s = <<s[1], s[2]>>
      BY <1>2, SlotParts DEF IsInitial
    <2>3. rows[s].status = "ABSENT"
      BY <2>1, <2>2 DEF HasEscalations
    <2>4. /\ rows'[s].status = "PENDING" /\ rows'[s].attempt = 0
          /\ rows'[s].chain = rows[Initial(s[1])].chain
      BY <1>2 DEF EscalationRow, AbsentRow
    <2>5. QED
      BY <2>1, <2>3, <2>4 DEF RowStep, Inserted
  <1>3. QED
    BY <1>1, <1>2 DEF CreateEscalationsForInitials

\* A commit cancels what it has locked and inserts the INITIAL of its request.
LEMMA Commits ==
    ASSUME TypeOK, LocksOK, InsertedOnce, NEW q \in Requests, TxCommit(q) \/ TxDelete(q)
    PROVE  \A s \in Slots : RowStep(s)
  <1> SUFFICES ASSUME NEW s \in Slots PROVE RowStep(s)
    OBVIOUS
  <1> PICK cancelled : cancelled = Committed(q)
    OBVIOUS
  <1>1. /\ \A u \in request[q].locks : rows[u].status \in ActiveCancelStatuses
        /\ request[q].chain \in Nat
    BY DEF LocksOK, TypeOK, RequestState
  <1>2. /\ cancelled \in [Slots -> Row]
        /\ cancelled[s].status = IF s \in request[q].locks THEN "CANCELLED" ELSE rows[s].status
        /\ cancelled[s].chain = rows[s].chain /\ cancelled[s].attempt = rows[s].attempt
    BY StatusNames DEF Committed, SetStatus, TypeOK, Row
  <1>3. CASE rows'[s] = cancelled[s]
    BY <1>1, <1>2, <1>3, ActiveNames DEF RowStep, Same, Dropped
  <1>4. CASE request[q].pc = "insert" /\ s = Initial(q) /\ rows'[s] = InitialRow(request[q].chain)
    <2>1. rows[s].status = "ABSENT" /\ IsInitial(s)
      BY <1>4 DEF InsertedOnce, IsInitial, Initial
    <2>2. rows'[s].status = "PENDING" /\ rows'[s].attempt = 0
      BY <1>4 DEF InitialRow, AbsentRow
    <2>3. QED
      BY <2>1, <2>2 DEF RowStep, Inserted
  <1>5. CASE TxDelete(q)
    BY <1>3, <1>5 DEF TxDelete
  <1>6. CASE TxCommit(q)
    <2>1. rows' = cancelled \/ rows' = [cancelled EXCEPT ![Initial(q)] = InitialRow(request[q].chain)]
      BY <1>6 DEF TxCommit
    <2>2. rows'[s] = cancelled[s] \/ (s = Initial(q) /\ rows'[s] = InitialRow(request[q].chain))
      BY <1>2, <2>1
    <2>3. QED
      BY <1>3, <1>4, <1>6, <2>2 DEF TxCommit
  <1>7. QED
    BY <1>5, <1>6

\* Every outcome a worker writes down.
LEMMA Outcomes ==
    ASSUME IInv, EscalationChains, NEW w \in Workers, worker[w].slot \in Slots,
           RecordSent(w) \/ RecordFailure(w)
    PROVE  \A s \in Slots : RowStep(s)
  <1> PICK u \in Slots : u = worker[w].slot
    OBVIOUS
  <1>1. TypeOK /\ SendExclusive /\ rows \in [Slots -> Row] /\ worker[w] \in WorkerState
    BY DEF IInv, TypeOK
  <1>2. rows[u].status = "SENDING"
    BY <1>1, Pcs DEF SendExclusive, RecordSent, RecordFailure
  <1>3. CASE RecordSent(w) /\ IsInitial(u)
    <2> PICK q \in Requests : u = Initial(q)
      BY <1>3, SlotParts DEF IsInitial, Initial
    <2>1. u[1] = q
      BY DEF Initial
    <2> PICK n \in Nat : n = worker[w].sentAt
      BY <1>1 DEF WorkerState
    <2>2. rows' = CreateEscalationsForInitials(MarkSent(rows, Initial(q), n), {q})
      BY <1>2, <1>3, <2>1 DEF RecordSent
    <2>3. QED
      BY <1>2, <2>2, SentWithEscalations
  <1>4. CASE RecordSent(w) /\ ~IsInitial(u)
    <2>1. rows' = MarkSent(rows, u, worker[w].sentAt)
      BY <1>4 DEF RecordSent
    <2>2. /\ rows'[u].status = "SENT" /\ rows'[u].chain = rows[u].chain
          /\ \A s \in Slots \ {u} : rows'[s] = rows[s]
      BY <1>1, <1>2, <2>1 DEF MarkSent, Row
    <2>3. QED
      BY <1>2, <1>4, <2>2 DEF RowStep, Same, Recorded
  <1>5. CASE RecordFailure(w)
    <2>1. CASE rows' = Transition(rows, u, "SENDING", "FAILED_TERMINAL")
      BY <1>1, <2>1, StatusCas, StatusNames
    <2>2. CASE rows[u].attempt + 1 < MaxAttempts /\ rows' = ResetToRetry(rows, u, rows[u].attempt + 1)
      <3>1. /\ rows'[u].status = "PENDING" /\ rows'[u].attempt = rows[u].attempt + 1
            /\ rows'[u].chain = rows[u].chain /\ \A s \in Slots \ {u} : rows'[s] = rows[s]
        BY <1>1, <1>2, <2>2 DEF ResetToRetry, Row
      <3>2. QED
        BY <1>2, <2>2, <3>1 DEF RowStep, Same, Retried
    <2>3. rows[u].attempt + 1 < MaxAttempts \/ rows[u].attempt + 1 >= MaxAttempts
      BY <1>1, MaxAttemptsAssumption DEF Row
    <2>4. QED
      BY <1>5, <2>1, <2>2, <2>3 DEF RecordFailure
  <1>6. QED
    BY <1>3, <1>4, <1>5

---------------------------------------------------------------------------
(* The steps of the processes.                                             *)

\* Bull, the requests and the users leave the rows to others.
Aside == UNCHANGED <<rows, worker, calls>>

LEMMA AsideStep == Aside => Uncalled
  BY SameTable, SameCallers DEF Aside, Uncalled

LEMMA PollerSteps ==
    ASSUME TypeOK, ActorsOK, NEW p \in Pollers,
           PollerStep(p) \/ AddJobError(p) \/ MarkQueuedError(p) \/ PollerAbort(p)
    PROVE  Uncalled
  <1>1. CASE AddJob(p) \/ RemoveJob(p) \/ AddJobError(p) \/ MarkQueuedError(p) \/ PollerAbort(p)
    <2>1. Aside
      BY <1>1 DEF AddJob, RemoveJob, AddJobError, MarkQueuedError, PollerAbort, Aside, ghosts
    <2>2. QED
      BY <2>1, AsideStep
  <1>2. CASE Claim(p)
    <2> PICK batch \in SUBSET (Claimable(rows) \ Locked) : rows' = ClaimDueBatch(rows, batch)
      BY <1>2 DEF Claim
    <2>1. rows' = SetStatus(rows, batch, "CLAIMED") /\ \A s \in batch : rows[s].status \in ActiveCancelStatuses
      BY ActiveNames DEF ClaimDueBatch, Claimable, WithStatus
    <2>2. \A s \in Slots : RowStep(s)
      BY <2>1, StatusSet, StatusNames, ActiveNames
    <2>3. QED
      BY <1>2, <2>2, SameCallers DEF Claim, Uncalled, ghosts
  <1>3. CASE MarkQueued(p) \/ RollbackClaim(p)
    <2>1. poller[p].cur \in Slots
      BY <1>3 DEF MarkQueued, RollbackClaim, ActorsOK
    <2>2. PICK to \in {"QUEUED", "PENDING"} : rows' = Transition(rows, poller[p].cur, "CLAIMED", to)
      BY <1>3 DEF MarkQueued, RollbackClaim
    <2>3. \A s \in Slots : RowStep(s)
      BY <2>1, <2>2, StatusCas, StatusNames, ActiveNames
    <2>4. QED
      BY <1>3, <2>3, SameCallers DEF MarkQueued, RollbackClaim, Uncalled, ghosts
  <1>4. QED
    BY <1>1, <1>2, <1>3 DEF PollerStep

LEMMA ReconSteps ==
    ASSUME TypeOK, ActorsOK, ReconStep
    PROVE  Uncalled
  <1>1. CASE ScanQueued \/ LookupJob \/ ScanDone
    <2>1. Aside
      BY <1>1 DEF ScanQueued, LookupJob, ScanDone, Aside, ghosts
    <2>2. QED
      BY <2>1, AsideStep
  <1>2. CASE ReleaseStale
    <2> PICK stale \in SUBSET (WithStatus(rows, {"CLAIMED"}) \ Locked) : rows' = ReleaseStaleClaims(rows, stale)
      BY <1>2 DEF ReleaseStale
    <2>1. rows' = SetStatus(rows, stale, "PENDING") /\ \A s \in stale : rows[s].status \in ActiveCancelStatuses
      BY ActiveNames DEF ReleaseStaleClaims, WithStatus
    <2>2. \A s \in Slots : RowStep(s)
      BY <2>1, StatusSet, StatusNames, ActiveNames
    <2>3. QED
      BY <1>2, <2>2, SameCallers DEF ReleaseStale, Uncalled, ghosts
  <1>3. CASE ResetOrphan
    <2>1. recon.cur \in Slots /\ rows' = Transition(rows, recon.cur, "QUEUED", "PENDING")
      BY <1>3 DEF ResetOrphan, ActorsOK
    <2>2. \A s \in Slots : RowStep(s)
      BY <2>1, StatusCas, StatusNames, ActiveNames
    <2>3. QED
      BY <1>3, <2>2, SameCallers DEF ResetOrphan, Uncalled, ghosts
  <1>4. CASE Collapse
    <2>1. /\ rows' = SetStatus(rows, Collapsible(rows), "EXPIRED")
          /\ \A s \in Collapsible(rows) : rows[s].status # "ABSENT"
      BY <1>4 DEF Collapse, CollapseOverdueEscalations, Collapsible, Overdue, WithStatus
    <2>2. \A s \in Slots : RowStep(s)
      BY <2>1, StatusSet, StatusNames
    <2>3. QED
      BY <1>4, <2>2, SameCallers DEF Collapse, Uncalled, ghosts
  <1>5. CASE RepairMissing
    <2>1. \A s \in Slots : RowStep(s)
      BY <1>5, Backfills DEF RepairMissing
    <2>2. QED
      BY <1>5, <2>1, SameCallers DEF RepairMissing, Uncalled, ghosts
  <1>6. QED
    BY <1>1, <1>2, <1>3, <1>4, <1>5 DEF ReconStep

LEMMA WorkerSteps ==
    ASSUME IInv, EscalationChains, NEW w \in Workers,
           \/ \E s \in Slots : PickJob(w, s)
           \/ HandlerStep(w) \/ SendError(w) \/ HandlerError(w) \/ WorkerCrash(w)
    PROVE  Uncalled \/ Called(w)
  <1>1. /\ TypeOK /\ ActorsOK
        /\ worker[w].pc # "idle" => worker[w].slot \in Slots
    BY DEF IInv, ActorsOK
  <1>2. ASSUME NEW s \in Slots, PickJob(w, s) PROVE Uncalled
    <2> PICK new \in WorkerState : new = [pc |-> "read", slot |-> s, sentAt |-> 0]
      BY DEF WorkerState, WorkerPcs
    <2>1. Callers
      BY <1>1, <1>2, WorkerReplaced DEF PickJob, BeforeCall
    <2>2. QED
      BY <1>2, <2>1, SameTable DEF PickJob, Uncalled, ghosts
  <1>3. CASE FinishJob(w) \/ HandlerError(w) \/ WorkerCrash(w)
    <2>1. worker' = [worker EXCEPT ![w] = WorkerIdle] /\ UNCHANGED <<rows, calls>>
      BY <1>3 DEF FinishJob, HandlerError, WorkerCrash, ghosts
    <2>2. WorkerIdle \in WorkerState /\ WorkerIdle.pc \notin BeforeCall
      BY DEF WorkerIdle, WorkerState, WorkerPcs, BeforeCall
    <2>3. Callers
      BY <1>1, <2>1, <2>2, WorkerReplaced
    <2>4. QED
      BY <2>1, <2>3, SameTable DEF Uncalled
  <1>4. CASE ReadRow(w) \/ CheckActed(w)
    <2>1. PICK pc \in {"cas", "promote", "finish", "siblings", "send"} :
            /\ WorkerGoto(w, pc)
            /\ pc \in BeforeCall => worker[w].pc \in BeforeCall
      BY <1>4 DEF ReadRow, CheckActed, BeforeCall
    <2>2. Callers
      BY <1>1, <2>1, WorkerMoves DEF WorkerPcs, SendingPcs
    <2>3. QED
      BY <1>4, <2>2, SameTable DEF ReadRow, CheckActed, Uncalled, ghosts
  <1>5. CASE Promote(w)
    <2>1. PICK pc \in {"cas", "finish"} : WorkerGoto(w, pc)
      BY <1>5 DEF Promote, WorkerCas
    <2>2. Callers
      BY <1>1, <2>1, WorkerMoves DEF WorkerPcs, BeforeCall
    <2>3. worker[w].slot \in Slots /\ rows' = Transition(rows, worker[w].slot, "PENDING", "QUEUED")
      BY <1>1, <1>5 DEF Promote, WorkerCas
    <2>4. \A s \in Slots : RowStep(s)
      BY <1>1, <2>3, StatusCas, StatusNames, ActiveNames
    <2>5. QED
      BY <1>5, <2>2, <2>4 DEF Promote, WorkerCas, Uncalled, ghosts
  <1>6. CASE BeginSend(w)
    <2>1. PICK pc \in {"check", "finish"} :
            WorkerGoto(w, pc) /\ (pc = "check" => rows[worker[w].slot].status = "QUEUED")
      BY <1>6 DEF BeginSend, WorkerCas, CanTransition
    <2>2. Callers
      BY <1>1, <2>1, WorkerMoves DEF WorkerPcs, SendingPcs, BeforeCall
    <2>3. worker[w].slot \in Slots /\ rows' = Transition(rows, worker[w].slot, "QUEUED", "SENDING")
      BY <1>1, <1>6 DEF BeginSend, WorkerCas
    <2>4. \A s \in Slots : RowStep(s)
      BY <1>1, <2>3, StatusCas, StatusNames, ActiveNames
    <2>5. QED
      BY <1>6, <2>2, <2>4 DEF BeginSend, WorkerCas, Uncalled, ghosts
  <1>7. CASE CancelSiblings(w)
    <2>1. worker[w].pc = "siblings" /\ WorkerGoto(w, "self")
      BY <1>7 DEF CancelSiblings
    <2>2. Callers
      BY <1>1, <2>1, WorkerMoves DEF WorkerPcs, SendingPcs, BeforeCall
    <2>3. PICK S : S = CancellableSiblings(rows, worker[w].slot)
      OBVIOUS
    <2>4. rows' = SetStatus(rows, S, "CANCELLED") /\ \A s \in S : rows[s].status # "ABSENT"
      BY <1>7, <2>3, ActiveNames
         DEF CancelSiblings, CancelSiblingEscalations, CancellableSiblings, Cancellable, WithStatus
    <2>5. \A s \in Slots : RowStep(s)
      BY <1>1, <2>4, StatusSet, StatusNames
    <2>6. QED
      BY <1>7, <2>2, <2>5 DEF CancelSiblings, Uncalled, ghosts
  <1>8. CASE CancelSelf(w)
    <2>1. WorkerGoto(w, "finish")
      BY <1>8 DEF CancelSelf, WorkerCas
    <2>2. Callers
      BY <1>1, <2>1, WorkerMoves DEF WorkerPcs, BeforeCall
    <2>3. worker[w].slot \in Slots /\ rows' = Transition(rows, worker[w].slot, "SENDING", "CANCELLED")
      BY <1>1, <1>8 DEF CancelSelf, WorkerCas
    <2>4. \A s \in Slots : RowStep(s)
      BY <1>1, <2>3, StatusCas, StatusNames
    <2>5. QED
      BY <1>8, <2>2, <2>4 DEF CancelSelf, WorkerCas, Uncalled, ghosts
  <1>9. CASE RecordSent(w) \/ RecordFailure(w)
    <2>1. WorkerGoto(w, "finish") /\ worker[w].slot \in Slots /\ UNCHANGED calls
      BY <1>1, <1>9 DEF RecordSent, RecordFailure, ghosts
    <2>2. Callers
      BY <1>1, <2>1, WorkerMoves DEF WorkerPcs, BeforeCall
    <2>3. \A s \in Slots : RowStep(s)
      BY <1>9, <2>1, Outcomes
    <2>4. QED
      BY <2>1, <2>2, <2>3 DEF Uncalled
  <1>10. CASE SendOk(w) \/ SendError(w)
    <2>1. /\ worker[w].pc = "send" /\ UNCHANGED rows
          /\ calls' = [calls EXCEPT ![worker[w].slot] = @ + 1]
      BY <1>10 DEF SendOk, SendError
    <2>2. worker'[w].pc \notin BeforeCall /\ \A v \in Workers \ {w} : worker'[v] = worker[v]
      <3>1. CASE SendOk(w)
        <4>1. PICK new : new = [worker[w] EXCEPT !.pc = "record", !.sentAt = clock]
          OBVIOUS
        <4>2. new.pc = "record"
          BY <1>1, <4>1 DEF TypeOK, WorkerState
        <4>3. worker' = [worker EXCEPT ![w] = new]
          BY <3>1, <4>1 DEF SendOk
        <4>4. QED
          BY <1>1, <4>2, <4>3 DEF TypeOK, BeforeCall
      <3>2. CASE SendError(w)
        <4>1. PICK pc \in {"failed", "hardfail"} : WorkerGoto(w, pc)
          BY <3>2 DEF SendError
        <4>2. QED
          BY <1>1, <4>1 DEF WorkerGoto, TypeOK, WorkerState, BeforeCall
      <3>3. QED
        BY <1>10, <3>1, <3>2
    <2>3. QED
      BY <1>1, <2>1, <2>2 DEF Called
  <1>11. QED
    BY <1>2, <1>3, <1>4, <1>5, <1>6, <1>7, <1>8, <1>9, <1>10 DEF HandlerStep

LEMMA OtherSteps ==
    ASSUME TypeOK, LocksOK, InsertedOnce,
           \/ \E s \in Slots : BecomeDue(s) \/ Stall(s) \/ LoseJob(s)
           \/ \E q \in Requests : ReadTrainer(q) \/ TxStep(q) \/ TxRollback(q)
           \/ DisableReminders \/ DeleteTrainer \/ UNCHANGED vars
    PROVE  Uncalled
  <1>1. ASSUME NEW s \in Slots, BecomeDue(s) PROVE Uncalled
    <2>1. \A u \in Slots : RowStep(u)
      BY <1>1 DEF BecomeDue, TypeOK, Row, RowStep, Same
    <2>2. QED
      BY <1>1, <2>1, SameCallers DEF BecomeDue, Uncalled, actors, ghosts
  <1>2. ASSUME NEW s \in Slots, Stall(s) \/ LoseJob(s) PROVE Uncalled
    BY <1>2, AsideStep DEF Stall, LoseJob, Aside, actors, ghosts
  <1>3. ASSUME NEW q \in Requests,
               ReadTrainer(q) \/ TxCancel(q) \/ TxCount(q) \/ TxDuplicate(q) \/ TxRollback(q)
        PROVE  Uncalled
    BY <1>3, AsideStep DEF ReadTrainer, TxCancel, TxCount, TxDuplicate, TxRollback, Aside, ghosts
  <1>4. ASSUME NEW q \in Requests, TxCommit(q) \/ TxDelete(q) PROVE Uncalled
    <2>1. \A s \in Slots : RowStep(s)
      BY <1>4, Commits
    <2>2. QED
      BY <1>4, <2>1, SameCallers DEF TxCommit, TxDelete, Uncalled, ghosts
  <1>5. CASE DisableReminders \/ DeleteTrainer \/ UNCHANGED vars
    BY <1>5, AsideStep DEF DisableReminders, DeleteTrainer, vars, Aside, actors, ghosts
  <1>6. QED
    BY <1>1, <1>2, <1>3, <1>4, <1>5 DEF TxStep

---------------------------------------------------------------------------
LEMMA InitRows == Init => RowsInv
  <1> SUFFICES ASSUME Init PROVE RowsInv
    OBVIOUS
  <1>1. /\ \A s \in Slots : rows[s].status = "ABSENT" /\ calls[s] = 0
        /\ \A w \in Workers : worker[w].pc = "idle"
    BY DEF Init, AbsentRow, WorkerIdle
  <1>2. CallInv
    BY <1>1, MaxAttemptsAssumption, ActiveNames DEF CallInv, BeforeCall
  <1>3. EscalationChains /\ SentHasEscalations
    BY <1>1, SlotParts DEF EscalationChains, SentHasEscalations
  <1>4. QED
    BY <1>2, <1>3, InitIInv DEF RowsInv

LEMMA StepRows == RowsInv /\ [Next]_vars => RowsInv'
  <1> SUFFICES ASSUME RowsInv, [Next]_vars PROVE RowsInv'
    OBVIOUS
  <1>1. IInv /\ IInv' /\ CallInv /\ EscalationChains /\ SentHasEscalations
    BY StepIInv DEF RowsInv
  <1>2. /\ TypeOK /\ TypeOK' /\ ActorsOK /\ LocksOK /\ InsertedOnce /\ SendExclusive /\ SendExclusive'
        /\ \A w \in Workers : worker[w].pc # "idle" => worker[w].slot \in Slots
    BY <1>1 DEF IInv, ActorsOK
  <1>3. Uncalled \/ \E w \in Workers : Called(w)
    BY <1>1, <1>2, PollerSteps, ReconSteps, WorkerSteps, OtherSteps DEF Next
  <1>4. CallInv'
    BY <1>1, <1>2, <1>3, CallsKept, CallCounted
  <1>5. \A s \in Slots : RowStep(s)
    BY <1>3, SameTable DEF Uncalled, Called
  <1>6. EscalationChains' /\ SentHasEscalations'
    BY <1>1, <1>2, <1>5, ChainsShared
  <1>7. QED
    BY <1>1, <1>4, <1>6 DEF RowsInv

LEMMA RowsInvariant == Spec => []RowsInv
  BY InitRows, StepRows, PTL DEF Spec

\* The mail provider is never called more than MaxAttempts times for one row,
\* however often stalls, orphan resets, retries and lost jobs send it through
\* the queue again (handleSendFailure compares the attempt number that the row
\* itself carries).
THEOREM CallsBoundedCorrect == Spec => []CallsBounded
  <1>1. RowsInv => CallsBounded
    BY DEF RowsInv, CallInv, CallsBounded
  <1>2. QED
    BY <1>1, RowsInvariant, PTL

\* An INITIAL that is SENT has an escalation of every level, in every state: the
\* unique index never makes the transaction of SENT skip one, whatever exam
\* submissions overlap.
THEOREM SentHasEscalationsCorrect == Spec => []SentHasEscalations
  <1>1. RowsInv => SentHasEscalations
    BY DEF RowsInv
  <1>2. QED
    BY <1>1, RowsInvariant, PTL

-----------------------------------------------------------------------------
(***************************************************************************)
(* The pipeline implements ReminderIntent.  The phase of an intent is a    *)
(* function of the status of its row and of its mails, so every kind of    *)
(* step is an abstract step: the moves between PENDING, CLAIMED and QUEUED *)
(* disappear, and SENT changes nothing because its mail was confirmed      *)
(* before.                                                                 *)
(***************************************************************************)

\* A worker records SENT only after the provider confirmed the mail.
MailedBeforeRecord ==
    \A w \in Workers : worker[w].pc = "record" => mails[worker[w].slot] # 0

LEMMA MailedBeforeRecordStep ==
    ASSUME IInv, MailedBeforeRecord, [Next]_vars
    PROVE  MailedBeforeRecord'
  <1>1. TypeOK /\ ActorsOK /\ InsertedOnce /\ SendExclusive
    BY DEF IInv
  <1>2. CASE Benign
    BY <1>2 DEF Benign, NoNewSender, MailedBeforeRecord
  <1>3. ASSUME NEW w \in Workers, Started(w) \/ Ended(w) PROVE MailedBeforeRecord'
    BY <1>3 DEF Started, Ended, MailedBeforeRecord
  <1>4. ASSUME NEW w \in Workers, Mailed(w) PROVE MailedBeforeRecord'
    <2>1. \A s \in Slots : /\ mails'[s] = IF s = worker[w].slot THEN mails[s] + 1 ELSE mails[s]
                           /\ mails[s] \in Nat
      BY <1>1, <1>4 DEF Mailed, TypeOK
    <2>2. \A v \in Workers : worker[v].pc = "record" => worker[v].slot \in Slots
      BY <1>1 DEF ActorsOK
    <2>3. QED
      BY <1>4, <2>1, <2>2 DEF Mailed, MailedBeforeRecord
  <1>5. ASSUME NEW q \in Requests, ExamQuiet(q) \/ \E new \in BOOLEAN : ExamCommitted(q, new)
        PROVE  MailedBeforeRecord'
    BY <1>5 DEF ExamQuiet, ExamCommitted, OthersKept, MailedBeforeRecord
  <1>6. QED
    BY <1>1, <1>2, <1>3, <1>4, <1>5, Steps

\* The phase of each row, before and after a step.
LEMMA PhaseNames ==
    \A s \in Slots :
        /\ rows[s].status = "ABSENT" => PhaseOf(s) = "none"
        /\ rows[s].status \in ActiveCancelStatuses => PhaseOf(s) = "scheduled"
        /\ rows[s].status = "SENDING" /\ mails[s] = 0 => PhaseOf(s) = "sending"
        /\ rows[s].status = "SENDING" /\ mails[s] # 0 => PhaseOf(s) = "delivered"
        /\ rows[s].status = "SENT" => PhaseOf(s) = "delivered"
        /\ rows[s].status \in {"FAILED_TERMINAL", "CANCELLED", "EXPIRED"} => PhaseOf(s) = "dropped"
        /\ rows'[s].status = "ABSENT" => PhaseOf(s)' = "none"
        /\ rows'[s].status \in ActiveCancelStatuses => PhaseOf(s)' = "scheduled"
        /\ rows'[s].status = "SENDING" /\ mails'[s] = 0 => PhaseOf(s)' = "sending"
        /\ rows'[s].status = "SENDING" /\ mails'[s] # 0 => PhaseOf(s)' = "delivered"
        /\ rows'[s].status = "SENT" => PhaseOf(s)' = "delivered"
        /\ rows'[s].status \in {"FAILED_TERMINAL", "CANCELLED", "EXPIRED"} => PhaseOf(s)' = "dropped"
  BY DEF PhaseOf, ActiveCancelStatuses

LEMMA PhaseKept ==
    \A s \in Slots : rows'[s].status = rows[s].status /\ mails'[s] = mails[s]
                     => PhaseOf(s)' = PhaseOf(s)
  BY DEF PhaseOf

LEMMA MoveStep ==
    ASSUME NEW s \in Slots, NEW from, NEW to, PhaseOf(s) = from, PhaseOf(s)' = to,
           \A t \in Slots \ {s} : PhaseOf(t)' = PhaseOf(t)
    PROVE  Intent!Move(s, from, to)
  BY DEF Intent!Move

LEMMA RescheduleStep ==
    ASSUME NEW drop \in SUBSET Slots, NEW new \in SUBSET Slots,
           \A s \in drop : PhaseOf(s) = "scheduled" /\ PhaseOf(s)' = "dropped",
           \A s \in new : PhaseOf(s) = "none" /\ PhaseOf(s)' = "scheduled",
           \A s \in Slots \ (drop \cup new) : PhaseOf(s)' = PhaseOf(s),
           \A s \in new : IF IsInitial(s)
                          THEN \A t \in Slots : /\ IsInitial(t)
                                                /\ PhaseOf(t) \in {"scheduled", "sending"} \/ t \in new
                                                => t = s \/ t \in drop
                          ELSE PhaseOf(Initial(s[1])) = "delivered"
    PROVE  Intent!Next
  <1>1. Intent!Intents = Slots
    BY DEF Intent!Intents, Slots, Levels
  <1>2. drop \in SUBSET Intent!In("scheduled") /\ new \in SUBSET Intent!In("none")
    BY <1>1 DEF Intent!In
  <1>3. Intent!OnItsWay = {s \in Slots : PhaseOf(s) \in {"scheduled", "sending"}}
    BY <1>1 DEF Intent!OnItsWay, Intent!In
  <1>4. Intent!Reschedule(drop, new)
    BY <1>1, <1>3, SlotParts DEF Intent!Reschedule, IsInitial, Initial
  <1>5. QED
    BY <1>2, <1>4 DEF Intent!Next

LEMMA OneMove ==
    ASSUME NEW s \in Slots,
           \/ Intent!Begin(s) \/ Intent!Retry(s) \/ Intent!Abandon(s) \/ Intent!Deliver(s)
    PROVE  Intent!Next
  <1>1. Intent!Intents = Slots
    BY DEF Intent!Intents, Slots, Levels
  <1>2. QED
    BY <1>1 DEF Intent!Next

LEMMA BenignIntent ==
    ASSUME InsertedOnce, Benign
    PROVE  Intent!Next
  <1> DEFINE drop == {s \in Slots : rows[s].status \in ActiveCancelStatuses
                                    /\ rows'[s].status \in {"CANCELLED", "EXPIRED"}}
             new == {s \in Slots : Backfilled(s) /\ rows[Initial(s[1])].status = "SENT"}
  <1>1. \A s \in Slots : mails'[s] = mails[s]
    BY DEF Benign
  <1>2. \A s \in drop : PhaseOf(s) = "scheduled" /\ PhaseOf(s)' = "dropped"
    BY PhaseNames
  <1>3. \A s \in new : PhaseOf(s) = "none" /\ PhaseOf(s)' = "scheduled" /\ ~IsInitial(s)
    BY PhaseNames, StatusDistinct DEF Backfilled
  <1>4. ASSUME NEW s \in Slots \ (drop \cup new) PROVE PhaseOf(s)' = PhaseOf(s)
    <2>1. CASE SameStatus(s)
      BY <1>1, <2>1, PhaseKept DEF SameStatus
    <2>2. CASE rows[s].status \in ActiveCancelStatuses /\ rows'[s].status \in ActiveCancelStatuses
      BY <2>2, PhaseNames
    <2>3. QED
      BY <1>4, <2>1, <2>2 DEF Benign, Drift
  <1>5. \A s \in new : PhaseOf(Initial(s[1])) = "delivered"
    BY SlotParts, PhaseNames
  <1>6. drop \in SUBSET Slots /\ new \in SUBSET Slots
    OBVIOUS
  <1> HIDE DEF drop, new
  <1>7. QED
    BY <1>2, <1>3, <1>4, <1>5, <1>6, RescheduleStep

LEMMA WorkerIntent ==
    ASSUME IInv, MailedBeforeRecord, NEW w \in Workers, Started(w) \/ Mailed(w) \/ Ended(w)
    PROVE  Intent!Next
  <1> PICK u \in Slots : u = worker[w].slot
    BY DEF Started, Mailed, Ended
  <1>0. u \in Slots /\ mails[u] \in Nat
    BY DEF IInv, TypeOK
  <1>1. CASE Started(w)
    <2>1. mails'[u] = 0 /\ \A s \in Slots : mails'[s] = mails[s]
      BY <1>0, <1>1 DEF Started, IInv, MailedOnce
    <2>2. PhaseOf(u) = "scheduled" /\ PhaseOf(u)' = "sending"
      BY <1>0, <1>1, <2>1, PhaseNames, StatusDistinct DEF Started
    <2>3. \A t \in Slots \ {u} : PhaseOf(t)' = PhaseOf(t)
      BY <1>1, <2>1, PhaseKept DEF Started, SameStatus
    <2>4. QED
      <3>1. Intent!Move(u, "scheduled", "sending")
        BY <1>0, <2>2, <2>3, MoveStep
      <3>2. Intent!Begin(u)
        BY <3>1 DEF Intent!Begin
      <3>3. QED
        BY <1>0, <3>2, OneMove
  <1>2. CASE Mailed(w)
    <2>1. rows[u].status = "SENDING" /\ mails[u] = 0
      BY <1>0, <1>2, Pcs DEF Mailed, IInv, SendExclusive, MailedOnce
    <2>2. \A s \in Slots : mails'[s] = (IF s = u THEN 1 ELSE mails[s]) /\ rows'[s] = rows[s]
      BY <1>0, <1>2, <2>1 DEF Mailed, IInv, TypeOK
    <2>3. PhaseOf(u) = "sending" /\ PhaseOf(u)' = "delivered"
      BY <1>0, <2>1, <2>2, PhaseNames
    <2>4. \A t \in Slots \ {u} : PhaseOf(t)' = PhaseOf(t)
      BY <2>2, PhaseKept
    <2>5. QED
      <3>1. Intent!Move(u, "sending", "delivered")
        BY <1>0, <2>3, <2>4, MoveStep
      <3>2. Intent!Deliver(u)
        BY <3>1 DEF Intent!Deliver
      <3>3. QED
        BY <1>0, <3>2, OneMove
  <1>3. CASE Ended(w) /\ worker[w].pc \in OpenPcs
    <2>1. rows[u].status = "SENDING" /\ mails[u] = 0 /\ \A s \in Slots : mails'[s] = mails[s]
      BY <1>0, <1>3, Pcs DEF Ended, IInv, MailedOnce
    <2>2. /\ rows'[u].status \in {"CANCELLED", "FAILED_TERMINAL", "PENDING"}
          /\ \A t \in Slots \ {u} : SameStatus(t)
      BY <1>3, Pcs DEF Ended
    <2>3. PhaseOf(u) = "sending" /\ PhaseOf(u)' \in {"dropped", "scheduled"}
      BY <1>0, <2>1, <2>2, PhaseNames, StatusDistinct
    <2>4. \A t \in Slots \ {u} : PhaseOf(t)' = PhaseOf(t)
      BY <2>1, <2>2, PhaseKept DEF SameStatus
    <2>5. PICK to \in {"dropped", "scheduled"} : PhaseOf(u)' = to
      BY <2>3
    <2>6. Intent!Move(u, "sending", to)
      BY <1>0, <2>3, <2>4, <2>5, MoveStep
    <2>7. Intent!Retry(u) \/ Intent!Abandon(u)
      BY <2>6 DEF Intent!Retry, Intent!Abandon
    <2>8. QED
      BY <1>0, <2>7, OneMove
  <1>4. CASE Ended(w) /\ worker[w].pc = "record"
    <2>1. rows[u].status = "SENDING" /\ mails[u] # 0 /\ \A s \in Slots : mails'[s] = mails[s]
      BY <1>0, <1>4 DEF Ended, MailedBeforeRecord
    <2>2. /\ rows'[u].status = "SENT"
          /\ \A s \in Slots \ {u} : SameStatus(s) \/ (Backfilled(s) /\ s[1] = u[1])
      BY <1>4, Pcs DEF Ended
    <2>3. PhaseOf(u) = "delivered" /\ PhaseOf(u)' = "delivered"
      BY <1>0, <2>1, <2>2, PhaseNames
    <2>4. PhaseOf(Initial(u[1])) = "delivered"
      <3>1. CASE u[2] = 0
        BY <1>0, <2>3, <3>1, SlotParts DEF Initial
      <3>2. CASE u[2] # 0
        <4>1. u[1] \in Requests /\ u[2] \in Levels \ {0} /\ rows[<<u[1], u[2]>>].status # "ABSENT"
          BY <1>0, <2>1, <3>2, SlotParts
        <4>2. rows[Initial(u[1])].status = "SENT"
          BY <4>1 DEF IInv, InsertedOnce
        <4>3. QED
          BY <4>1, <4>2, SlotParts, PhaseNames
      <3>3. QED
        BY <3>1, <3>2
    <2> DEFINE new == {s \in Slots \ {u} : Backfilled(s) /\ s[1] = u[1]}
    <2>5. \A s \in new : /\ PhaseOf(s) = "none" /\ PhaseOf(s)' = "scheduled" /\ ~IsInitial(s)
                         /\ PhaseOf(Initial(s[1])) = "delivered"
      BY <2>4, PhaseNames, StatusDistinct DEF Backfilled
    <2>6. \A s \in Slots \ new : PhaseOf(s)' = PhaseOf(s)
      BY <2>1, <2>2, <2>3, PhaseKept DEF SameStatus
    <2>7. PICK drop \in SUBSET Slots : drop = {}
      OBVIOUS
    <2>8. new \in SUBSET Slots
      OBVIOUS
    <2> HIDE DEF new
    <2>9. QED
      BY <2>5, <2>6, <2>7, <2>8, RescheduleStep
  <1>5. QED
    BY <1>1, <1>2, <1>3, <1>4 DEF Ended

\* A commit starts a cycle only if its transaction cancels the INITIAL on its way.
LEMMA ExamIntent ==
    ASSUME IInv, OneLiveInitial', NEW q \in Requests, NEW start \in BOOLEAN, ExamCommitted(q, start)
    PROVE  Intent!Next
  <1> DEFINE drop == request[q].locks
             new == IF start THEN {Initial(q)} ELSE {}
  <1>1. /\ drop \in SUBSET Slots /\ new \in SUBSET Slots
        /\ \A s \in drop : rows[s].status \in ActiveCancelStatuses
        /\ \A s \in new : s = Initial(q) /\ rows[s].status = "ABSENT" /\ rows'[s].status = "PENDING"
    BY SlotParts DEF ExamCommitted, IInv, TypeOK, RequestState, LocksOK, InsertedOnce
  <1>2. /\ \A s \in Slots : mails'[s] = mails[s]
        /\ \A s \in drop : rows'[s].status = "CANCELLED"
        /\ \A s \in Slots \ (drop \cup new) : rows'[s].status = rows[s].status
    BY <1>1, StatusDistinct DEF ExamCommitted, OthersKept
  <1>3. /\ \A s \in drop : PhaseOf(s) = "scheduled" /\ PhaseOf(s)' = "dropped"
        /\ \A s \in new : PhaseOf(s) = "none" /\ PhaseOf(s)' = "scheduled"
        /\ \A s \in Slots \ (drop \cup new) : PhaseOf(s)' = PhaseOf(s)
    <2>1. \A s \in drop : PhaseOf(s) = "scheduled" /\ PhaseOf(s)' = "dropped"
      BY <1>1, <1>2, PhaseNames
    <2>2. \A s \in new : PhaseOf(s) = "none" /\ PhaseOf(s)' = "scheduled"
      BY <1>1, PhaseNames, StatusDistinct
    <2>3. \A s \in Slots \ (drop \cup new) : PhaseOf(s)' = PhaseOf(s)
      <3> HIDE DEF drop, new
      <3>1. QED
        BY <1>2, PhaseKept
    <2>4. QED
      BY <2>1, <2>2, <2>3
  <1>4. ASSUME NEW s \in new, NEW t \in Slots, IsInitial(t), t \notin drop,
               PhaseOf(t) \in {"scheduled", "sending"} \/ t \in new
        PROVE  t = s
    <2>1. SUFFICES ASSUME t \notin new, PhaseOf(t) \in {"scheduled", "sending"} PROVE FALSE
      BY <1>1, <1>4
    <2>2. rows[t].status \in Statuses
      BY <1>4 DEF IInv, TypeOK, Row
    <2>3. rows[t].status \in LiveStatuses
      BY <2>1, <2>2, PhaseNames
        DEF Statuses, TerminalStatuses, LiveStatuses
    <2>4. rows'[t].status \in LiveStatuses
      BY <1>2, <1>4, <2>1, <2>3
    <2>5. t = Initial(t[1]) /\ t[1] \in Requests
      BY <1>4, SlotParts DEF IsInitial, Initial
    <2>6. Live(Initial(t[1]))' /\ Live(Initial(q))'
      BY <1>1, <1>4, <2>4, <2>5, ActiveNames DEF Live, LiveStatuses
    <2>7. t[1] = q
      BY <2>5, <2>6 DEF OneLiveInitial
    <2>8. QED
      BY <1>1, <1>4, <2>1, <2>5, <2>7
  <1>5. \A s \in new : IsInitial(s)
    BY <1>1 DEF Initial, IsInitial
  <1> HIDE DEF drop, new
  <1>6. QED
    BY <1>1, <1>3, <1>4, <1>5, RescheduleStep

LEMMA StepIntent ==
    ASSUME IInv, MailedBeforeRecord, OneLiveInitial', [Next]_vars
    PROVE  [Intent!Next]_[s \in Slots |-> PhaseOf(s)]
  <1>1. TypeOK /\ ActorsOK /\ InsertedOnce /\ SendExclusive
    BY DEF IInv
  <1>2. ASSUME NEW q \in Requests, ExamQuiet(q)
        PROVE  UNCHANGED [s \in Slots |-> PhaseOf(s)]
    <2>1. \A s \in Slots : PhaseOf(s)' = PhaseOf(s)
      BY <1>2, PhaseKept DEF ExamQuiet, OthersKept
    <2>2. QED
      BY <2>1
  <1>3. QED
    BY <1>1, <1>2, Steps, BenignIntent, WorkerIntent, ExamIntent

\* Pollers, Bull, workers, the reconciler, exam transactions and every fault
\* together only do what ReminderIntent allows: at most one mail for an intent,
\* no cycle beside another, no escalation of an undelivered INITIAL.
THEOREM ImplementsIntentCorrect == Spec => ImplementsIntent
  <1>1. Init => Intent!Init
    <2>1. SUFFICES ASSUME Init PROVE Intent!Init
      OBVIOUS
    <2>2. \A s \in Slots : PhaseOf(s) = "none"
      BY <2>1, PhaseNames DEF Init, AbsentRow
    <2>3. QED
      BY <2>2 DEF Intent!Init, Intent!Intents, Slots, Levels
  <1>2. Init => MailedBeforeRecord
    BY DEF Init, WorkerIdle, MailedBeforeRecord
  <1>3. Spec => []MailedBeforeRecord
    BY <1>2, Invariant, MailedBeforeRecordStep, PTL DEF Spec
  <1>4. QED
    BY <1>1, <1>3, Invariant, OneCycleAtATime, StepIntent, PTL
      DEF Spec, ImplementsIntent, Intent!Spec
=============================================================================
