---------------------------- MODULE ReminderSchedule ----------------------------
(***************************************************************************)
(* The reminder_schedule table of ONE vocab trainer and the statements     *)
(* ReminderScheduleRepository runs on it.  Every operator maps a table     *)
(* (and its arguments) to the table after one SQL statement, or states the *)
(* WHERE clause of one.  All actors of ReminderDelivery share them.        *)
(*                                                                         *)
(* Rows are named by the exam submission that would insert their INITIAL   *)
(* and by their level: <<q, 0>> is the INITIAL row of submission q and     *)
(* <<q, l>> its escalation of level l (initialReminderId, escalationLevel).*)
(* A row that was never inserted has status "ABSENT".                      *)
(*                                                                         *)
(* Time: dueAt and nextAttemptAt are compared with now() only, so a row    *)
(* keeps "no" (dueAt in the future), "yes" (due) or "backoff" (dueAt is    *)
(* past, nextAttemptAt is not).  actedCheckAfter and lastExamSubmittedAt   *)
(* are compared with each other only, so they are positions in the order   *)
(* of the exam timestamps.                                                 *)
(***************************************************************************)
EXTENDS Naturals, FiniteSets

CONSTANTS Requests,    \* exam submissions, one INITIAL row each at most
          MaxEsc,      \* ESCALATION_CONFIG.maxEscalations
          MaxAttempts, \* REMINDER_CONFIG.retry.maxAttempts
          MaxChain     \* REMINDER_CONFIG.chain.maxCycles

ASSUME RequestsAssumption == IsFiniteSet(Requests)
ASSUME MaxEscAssumption == MaxEsc \in Nat
ASSUME MaxAttemptsAssumption == MaxAttempts \in Nat \ {0}
ASSUME MaxChainAssumption == MaxChain \in Nat \ {0}

Levels == 0..MaxEsc
Slots == Requests \X Levels
Initial(q) == <<q, 0>>
IsInitial(s) == s[2] = 0

ActiveCancelStatuses == {"PENDING", "CLAIMED", "QUEUED"}
TerminalStatuses == {"SENT", "FAILED_TERMINAL", "CANCELLED", "EXPIRED"}
Statuses == {"ABSENT", "SENDING"} \cup ActiveCancelStatuses \cup TerminalStatuses

Row == [status: Statuses, chain: Nat, attempt: Nat,
        due: {"no", "yes", "backoff"}, ackAfter: Nat, sentAt: Nat]

AbsentRow == [status |-> "ABSENT", chain |-> 0, attempt |-> 0,
              due |-> "no", ackAfter |-> 0, sentAt |-> 0]

---------------------------------------------------------------------------
\* UPDATE ... SET status WHERE id IN S.
SetStatus(rows, S, to) ==
    [s \in Slots |-> IF s \in S THEN [rows[s] EXCEPT !.status = to] ELSE rows[s]]

WithStatus(rows, St) == {s \in Slots : rows[s].status \in St}

\* transitionStatus: compare-and-set on the status alone; lockedBy is not part
\* of the WHERE clause, so any actor may complete any other actor's transition.
CanTransition(rows, s, from) == rows[s].status = from
Transition(rows, s, from, to) ==
    IF CanTransition(rows, s, from) THEN SetStatus(rows, {s}, to) ELSE rows

\* claimDueBatch: what the SELECT sees (due, out of backoff, PENDING).
Claimable(rows) == {s \in WithStatus(rows, {"PENDING"}) : rows[s].due = "yes"}
ClaimDueBatch(rows, batch) == SetStatus(rows, batch, "CLAIMED")

\* Mutant: SENDING is cancellable too.
CancellableEvenSending(rows) == WithStatus(rows, ActiveCancelStatuses \cup {"SENDING"})

\* cancelByEntity and cancelSchedulesForTrainerTx: every row not yet SENDING.
Cancellable(rows) == WithStatus(rows, ActiveCancelStatuses)

\* cancelSiblingEscalations.
Siblings(s) == {t \in Slots : t[1] = s[1] /\ ~IsInitial(t) /\ t # s}
CancellableSiblings(rows, s) == Cancellable(rows) \cap Siblings(s)
CancelSiblingEscalations(rows, s) ==
    SetStatus(rows, CancellableSiblings(rows, s), "CANCELLED")

\* Mutant: the age comparison is the wrong way round, no claim is ever stale.
ReleaseNoClaims(rows, stale) == rows

\* releaseStaleClaims, on the claims old enough to count as stale.
ReleaseStaleClaims(rows, stale) == SetStatus(rows, stale, "PENDING")

\* Mutant: the partial unique index leaves out the row that is being sent.
DedupeHolderUnlessSending(rows, chain, level) ==
    {s \in Slots : /\ s[2] = level
                   /\ rows[s].chain = chain
                   /\ rows[s].status \notin {"ABSENT", "CANCELLED", "EXPIRED", "SENDING"}}

\* createEscalationsForInitial: one PENDING row per level, due later, guarded
\* by the partial unique index (skipDuplicates): a level whose dedupe key
\* <<chain, level>> is held by a row not CANCELLED or EXPIRED is skipped.
DedupeHolder(rows, chain, level) ==
    {s \in Slots : /\ s[2] = level
                   /\ rows[s].chain = chain
                   /\ rows[s].status \notin {"ABSENT", "CANCELLED", "EXPIRED"}}
EscalationRow(rows, q) ==
    [AbsentRow EXCEPT !.status = "PENDING", !.chain = rows[Initial(q)].chain,
                      !.ackAfter = rows[Initial(q)].sentAt]
CreateEscalationsForInitials(rows, Q) ==
    [s \in Slots |->
        IF /\ s[1] \in Q
           /\ ~IsInitial(s)
           /\ DedupeHolder(rows, rows[Initial(s[1])].chain, s[2]) = {}
        THEN EscalationRow(rows, s[1])
        ELSE rows[s]]

\* collapseOverdueEscalations: of the overdue PENDING escalations of an INITIAL
\* only the highest level survives.  dueAt alone decides, backoff included.
Overdue(rows) ==
    {s \in WithStatus(rows, {"PENDING"}) : ~IsInitial(s) /\ rows[s].due # "no"}
Collapsible(rows) ==
    {s \in Overdue(rows) : \E t \in Overdue(rows) : t[1] = s[1] /\ t[2] > s[2]}
CollapseOverdueEscalations(rows) == SetStatus(rows, Collapsible(rows), "EXPIRED")

\* countEscalationsForInitial, reduced to the comparison its caller makes.
HasEscalations(rows, q) ==
    \E l \in Levels \ {0} : rows[<<q, l>>].status # "ABSENT"

\* Mutant: the WHERE clause of markSentIfStillSending names the wrong status.
MarkSentIfQueued(rows, s, sentAt) ==
    IF rows[s].status = "QUEUED"
    THEN [rows EXCEPT ![s].status = "SENT", ![s].sentAt = sentAt] ELSE rows

\* markSentIfStillSending.
MarkSent(rows, s, sentAt) ==
    IF rows[s].status = "SENDING"
    THEN [rows EXCEPT ![s] = [@ EXCEPT !.status = "SENT", !.attempt = rows[s].attempt + 1,
                                       !.sentAt = sentAt]]
    ELSE rows

\* Mutant: the retry keeps the old attempt number.
ResetWithoutCounting(rows, s, attempt) ==
    IF rows[s].status = "SENDING"
    THEN [rows EXCEPT ![s].status = "PENDING", ![s].due = "backoff"] ELSE rows

\* resetSendingToPendingRetry.
ResetToRetry(rows, s, attempt) ==
    IF rows[s].status = "SENDING"
    THEN [rows EXCEPT ![s] = [@ EXCEPT !.status = "PENDING", !.attempt = attempt,
                                       !.due = "backoff"]]
    ELSE rows

\* syncRemindersAfterExamSubmission: the count that numbers the next cycle.
TerminalInitials(rows) ==
    {q \in Requests :
        rows[Initial(q)].status \in {"SENT", "FAILED_TERMINAL", "EXPIRED"}}
InitialRow(chain) ==
    [AbsentRow EXCEPT !.status = "PENDING", !.chain = chain]
=============================================================================
