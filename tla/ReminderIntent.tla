----------------------------- MODULE ReminderIntent -----------------------------
(***************************************************************************)
(* What the reminder system promises, without pollers, queues or retries:  *)
(* a trainer's reminders are intents to send ONE mail each.  A cycle has   *)
(* an INITIAL intent (level 0) and escalations (levels 1..MaxEsc).         *)
(*   - an intent is delivered at most once, and a delivered or dropped     *)
(*     intent is never taken up again;                                     *)
(*   - a new cycle starts only when no other INITIAL is on its way;        *)
(*   - escalations are scheduled only for a delivered INITIAL.             *)
(* Abstracts the statuses of ReminderScheduleStatus (schema.prisma) and    *)
(* the state diagram of docs/reminder/reminder-mail.md section 4.          *)
(***************************************************************************)
EXTENDS Naturals

CONSTANTS Cycles, MaxEsc

VARIABLE phase

Intents == Cycles \X (0..MaxEsc)

Init == phase = [i \in Intents |-> "none"]

In(ph) == {i \in Intents : phase[i] = ph}
OnItsWay == In("scheduled") \cup In("sending")

\* Drop some scheduled intents and schedule new ones, in one transaction.
Reschedule(drop, new) ==
    /\ \A i \in new :
          IF i[2] = 0
          THEN \A j \in OnItsWay \cup new : j[2] = 0 => j = i \/ j \in drop
          ELSE phase[<<i[1], 0>>] = "delivered"
    /\ phase' = [i \in Intents |-> IF i \in drop THEN "dropped"
                                   ELSE IF i \in new THEN "scheduled"
                                   ELSE phase[i]]

Move(i, from, to) == phase[i] = from /\ phase' = [phase EXCEPT ![i] = to]
Begin(i) == Move(i, "scheduled", "sending")
Retry(i) == Move(i, "sending", "scheduled")
Abandon(i) == Move(i, "sending", "dropped")
Deliver(i) == Move(i, "sending", "delivered")

Next ==
    \/ \E drop \in SUBSET In("scheduled"), new \in SUBSET In("none") : Reschedule(drop, new)
    \/ \E i \in Intents : Begin(i) \/ Retry(i) \/ Abandon(i) \/ Deliver(i)

Spec == Init /\ [][Next]_phase
=============================================================================
