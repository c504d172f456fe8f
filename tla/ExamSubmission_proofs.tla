------------------------ MODULE ExamSubmission_proofs ------------------------
(***************************************************************************)
(* Proofs about ExamSubmission, for any number of submissions, edits and   *)
(* deletions: scores are earned, passes are earned, the result rows of two *)
(* exams mix only when the exams overlapped, answers are counted once      *)
(* unless a job is repeated, and the sections of the dashboard             *)
(* (MasteryDashboard) agree with each other and with the history.          *)
(***************************************************************************)
EXTENDS MasteryDashboard, FiniteSetTheorems, FunctionTheorems, NaturalsInduction, SequenceTheorems, TLAPS

---------------------------------------------------------------------------
(* What every request or job holds                                         *)

\* A record with the fields of Idle, and one with those of the trainer.
IsProc(r) ==
    r = [kind |-> r.kind, pc |-> r.pc, marks |-> r.marks, size |-> r.size, i |-> r.i,
         row |-> r.row, repeat |-> r.repeat, attempt |-> r.attempt, met |-> r.met]
IsTrainer(t) == t = [alive |-> t.alive, repeat |-> t.repeat, words |-> t.words]

\* A row whose score the answers it counts have earned.
Earned(row) == row \in Rows /\ row.score <= row.correct
\* The credit of the trainer: what the user has set it to, and the passes since.
Credit == granted + passes
Grows == Credit \in Nat /\ Credit' \in Nat /\ Credit <= Credit'
\* A repeat count that a credit of n covers, and the steps that end a trainer.
Covered(count, n) == count \in Nat /\ count <= n
Ending(pc, n) == pc \in {"notify", "remove"} => MaxRepeat <= n

Sound(r, n) == IsProc(r) /\ Earned(r.row) /\ Covered(r.repeat, n) /\ Ending(r.pc, n)

ProcInv == /\ proc = [p \in Procs |-> proc[p]]
           /\ \A p \in Procs : Sound(proc[p], Credit)
MasteryInv ==
    /\ mastery \in [Words -> Rows \cup {NoMastery}]
    /\ history \in [Words -> Seq(Rows)]
    /\ \A w \in Words : mastery[w] # NoMastery => Earned(mastery[w])
    /\ \A w \in Words : \A k \in DOMAIN history[w] : Earned(history[w][k])
PassInv == /\ passes \in Nat /\ granted \in Nat
           /\ IsTrainer(trainer) /\ Covered(trainer.repeat, Credit)
Inv == ProcInv /\ MasteryInv /\ PassInv

LEMMA FreshEarned == Earned(FreshRow)
BY ScoreAssumption DEF FreshRow, Earned, Rows

LEMMA GradedEarned ==
    ASSUME NEW row, Earned(row), NEW ok PROVE Earned(Graded(row, ok))
BY ScoreAssumption DEF Graded, Earned, Rows

LEMMA IdleSound == ASSUME NEW n \in Nat PROVE Sound(Idle, n)
BY FreshEarned, LimitAssumption DEF Idle, Sound, IsProc, Covered, Ending

LEMMA SoundLater ==
    ASSUME NEW r, NEW n \in Nat, NEW m \in Nat, n <= m, Sound(r, n) PROVE Sound(r, m)
BY LimitAssumption DEF Sound, Covered, Ending

\* One request or job moves, to a record that is sound.
LEMMA OneProc ==
    ASSUME ProcInv, NEW p \in Procs, NEW r, proc' = [proc EXCEPT ![p] = r],
           Grows, Sound(r, Credit')
    PROVE  ProcInv'
<1>1. proc'[p] = r /\ \A q \in Procs \ {p} : proc'[q] = proc[q]
  BY DEF ProcInv
<1>2. proc' = [q \in Procs |-> proc'[q]]
  BY DEF ProcInv
<1>3. \A q \in Procs : Sound(proc'[q], Credit')
  BY <1>1, SoundLater DEF ProcInv, Grows
<1> QED
  BY <1>2, <1>3 DEF ProcInv

---------------------------------------------------------------------------
(* The moves of a request or job                                           *)

\* It moves to a sound record and forgets nobody it has met.
Becomes(p, r) ==
    /\ proc' = [proc EXCEPT ![p] = r]
    /\ Sound(r, Credit') /\ r.met = proc[p].met /\ r.pc # "idle"
Moves(p) == \E r : Becomes(p, r) /\ r.pc # "insert"
MovesTo(p, pc) == \E r : Becomes(p, r) /\ r.pc = pc

\* The credit stays when neither of its parts changes.
LEMMA Stays == ASSUME PassInv, UNCHANGED <<passes, granted>> PROVE Grows /\ UNCHANGED Credit
<1>1. Credit \in Nat /\ Credit' = Credit
  BY DEF PassInv, Credit
<1> QED
  BY <1>1 DEF Grows

LEMMA Later ==
    ASSUME ProcInv, NEW p \in Procs, Grows
    PROVE  Sound(proc[p], Credit') /\ proc = [q \in Procs |-> proc[q]]
BY SoundLater DEF ProcInv, Grows

LEMMA GotoMoves ==
    ASSUME ProcInv, PassInv, NEW p \in Procs, Grows, NEW pc,
           Goto(p, pc), pc # "idle", Ending(pc, Credit')
    PROVE  MovesTo(p, pc)
<1>1. PICK old : old = proc[p]
  OBVIOUS
<1>2. PICK r : r = [old EXCEPT !.pc = pc]
  OBVIOUS
<1>3. proc' = [proc EXCEPT ![p] = r]
  BY <1>1, <1>2, Later DEF Goto
<1>4. Sound(old, Credit')
  BY <1>1, Later
<1>5. Sound(r, Credit') /\ r.met = old.met /\ r.pc = pc
  BY <1>2, <1>4 DEF Sound, IsProc
<1> QED
  BY <1>1, <1>3, <1>5 DEF MovesTo, Becomes

LEMMA FinishMoves ==
    ASSUME ProcInv, PassInv, NEW p \in Procs, Grows, NEW pc \in Ended, Finish(p, pc)
    PROVE  Moves(p)
<1>1. PICK met : met = proc[p].met
  OBVIOUS
<1>2. PICK r : r = [Idle EXCEPT !.pc = pc, !.met = met]
  OBVIOUS
<1>3. proc' = [proc EXCEPT ![p] = r]
  BY <1>1, <1>2 DEF Finish
<1>4. Sound(Idle, Credit')
  BY IdleSound DEF Grows
<1>5. Ending(pc, Credit') /\ pc \notin {"idle", "insert"}
  BY DEF Ended, Ending
<1>6. Sound(r, Credit') /\ r.met = met /\ r.pc = pc
  BY <1>2, <1>4, <1>5 DEF Sound, IsProc, Idle
<1> QED
  BY <1>1, <1>3, <1>5, <1>6 DEF Moves, Becomes

LEMMA AbortMoves ==
    ASSUME ProcInv, PassInv, NEW p \in Procs, Grows, Abort(p)
    PROVE  Moves(p)
<1>1. CASE Finish(p, "failed")
  BY <1>1, FinishMoves DEF Ended
<1>2. CASE proc' = [proc EXCEPT ![p].pc = "ai", ![p].i = 1, ![p].row = FreshRow, ![p].attempt = @ + 1]
  <2>1. PICK old, n : old = proc[p] /\ n = proc[p].attempt + 1
    OBVIOUS
  <2>2. PICK r : r = [old EXCEPT !.pc = "ai", !.i = 1, !.row = FreshRow, !.attempt = n]
    OBVIOUS
  <2>3. proc' = [proc EXCEPT ![p] = r]
    BY <1>2, <2>1, <2>2, Later
  <2>4. Sound(old, Credit')
    BY <2>1, Later
  <2>5. Sound(r, Credit') /\ r.met = old.met /\ r.pc = "ai"
    BY <2>2, <2>4, FreshEarned DEF Sound, IsProc, Ending
  <2> QED
    BY <2>1, <2>3, <2>5 DEF Moves, Becomes
<1> QED
  BY <1>1, <1>2 DEF Abort

LEMMA NextMoves ==
    ASSUME ProcInv, PassInv, NEW p \in Procs, Grows, NextResult(p)
    PROVE  Moves(p)
<1>1. PICK old, n : old = proc[p] /\ n = proc[p].i + 1
  OBVIOUS
<1>2. PICK r : r = [old EXCEPT !.pc = "find", !.i = n, !.row = FreshRow]
  OBVIOUS
<1>3. proc' = [proc EXCEPT ![p] = r]
  BY <1>1, <1>2, Later DEF NextResult
<1>4. Sound(old, Credit')
  BY <1>1, Later
<1>5. Sound(r, Credit') /\ r.met = old.met /\ r.pc = "find"
  BY <1>2, <1>4, FreshEarned DEF Sound, IsProc, Ending
<1> QED
  BY <1>1, <1>3, <1>5 DEF Moves, Becomes

\* A row is read, made or graded.
LEMMA RowMoves ==
    ASSUME ProcInv, PassInv, NEW p \in Procs, Grows,
           NEW pc \in {"update", "history"}, NEW row, Earned(row),
           GotoWith(p, pc, row)
    PROVE  Moves(p)
<1>1. PICK old : old = proc[p]
  OBVIOUS
<1>2. PICK r : r = [old EXCEPT !.pc = pc, !.row = row]
  OBVIOUS
<1>3. proc' = [proc EXCEPT ![p] = r]
  BY <1>1, <1>2, Later DEF GotoWith
<1>4. Sound(old, Credit')
  BY <1>1, Later
<1>5. Sound(r, Credit') /\ r.met = old.met /\ r.pc = pc
  BY <1>2, <1>4 DEF Sound, IsProc, Ending
<1> QED
  BY <1>1, <1>3, <1>5 DEF Moves, Becomes

---------------------------------------------------------------------------
(* Scores and passes: one lemma for each kind of step                      *)

\* A step of one request or job that leaves the tables as they should be.
LEMMA Kept ==
    ASSUME Inv, NEW p \in Procs, \E r : Becomes(p, r), Grows, MasteryInv', PassInv'
    PROVE  Inv'
<1>1. PICK r : Becomes(p, r)
  OBVIOUS
<1>2. proc' = [proc EXCEPT ![p] = r] /\ Sound(r, Credit')
  BY <1>1 DEF Becomes
<1> QED
  BY <1>2, OneProc DEF Inv

LEMMA SameMastery == ASSUME MasteryInv, UNCHANGED scores PROVE MasteryInv'
BY DEF MasteryInv, scores

LEMMA SamePasses == ASSUME PassInv, UNCHANGED <<trainer, passes, granted>> PROVE PassInv' /\ Grows
BY Stays DEF PassInv

\* Grading: only the wipe of the results leads to their insert.
LEMMA GradeMoves ==
    ASSUME ProcInv, PassInv, NEW p \in Procs, Grade(p)
    PROVE  Moves(p) \/ (WipeResults(p) /\ MovesTo(p, "insert"))
<1>1. Grows
  BY Stays DEF Grade, CallAi, WipeResults, CreateResults, ghosts
<1>2. ASSUME CallAi(p) PROVE Moves(p)
  <2>1. PICK marks : proc' = [proc EXCEPT ![p].pc = "wipe", ![p].marks = marks]
    BY <1>2 DEF CallAi
  <2>2. PICK old : old = proc[p]
    OBVIOUS
  <2>3. PICK r : r = [old EXCEPT !.pc = "wipe", !.marks = marks]
    OBVIOUS
  <2>4. proc' = [proc EXCEPT ![p] = r]
    BY <2>1, <2>2, <2>3, Later, <1>1
  <2>5. Sound(old, Credit')
    BY <2>2, Later, <1>1
  <2>6. Sound(r, Credit') /\ r.met = old.met /\ r.pc = "wipe"
    BY <2>3, <2>5 DEF Sound, IsProc, Ending
  <2> QED
    BY <2>2, <2>4, <2>6 DEF Moves, Becomes
<1>3. ASSUME WipeResults(p) PROVE MovesTo(p, "insert")
  BY <1>1, <1>3, GotoMoves DEF WipeResults, Ending
<1>4. ASSUME CreateResults(p) PROVE Moves(p)
  <2>1. Abort(p) \/ Goto(p, "find")
    BY <1>4 DEF CreateResults
  <2>2. ASSUME Goto(p, "find") PROVE Moves(p)
    BY <1>1, <2>2, GotoMoves DEF Ending, Moves, MovesTo
  <2>3. ASSUME Abort(p) PROVE Moves(p)
    BY <1>1, <2>3, AbortMoves
  <2> QED
    BY <2>1, <2>2, <2>3
<1> QED
  BY <1>2, <1>3, <1>4 DEF Grade

\* Mastery: the row a request goes on with is earned.
LEMMA MasterMoves ==
    ASSUME ProcInv, PassInv, MasteryInv, NEW p \in Procs, Master(p)
    PROVE  Moves(p)
<1>1. Grows
  BY Stays DEF Master, FindMastery, CreateMastery, UpdateMastery, SaveHistory, ghosts
<1>2. ASSUME NextResult(p) PROVE Moves(p)
  BY <1>1, <1>2, NextMoves
<1>3. ASSUME Abort(p) PROVE Moves(p)
  BY <1>1, <1>3, AbortMoves
<1>4. ASSUME Goto(p, "create") PROVE Moves(p)
  BY <1>1, <1>4, GotoMoves DEF Ending, Moves, MovesTo
<1>5. ASSUME NEW w \in Words, mastery[w] # NoMastery,
             GotoWith(p, "update", mastery[w])
      PROVE  Moves(p)
  <2>1. Earned(mastery[w])
    BY <1>5 DEF MasteryInv
  <2>2. PICK row : row = mastery[w]
    OBVIOUS
  <2> QED
    BY <1>1, <1>5, <2>1, <2>2, RowMoves
<1>6. ASSUME GotoWith(p, "update", FreshRow) PROVE Moves(p)
  BY <1>1, <1>6, FreshEarned, RowMoves
<1>7. ASSUME NEW ok, GotoWith(p, "history", Graded(proc[p].row, ok))
      PROVE  Moves(p)
  <2>1. PICK row : row = Graded(proc[p].row, ok)
    OBVIOUS
  <2>2. Earned(row)
    BY <2>1, GradedEarned DEF ProcInv, Sound
  <2> QED
    BY <1>1, <1>7, <2>1, <2>2, RowMoves
<1> QED
  BY <1>2, <1>3, <1>4, <1>5, <1>6, <1>7
  DEF Master, FindMastery, CreateMastery, UpdateMastery, SaveHistory

\* Mastery: what is written is earned.
LEMMA MasterWrites ==
    ASSUME ProcInv, MasteryInv, NEW p \in Procs, Master(p)
    PROVE  MasteryInv'
<1>1. CASE FindMastery(p)
  BY <1>1, SameMastery DEF FindMastery
<1>2. CASE CreateMastery(p)
  BY <1>2, FreshEarned DEF CreateMastery, MasteryInv, Earned
<1>3. CASE UpdateMastery(p)
  <2>1. PICK row : row = Graded(proc[p].row, proc[p].marks[proc[p].i].ok)
    OBVIOUS
  <2>2. Earned(row)
    BY <2>1, GradedEarned DEF ProcInv, Sound
  <2>3. UNCHANGED history /\ (mastery' = [mastery EXCEPT ![Word(p)] = row] \/ UNCHANGED mastery)
    BY <1>3, <2>1 DEF UpdateMastery
  <2> QED
    BY <2>2, <2>3 DEF MasteryInv, Earned
<1>4. CASE SaveHistory(p)
  <2>1. PICK row : row = proc[p].row
    OBVIOUS
  <2>2. Earned(row) /\ row \in Rows
    BY <2>1 DEF ProcInv, Sound, Earned
  <2>3. UNCHANGED mastery
        /\ (history' = [history EXCEPT ![Word(p)] = Append(@, row)] \/ UNCHANGED history)
    BY <1>4, <2>1 DEF SaveHistory
  <2>4. ASSUME NEW w \in Words
        PROVE  history'[w] = history[w] \/ history'[w] = Append(history[w], row)
    BY <2>3 DEF MasteryInv
  <2>5. ASSUME NEW past \in Seq(Rows), \A k \in DOMAIN past : Earned(past[k])
        PROVE  Append(past, row) \in Seq(Rows)
               /\ \A k \in DOMAIN Append(past, row) : Earned(Append(past, row)[k])
    BY <2>2, <2>5
  <2>6. ASSUME NEW w \in Words
        PROVE  history'[w] \in Seq(Rows) /\ \A k \in DOMAIN history'[w] : Earned(history'[w][k])
    <3>1. PICK past : past = history[w]
      OBVIOUS
    <3>2. past \in Seq(Rows) /\ \A k \in DOMAIN past : Earned(past[k])
      BY <3>1 DEF MasteryInv
    <3> QED
      BY <2>4, <2>5, <3>1, <3>2
  <2>7. history' \in [Words -> Seq(Rows)]
    BY <2>3, <2>6 DEF MasteryInv
  <2> QED
    BY <2>3, <2>6, <2>7 DEF MasteryInv
<1> QED
  BY <1>1, <1>2, <1>3, <1>4 DEF Master

\* The pass: a count that leads to the end of the trainer is covered.
LEMMA CountMoves ==
    ASSUME ProcInv, PassInv, NEW p \in Procs, CountPass(p)
    PROVE  Moves(p) /\ PassInv' /\ Grows
<1>1. PICK count : count = (LET read == IF proc[p].kind = "fill" THEN trainer.repeat ELSE proc[p].repeat
                            IN  IF Passed(p) THEN read + 1 ELSE read)
  OBVIOUS
<1>2. /\ Covered(trainer.repeat, Credit) /\ Covered(proc[p].repeat, Credit)
      /\ passes \in Nat /\ granted \in Nat /\ Credit \in Nat
  BY DEF ProcInv, PassInv, Sound, Credit
<1>3. ASSUME Abort(p), UNCHANGED <<trainer, passes, granted>>
      PROVE  Moves(p) /\ PassInv' /\ Grows
  BY <1>3, AbortMoves, SamePasses
<1>4. ASSUME proc' = [proc EXCEPT ![p].pc = IF count >= MaxRepeat THEN "notify" ELSE "sync",
                                  ![p].repeat = count],
             passes' = IF Passed(p) THEN passes + 1 ELSE passes, UNCHANGED <<trainer, granted>>
      PROVE  Moves(p) /\ PassInv' /\ Grows
  <2>1. /\ passes' \in Nat /\ granted' \in Nat /\ Grows
        /\ Credit' = IF Passed(p) THEN Credit + 1 ELSE Credit
    BY <1>2, <1>4 DEF Credit, Grows
  <2>2. Covered(count, Credit') /\ Covered(trainer.repeat, Credit')
    BY <1>1, <1>2, <2>1 DEF Covered
  <2>3. PICK pc : pc = IF count >= MaxRepeat THEN "notify" ELSE "sync"
    OBVIOUS
  <2>4. Ending(pc, Credit') /\ pc \notin {"idle", "insert"}
    <3>1. pc = "sync" \/ (pc = "notify" /\ count >= MaxRepeat)
      BY <2>3
    <3>2. PICK c, n : c = count /\ n = Credit' /\ c \in Nat /\ n \in Nat /\ c <= n
      BY <2>1, <2>2 DEF Covered, Grows
    <3>3. c >= MaxRepeat => MaxRepeat <= n
      BY <3>2, LimitAssumption
    <3> QED
      BY <3>1, <3>2, <3>3 DEF Ending
  <2>5. PICK old : old = proc[p]
    OBVIOUS
  <2>6. PICK r : r = [old EXCEPT !.pc = pc, !.repeat = count]
    OBVIOUS
  <2>7. proc' = [proc EXCEPT ![p] = r]
    BY <1>4, <2>3, <2>5, <2>6, <2>1, Later
  <2>8. Sound(old, Credit')
    BY <2>1, <2>5, Later
  <2>9. Sound(r, Credit') /\ r.met = old.met /\ r.pc = pc
    BY <2>2, <2>4, <2>6, <2>8 DEF Sound, IsProc
  <2>10. Moves(p)
    BY <2>4, <2>5, <2>7, <2>9 DEF Moves, Becomes
  <2> QED
    BY <1>2, <1>4, <2>1, <2>2, <2>10 DEF PassInv
<1> QED
  BY <1>1, <1>3, <1>4 DEF CountPass

LEMMA CoveredLater == ASSUME NEW n, Covered(n, Credit), Grows PROVE Covered(n, Credit')
BY DEF Covered, Grows

\* A row of the trainer written back with a covered count.
LEMMA WrittenBack ==
    ASSUME PassInv, Grows, passes' \in Nat, granted' \in Nat, NEW count, Covered(count, Credit'),
           \/ trainer' = [trainer EXCEPT !.alive = FALSE]
           \/ trainer' = [trainer EXCEPT !.repeat = count]
           \/ \E ws : trainer' = [trainer EXCEPT !.repeat = count, !.words = ws]
           \/ UNCHANGED trainer
    PROVE  PassInv'
<1>1. PICK old, new : old = trainer /\ new = trainer'
  OBVIOUS
<1>2. IsTrainer(old) /\ Covered(old.repeat, Credit')
  <2>1. IsTrainer(old) /\ Covered(old.repeat, Credit)
    BY <1>1 DEF PassInv
  <2> QED
    BY <2>1, CoveredLater
<1>3. IsTrainer(new) /\ Covered(new.repeat, Credit')
  BY <1>1, <1>2 DEF IsTrainer
<1> QED
  BY <1>1, <1>3 DEF PassInv

\* An edit writes back the count it has read, or one the user sets.
LEMMA WriteMoves ==
    ASSUME ProcInv, PassInv, NEW p \in Procs, WriteTrainer(p)
    PROVE  Moves(p) /\ PassInv' /\ Grows
<1>1. passes \in Nat /\ granted \in Nat /\ passes' = passes
  BY DEF PassInv, WriteTrainer
<1>2. CASE Abort(p) /\ UNCHANGED <<trainer, granted>>
  BY <1>1, <1>2, AbortMoves, SamePasses
<1>3. CASE Finish(p, "done") /\ ~(Abort(p) /\ UNCHANGED <<trainer, granted>>)
  <2>1. PICK n \in Repeats \cup {proc[p].repeat} :
            /\ \E ws : trainer' = [trainer EXCEPT !.repeat = n, !.words = ws]
            /\ granted' = IF n \in Repeats /\ n > granted + passes THEN n - passes ELSE granted
    BY <1>3 DEF WriteTrainer
  <2>2. Covered(proc[p].repeat, Credit) /\ Credit \in Nat
    BY <1>1 DEF ProcInv, Sound, Credit
  <2>3. n \in Nat /\ (n \in Repeats \/ n <= granted + passes)
    BY <2>1, <2>2, LimitAssumption DEF Covered, Credit
  <2>4. granted' \in Nat /\ Grows /\ Covered(n, Credit')
    BY <1>1, <2>1, <2>3 DEF Covered, Credit, Grows
  <2>5. Moves(p)
    BY <1>3, <2>4, FinishMoves DEF Ended
  <2> QED
    BY <1>1, <2>1, <2>4, <2>5, WrittenBack
<1> QED
  BY <1>2, <1>3 DEF WriteTrainer

\* What follows the grading.
LEMMA ConcludeMoves ==
    ASSUME ProcInv, PassInv, NEW p \in Procs, Conclude(p)
    PROVE  Moves(p) /\ PassInv' /\ Grows
<1>1. CASE CountPass(p) \/ WriteTrainer(p)
  BY <1>1, CountMoves, WriteMoves
<1>2. ASSUME NotifyCompleted(p) \/ CompleteTrainer(p) \/ SyncTrainer(p) \/ ScheduleNotification(p)
      PROVE  Moves(p) /\ PassInv' /\ Grows
  <2>1. UNCHANGED <<passes, granted>> /\ Grows /\ UNCHANGED Credit
    BY <1>2, Stays DEF NotifyCompleted, CompleteTrainer, SyncTrainer, ScheduleNotification, ghosts
  <2>2. ASSUME Abort(p) PROVE Moves(p)
    BY <2>1, <2>2, AbortMoves
  <2>3. ASSUME Finish(p, "done") PROVE Moves(p)
    BY <2>1, <2>3, FinishMoves DEF Ended
  <2>4. ASSUME Goto(p, "schedule") PROVE Moves(p)
    BY <2>1, <2>4, GotoMoves DEF Ending, Moves, MovesTo
  <2>5. ASSUME NotifyCompleted(p) PROVE Moves(p)
    <3>1. Ending("remove", Credit')
      BY <2>1, <2>5 DEF NotifyCompleted, ProcInv, Sound, Ending
    <3> QED
      BY <2>1, <2>5, <3>1, GotoMoves DEF NotifyCompleted, Moves, MovesTo
  <2>6. Moves(p)
    BY <1>2, <2>2, <2>3, <2>4, <2>5 DEF CompleteTrainer, SyncTrainer, ScheduleNotification
  <2>7. PassInv'
    <3>1. PICK count : count = proc[p].repeat /\ Covered(count, Credit')
      BY <2>1 DEF ProcInv, Sound
    <3>2. passes' \in Nat /\ granted' \in Nat
      BY <2>1 DEF PassInv
    <3>3. \/ trainer' = [trainer EXCEPT !.alive = FALSE]
          \/ trainer' = [trainer EXCEPT !.repeat = count]
          \/ UNCHANGED trainer
      BY <1>2, <3>1 DEF NotifyCompleted, CompleteTrainer, SyncTrainer, ScheduleNotification
    <3> QED
      BY <2>1, <3>1, <3>2, <3>3, WrittenBack
  <2> QED
    BY <2>1, <2>6, <2>7
<1> QED
  BY <1>1, <1>2 DEF Conclude

\* A request starts: it meets those in flight, and they meet it.
LEMMA StartSound ==
    ASSUME ProcInv, PassInv, NEW p \in Procs, NEW kind, NEW pc, NEW marks, NEW size,
           pc \notin {"notify", "remove"}, UNCHANGED <<passes, granted>>, Start(p, kind, pc, marks, size)
    PROVE  ProcInv'
<1>1. Credit \in Nat /\ Credit' = Credit
  BY Stays DEF Grows
<1>2. PICK others, repeat : others = {q \in Procs \ {p} : Active(q)} /\ repeat = trainer.repeat
  OBVIOUS
<1>3. PICK r : r = [Idle EXCEPT !.kind = kind, !.pc = pc, !.marks = marks, !.size = size,
                                !.repeat = repeat, !.attempt = 1, !.met = others]
  OBVIOUS
<1>4. Sound(r, Credit)
  <2>1. Sound(Idle, Credit) /\ Covered(repeat, Credit) /\ Ending(pc, Credit)
    BY <1>1, <1>2, IdleSound DEF PassInv, Ending
  <2> QED
    BY <1>3, <2>1 DEF Sound, IsProc, Idle
<1>5. ASSUME NEW old, Sound(old, Credit), NEW met PROVE Sound([old EXCEPT !.met = met], Credit)
  <2>1. PICK new : new = [old EXCEPT !.met = met]
    OBVIOUS
  <2>2. Sound(new, Credit)
    BY <1>5, <2>1 DEF Sound, IsProc
  <2> QED
    BY <2>1, <2>2
<1>6. proc' = [q \in Procs |-> IF q = p THEN r
                               ELSE IF q \in others THEN [proc[q] EXCEPT !.met = @ \cup {p}] ELSE proc[q]]
  BY <1>2, <1>3 DEF Start
<1>7. ASSUME NEW q \in Procs PROVE Sound(proc'[q], Credit)
  <2>1. PICK old, met : old = proc[q] /\ met = proc[q].met \cup {p}
    OBVIOUS
  <2>2. Sound(old, Credit)
    BY <2>1 DEF ProcInv
  <2>3. proc'[q] = r \/ proc'[q] = [old EXCEPT !.met = met] \/ proc'[q] = old
    BY <1>6, <2>1
  <2> QED
    BY <1>4, <1>5, <2>2, <2>3
<1>8. proc' = [q \in Procs |-> proc'[q]]
  BY <1>6
<1> QED
  BY <1>1, <1>7, <1>8 DEF ProcInv

---------------------------------------------------------------------------
(* Who has met whom                                                        *)

\* Two requests in flight have met.
AllMet == \A p, q \in Procs : p # q /\ Active(p) /\ Active(q) => q \in proc[p].met
\* Result rows are of requests that have started; those a request about to
\* insert finds in the table are its own or of requests it has met.
Writers == \A r \in results : r.by \in Procs /\ proc[r.by].pc # "idle"
Inserting ==
    \A p \in Procs : \A r \in results :
        proc[p].pc = "insert" /\ r.by # p => r.by \in proc[p].met /\ p \in proc[r.by].met
MetInv == AllMet /\ Writers /\ Inserting /\ ResultsOfOneExam

\* The steps of one request leave everybody's meetings as they are.
LEMMA MeetingsKept ==
    ASSUME ProcInv, NEW p \in Procs, NEW r, Becomes(p, r)
    PROVE  /\ \A q \in Procs : proc'[q].met = proc[q].met
           /\ proc'[p].pc = r.pc /\ \A q \in Procs \ {p} : proc'[q].pc = proc[q].pc
<1>1. proc'[p] = r /\ \A q \in Procs \ {p} : proc'[q] = proc[q]
  BY DEF Becomes, ProcInv
<1> QED
  BY <1>1 DEF Becomes

LEMMA MovesMet ==
    ASSUME ProcInv, MetInv, NEW p \in Procs, Active(p), Moves(p),
           \A r \in results' : r \in results \/ (r.by = p /\ proc[p].pc = "insert")
    PROVE  MetInv'
<1>1. PICK r : Becomes(p, r) /\ r.pc # "insert" /\ r.pc # "idle"
  BY DEF Moves, Becomes
<1>2. /\ \A q \in Procs : proc'[q].met = proc[q].met
      /\ proc'[p].pc = r.pc /\ \A q \in Procs \ {p} : proc'[q].pc = proc[q].pc
  BY <1>1, MeetingsKept
<1>3. AllMet'
  BY <1>2 DEF MetInv, AllMet, Active
<1>4. Writers'
  BY <1>1, <1>2 DEF MetInv, Writers
<1>5. Inserting'
  <2> SUFFICES ASSUME NEW q \in Procs, NEW x \in results', proc'[q].pc = "insert", x.by # q
               PROVE  x.by \in proc'[q].met /\ q \in proc'[x.by].met
    BY DEF Inserting
  <2>1. q # p /\ proc[q].pc = "insert" /\ x.by \in Procs
    BY <1>1, <1>2 DEF MetInv, Writers
  <2>2. CASE x \in results
    BY <1>2, <2>1, <2>2 DEF MetInv, Inserting
  <2>3. CASE x.by = p
    BY <1>2, <2>1, <2>3 DEF MetInv, AllMet, Active, Ended
  <2> QED
    BY <2>2, <2>3
<1>6. ResultsOfOneExam'
  <2> SUFFICES ASSUME NEW x \in results', NEW y \in results', x.by # y.by
               PROVE  y.by \in proc'[x.by].met
    BY DEF ResultsOfOneExam
  <2>1. x.by \in Procs /\ y.by \in Procs
    BY DEF MetInv, Writers
  <2>2. y.by \in proc[x.by].met
    <3>1. CASE x \in results /\ y \in results
      BY <3>1 DEF MetInv, ResultsOfOneExam
    <3>2. CASE x \in results /\ y.by = p /\ proc[p].pc = "insert"
      BY <3>2 DEF MetInv, Inserting
    <3>3. CASE y \in results /\ x.by = p /\ proc[p].pc = "insert"
      BY <3>3 DEF MetInv, Inserting
    <3> QED
      BY <3>1, <3>2, <3>3
  <2> QED
    BY <1>2, <2>1, <2>2
<1> QED
  BY <1>3, <1>4, <1>5, <1>6 DEF MetInv

\* The wipe leaves nothing to mix with.
LEMMA WipeMet ==
    ASSUME ProcInv, MetInv, NEW p \in Procs, Active(p), MovesTo(p, "insert"), results' = {}
    PROVE  MetInv'
<1>1. PICK r : Becomes(p, r)
  BY DEF MovesTo
<1>2. /\ \A q \in Procs : proc'[q].met = proc[q].met
      /\ \A q \in Procs \ {p} : proc'[q].pc = proc[q].pc
  BY <1>1, MeetingsKept
<1>3. AllMet'
  BY <1>2 DEF MetInv, AllMet, Active
<1> QED
  BY <1>3 DEF MetInv, Writers, Inserting, ResultsOfOneExam

\* A request that starts meets everybody in flight and has written nothing.
LEMMA StartMet ==
    ASSUME ProcInv, MetInv, NEW p \in Procs, proc[p].pc = "idle", NEW kind, NEW pc, NEW marks,
           NEW size, pc \notin {"idle", "insert"}, UNCHANGED results, Start(p, kind, pc, marks, size)
    PROVE  MetInv'
<1>1. proc'[p].pc = pc /\ proc'[p].met = {q \in Procs \ {p} : Active(q)}
  BY DEF Start, Idle
<1>2. ASSUME NEW q \in Procs, q # p
      PROVE  /\ proc'[q].pc = proc[q].pc
             /\ Active(q) => proc'[q].met = proc[q].met \cup {p}
             /\ proc[q].met \subseteq proc'[q].met
  <2>1. PICK old : old = proc[q]
    OBVIOUS
  <2>2. IsProc(old)
    BY <2>1 DEF ProcInv, Sound
  <2>3. PICK new : new = [old EXCEPT !.met = @ \cup {p}]
    OBVIOUS
  <2>4. new.pc = old.pc /\ new.met = old.met \cup {p}
    BY <2>2, <2>3 DEF IsProc
  <2>5. proc'[q] = IF Active(q) THEN new ELSE old
    BY <1>2, <2>1, <2>3 DEF Start
  <2> QED
    BY <2>1, <2>4, <2>5
<1>3. AllMet'
  BY <1>1, <1>2 DEF MetInv, AllMet, Active
<1>4. \A r \in results : r.by \in Procs /\ r.by # p
  BY DEF MetInv, Writers
<1>5. Writers'
  BY <1>2, <1>4 DEF MetInv, Writers
<1>6. Inserting'
  BY <1>1, <1>2, <1>4 DEF MetInv, Inserting
<1>7. ResultsOfOneExam'
  BY <1>2, <1>4 DEF MetInv, ResultsOfOneExam
<1> QED
  BY <1>3, <1>5, <1>6, <1>7 DEF MetInv

---------------------------------------------------------------------------
(* The invariant                                                           *)

FullInv == Inv /\ MetInv

\* A submission or an edit starts with a step other than idle or insert.
Starting(p) ==
    \E kind, pc, marks, size :
        Start(p, kind, pc, marks, size) /\ pc \in {"wipe", "ai", "write"}

LEMMA StartsStart ==
    ASSUME NEW p \in Procs, SubmitChoice(p) \/ SubmitFill(p) \/ EditTrainer(p)
    PROVE  /\ proc[p].pc = "idle" /\ Starting(p)
           /\ UNCHANGED <<trainer, results, passes, granted>> /\ UNCHANGED scores
<1>1. CASE SubmitChoice(p)
  BY <1>1 DEF SubmitChoice, Starting, ghosts
<1>2. CASE SubmitFill(p)
  <2>1. proc[p].pc = "idle" /\ UNCHANGED <<trainer, results, passes, granted>> /\ UNCHANGED scores
    BY <1>2 DEF SubmitFill, ghosts
  <2>2. PICK g : Start(p, "fill", "ai", FillMarks(trainer.words, g), Len(g))
    BY <1>2 DEF SubmitFill
  <2> QED
    BY <2>1, <2>2 DEF Starting
<1>3. CASE EditTrainer(p)
  BY <1>3 DEF EditTrainer, Starting, ghosts
<1> QED
  BY <1>1, <1>2, <1>3

\* What each step that goes on does to the result rows.
LEMMA ResultsChange ==
    ASSUME NEW p \in Procs, Fail(p) \/ Grade(p) \/ Master(p) \/ Conclude(p)
    PROVE  /\ Active(p)
           /\ \A r \in results' : r \in results \/ (r.by = p /\ proc[p].pc = "insert")
           /\ WipeResults(p) => results' = {}
<1>1. CASE Fail(p)
  BY <1>1 DEF Fail, Active, WipeResults
<1>2. CASE Grade(p)
  <2>1. CASE CallAi(p)
    BY <2>1 DEF CallAi, WipeResults, Active, Ended
  <2>2. CASE WipeResults(p)
    BY <2>2 DEF WipeResults, Active, Ended
  <2>3. CASE CreateResults(p)
    <3>1. proc[p].pc = "insert"
      BY <2>3 DEF CreateResults
    <3> DEFINE marks == proc[p].marks
               written == {[by |-> p, at |-> k, word |-> marks[k].word, ok |-> marks[k].ok] :
                               k \in DOMAIN marks}
    <3>2. results' = results \/ results' = results \cup written
      BY <2>3 DEF CreateResults
    <3>3. \A r \in written : r.by = p
      OBVIOUS
    <3> HIDE DEF written
    <3> QED
      BY <3>1, <3>2, <3>3 DEF WipeResults, Active, Ended
  <2> QED
    BY <1>2, <2>1, <2>2, <2>3 DEF Grade
<1>3. CASE Master(p)
  BY <1>3 DEF Master, FindMastery, CreateMastery, UpdateMastery, SaveHistory, InLoop, WipeResults,
              Active, Ended
<1>4. CASE Conclude(p)
  BY <1>4 DEF Conclude, CountPass, NotifyCompleted, CompleteTrainer, SyncTrainer,
              ScheduleNotification, WriteTrainer, WipeResults, Active, Ended
<1> QED
  BY <1>1, <1>2, <1>3, <1>4

LEMMA InitInv == Init => FullInv
<1> SUFFICES ASSUME Init PROVE FullInv
  OBVIOUS
<1>1. ProcInv
  <2>1. Credit \in Nat
    BY LimitAssumption DEF Init, Credit
  <2> QED
    BY <2>1, IdleSound DEF Init, ProcInv
<1>2. MasteryInv
  BY DEF Init, MasteryInv
<1>3. PassInv
  <2>1. passes = 0 /\ granted = StartRepeat /\ StartRepeat \in Nat /\ Credit = StartRepeat
    BY LimitAssumption DEF Init, Credit
  <2> QED
    BY <2>1 DEF Init, PassInv, IsTrainer, Covered
<1>4. MetInv
  BY DEF Init, MetInv, AllMet, Writers, Inserting, ResultsOfOneExam, Active, Idle
<1> QED
  BY <1>1, <1>2, <1>3, <1>4 DEF FullInv, Inv

\* A request or job goes on.
LEMMA ProgressInv ==
    ASSUME FullInv, NEW p \in Procs, Fail(p) \/ Grade(p) \/ Master(p) \/ Conclude(p)
    PROVE  FullInv'
<1>1. ProcInv /\ PassInv /\ MasteryInv /\ MetInv
  BY DEF FullInv, Inv
<1>2. /\ Moves(p) \/ (WipeResults(p) /\ MovesTo(p, "insert"))
      /\ PassInv' /\ MasteryInv' /\ Grows
  <2>1. CASE Fail(p)
    <3>1. UNCHANGED <<trainer, passes, granted>> /\ UNCHANGED scores
      BY <2>1 DEF Fail, ghosts
    <3>2. Moves(p)
      BY <1>1, <2>1, <3>1, AbortMoves, SamePasses DEF Fail
    <3> QED
      BY <1>1, <3>1, <3>2, SamePasses, SameMastery
  <2>2. CASE Grade(p)
    <3>1. UNCHANGED <<trainer, passes, granted>> /\ UNCHANGED scores
      BY <2>2 DEF Grade, CallAi, WipeResults, CreateResults, ghosts
    <3> QED
      BY <1>1, <2>2, <3>1, GradeMoves, SamePasses, SameMastery
  <2>3. CASE Master(p)
    <3>1. UNCHANGED <<trainer, passes, granted>>
      BY <2>3 DEF Master, FindMastery, CreateMastery, UpdateMastery, SaveHistory, ghosts
    <3> QED
      BY <1>1, <2>3, <3>1, MasterMoves, MasterWrites, SamePasses
  <2>4. CASE Conclude(p)
    <3>1. UNCHANGED scores
      BY <2>4 DEF Conclude, CountPass, NotifyCompleted, CompleteTrainer, SyncTrainer,
                  ScheduleNotification, WriteTrainer
    <3> QED
      BY <1>1, <2>4, <3>1, ConcludeMoves, SameMastery
  <2> QED
    BY <2>1, <2>2, <2>3, <2>4
<1>3. Inv'
  <2>1. \E r : Becomes(p, r)
    BY <1>2 DEF Moves, MovesTo
  <2> QED
    BY <1>2, <2>1, Kept DEF FullInv
<1>4. MetInv'
  BY <1>1, <1>2, ResultsChange, MovesMet, WipeMet
<1> QED
  BY <1>3, <1>4 DEF FullInv

\* A request starts, or the user deletes the trainer or a word.
LEMMA StartInv ==
    ASSUME FullInv, NEW p \in Procs, SubmitChoice(p) \/ SubmitFill(p) \/ EditTrainer(p)
    PROVE  FullInv'
<1>1. /\ proc[p].pc = "idle" /\ Starting(p)
      /\ UNCHANGED <<trainer, results, passes, granted>> /\ UNCHANGED scores
  BY StartsStart
<1>2. PICK kind, pc, marks, size :
          Start(p, kind, pc, marks, size) /\ pc \in {"wipe", "ai", "write"}
  BY <1>1 DEF Starting
<1>3. ProcInv'
  BY <1>1, <1>2, StartSound DEF FullInv, Inv
<1>4. MetInv'
  BY <1>1, <1>2, StartMet DEF FullInv, Inv
<1> QED
  BY <1>1, <1>3, <1>4, SamePasses, SameMastery DEF FullInv, Inv

LEMMA DeleteInv ==
    ASSUME FullInv, DeleteTrainer \/ \E w \in Words : DeleteWord(w)
    PROVE  FullInv'
<1>1. UNCHANGED <<proc, passes, granted>> /\ UNCHANGED Credit /\ results' \subseteq results
  BY DEF DeleteTrainer, DeleteWord, ghosts, Credit
<1>2. ProcInv'
  BY <1>1 DEF FullInv, Inv, ProcInv
<1>3. MetInv'
  BY <1>1 DEF FullInv, MetInv, AllMet, Writers, Inserting, ResultsOfOneExam, Active
<1>4. MasteryInv'
  <2>1. CASE DeleteTrainer
    BY <2>1, SameMastery DEF DeleteTrainer, FullInv, Inv
  <2>2. ASSUME NEW w \in Words, DeleteWord(w) PROVE MasteryInv'
    BY <2>2 DEF DeleteWord, FullInv, Inv, MasteryInv
  <2> QED
    BY <2>1, <2>2
<1>5. PassInv'
  BY <1>1 DEF DeleteTrainer, DeleteWord, FullInv, Inv, PassInv, IsTrainer
<1> QED
  BY <1>2, <1>3, <1>4, <1>5 DEF FullInv, Inv

LEMMA StepInv == FullInv /\ [Next]_vars => FullInv'
<1> SUFFICES ASSUME FullInv, [Next]_vars PROVE FullInv'
  OBVIOUS
<1>1. CASE UNCHANGED vars
  BY <1>1 DEF vars, scores, ghosts, FullInv, Inv, ProcInv, MasteryInv, PassInv, Credit, MetInv, AllMet,
              Writers, Inserting, ResultsOfOneExam, Active
<1>2. CASE Next
  BY <1>2, ProgressInv, StartInv, DeleteInv DEF Next
<1> QED
  BY <1>1, <1>2

THEOREM SpecInv == Spec => []FullInv
BY InitInv, StepInv, PTL DEF Spec

---------------------------------------------------------------------------

\* Whatever submissions overlap and whatever updates are lost, no mastery row
\* and no history row has a score above the right answers it counts.
THEOREM ScoreEarnedCorrect == Spec => []ScoreEarned
<1>1. FullInv => ScoreEarned
  BY DEF FullInv, Inv, MasteryInv, Earned, ScoreEarned
<1> QED
  BY <1>1, SpecInv, PTL

\* Whatever stale counts submissions and edits write back, the pass count is
\* covered by what the user has set it to and the passes graded since, and a
\* trainer is completed on MaxRepeat of them.
THEOREM PassesEarnedCorrect == Spec => []PassesEarned
<1>1. ASSUME FullInv PROVE PassesEarned
  <2>1. trainer.repeat <= granted + passes /\ granted + passes \in Nat
    BY <1>1 DEF FullInv, Inv, PassInv, Covered, Credit
  <2>2. \A p \in Procs : Ending(proc[p].pc, granted + passes)
    BY <1>1 DEF FullInv, Inv, ProcInv, Sound, Credit
  <2>3. \A p \in Procs : proc[p].pc \in {"notify", "remove"} => granted + passes >= MaxRepeat
    BY <2>1, <2>2, LimitAssumption DEF Ending
  <2> QED
    BY <2>1, <2>3 DEF PassesEarned
<1> QED
  BY <1>1, SpecInv, PTL

\* The result rows of two exams stand side by side only when their
\* submissions were in flight together.
THEOREM ResultsOfOneExamCorrect == Spec => []ResultsOfOneExam
<1>1. FullInv => ResultsOfOneExam
  BY DEF FullInv, MetInv
<1> QED
  BY <1>1, SpecInv, PTL

---------------------------------------------------------------------------
(* Answers are counted once                                                *)

\* A sequence of marks, and a place in it.
IsSeq(m) == Len(m) \in Nat /\ DOMAIN m = 1..Len(m)
Placed(r) == IsSeq(r.marks) /\ r.i \in Nat \ {0}

Loop == {"find", "create", "update", "history"}
\* The answers to word w that the request r has still to count.
Left(r, w) ==
    {k \in DOMAIN r.marks : r.marks[k].word = w /\ IF r.pc = "history" THEN r.i < k ELSE r.i <= k}
Pending(w) == {x \in Procs \X Nat : x[2] \in Left(proc[x[1]], w)}

\* The answers a row counts, and those still to be counted, were submitted, or are
\* counted again by a job that is repeated.
Due(w) == asked[w] + again[w]
Counted(row) == row.correct + row.incorrect
Fits(w, row) == Counted(row) + Cardinality(Pending(w)) <= Due(w)
Fitting(w, row) == Counted(row) + Cardinality(Pending(w)') <= Due(w)'   \* ... after a step
Updates(r, w) == r.pc = "update" /\ r.marks[r.i].word = w
WordInv(w) ==
    /\ IsFiniteSet(Pending(w)) /\ Due(w) \in Nat /\ Cardinality(Pending(w)) <= Due(w)
    /\ mastery[w] # NoMastery => Fits(w, mastery[w])
    /\ \A p \in Procs : Updates(proc[p], w) => Fits(w, proc[p].row)
CountInv ==
    /\ trainer.words \in Assignments
    /\ asked \in [Words -> Nat] /\ again \in [Words -> Nat]
    /\ \A p \in Procs : Placed(proc[p])
    /\ \A w \in Words : WordInv(w)

LEMMA MadeSeq == ASSUME NEW n \in Nat, NEW m, m = [k \in 1..n |-> m[k]] PROVE IsSeq(m) /\ Len(m) = n
<1>1. PICK S : S = {m[k] : k \in 1..n}
  OBVIOUS
<1>2. m \in [1..n -> S]
  BY <1>1
<1>3. m \in Seq(S)
  BY <1>2, SeqDef
<1>4. DOMAIN m = 1..n
  BY <1>2
<1>5. Len(m) \in Nat /\ DOMAIN m = 1..Len(m)
  BY <1>3, LenProperties
<1>6. Len(m) = n
  BY <1>4, <1>5
<1> QED
  BY <1>5, <1>6 DEF IsSeq

LEMMA IdlePlaced == Placed(Idle) /\ Idle.pc = "idle"
<1>1. IsSeq(<<>>)
  BY DEF IsSeq
<1> QED
  BY <1>1 DEF Placed, Idle

\* The invariant of a word after a step, conjunct by conjunct.
LEMMA Regained ==
    ASSUME NEW w \in Words, IsFiniteSet(Pending(w)'), Due(w)' \in Nat,
           Cardinality(Pending(w)') <= Due(w)',
           mastery'[w] # NoMastery => Fitting(w, mastery'[w]),
           \A p \in Procs : Updates(proc'[p], w) => Fitting(w, proc'[p].row)
    PROVE  WordInv(w)'
BY DEF WordInv, Fits, Fitting, Counted, Updates

\* Nothing more is pending, and rows are read, made or forgotten.
LEMMA FewerPending ==
    ASSUME NEW w \in Words, WordInv(w), Pending(w)' \subseteq Pending(w), UNCHANGED Due(w)
    PROVE  /\ IsFiniteSet(Pending(w)') /\ Due(w)' \in Nat
           /\ Cardinality(Pending(w)') \in Nat /\ Cardinality(Pending(w)) \in Nat
           /\ Cardinality(Pending(w)') <= Cardinality(Pending(w))
<1>1. IsFiniteSet(Pending(w)) /\ Pending(w)' \in SUBSET Pending(w)
  BY DEF WordInv
<1> QED
  BY <1>1, FS_Subset, FS_CardinalityType DEF WordInv

LEMMA StillFits ==
    ASSUME NEW w \in Words, WordInv(w), Pending(w)' \subseteq Pending(w), UNCHANGED Due(w),
           NEW row \in Rows, Fits(w, row)
    PROVE  Fitting(w, row)
<1>1. Counted(row) \in Nat
  BY DEF Rows, Counted
<1>2. PICK n, a, b, c : /\ n = Counted(row) /\ a = Cardinality(Pending(w)')
                        /\ b = Cardinality(Pending(w)) /\ c = Due(w)
  OBVIOUS
<1>3. n \in Nat /\ a \in Nat /\ b \in Nat /\ c \in Nat /\ a <= b /\ n + b <= c
  BY <1>1, <1>2, FewerPending DEF Fits
<1>4. n + a <= c
  BY <1>3
<1> QED
  BY <1>2, <1>4 DEF Fitting

Puts(p, r) == proc' = [proc EXCEPT ![p] = r]

LEMMA PutOne ==
    ASSUME ProcInv, NEW p \in Procs, NEW r, Puts(p, r)
    PROVE  /\ proc'[p] = r /\ \A q \in Procs \ {p} : proc'[q] = proc[q]
           /\ \A w : Left(r, w) \subseteq Left(proc[p], w) => Pending(w)' \subseteq Pending(w)
<1>1. proc'[p] = r /\ \A q \in Procs \ {p} : proc'[q] = proc[q]
  BY DEF Puts, ProcInv
<1>2. ASSUME NEW w, Left(r, w) \subseteq Left(proc[p], w), NEW x \in Pending(w)'
      PROVE  x \in Pending(w)
  <2>1. x \in Procs \X Nat /\ x[2] \in Left(proc'[x[1]], w)
    BY <1>2 DEF Pending
  <2>2. x[2] \in Left(proc[x[1]], w)
    BY <1>1, <1>2, <2>1
  <2> QED
    BY <2>1, <2>2 DEF Pending
<1> QED
  BY <1>1, <1>2

\* One request moves, counting no answer.
LEMMA WordKept ==
    ASSUME FullInv, CountInv, NEW p \in Procs, NEW r, Puts(p, r), NEW w \in Words,
           UNCHANGED Due(w), Left(r, w) \subseteq Left(proc[p], w),
           r.row \in Rows, Updates(r, w) => Fits(w, r.row),
           mastery'[w] \in {mastery[w], NoMastery, FreshRow}
    PROVE  WordInv(w)'
<1>1. /\ proc'[p] = r /\ \A q \in Procs \ {p} : proc'[q] = proc[q]
      /\ Pending(w)' \subseteq Pending(w)
  BY PutOne DEF FullInv, Inv
<1>2. WordInv(w)
  BY DEF CountInv
<1>3. /\ IsFiniteSet(Pending(w)') /\ Due(w)' \in Nat
      /\ Cardinality(Pending(w)') \in Nat /\ Cardinality(Pending(w)) \in Nat
      /\ Cardinality(Pending(w)') <= Cardinality(Pending(w))
  BY <1>1, <1>2, FewerPending
<1>4. \A row \in Rows : Fits(w, row) => Fitting(w, row)
  BY <1>1, <1>2, StillFits
<1>5. FreshRow \in Rows /\ Fits(w, FreshRow)
  <2>1. FreshRow \in Rows /\ Counted(FreshRow) = 0
    BY ScoreAssumption DEF FreshRow, Rows, Counted
  <2> QED
    BY <1>2, <1>3, <2>1 DEF Fits, WordInv
<1>6. ASSUME mastery'[w] # NoMastery PROVE Fitting(w, mastery'[w])
  <2>1. mastery[w] # NoMastery => mastery[w] \in Rows /\ Fits(w, mastery[w])
    BY <1>2 DEF FullInv, Inv, MasteryInv, WordInv
  <2> QED
    BY <1>4, <1>5, <1>6, <2>1
<1>7. ASSUME NEW q \in Procs, Updates(proc'[q], w) PROVE Fitting(w, proc'[q].row)
  <2>1. CASE q = p
    BY <1>1, <1>4, <1>7, <2>1
  <2>2. CASE q # p
    <3>1. Fits(w, proc[q].row) /\ proc[q].row \in Rows
      BY <1>1, <1>2, <1>7, <2>2 DEF WordInv, FullInv, Inv, ProcInv, Sound, Earned
    <3> QED
      BY <1>1, <1>4, <2>2, <3>1
  <2> QED
    BY <2>1, <2>2
<1>8. Cardinality(Pending(w)') <= Due(w)'
  BY <1>2, <1>3 DEF WordInv
<1> QED
  BY <1>3, <1>6, <1>7, <1>8, Regained

---------------------------------------------------------------------------
(* The places a request goes to                                            *)

\* It leaves the loop, or has not reached it.
Off(p) == \E r : Puts(p, r) /\ Placed(r) /\ r.pc \notin Loop /\ r.row \in Rows
\* ... with no answer to count that it has counted.
Quiet(p) ==
    /\ \E r : /\ Puts(p, r) /\ Placed(r) /\ r.pc \notin Loop /\ r.row \in Rows
              /\ \A w : Left(r, w) \subseteq Left(proc[p], w)
    /\ UNCHANGED again
\* It goes on in the loop, with the marks it has.
On(p, pc, i, row) ==
    \E r : Puts(p, r) /\ r.pc = pc /\ r.i = i /\ r.row = row /\ r.marks = proc[p].marks

LEMMA ProcParts ==
    ASSUME FullInv, CountInv, NEW p \in Procs
    PROVE  IsProc(proc[p]) /\ Placed(proc[p]) /\ proc[p].row \in Rows
           /\ proc = [q \in Procs |-> proc[q]]
BY DEF FullInv, Inv, ProcInv, Sound, Earned, CountInv

LEMMA QuietOff == ASSUME NEW p \in Procs, Quiet(p) PROVE Off(p)
BY DEF Quiet, Off

LEMMA GotoOn ==
    ASSUME FullInv, CountInv, NEW p \in Procs, NEW pc, Goto(p, pc)
    PROVE  /\ On(p, pc, proc[p].i, proc[p].row) /\ UNCHANGED again
           /\ pc \notin Loop /\ proc[p].pc # "history" => Quiet(p)
<1>1. PICK old, r : old = proc[p] /\ r = [old EXCEPT !.pc = pc]
  OBVIOUS
<1>2. Puts(p, r)
  BY <1>1, ProcParts DEF Goto, Puts
<1>3. IsProc(old) /\ Placed(old) /\ old.row \in Rows
  BY <1>1, ProcParts
<1>4. r.pc = pc /\ r.i = old.i /\ r.row = old.row /\ r.marks = old.marks
  BY <1>1, <1>3 DEF IsProc
<1>5. Placed(r)
  BY <1>3, <1>4 DEF Placed
<1>6. ASSUME pc \notin Loop, old.pc # "history", NEW w PROVE Left(r, w) \subseteq Left(old, w)
  BY <1>4, <1>6 DEF Left, Loop
<1>7. UNCHANGED again
  BY DEF Goto
<1>8. On(p, pc, proc[p].i, proc[p].row)
  BY <1>1, <1>2, <1>4 DEF On
<1>9. ASSUME pc \notin Loop, proc[p].pc # "history" PROVE Quiet(p)
  <2>1. \A w : Left(r, w) \subseteq Left(proc[p], w)
    BY <1>1, <1>6, <1>9
  <2> QED
    BY <1>2, <1>3, <1>4, <1>5, <1>7, <1>9, <2>1 DEF Quiet
<1> QED
  BY <1>7, <1>8, <1>9

LEMMA FreshRowIs == FreshRow \in Rows
BY ScoreAssumption DEF FreshRow, Rows

LEMMA FinishOff ==
    ASSUME FullInv, CountInv, NEW p \in Procs, NEW pc \in Ended, Finish(p, pc)
    PROVE  Quiet(p)
<1>1. PICK met, r : met = proc[p].met /\ r = [Idle EXCEPT !.pc = pc, !.met = met]
  OBVIOUS
<1>2. Puts(p, r)
  BY <1>1 DEF Finish, Puts
<1>3. r.pc = pc /\ r.i = Idle.i /\ r.row = FreshRow /\ r.marks = Idle.marks
  BY <1>1 DEF Idle
<1>4. Placed(r) /\ \A w : Left(r, w) = {}
  BY <1>3, IdlePlaced DEF Placed, Left, Idle
<1>5. UNCHANGED again
  BY DEF Finish
<1> QED
  BY <1>2, <1>3, <1>4, <1>5, FreshRowIs DEF Quiet, Ended, Loop

LEMMA AbortOff ==
    ASSUME FullInv, CountInv, NEW p \in Procs, Abort(p)
    PROVE  Off(p)
<1>1. CASE Finish(p, "failed")
  BY <1>1, FinishOff, QuietOff DEF Ended
<1>2. CASE proc' = [proc EXCEPT ![p].pc = "ai", ![p].i = 1, ![p].row = FreshRow, ![p].attempt = @ + 1]
  <2>1. PICK old, n, r : /\ old = proc[p] /\ n = old.attempt + 1
                         /\ r = [old EXCEPT !.pc = "ai", !.i = 1, !.row = FreshRow, !.attempt = n]
    OBVIOUS
  <2>2. Puts(p, r)
    BY <1>2, <2>1, ProcParts DEF Puts
  <2>3. IsProc(old) /\ Placed(old)
    BY <2>1, ProcParts
  <2>4. r.pc = "ai" /\ r.i = 1 /\ r.row = FreshRow /\ r.marks = old.marks
    BY <2>1, <2>3 DEF IsProc
  <2>5. Placed(r)
    BY <2>3, <2>4 DEF Placed
  <2> QED
    BY <2>2, <2>4, <2>5, FreshRowIs DEF Off, Loop
<1> QED
  BY <1>1, <1>2 DEF Abort

LEMMA NextOn ==
    ASSUME FullInv, CountInv, NEW p \in Procs, NextResult(p)
    PROVE  On(p, "find", proc[p].i + 1, FreshRow) /\ UNCHANGED again
<1>1. PICK old, n, r : /\ old = proc[p] /\ n = old.i + 1
                       /\ r = [old EXCEPT !.pc = "find", !.i = n, !.row = FreshRow]
  OBVIOUS
<1>2. Puts(p, r)
  BY <1>1, ProcParts DEF NextResult, Puts
<1>3. IsProc(old)
  BY <1>1, ProcParts
<1>4. r.pc = "find" /\ r.i = n /\ r.row = FreshRow /\ r.marks = old.marks
  BY <1>1, <1>3 DEF IsProc
<1>5. UNCHANGED again
  BY DEF NextResult
<1> QED
  BY <1>1, <1>2, <1>4, <1>5 DEF On

LEMMA RowOn ==
    ASSUME FullInv, CountInv, NEW p \in Procs, NEW pc, NEW row, GotoWith(p, pc, row)
    PROVE  On(p, pc, proc[p].i, row) /\ UNCHANGED again
<1>1. PICK old, r : old = proc[p] /\ r = [old EXCEPT !.pc = pc, !.row = row]
  OBVIOUS
<1>2. Puts(p, r)
  BY <1>1, ProcParts DEF GotoWith, Puts
<1>3. IsProc(old)
  BY <1>1, ProcParts
<1>4. r.pc = pc /\ r.i = old.i /\ r.row = row /\ r.marks = old.marks
  BY <1>1, <1>3 DEF IsProc
<1>5. UNCHANGED again
  BY DEF GotoWith
<1> QED
  BY <1>1, <1>2, <1>4, <1>5 DEF On

LEMMA CallAiOff ==
    ASSUME FullInv, CountInv, NEW p \in Procs, CallAi(p)
    PROVE  Quiet(p)
<1>1. PICK verdict : proc' = [proc EXCEPT ![p].pc = "wipe",
                        ![p].marks = [k \in DOMAIN @ |-> [word |-> @[k].word, ok |-> verdict[k]]]]
  BY DEF CallAi
<1>2. PICK old, marks, r : /\ old = proc[p]
                           /\ marks = [k \in DOMAIN old.marks |-> [word |-> old.marks[k].word, ok |-> verdict[k]]]
                           /\ r = [old EXCEPT !.pc = "wipe", !.marks = marks]
  OBVIOUS
<1>3. Puts(p, r)
  BY <1>1, <1>2, ProcParts DEF Puts
<1>4. IsProc(old) /\ Placed(old) /\ old.row \in Rows
  BY <1>2, ProcParts
<1>5. r.pc = "wipe" /\ r.i = old.i /\ r.row = old.row /\ r.marks = marks
  BY <1>2, <1>4 DEF IsProc
<1>6. IsSeq(marks)
  <2>1. PICK n \in Nat : DOMAIN old.marks = 1..n
    BY <1>4 DEF Placed, IsSeq
  <2>2. marks = [k \in 1..n |-> marks[k]]
    BY <1>2, <2>1
  <2> QED
    BY <2>2, MadeSeq
<1>7. Placed(r)
  BY <1>4, <1>5, <1>6 DEF Placed
<1>8. ASSUME NEW w PROVE Left(r, w) \subseteq Left(old, w)
  <2>1. old.pc = "ai" /\ UNCHANGED again
    BY <1>2 DEF CallAi
  <2>2. DOMAIN marks = DOMAIN old.marks /\ \A k \in DOMAIN marks : marks[k].word = old.marks[k].word
    BY <1>2
  <2> QED
    BY <1>5, <2>1, <2>2 DEF Left
<1>9. UNCHANGED again
  BY DEF CallAi
<1> QED
  BY <1>2, <1>3, <1>4, <1>5, <1>7, <1>8, <1>9 DEF Quiet, Loop

LEMMA CountOff ==
    ASSUME FullInv, CountInv, NEW p \in Procs, CountPass(p)
    PROVE  Quiet(p) \/ Abort(p)
<1>1. ASSUME NEW pc \in {"notify", "sync"}, NEW count, UNCHANGED again, proc[p].pc = "find",
             proc' = [proc EXCEPT ![p].pc = pc, ![p].repeat = count]
      PROVE  Quiet(p)
  <2>1. PICK old, r : old = proc[p] /\ r = [old EXCEPT !.pc = pc, !.repeat = count]
    OBVIOUS
  <2>2. Puts(p, r)
    BY <1>1, <2>1, ProcParts DEF Puts
  <2>3. IsProc(old) /\ Placed(old) /\ old.row \in Rows
    BY <2>1, ProcParts
  <2>4. r.pc = pc /\ r.i = old.i /\ r.row = old.row /\ r.marks = old.marks
    BY <2>1, <2>3 DEF IsProc
  <2>5. Placed(r)
    BY <2>3, <2>4 DEF Placed
  <2>6. \A w : Left(r, w) \subseteq Left(old, w)
    BY <1>1, <2>1, <2>4 DEF Left
  <2> QED
    BY <1>1, <2>1, <2>2, <2>3, <2>4, <2>5, <2>6 DEF Quiet, Loop
<1>2. Abort(p) \/ \E pc \in {"notify", "sync"} : \E count :
                    proc' = [proc EXCEPT ![p].pc = pc, ![p].repeat = count] /\ UNCHANGED again
  <2> DEFINE read == IF proc[p].kind = "fill" THEN trainer.repeat ELSE proc[p].repeat
             count == IF Passed(p) THEN read + 1 ELSE read
             pc == IF count >= MaxRepeat THEN "notify" ELSE "sync"
  <2>1. Abort(p) \/ (proc' = [proc EXCEPT ![p].pc = pc, ![p].repeat = count] /\ UNCHANGED again)
    BY DEF CountPass
  <2>2. pc \in {"notify", "sync"}
    OBVIOUS
  <2> HIDE DEF count, pc
  <2> QED
    BY <2>1, <2>2
<1>3. proc[p].pc = "find"
  BY DEF CountPass
<1> QED
  BY <1>1, <1>2, <1>3

LEMMA GradeOff ==
    ASSUME FullInv, CountInv, NEW p \in Procs, Grade(p)
    PROVE  Off(p) \/ On(p, "find", proc[p].i, proc[p].row)
<1>1. CASE CallAi(p)
  BY <1>1, CallAiOff, QuietOff
<1>2. CASE WipeResults(p)
  BY <1>2, GotoOn, QuietOff DEF WipeResults, Loop
<1>3. CASE CreateResults(p)
  BY <1>3, GotoOn, AbortOff DEF CreateResults
<1> QED
  BY <1>1, <1>2, <1>3 DEF Grade

LEMMA ConcludeQuiet ==
    ASSUME FullInv, CountInv, NEW p \in Procs, Conclude(p)
    PROVE  Quiet(p) \/ Abort(p)
<1>1. CASE CountPass(p)
  BY <1>1, CountOff
<1>2. CASE NotifyCompleted(p)
  BY <1>2, GotoOn DEF NotifyCompleted, Loop
<1>3. CASE CompleteTrainer(p) \/ ScheduleNotification(p) \/ WriteTrainer(p)
  BY <1>3, FinishOff DEF CompleteTrainer, ScheduleNotification, WriteTrainer, Ended
<1>4. CASE SyncTrainer(p)
  BY <1>4, GotoOn DEF SyncTrainer, Loop
<1> QED
  BY <1>1, <1>2, <1>3, <1>4 DEF Conclude

LEMMA ConcludeOff == ASSUME FullInv, CountInv, NEW p \in Procs, Conclude(p) PROVE Off(p)
BY ConcludeQuiet, QuietOff, AbortOff

---------------------------------------------------------------------------
(* More is pending: answers are submitted, or a job is repeated            *)

Alike(r, s) == r.pc = s.pc /\ r.marks = s.marks /\ r.i = s.i /\ r.row = s.row

LEMMA BothSets ==
    ASSUME NEW S, NEW T, IsFiniteSet(S), IsFiniteSet(T)
    PROVE  IsFiniteSet(S \cup T) /\ Cardinality(S \cup T) <= Cardinality(S) + Cardinality(T)
<1>1. PICK s, t, u : s = Cardinality(S) /\ t = Cardinality(T) /\ u = Cardinality(S \cap T)
  OBVIOUS
<1>2. s \in Nat /\ t \in Nat /\ u \in Nat
  <2>1. (S \cap T) \in SUBSET S
    OBVIOUS
  <2> QED
    BY <1>1, <2>1, FS_Subset, FS_CardinalityType
<1>3. IsFiniteSet(S \cup T) /\ Cardinality(S \cup T) = s + t - u
  BY <1>1, FS_Union
<1> QED
  BY <1>1, <1>2, <1>3

LEMMA GradedCounts ==
    ASSUME NEW row \in Rows, NEW ok
    PROVE  Counted(row) \in Nat /\ Counted(Graded(row, ok)) = Counted(row) + 1
BY DEF Rows, Graded, Counted

LEMMA MarksOfWord ==
    ASSUME NEW marks, IsSeq(marks), NEW w, NEW K, K \subseteq AnswersTo(w, marks)
    PROVE  IsFiniteSet(K) /\ Cardinality(K) \in Nat
<1>1. PICK n \in Nat : DOMAIN marks = 1..n
  BY DEF IsSeq
<1>2. K \in SUBSET (1..n) /\ IsFiniteSet(1..n)
  BY <1>1, FS_Interval DEF AnswersTo
<1> QED
  BY <1>2, FS_Subset, FS_CardinalityType

\* As many answers become pending as are due from now on.
LEMMA WordMore ==
    ASSUME FullInv, CountInv, NEW p \in Procs, NEW w \in Words, NEW K,
           Left(proc'[p], w) \subseteq Left(proc[p], w) \cup K,
           IsFiniteSet(K), Cardinality(K) \in Nat, Due(w)' = Due(w) + Cardinality(K),
           ~Updates(proc'[p], w), \A q \in Procs \ {p} : Alike(proc'[q], proc[q]),
           UNCHANGED mastery
    PROVE  WordInv(w)'
<1>2. WordInv(w)
  BY DEF CountInv
<1>3. Pending(w)' \subseteq Pending(w) \cup ({p} \X K)
  <2>1. ASSUME NEW x \in Pending(w)' PROVE x \in Pending(w) \cup ({p} \X K)
    <3>1. x \in Procs \X Nat /\ x[2] \in Left(proc'[x[1]], w)
      BY <2>1 DEF Pending
    <3>2. CASE x[1] = p
      <4>1. x[2] \in Left(proc[p], w) \/ x[2] \in K
        BY <3>1, <3>2
      <4> QED
        BY <3>1, <3>2, <4>1 DEF Pending
    <3>3. CASE x[1] # p
      <4>1. x[1] \in Procs /\ Alike(proc'[x[1]], proc[x[1]])
        BY <3>1, <3>3
      <4>2. x[2] \in Left(proc[x[1]], w)
        BY <3>1, <4>1 DEF Left, Alike
      <4> QED
        BY <3>1, <4>2 DEF Pending
    <3> QED
      BY <3>2, <3>3
  <2> QED
    BY <2>1
<1>5. PICK old, P, n, m, k, a :
        /\ old = Pending(w) /\ P = Pending(w)' /\ n = Cardinality(old) /\ m = Cardinality(P)
        /\ k = Cardinality(K) /\ a = Due(w)
  OBVIOUS
<1>6. IsFiniteSet(old) /\ n \in Nat /\ a \in Nat /\ n <= a
  BY <1>2, <1>5, FS_CardinalityType DEF WordInv
<1>7. IsFiniteSet(P) /\ m \in Nat /\ m <= n + k
  <2> PICK new : new = {p} \X K
    OBVIOUS
  <2>1. IsFiniteSet(new) /\ Cardinality(new) = k
    <3>1. PICK one : one = {p} /\ IsFiniteSet(one) /\ Cardinality(one) = 1
      BY FS_Singleton
    <3>2. IsFiniteSet(one \X K) /\ Cardinality(one \X K) = 1 * k
      BY <1>5, <3>1, FS_Product
    <3> QED
      BY <1>5, <3>1, <3>2
  <2>2. IsFiniteSet(old \cup new) /\ Cardinality(old \cup new) <= n + k
    BY <1>5, <1>6, <2>1, BothSets
  <2>3. P \in SUBSET (old \cup new)
    BY <1>3, <1>5
  <2>4. IsFiniteSet(P) /\ m \in Nat /\ Cardinality(old \cup new) \in Nat
        /\ m <= Cardinality(old \cup new)
    BY <1>5, <2>2, <2>3, FS_Subset, FS_CardinalityType
  <2> QED
    BY <1>5, <1>6, <2>2, <2>4
<1>8. Due(w)' = a + k /\ k \in Nat /\ m <= a + k
  BY <1>5, <1>6, <1>7
<1>9. \A row \in Rows : Fits(w, row) => Fitting(w, row)
  <2>1. ASSUME NEW row \in Rows, Fits(w, row) PROVE Fitting(w, row)
    <3>1. PICK c : c = Counted(row)
      OBVIOUS
    <3>2. c \in Nat /\ c + n <= a
      BY <1>5, <2>1, <3>1, GradedCounts DEF Fits
    <3>3. c + m <= a + k
      BY <1>6, <1>7, <1>8, <3>2
    <3> QED
      BY <1>5, <1>8, <3>1, <3>3 DEF Fitting
  <2> QED
    BY <2>1
<1>10. mastery'[w] # NoMastery => Fitting(w, mastery'[w])
  BY <1>2, <1>9 DEF FullInv, Inv, MasteryInv, WordInv
<1>11. ASSUME NEW q \in Procs, Updates(proc'[q], w) PROVE Fitting(w, proc'[q].row)
  <2>1. q # p /\ Alike(proc'[q], proc[q])
    BY <1>11
  <2>2. Updates(proc[q], w) /\ proc[q].row \in Rows /\ proc'[q].row = proc[q].row
    BY <1>11, <2>1, ProcParts DEF Updates, Alike
  <2> QED
    BY <1>2, <1>9, <2>2 DEF WordInv
<1>12. Due(w)' \in Nat
  BY <1>6, <1>8
<1> QED
  BY <1>5, <1>7, <1>8, <1>10, <1>11, <1>12, Regained

LEMMA DueMore ==
    ASSUME CountInv, NEW w \in Words, NEW n \in Nat, NEW m \in Nat,
           asked'[w] = asked[w] + n, again'[w] = again[w] + m
    PROVE  Due(w)' = Due(w) + n + m
<1>1. asked[w] \in Nat /\ again[w] \in Nat
  BY DEF CountInv
<1> QED
  BY <1>1 DEF Due

---------------------------------------------------------------------------
(* The steps                                                               *)

LEMMA QuietCounts ==
    ASSUME FullInv, CountInv, NEW p \in Procs, Quiet(p), UNCHANGED <<mastery, asked>>,
           trainer'.words \in Assignments
    PROVE  CountInv'
<1>1. PICK r : /\ Puts(p, r) /\ Placed(r) /\ r.pc \notin Loop /\ r.row \in Rows
               /\ \A w : Left(r, w) \subseteq Left(proc[p], w)
  BY DEF Quiet
<1>2. UNCHANGED again
  BY DEF Quiet
<1>3. ASSUME NEW w \in Words PROVE WordInv(w)'
  <2>1. UNCHANGED Due(w) /\ ~Updates(r, w) /\ mastery'[w] = mastery[w]
    BY <1>1, <1>2 DEF Due, Updates, Loop
  <2> QED
    BY <1>1, <2>1, WordKept
<1>4. proc'[p] = r /\ \A q \in Procs \ {p} : proc'[q] = proc[q]
  BY <1>1, PutOne DEF FullInv, Inv
<1>5. UNCHANGED <<asked, again>>
  BY <1>2
<1> QED
  BY <1>1, <1>3, <1>4, <1>5 DEF CountInv

\* An attempt that fails is repeated with the answers it has counted to count again.
LEMMA AbortCounts ==
    ASSUME FullInv, CountInv, NEW p \in Procs, Abort(p), UNCHANGED <<mastery, asked>>,
           trainer'.words \in Assignments
    PROVE  CountInv'
<1>1. CASE Finish(p, "failed")
  BY <1>1, FinishOff, QuietCounts DEF Ended
<1>2. CASE /\ proc' = [proc EXCEPT ![p].pc = "ai", ![p].i = 1, ![p].row = FreshRow, ![p].attempt = @ + 1]
           /\ again' = [w \in Words |-> again[w] + Cardinality(CountedBy(p, w))]
  <2>1. PICK old, n, r : /\ old = proc[p] /\ n = old.attempt + 1
                         /\ r = [old EXCEPT !.pc = "ai", !.i = 1, !.row = FreshRow, !.attempt = n]
    OBVIOUS
  <2>2. Puts(p, r)
    BY <1>2, <2>1, ProcParts DEF Puts
  <2>3. IsProc(old) /\ Placed(old)
    BY <2>1, ProcParts
  <2>4. r.pc = "ai" /\ r.i = 1 /\ r.row = FreshRow /\ r.marks = old.marks
    BY <2>1, <2>3 DEF IsProc
  <2>5. Placed(r)
    BY <2>3, <2>4 DEF Placed
  <2>6. proc'[p] = r /\ \A q \in Procs \ {p} : proc'[q] = proc[q]
    BY <2>2, PutOne DEF FullInv, Inv
  <2>7. ASSUME NEW w \in Words
        PROVE  IsFiniteSet(CountedBy(p, w)) /\ Cardinality(CountedBy(p, w)) \in Nat
    <3>1. CountedBy(p, w) \subseteq AnswersTo(w, old.marks) /\ IsSeq(old.marks)
      BY <2>1, <2>3 DEF CountedBy, Placed
    <3> QED
      BY <3>1, MarksOfWord
  <2>8. ASSUME NEW w \in Words PROVE WordInv(w)'
    <3>1. Left(r, w) \subseteq Left(proc[p], w) \cup CountedBy(p, w)
      <4>1. ASSUME NEW k \in Left(r, w) PROVE k \in Left(old, w) \cup CountedBy(p, w)
        <5>1. k \in DOMAIN old.marks /\ old.marks[k].word = w
          BY <2>4, <4>1 DEF Left
        <5>2. k \in Nat /\ old.i \in Nat
          BY <2>3, <5>1 DEF Placed, IsSeq
        <5>3. \/ IF old.pc = "history" THEN old.i < k ELSE old.i <= k
              \/ IF old.pc = "history" THEN k <= old.i ELSE k < old.i
          BY <5>2
        <5> QED
          BY <2>1, <5>1, <5>3 DEF Left, CountedBy, AnswersTo
      <4> QED
        BY <2>1, <4>1
    <3>2. ~Updates(proc'[p], w)
      BY <2>4, <2>6 DEF Updates
    <3>3. Due(w)' = Due(w) + Cardinality(CountedBy(p, w))
      <4>1. asked'[w] = asked[w] + 0 /\ again'[w] = again[w] + Cardinality(CountedBy(p, w))
        BY <1>2 DEF CountInv
      <4>2. PICK m : m = Cardinality(CountedBy(p, w)) /\ m \in Nat
        BY <2>7
      <4>3. Due(w)' = Due(w) + 0 + m
        BY <4>1, <4>2, DueMore
      <4>4. Due(w) \in Nat
        BY DEF CountInv, WordInv
      <4> QED
        BY <4>2, <4>3, <4>4
    <3>4. \A q \in Procs \ {p} : Alike(proc'[q], proc[q])
      BY <2>6 DEF Alike
    <3>5. PICK K : K = CountedBy(p, w)
      OBVIOUS
    <3> QED
      BY <2>6, <2>7, <3>1, <3>2, <3>3, <3>4, <3>5, WordMore
  <2>9. asked' \in [Words -> Nat] /\ again' \in [Words -> Nat]
    <3>1. ASSUME NEW w \in Words PROVE again[w] + Cardinality(CountedBy(p, w)) \in Nat
      <4>1. PICK m, a : m = Cardinality(CountedBy(p, w)) /\ a = again[w] /\ m \in Nat /\ a \in Nat
        BY <2>7 DEF CountInv
      <4> QED
        BY <4>1
    <3>2. asked' \in [Words -> Nat]
      BY DEF CountInv
    <3> QED
      BY <1>2, <3>1, <3>2
  <2> QED
    BY <2>5, <2>6, <2>8, <2>9 DEF CountInv
<1> QED
  BY <1>1, <1>2 DEF Abort

LEMMA GradeCounts ==
    ASSUME FullInv, CountInv, NEW p \in Procs, CallAi(p) \/ WipeResults(p)
    PROVE  CountInv'
<1>1. UNCHANGED <<mastery, asked, trainer>>
  BY DEF CallAi, WipeResults, scores, ghosts
<1>2. Quiet(p)
  BY CallAiOff, GotoOn DEF WipeResults, Loop
<1> QED
  BY <1>1, <1>2, QuietCounts DEF CountInv

LEMMA WrittenWords ==
    ASSUME FullInv, CountInv, NEW p \in Procs, Conclude(p)
    PROVE  trainer'.words \in Assignments
<1>1. PICK old, m : old = trainer /\ m = proc[p].repeat
  OBVIOUS
<1>2. IsTrainer(old) /\ old.words \in Assignments
  BY <1>1 DEF FullInv, Inv, PassInv, CountInv
<1>3. \/ trainer' = old \/ trainer' = [old EXCEPT !.alive = FALSE]
      \/ trainer' = [old EXCEPT !.repeat = m]
      \/ \E ws \in Assignments \cup {old.words}, n \in Repeats \cup {m} :
             trainer' = [old EXCEPT !.repeat = n, !.words = ws]
  BY <1>1 DEF Conclude, CountPass, NotifyCompleted, CompleteTrainer, SyncTrainer,
       ScheduleNotification, WriteTrainer
<1> QED
  BY <1>2, <1>3 DEF IsTrainer

LEMMA ConcludeCounts ==
    ASSUME FullInv, CountInv, NEW p \in Procs, Conclude(p)
    PROVE  CountInv'
<1>1. UNCHANGED <<mastery, asked>>
  BY DEF Conclude, CountPass, NotifyCompleted, CompleteTrainer, SyncTrainer,
     ScheduleNotification, WriteTrainer, scores, ghosts
<1> QED
  BY <1>1, ConcludeQuiet, WrittenWords, QuietCounts, AbortCounts

---------------------------------------------------------------------------
(* The loop over the results                                               *)

\* Each mark still to come is one the request had still to come.
LEMMA LeftShrinks ==
    ASSUME NEW old, Placed(old), NEW r, r.marks = old.marks, NEW w,
           \/ old.pc # "history" /\ r.pc # "history" /\ r.i \in {old.i, old.i + 1}
           \/ old.pc = "history" /\ r.pc # "history" /\ r.i = old.i + 1
           \/ old.pc # "history" /\ r.pc = "history" /\ r.i = old.i
    PROVE  Left(r, w) \subseteq Left(old, w)
<1>1. old.i \in Nat /\ DOMAIN old.marks \subseteq Nat
  BY DEF Placed, IsSeq
<1>2. ASSUME NEW k \in Left(r, w) PROVE k \in Left(old, w)
  <2>1. k \in DOMAIN old.marks /\ k \in Nat /\ old.marks[k].word = w
    BY <1>1, <1>2 DEF Left
  <2>2. r.pc # "history" => r.i <= k
    BY <1>2 DEF Left
  <2>3. r.pc = "history" => r.i < k
    BY <1>2 DEF Left
  <2> QED
    BY <1>1, <2>1, <2>2, <2>3 DEF Left
<1> QED
  BY <1>2

\* A request goes on in the loop and counts no answer.
LEMMA OnCounts ==
    ASSUME FullInv, CountInv, NEW p \in Procs, NEW pc \in {"find", "create", "update"}, NEW i,
           NEW row \in Rows, On(p, pc, i, row), UNCHANGED <<asked, again, trainer>>,
           \/ proc[p].pc # "history" /\ i \in {proc[p].i, proc[p].i + 1}
           \/ proc[p].pc = "history" /\ i = proc[p].i + 1,
           \A w \in Words : pc = "update" /\ proc[p].marks[i].word = w => Fits(w, row),
           \A w \in Words : mastery'[w] \in {mastery[w], NoMastery, FreshRow}
    PROVE  CountInv'
<1>1. PICK r : Puts(p, r) /\ r.pc = pc /\ r.i = i /\ r.row = row /\ r.marks = proc[p].marks
  BY DEF On
<1>2. Placed(proc[p]) /\ Placed(r)
  BY <1>1 DEF CountInv, Placed
<1>3. \A w : Left(r, w) \subseteq Left(proc[p], w)
  BY <1>1, <1>2, LeftShrinks
<1>4. \A w \in Words : Updates(r, w) => Fits(w, r.row)
  BY <1>1 DEF Updates
<1>5. ASSUME NEW w \in Words PROVE WordInv(w)'
  <2>1. UNCHANGED Due(w)
    BY DEF Due
  <2> QED
    BY <1>1, <1>3, <1>4, <2>1, WordKept
<1>6. proc'[p] = r /\ \A q \in Procs \ {p} : proc'[q] = proc[q]
  BY <1>1, PutOne DEF FullInv, Inv
<1> QED
  BY <1>2, <1>5, <1>6 DEF CountInv

LEMMA FindCounts ==
    ASSUME FullInv, CountInv, NEW p \in Procs, FindMastery(p)
    PROVE  CountInv'
<1>1. /\ proc[p].pc = "find" /\ UNCHANGED <<asked, trainer>>
      /\ \A w \in Words : mastery'[w] \in {mastery[w], NoMastery, FreshRow}
  BY DEF FindMastery, InLoop, scores, ghosts
<1>2. proc[p].row \in Rows
  BY ProcParts
<1>3. CASE NextResult(p)
  BY <1>1, <1>3, NextOn, OnCounts, FreshRowIs
<1>4. CASE Goto(p, "create")
  <2>1. On(p, "create", proc[p].i, proc[p].row) /\ UNCHANGED again
    BY <1>4, GotoOn
  <2> QED
    BY <1>1, <1>2, <2>1, OnCounts
<1>5. ASSUME Word(p) \in Words, mastery[Word(p)] # NoMastery,
             GotoWith(p, "update", mastery[Word(p)])
      PROVE  CountInv'
  <2>1. On(p, "update", proc[p].i, mastery[Word(p)]) /\ UNCHANGED again
    BY <1>5, RowOn
  <2>2. mastery[Word(p)] \in Rows /\ Fits(Word(p), mastery[Word(p)])
    BY <1>5 DEF FullInv, Inv, MasteryInv, CountInv, WordInv
  <2>3. \A w \in Words : proc[p].marks[proc[p].i].word = w => Fits(w, mastery[Word(p)])
    BY <2>2 DEF Word
  <2> QED
    BY <1>1, <2>1, <2>2, <2>3, OnCounts
<1> QED
  BY <1>3, <1>4, <1>5 DEF FindMastery

LEMMA CreateCounts ==
    ASSUME FullInv, CountInv, NEW p \in Procs, CreateMastery(p)
    PROVE  CountInv'
<1>1. proc[p].pc = "create" /\ UNCHANGED <<asked, trainer>> /\ trainer'.words \in Assignments
  BY DEF CreateMastery, InLoop, ghosts, CountInv
<1>2. CASE Abort(p) /\ UNCHANGED mastery
  BY <1>1, <1>2, AbortCounts
<1>3. ASSUME mastery' = [mastery EXCEPT ![Word(p)] = FreshRow],
             GotoWith(p, "update", FreshRow)
      PROVE  CountInv'
  <2>1. On(p, "update", proc[p].i, FreshRow) /\ UNCHANGED again
    BY <1>3, RowOn
  <2>2. \A w \in Words : mastery'[w] \in {mastery[w], NoMastery, FreshRow}
    BY <1>3 DEF FullInv, Inv, MasteryInv
  <2>3. ASSUME NEW w \in Words PROVE Fits(w, FreshRow)
    <3>1. Counted(FreshRow) = 0
      BY DEF FreshRow, Counted
    <3>2. IsFiniteSet(Pending(w)) /\ Due(w) \in Nat /\ Cardinality(Pending(w)) <= Due(w)
      BY DEF CountInv, WordInv
    <3> QED
      BY <3>1, <3>2, FS_CardinalityType DEF Fits
  <2> QED
    BY <1>1, <2>1, <2>2, <2>3, FreshRowIs, OnCounts
<1> QED
  BY <1>2, <1>3 DEF CreateMastery

\* The answer counted is one of those that were pending.
LEMMA WordCounted ==
    ASSUME FullInv, CountInv, NEW p \in Procs, NEW r, Puts(p, r), NEW w \in Words, Word(p) = w,
           InLoop(p, "update"), r.pc = "history", r.i = proc[p].i, r.marks = proc[p].marks,
           UNCHANGED Due(w), NEW ok, mastery'[w] = Graded(proc[p].row, ok)
    PROVE  WordInv(w)'
<1> DEFINE i == proc[p].i
           x == <<p, i>>
<1>1. /\ proc'[p] = r /\ \A q \in Procs \ {p} : proc'[q] = proc[q]
      /\ Placed(proc[p]) /\ proc[p].row \in Rows /\ WordInv(w)
  BY PutOne, ProcParts DEF FullInv, Inv, CountInv
<1>2. proc[p].pc = "update" /\ i \in DOMAIN proc[p].marks /\ proc[p].marks[i].word = w /\ i \in Nat
  BY <1>1 DEF InLoop, Word, Placed, IsSeq
<1>3. x \in Pending(w)
  BY <1>1, <1>2 DEF Pending, Left
<1>4. Pending(w)' \subseteq Pending(w) \ {x}
  <2>1. Left(r, w) \subseteq Left(proc[p], w) /\ i \notin Left(r, w)
    BY <1>1, <1>2, LeftShrinks DEF Left
  <2>2. Pending(w)' \subseteq Pending(w)
    BY <2>1, PutOne DEF FullInv, Inv
  <2>3. x \notin Pending(w)'
    BY <1>1, <2>1 DEF Pending
  <2> QED
    BY <2>2, <2>3
<1>5. PICK P, n, m, a, c :
        /\ P = Pending(w)' /\ n = Cardinality(Pending(w)) /\ m = Cardinality(P)
        /\ a = Due(w) /\ c = Counted(proc[p].row)
  OBVIOUS
<1>6. IsFiniteSet(P) /\ m \in Nat /\ n \in Nat /\ m <= n - 1
  <2>1. IsFiniteSet(Pending(w))
    BY <1>1 DEF WordInv
  <2>2. IsFiniteSet(Pending(w) \ {x}) /\ Cardinality(Pending(w) \ {x}) = n - 1
    BY <1>3, <1>5, <2>1, FS_RemoveElement
  <2>3. P \in SUBSET (Pending(w) \ {x})
    BY <1>4, <1>5
  <2> QED
    BY <1>5, <2>1, <2>2, <2>3, FS_Subset, FS_CardinalityType
<1>7. a \in Nat /\ n <= a /\ c \in Nat /\ c + n <= a
  <2>1. Updates(proc[p], w)
    BY <1>2 DEF Updates
  <2> QED
    BY <1>1, <1>5, <2>1, GradedCounts DEF WordInv, Fits
<1>8. Fitting(w, mastery'[w])
  <2>1. Counted(mastery'[w]) = c + 1
    BY <1>1, <1>5, GradedCounts
  <2>2. c + 1 + m <= a
    BY <1>6, <1>7
  <2> QED
    BY <1>5, <2>1, <2>2 DEF Fitting
<1>9. ASSUME NEW q \in Procs, Updates(proc'[q], w) PROVE Fitting(w, proc'[q].row)
  <2>1. q # p /\ proc'[q] = proc[q]
    BY <1>1, <1>9 DEF Updates
  <2>2. Fits(w, proc[q].row) /\ proc[q].row \in Rows
    BY <1>1, <1>9, <2>1, ProcParts DEF WordInv
  <2>3. Pending(w)' \subseteq Pending(w)
    BY <1>4
  <2> QED
    BY <1>1, <2>1, <2>2, <2>3, StillFits
<1>10. m <= a
  BY <1>6, <1>7
<1> QED
  BY <1>5, <1>6, <1>7, <1>8, <1>9, <1>10, Regained

LEMMA UpdateCounts ==
    ASSUME FullInv, CountInv, NEW p \in Procs, UpdateMastery(p)
    PROVE  CountInv'
<1>1. InLoop(p, "update") /\ UNCHANGED <<asked, trainer>>
  BY DEF UpdateMastery, ghosts
<1>2. CASE Abort(p) /\ UNCHANGED mastery
  BY <1>1, <1>2, AbortCounts DEF CountInv
<1>3. ASSUME NEW row, row = Graded(proc[p].row, proc[p].marks[proc[p].i].ok),
             mastery' = [mastery EXCEPT ![Word(p)] = row], GotoWith(p, "history", row)
      PROVE  CountInv'
  <2>1. PICK r : /\ Puts(p, r) /\ r.pc = "history" /\ r.i = proc[p].i /\ r.row = row
                 /\ r.marks = proc[p].marks /\ UNCHANGED again
    <3>1. On(p, "history", proc[p].i, row) /\ UNCHANGED again
      BY <1>3, RowOn
    <3> QED
      BY <3>1 DEF On
  <2>2. /\ proc'[p] = r /\ \A q \in Procs \ {p} : proc'[q] = proc[q]
        /\ Placed(proc[p]) /\ Placed(r) /\ row \in Rows
    <3>1. row \in Rows
      BY <1>3, GradedEarned DEF FullInv, Inv, ProcInv, Sound, Earned
    <3> QED
      BY <2>1, <3>1, PutOne, ProcParts DEF FullInv, Inv, Placed
  <2>3. ASSUME NEW w \in Words PROVE WordInv(w)'
    <3>0. UNCHANGED Due(w)
      BY <1>1, <2>1 DEF Due
    <3>1. CASE Word(p) = w
      <4>1. mastery'[w] = row
        BY <1>3, <3>1 DEF FullInv, Inv, MasteryInv
      <4> QED
        BY <1>1, <1>3, <2>1, <3>0, <3>1, <4>1, WordCounted
    <3>2. CASE Word(p) # w
      <4>1. mastery'[w] = mastery[w]
        BY <1>3, <3>2 DEF FullInv, Inv, MasteryInv
      <4>2. Left(r, w) \subseteq Left(proc[p], w) /\ ~Updates(r, w)
        BY <1>1, <2>1, <2>2, LeftShrinks DEF Updates, InLoop
      <4> QED
        BY <2>1, <2>2, <3>0, <4>1, <4>2, WordKept
    <3> QED
      BY <3>1, <3>2
  <2> QED
    BY <1>1, <2>1, <2>2, <2>3 DEF CountInv
<1> QED
  BY <1>2, <1>3 DEF UpdateMastery

LEMMA SaveCounts ==
    ASSUME FullInv, CountInv, NEW p \in Procs, SaveHistory(p)
    PROVE  CountInv'
<1>1. proc[p].pc = "history" /\ UNCHANGED <<asked, trainer, mastery>>
  BY DEF SaveHistory, InLoop, ghosts
<1>2. CASE Abort(p)
  BY <1>1, <1>2, AbortCounts DEF CountInv
<1>3. CASE NextResult(p)
  BY <1>1, <1>3, NextOn, OnCounts, FreshRowIs
<1> QED
  BY <1>2, <1>3 DEF SaveHistory

LEMMA CreateResultsCounts ==
    ASSUME FullInv, CountInv, NEW p \in Procs, CreateResults(p)
    PROVE  CountInv'
<1>1. proc[p].pc = "insert" /\ UNCHANGED <<trainer, mastery, asked>>
  BY DEF CreateResults, scores, ghosts
<1>2. CASE Abort(p)
  BY <1>1, <1>2, AbortCounts DEF CountInv
<1>3. CASE Goto(p, "find")
  <2>1. On(p, "find", proc[p].i, proc[p].row) /\ UNCHANGED again /\ proc[p].row \in Rows
    BY <1>3, GotoOn, ProcParts
  <2> QED
    BY <1>1, <2>1, OnCounts
<1> QED
  BY <1>2, <1>3 DEF CreateResults

---------------------------------------------------------------------------
(* Requests that start, and what the user deletes                          *)

\* Nobody moves, and rows are forgotten.
LEMMA StillCounts ==
    ASSUME FullInv, CountInv, trainer'.words \in Assignments, UNCHANGED <<proc, asked, again>>,
           \A w \in Words : mastery'[w] \in {mastery[w], NoMastery}
    PROVE  CountInv'
<1>1. ASSUME NEW w \in Words PROVE WordInv(w)'
  <2>1. WordInv(w)
    BY DEF CountInv
  <2>2. UNCHANGED <<Pending(w), Due(w)>>
    BY DEF Pending, Due
  <2>3. \A row : Fits(w, row) => Fitting(w, row)
    BY <2>2 DEF Fits, Fitting
  <2>4. mastery'[w] # NoMastery => Fitting(w, mastery'[w])
    BY <2>1, <2>3 DEF WordInv
  <2>5. \A q \in Procs : Updates(proc'[q], w) => Fitting(w, proc'[q].row)
    BY <2>1, <2>3 DEF WordInv
  <2> QED
    BY <2>1, <2>2, <2>4, <2>5, Regained DEF WordInv
<1> QED
  BY <1>1 DEF CountInv

\* Every mark has a place in its sequence.
LEMMA MarksPlaced ==
    ASSUME NEW ws \in Seq(Words), NEW g, DOMAIN g = DOMAIN ws
    PROVE  IsSeq(ChoiceMarks(ws, g)) /\ IsSeq(FillMarks(ws, g)) /\ IsSeq(<<>>)
<1>1. PICK n \in Nat : DOMAIN g = 1..n
  BY LenProperties
<1>2. IsSeq(ChoiceMarks(ws, g))
  <2>1. PICK m : m = ChoiceMarks(ws, g)
    OBVIOUS
  <2>2. m = [k \in 1..n |-> m[k]]
    BY <1>1, <2>1 DEF ChoiceMarks
  <2> QED
    BY <2>1, <2>2, MadeSeq
<1>3. IsSeq(FillMarks(ws, g))
  <2>1. PICK known : known = {k \in DOMAIN g : FirstCarrier(ws, g[k].system) # NoWord}
    OBVIOUS
  <2>2. Cardinality(known) \in Nat
    <3>1. known \in SUBSET (1..n) /\ IsFiniteSet(1..n)
      BY <1>1, <2>1, FS_Interval
    <3> QED
      BY <3>1, FS_Subset, FS_CardinalityType
  <2>3. PICK m : m = FillMarks(ws, g)
    OBVIOUS
  <2>4. m = [k \in 1..Cardinality(known) |-> m[k]]
    BY <2>1, <2>3 DEF FillMarks
  <2> QED
    BY <2>2, <2>3, <2>4, MadeSeq
<1> QED
  BY <1>2, <1>3, IdlePlaced DEF Placed, Idle

\* Nobody but the request that starts changes what it does, or forgets whom it met.
LEMMA StartAlike ==
    ASSUME FullInv, CountInv, NEW p \in Procs, NEW kind, NEW pc, NEW marks, NEW size,
           Start(p, kind, pc, marks, size)
    PROVE  /\ proc'[p].pc = pc /\ proc'[p].marks = marks /\ proc'[p].i = 1
           /\ \A q \in Procs \ {p} : Alike(proc'[q], proc[q]) /\ proc[q].met \subseteq proc'[q].met
<1>1. PICK others, repeat, r :
        /\ others = {q \in Procs \ {p} : Active(q)} /\ repeat = trainer.repeat
        /\ r = [Idle EXCEPT !.kind = kind, !.pc = pc, !.marks = marks, !.size = size,
                            !.repeat = repeat, !.attempt = 1, !.met = others]
  OBVIOUS
<1>2. r.pc = pc /\ r.marks = marks /\ r.i = 1
  BY <1>1 DEF Idle
<1>3. proc' = [q \in Procs |-> IF q = p THEN r
                               ELSE IF q \in others THEN [proc[q] EXCEPT !.met = @ \cup {p}] ELSE proc[q]]
  BY <1>1 DEF Start
<1>4. ASSUME NEW q \in Procs \ {p}
      PROVE  Alike(proc'[q], proc[q]) /\ proc[q].met \subseteq proc'[q].met
  <2>1. PICK old, met, new : old = proc[q] /\ met = proc[q].met \cup {p} /\ new = proc'[q]
    OBVIOUS
  <2>2. IsProc(old)
    BY <2>1, ProcParts
  <2>3. new = old \/ new = [old EXCEPT !.met = met]
    BY <1>3, <2>1
  <2>4. Alike(new, old) /\ old.met \subseteq new.met
    BY <2>1, <2>2, <2>3 DEF Alike, IsProc
  <2> QED
    BY <2>1, <2>4
<1> QED
  BY <1>2, <1>3, <1>4

LEMMA StartCounts ==
    ASSUME FullInv, CountInv, NEW p \in Procs, SubmitChoice(p) \/ SubmitFill(p) \/ EditTrainer(p)
    PROVE  CountInv'
<1>1. UNCHANGED <<trainer, mastery>>
  BY DEF SubmitChoice, SubmitFill, EditTrainer, scores
<1>2. PICK kind, pc, marks, size :
        /\ Start(p, kind, pc, marks, size) /\ pc \in {"wipe", "ai", "write"} /\ IsSeq(marks)
        /\ Ask(marks)
  <2>1. trainer.words \in Seq(Words)
    BY TextAssumption DEF CountInv
  <2>2. ASSUME NEW g \in Answers(trainer.words) PROVE DOMAIN g = DOMAIN trainer.words
    BY <2>2 DEF Answers
  <2>3. CASE SubmitChoice(p)
    BY <2>1, <2>2, <2>3, MarksPlaced DEF SubmitChoice
  <2>4. CASE SubmitFill(p)
    <3>1. PICK g, marks :
              g \in Answers(trainer.words) /\ marks = FillMarks(trainer.words, g) /\ Start(p, "fill", "ai", marks, Len(g)) /\ Ask(marks)
      BY <2>4 DEF SubmitFill
    <3>2. IsSeq(marks)
      BY <2>1, <2>2, <3>1, MarksPlaced
    <3> QED
      BY <3>1, <3>2
  <2>5. CASE EditTrainer(p)
    <3>1. Start(p, "edit", "write", <<>>, 0) /\ UNCHANGED asked
      BY <2>5 DEF EditTrainer, ghosts
    <3>2. IsSeq(<<>>)
      BY IdlePlaced DEF Placed, Idle
    <3>3. Ask(<<>>)
      <4>1. ASSUME NEW w \in Words PROVE asked[w] + Cardinality(AnswersTo(w, <<>>)) = asked[w]
        <5>1. AnswersTo(w, <<>>) = {}
          BY DEF AnswersTo
        <5>2. Cardinality(AnswersTo(w, <<>>)) = 0 /\ asked[w] \in Nat
          BY <5>1, FS_EmptySet DEF CountInv
        <5> QED
          BY <5>2
      <4>2. asked = [w \in Words |-> asked[w]]
        BY DEF CountInv
      <4> QED
        BY <3>1, <4>1, <4>2 DEF Ask
    <3> QED
      BY <3>1, <3>2, <3>3
  <2> QED
    BY <2>3, <2>4, <2>5
<1>3. /\ proc'[p].pc = pc /\ proc'[p].marks = marks /\ proc'[p].i = 1
      /\ \A q \in Procs \ {p} : Alike(proc'[q], proc[q])
  BY <1>2, StartAlike
<1>4. Placed(proc'[p]) /\ \A q \in Procs \ {p} : Placed(proc'[q])
  BY <1>2, <1>3, ProcParts DEF Alike, Placed
<1>5. UNCHANGED again
  BY <1>2 DEF Start
<1>6. \A w \in Words : asked'[w] = asked[w] + Cardinality(AnswersTo(w, marks))
  BY <1>2 DEF Ask
<1>7. ASSUME NEW w \in Words PROVE WordInv(w)'
  <2>1. PICK K : K = AnswersTo(w, marks)
    OBVIOUS
  <2>2. IsFiniteSet(K) /\ Cardinality(K) \in Nat
    BY <1>2, <2>1, MarksOfWord
  <2>3. Left(proc'[p], w) \subseteq Left(proc[p], w) \cup K
    BY <1>3, <2>1 DEF Left, AnswersTo
  <2>4. Due(w)' = Due(w) + Cardinality(K)
    <3>1. PICK n : n = Cardinality(K) /\ n \in Nat
      BY <2>2
    <3>2. asked'[w] = asked[w] + n /\ again'[w] = again[w] + 0
      BY <1>5, <1>6, <2>1, <3>1 DEF CountInv
    <3>3. Due(w)' = Due(w) + n + 0 /\ Due(w) \in Nat
      BY <3>1, <3>2, DueMore DEF CountInv, WordInv
    <3> QED
      BY <3>1, <3>3
  <2>5. ~Updates(proc'[p], w)
    BY <1>2, <1>3 DEF Updates
  <2> QED
    BY <1>1, <1>3, <2>2, <2>3, <2>4, <2>5, WordMore
<1>8. asked' \in [Words -> Nat] /\ again' \in [Words -> Nat]
  <2>1. ASSUME NEW w \in Words PROVE asked[w] + Cardinality(AnswersTo(w, marks)) \in Nat
    <3>1. PICK n, a : n = Cardinality(AnswersTo(w, marks)) /\ a = asked[w] /\ n \in Nat /\ a \in Nat
      BY <1>2, MarksOfWord DEF CountInv
    <3> QED
      BY <3>1
  <2> QED
    BY <1>2, <1>5, <2>1 DEF Ask, CountInv
<1> QED
  BY <1>1, <1>4, <1>7, <1>8 DEF CountInv

LEMMA DeleteCounts ==
    ASSUME FullInv, CountInv, DeleteTrainer \/ \E w \in Words : DeleteWord(w)
    PROVE  CountInv'
<1>1. UNCHANGED <<asked, again, proc>>
  BY DEF DeleteTrainer, DeleteWord, ghosts
<1>2. trainer'.words \in Assignments
  <2>1. PICK old : old = trainer
    OBVIOUS
  <2>2. IsTrainer(old) /\ old.words \in Assignments
    BY <2>1 DEF FullInv, Inv, PassInv, CountInv
  <2>3. trainer' = old \/ trainer' = [old EXCEPT !.alive = FALSE]
    BY <2>1 DEF DeleteTrainer, DeleteWord
  <2> QED
    BY <2>2, <2>3 DEF IsTrainer
<1>3. \A w \in Words : mastery'[w] \in {mastery[w], NoMastery}
  BY DEF DeleteTrainer, DeleteWord, scores, FullInv, Inv, MasteryInv
<1> QED
  BY <1>1, <1>2, <1>3, StillCounts

---------------------------------------------------------------------------

LEMMA InitCounts == Init => CountInv
<1> SUFFICES ASSUME Init PROVE CountInv
  OBVIOUS
<1>1. \A p \in Procs : Placed(proc[p]) /\ proc[p].pc = "idle"
  BY IdlePlaced DEF Init
<1>2. ASSUME NEW w \in Words PROVE WordInv(w)
  <2>1. Pending(w) = {}
    BY DEF Init, Idle, Pending, Left
  <2>2. IsFiniteSet(Pending(w)) /\ Cardinality(Pending(w)) = 0
    BY <2>1, FS_EmptySet
  <2>3. Due(w) = 0 /\ mastery[w] = NoMastery
    BY DEF Init, Due
  <2> QED
    BY <1>1, <2>2, <2>3 DEF WordInv, Updates
<1> QED
  BY <1>1, <1>2 DEF Init, CountInv

LEMMA StepCounts == FullInv /\ CountInv /\ [Next]_vars => CountInv'
<1> SUFFICES ASSUME FullInv, CountInv, [Next]_vars PROVE CountInv'
  OBVIOUS
<1>1. CASE UNCHANGED vars
  BY <1>1 DEF vars, CountInv, WordInv, Fits, Due, Pending, Updates, scores, ghosts
<1>2. ASSUME NEW p \in Procs, Fail(p) PROVE CountInv'
  BY <1>2, AbortCounts DEF Fail, scores, ghosts, CountInv
<1>3. ASSUME NEW p \in Procs, Grade(p) PROVE CountInv'
  BY <1>3, GradeCounts, CreateResultsCounts DEF Grade
<1>4. ASSUME NEW p \in Procs, Master(p) PROVE CountInv'
  BY <1>4, FindCounts, CreateCounts, UpdateCounts, SaveCounts DEF Master
<1> QED
  BY <1>1, <1>2, <1>3, <1>4, StartCounts, ConcludeCounts, DeleteCounts DEF Next

\* The counts of a word's mastery row stay within the answers submitted for it and those
\* a failed attempt of a job had counted already, whatever races and deletions.
THEOREM AnswersCountedOnceCorrect == Spec => []AnswersCountedOnce
<1>1. FullInv /\ CountInv => AnswersCountedOnce
  <2> SUFFICES ASSUME FullInv, CountInv, NEW w \in Words, mastery[w] # NoMastery
               PROVE  mastery[w].correct + mastery[w].incorrect <= asked[w] + again[w]
    BY DEF AnswersCountedOnce
  <2>1. PICK c, n, a : c = Counted(mastery[w]) /\ n = Cardinality(Pending(w)) /\ a = Due(w)
    OBVIOUS
  <2>2. c \in Nat /\ n \in Nat /\ a \in Nat /\ c + n <= a
    BY <2>1, GradedCounts, FS_CardinalityType DEF FullInv, Inv, MasteryInv, CountInv, WordInv, Fits
  <2> QED
    BY <2>1, <2>2 DEF Counted, Due
<1> QED
  BY <1>1, SpecInv, InitCounts, StepCounts, PTL DEF Spec

---------------------------------------------------------------------------
(* Sums over sets of words                                                 *)

\* The sum of the g[x], x in S, counts these pairs.
Weights(g, S) == \A x \in S : g[x] \in Nat
Pairs(g, S) == {p \in S \X Nat : p[2] \in 1..g[p[1]]}
Sum(g, S) == Cardinality(Pairs(g, S))

LEMMA PairsAre ==
  ASSUME NEW S, NEW g, Weights(g, S)
  PROVE  Pairs(g, S) = UNION {{x} \X (1..g[x]) : x \in S}
BY DEF Pairs, Weights

LEMMA PairIs ==
  ASSUME NEW S, NEW g, Weights(g, S), NEW x, NEW i
  PROVE  <<x, i>> \in Pairs(g, S) <=> x \in S /\ i \in 1..g[x]
BY DEF Pairs, Weights

LEMMA PairsFinite ==
  ASSUME NEW S, IsFiniteSet(S), NEW g, Weights(g, S)
  PROVE  IsFiniteSet(Pairs(g, S)) /\ Sum(g, S) \in Nat
<1> DEFINE f == [x \in S |-> {x} \X (1..g[x])]
           T == {{x} \X (1..g[x]) : x \in S}
<1>1. f \in Surjection(S, T)
  BY DEF Surjection
<1>2. IsFiniteSet(T)
  <2> HIDE DEF f, T
  <2> QED BY <1>1, FS_Surjection
<1>3. ASSUME NEW x \in S PROVE IsFiniteSet({x} \X (1..g[x]))
  <2>1. IsFiniteSet({x})
    BY FS_Singleton
  <2>2. IsFiniteSet(1..g[x])
    BY FS_Interval DEF Weights
  <2> QED BY <2>1, <2>2, FS_Product
<1>4. \A t \in T : IsFiniteSet(t)
  BY <1>3
<1>5. IsFiniteSet(UNION T)
  <2> HIDE DEF T
  <2> QED BY <1>2, <1>4, FS_UNION
<1>6. IsFiniteSet(Pairs(g, S))
  BY <1>5, PairsAre
<1> QED BY <1>6, FS_CardinalityType DEF Sum

LEMMA SameSum ==
  ASSUME NEW S, NEW f, NEW g, \A x \in S : f[x] = g[x]
  PROVE  Sum(f, S) = Sum(g, S)
BY DEF Sum, Pairs

\* Smaller terms add up to less.
LEMMA SumMonotone ==
  ASSUME NEW S, IsFiniteSet(S), NEW f, NEW g, Weights(f, S), Weights(g, S), \A x \in S : f[x] <= g[x]
  PROVE  Sum(f, S) <= Sum(g, S)
<1>1. Pairs(f, S) \subseteq Pairs(g, S)
  BY DEF Pairs, Weights
<1>2. IsFiniteSet(Pairs(g, S))
  BY PairsFinite
<1> QED BY <1>1, <1>2, FS_Subset DEF Sum

LEMMA SumAdds ==
  ASSUME NEW S, IsFiniteSet(S), NEW f, NEW g, NEW h, Weights(f, S), Weights(g, S),
         \A x \in S : h[x] = f[x] + g[x]
  PROVE  Weights(h, S) /\ Sum(h, S) = Sum(f, S) + Sum(g, S)
<1> DEFINE A == Pairs(f, S)
           B == Pairs(g, S)
           C == {p \in Pairs(h, S) : p[2] > f[p[1]]}
           t == [p \in B |-> <<p[1], f[p[1]] + p[2]>>]
<1>1. Weights(h, S)
  BY DEF Weights
<1>2. A \cup C = Pairs(h, S) /\ A \cap C = {}
  BY DEF Pairs, Weights
<1>3. t \in Bijection(B, C)
  <2>1. ASSUME NEW p \in B PROVE t[p] \in C /\ p = <<p[1], p[2]>> /\ p[1] \in S /\ p[2] \in 1..g[p[1]]
    BY DEF Pairs, Weights
  <2>2. ASSUME NEW p \in B, NEW q \in B, t[p] = t[q] PROVE p = q
    <3>1. p[1] = q[1] /\ f[p[1]] + p[2] = f[q[1]] + q[2]
      BY <2>2
    <3>2. p[2] \in Nat /\ q[2] \in Nat /\ p[1] \in S
      BY DEF Pairs
    <3>4. f[p[1]] \in Nat
      BY <3>2 DEF Weights
    <3>3. p[2] = q[2]
      BY <3>1, <3>2, <3>4
    <3> QED BY <2>1, <3>1, <3>3
  <2>3. ASSUME NEW p \in C PROVE \E q \in B : t[q] = p
    <3>1. /\ p = <<p[1], p[2]>> /\ p[1] \in S /\ p[2] \in Nat /\ p[2] \in 1..h[p[1]]
          /\ p[2] > f[p[1]] /\ f[p[1]] \in Nat /\ g[p[1]] \in Nat /\ h[p[1]] = f[p[1]] + g[p[1]]
      BY DEF Pairs, Weights
    <3>2. PICK i : i = p[2] - f[p[1]]
      OBVIOUS
    <3>3. i \in 1..g[p[1]] /\ f[p[1]] + i = p[2]
      BY <3>1, <3>2
    <3>4. <<p[1], i>> \in B
      BY <3>1, <3>3, PairIs
    <3>5. t[<<p[1], i>>] = p
      BY <3>1, <3>3, <3>4
    <3> QED BY <3>4, <3>5
  <2> HIDE DEF B, C
  <2>4. t \in [B -> C]
    BY <2>1
  <2> QED BY <2>2, <2>3, <2>4 DEF Bijection, Injection, Surjection, IsInjective
<1>4. IsFiniteSet(A) /\ IsFiniteSet(B) /\ Cardinality(A) \in Nat /\ Cardinality(B) \in Nat
  BY PairsFinite DEF Sum
<1> HIDE DEF A, B, C, t
<1>5. IsFiniteSet(C) /\ Cardinality(C) = Cardinality(B)
  BY <1>3, <1>4, FS_Bijection DEF ExistsBijection
<1>6. Cardinality(A \cup C) = Cardinality(A) + Cardinality(C)
  <2>1. Cardinality(A \cap C) = 0
    BY <1>2, FS_EmptySet
  <2>2. Cardinality(A \cup C) = Cardinality(A) + Cardinality(C) - Cardinality(A \cap C)
    BY <1>4, <1>5, FS_Union
  <2> QED BY <1>4, <1>5, <2>1, <2>2
<1> QED BY <1>1, <1>2, <1>5, <1>6 DEF Sum, A, B

LEMMA Smallest ==
  ASSUME NEW T \in SUBSET Nat, T # {}
  PROVE  \E n \in T : \A m \in T : n <= m
<1>1. IsWellFoundedOn(OpToRel(<, Nat), Nat)
  BY NatLessThanWellFounded, Zenon
<1>2. PICK n \in T : \A m \in T : ~ (<<m, n>> \in OpToRel(<, Nat))
  BY <1>1, WFMin, Zenon
<1>3. \A m \in T : ~(m < n)
  BY <1>2 DEF OpToRel
<1> QED BY <1>3

\* A term n times over adds up to n times the sum.
LEMMA SumScales ==
  ASSUME NEW S, IsFiniteSet(S), NEW g, Weights(g, S), NEW n \in Nat
  PROVE  Sum([x \in S |-> n * g[x]], S) = n * Sum(g, S)
<1> DEFINE Scaled(k) == [x \in S |-> k * g[x]]
           Bad == {k \in Nat : Sum(Scaled(k), S) # k * Sum(g, S)}
<1>1. SUFFICES ASSUME Bad # {} PROVE FALSE
  OBVIOUS
<1>2. PICK k \in Bad : \A m \in Bad : k <= m
  <2> HIDE DEF Bad
  <2>1. Bad \in SUBSET Nat
    BY DEF Bad
  <2> QED BY <1>1, <2>1, Smallest
<1>3. Sum(g, S) \in Nat
  BY PairsFinite
<1>4. k # 0
  <2> SUFFICES Sum(Scaled(0), S) = 0
    BY <1>3
  <2>1. Pairs(Scaled(0), S) = {}
    BY DEF Pairs, Weights
  <2> QED BY <2>1, FS_EmptySet DEF Sum
<1>5. k - 1 \in Nat /\ k - 1 \notin Bad
  BY <1>2, <1>4
<1>6. Sum(Scaled(k - 1), S) = (k - 1) * Sum(g, S)
  BY <1>5
<1>7. Weights(Scaled(k - 1), S) /\ \A x \in S : Scaled(k)[x] = Scaled(k - 1)[x] + g[x]
  BY <1>5 DEF Weights
<1>8. Sum(Scaled(k), S) = Sum(Scaled(k - 1), S) + Sum(g, S)
  <2> HIDE DEF Scaled
  <2> QED BY <1>7, SumAdds
<1>9. Sum(Scaled(k), S) = k * Sum(g, S)
  <2> HIDE DEF Scaled
  <2> QED BY <1>2, <1>3, <1>5, <1>6, <1>8
<1> QED BY <1>2, <1>9

\* The classes of a partition add up to the whole.
LEMMA SumOfParts ==
  ASSUME NEW S, IsFiniteSet(S), NEW K, IsFiniteSet(K), NEW m \in [S -> K], NEW g,
         \A k \in K : g[k] = Cardinality({x \in S : m[x] = k})
  PROVE  Weights(g, K) /\ Sum(g, K) = Cardinality(S)
<1> DEFINE Part(k) == {x \in S : m[x] = k}
           b == [k \in K |-> CHOOSE f : f \in Bijection(1..g[k], Part(k))]
           P == Pairs(g, K)
           t == [p \in P |-> b[p[1]][p[2]]]
<1>1. ASSUME NEW k \in K PROVE g[k] \in Nat /\ b[k] \in Bijection(1..g[k], Part(k))
  <2>1. IsFiniteSet(Part(k))
    BY FS_Subset
  <2>2. Cardinality(Part(k)) \in Nat /\ ExistsBijection(1..Cardinality(Part(k)), Part(k))
    <3> HIDE DEF Part
    <3> QED BY <2>1, FS_CardinalityType
  <2>3. g[k] = Cardinality(Part(k))
    OBVIOUS
  <2>4. \E f : f \in Bijection(1..g[k], Part(k))
    <3> HIDE DEF Part
    <3> QED BY <2>2, <2>3 DEF ExistsBijection
  <2> HIDE DEF Part
  <2> QED BY <2>2, <2>3, <2>4
<1>2. Weights(g, K)
  BY <1>1 DEF Weights
<1> HIDE DEF b
<1>3. t \in Bijection(P, S)
  <2>1. ASSUME NEW p \in P
        PROVE  /\ p = <<p[1], p[2]>> /\ p[1] \in K /\ p[2] \in 1..g[p[1]]
               /\ t[p] \in S /\ m[t[p]] = p[1]
    <3>1. p = <<p[1], p[2]>> /\ p[1] \in K /\ p[2] \in 1..g[p[1]]
      BY DEF Pairs
    <3>2. b[p[1]][p[2]] \in Part(p[1])
      BY <1>1, <3>1 DEF Bijection, Injection
    <3> QED BY <3>1, <3>2
  <2>2. ASSUME NEW p \in P, NEW q \in P, t[p] = t[q] PROVE p = q
    <3>1. p[1] = q[1] /\ b[p[1]][p[2]] = b[p[1]][q[2]]
      BY <2>1, <2>2
    <3>2. p[2] = q[2]
      BY <1>1, <2>1, <3>1 DEF Bijection, Injection, IsInjective
    <3> QED BY <2>1, <3>1, <3>2
  <2>3. ASSUME NEW x \in S PROVE \E p \in P : t[p] = x
    <3>1. m[x] \in K /\ x \in Part(m[x])
      OBVIOUS
    <3>2. PICK i \in 1..g[m[x]] : b[m[x]][i] = x
      BY <1>1, <3>1 DEF Bijection, Surjection
    <3>3. <<m[x], i>> \in P
      BY <1>2, <3>1, <3>2, PairIs
    <3> QED BY <3>2, <3>3
  <2>4. t \in [P -> S]
    BY <2>1
  <2> HIDE DEF P, t
  <2> QED BY <2>2, <2>3, <2>4 DEF Bijection, Injection, Surjection, IsInjective
<1>4. IsFiniteSet(P)
  BY <1>2, PairsFinite
<1> HIDE DEF P, t
<1>5. Cardinality(S) = Cardinality(P)
  BY <1>3, <1>4, FS_Bijection DEF ExistsBijection
<1> QED BY <1>2, <1>5 DEF Sum, P

---------------------------------------------------------------------------
(* The queries of the dashboard on one state of the tables                 *)

MasteryTyped == mastery \in [Words -> Rows \cup {NoMastery}]

LEMMA RowsAre ==
  ASSUME MasteryTyped
  PROVE  /\ IsFiniteSet(RowsOf(Words)) /\ RowsOf(Words) \subseteq Words
         /\ \A w \in RowsOf(Words) :
              /\ mastery[w] \in Rows /\ mastery[w].score \in Nat /\ mastery[w].score <= 10
              /\ mastery[w].correct \in Nat /\ mastery[w].incorrect \in Nat
<1>1. RowsOf(Words) \subseteq Words /\ \A w \in RowsOf(Words) : mastery[w] \in Rows
  BY DEF RowsOf, MasteryTyped
<1>2. IsFiniteSet(RowsOf(Words))
  BY <1>1, WordsAssumption, FS_Subset
<1> QED BY <1>1, <1>2, WordsAssumption, ScoreAssumption DEF Rows

\* Critical words and words with a warning are the words that need work.
LEMMA HealthSplits ==
  ASSUME MasteryTyped, NEW ws \in SUBSET Words
  PROVE  /\ IsFiniteSet(Having(ws, NeedsWork))
         /\ Cardinality(Having(ws, NeedsWork)) \in Nat
         /\ Cardinality(Having(ws, NeedsWork))
              = Cardinality(Having(ws, IsCritical)) + Cardinality(Having(ws, IsWarning))
<1> DEFINE R == RowsOf(ws)
           A == {w \in R : IsCritical(mastery[w])}
           B == {w \in R : IsWarning(mastery[w])}
           C == {w \in R : NeedsWork(mastery[w])}
<1>1. IsFiniteSet(R) /\ R \subseteq RowsOf(Words)
  <2>1. R \subseteq RowsOf(Words)
    BY DEF RowsOf
  <2> QED BY <2>1, RowsAre, FS_Subset
<1>2. \A w \in R : mastery[w].correct \in Nat /\ mastery[w].incorrect \in Nat
  BY <1>1, RowsAre
<1>3. \A w \in R : /\ NeedsWork(mastery[w]) <=> (IsCritical(mastery[w]) \/ IsWarning(mastery[w]))
                   /\ ~(IsCritical(mastery[w]) /\ IsWarning(mastery[w]))
  BY <1>2 DEF NeedsWork, IsCritical, IsWarning, AtLeast, Answered, CRITICAL, WARNING
<1>4. A \cup B = C /\ A \cap B = {} /\ A \subseteq R /\ B \subseteq R
  BY <1>3
<1> HIDE DEF A, B, C, R
<1>5. IsFiniteSet(A) /\ IsFiniteSet(B) /\ Cardinality(A) \in Nat /\ Cardinality(B) \in Nat
  BY <1>1, <1>4, FS_Subset, FS_CardinalityType
<1>6. Cardinality(A \cup B) = Cardinality(A) + Cardinality(B) - Cardinality(A \cap B) /\ IsFiniteSet(A \cup B)
  BY <1>5, FS_Union
<1>7. Cardinality(A \cap B) = 0
  BY <1>4, FS_EmptySet
<1>8. IsFiniteSet(C) /\ Cardinality(C) \in Nat /\ Cardinality(C) = Cardinality(A) + Cardinality(B)
  <2>1. Cardinality(A \cup B) = Cardinality(A) + Cardinality(B)
    BY <1>5, <1>6, <1>7
  <2>2. Cardinality(A \cup B) = Cardinality(C) /\ IsFiniteSet(C)
    BY <1>4, <1>6, Zenon
  <2> QED BY <1>5, <2>1, <2>2
<1> QED BY <1>8 DEF A, B, C, R, Having

LEMMA LabelsAgree ==
  ASSUME MasteryTyped, NEW w \in RowsOf(Words)
  PROVE  w \in NeedsReview("all", Words) <=> ClassifyMasteryHealth(mastery[w]) # "NORMAL"
<1>1. mastery[w].correct \in Nat /\ mastery[w].incorrect \in Nat
  BY RowsAre
<1>2. w \in NeedsReview("all", Words) <=> AtLeast(mastery[w], WARNING)
  BY DEF NeedsReview, Having, NeedsWork
<1>3. AtLeast(mastery[w], WARNING) => Answered(mastery[w]) # 0
  BY <1>1 DEF AtLeast, Answered
<1>4. AtLeast(mastery[w], CRITICAL) => AtLeast(mastery[w], WARNING)
  BY <1>1 DEF AtLeast, Answered, CRITICAL, WARNING
<1>5. CASE Answered(mastery[w]) = 0
  BY <1>2, <1>3, <1>4, <1>5 DEF ClassifyMasteryHealth
<1>6. CASE Answered(mastery[w]) # 0 /\ AtLeast(mastery[w], CRITICAL)
  BY <1>2, <1>4, <1>6 DEF ClassifyMasteryHealth
<1>7. CASE Answered(mastery[w]) # 0 /\ ~AtLeast(mastery[w], CRITICAL) /\ AtLeast(mastery[w], WARNING)
  BY <1>2, <1>7 DEF ClassifyMasteryHealth
<1>8. CASE Answered(mastery[w]) # 0 /\ ~AtLeast(mastery[w], CRITICAL) /\ ~AtLeast(mastery[w], WARNING)
  BY <1>2, <1>8 DEF ClassifyMasteryHealth
<1> QED BY <1>5, <1>6, <1>7, <1>8

LEMMA LanguagesAgree ==
  ASSUME MasteryTyped
  PROVE  /\ SumOver(LAMBDA c : c.total, LanguageCounts) = Cardinality(NeedsReview("all", Words))
         /\ \A c \in LanguageCounts :
              /\ c.total = c.critical + c.warning
              /\ c.critical = Cardinality(NeedsReview("critical", Spoken(c.language)))
<1> DEFINE S == NeedsReview("all", Words)
           K == LanguageCounts
           Count(l) == [language |-> l,
                        critical |-> Cardinality(Having(Spoken(l), IsCritical)),
                        warning |-> Cardinality(Having(Spoken(l), IsWarning)),
                        total |-> Cardinality(Having(Spoken(l), NeedsWork))]
           m == [w \in S |-> Count(LanguageOf[w])]
           g == [c \in K |-> c.total]
<1>1. K = {Count(l) : l \in {LanguageOf[w] : w \in S}}
  BY DEF LanguageCounts
<1>2. S = Having(Words, NeedsWork) /\ IsFiniteSet(S)
  BY HealthSplits DEF NeedsReview
<1>3. \A l : Spoken(l) \in SUBSET Words
  BY DEF Spoken
<1>4. \A c \in K : c.total = c.critical + c.warning
  BY <1>1, <1>3, HealthSplits
<1>5. \A c \in K : c.critical = Cardinality(NeedsReview("critical", Spoken(c.language)))
  BY <1>1 DEF NeedsReview
<1>6. ASSUME NEW c \in K PROVE g[c] = Cardinality({w \in S : m[w] = c})
  <2>1. PICK l \in {LanguageOf[w] : w \in S} : c = Count(l)
    BY <1>1
  <2>2. \A w \in S : m[w] = c <=> LanguageOf[w] = l
    <3>1. \A j : Count(j).language = j
      OBVIOUS
    <3>2. \A w \in S : m[w] = Count(LanguageOf[w])
      OBVIOUS
    <3> HIDE DEF Count, m
    <3> QED BY <2>1, <3>1, <3>2
  <2>3. {w \in S : LanguageOf[w] = l} = Having(Spoken(l), NeedsWork)
    BY <1>2 DEF Having, Spoken, RowsOf
  <2>4. {w \in S : m[w] = c} = Having(Spoken(l), NeedsWork)
    <3> HIDE DEF m, S
    <3> QED BY <2>2, <2>3
  <2>5. g[c] = Cardinality(Having(Spoken(l), NeedsWork))
    <3>1. g[c] = c.total
      OBVIOUS
    <3>2. c.total = Cardinality(Having(Spoken(l), NeedsWork))
      BY <2>1
    <3> QED BY <3>1, <3>2
  <2> QED BY <2>4, <2>5
<1>7. m \in Surjection(S, K)
  <2>1. \A c \in K : \E w \in S : m[w] = c
    BY <1>1
  <2>2. m \in [S -> K]
    BY <1>1
  <2> HIDE DEF m, S, K
  <2> QED BY <2>1, <2>2 DEF Surjection
<1>8. m \in [S -> K]
  BY <1>1
<1>9. \A c \in K : g[c] = c.total
  OBVIOUS
<1> HIDE DEF m, S, K, g
<1>10. IsFiniteSet(K)
  BY <1>2, <1>7, FS_Surjection
<1>11. Weights(g, K) /\ Sum(g, K) = Cardinality(S)
  <2>1. IsFiniteSet(S) /\ \A c \in K : g[c] = Cardinality({w \in S : m[w] = c})
    BY <1>2, <1>6
  <2> QED BY <1>8, <1>10, <2>1, SumOfParts
<1>12. UNION {{c} \X (1..c.total) : c \in K} = UNION {{c} \X (1..g[c]) : c \in K}
  BY <1>9
<1>13. SumOver(LAMBDA c : c.total, K) = Cardinality(S)
  BY <1>11, <1>12, PairsAre DEF SumOver, Sum
<1> QED BY <1>4, <1>5, <1>13 DEF K, S

LEMMA DistributionAgrees ==
  ASSUME MasteryTyped
  PROVE  SumOver(LAMBDA range : Distribution[range], Ranges) = Cardinality(RowsOf(Words))
<1> DEFINE S == RowsOf(Words)
           g == Distribution
           m == [w \in S |-> CHOOSE range \in Ranges : mastery[w].score \in range]
<1>1. IsFiniteSet(S) /\ \A w \in S : mastery[w].score \in 0..10
  BY RowsAre
<1>2. \A n \in 0..10 : \E range \in Ranges : n \in range
  BY DEF Ranges
<1>3. \A n \in Nat : \A r, q \in Ranges : n \in r /\ n \in q => r = q
  BY DEF Ranges
<1>4. IsFiniteSet(Ranges)
  <2> DEFINE f == [i \in 1..6 |-> CASE i = 1 -> 0..0 [] i = 2 -> 1..2 [] i = 3 -> 3..4
                                    [] i = 4 -> 5..6 [] i = 5 -> 7..8 [] OTHER -> 9..10]
  <2>1. f[1] = 0..0 /\ f[2] = 1..2 /\ f[3] = 3..4 /\ f[4] = 5..6 /\ f[5] = 7..8 /\ f[6] = 9..10
    OBVIOUS
  <2>2. f = [i \in 1..6 |-> f[i]] /\ \A i \in 1..6 : i \in {1, 2, 3, 4, 5, 6}
    OBVIOUS
  <2>3. f \in Surjection(1..6, Ranges)
    <3> HIDE DEF f
    <3>1. \A i \in 1..6 : f[i] \in Ranges
      BY <2>1, <2>2 DEF Ranges
    <3>2. f \in [1..6 -> Ranges]
      BY <2>2, <3>1
    <3>3. \A r \in Ranges : \E i \in 1..6 : f[i] = r
      BY <2>1 DEF Ranges
    <3> QED BY <3>2, <3>3 DEF Surjection
  <2> HIDE DEF f
  <2>4. IsFiniteSet(1..6)
    <3>1. 1 \in Int /\ 6 \in Int
      OBVIOUS
    <3> QED BY <3>1, FS_Interval, Zenon
  <2> QED BY <2>3, <2>4, FS_Surjection
<1>5. \A w \in S : m[w] \in Ranges /\ mastery[w].score \in m[w]
  BY <1>1, <1>2
<1>6. m \in [S -> Ranges]
  BY <1>5
<1>7. ASSUME NEW r \in Ranges PROVE g[r] = Cardinality({w \in S : m[w] = r})
  <2>1. \A w \in S : m[w] = r <=> mastery[w].score \in r
    <3> SUFFICES ASSUME NEW w \in S PROVE m[w] = r <=> mastery[w].score \in r
      OBVIOUS
    <3> HIDE DEF m
    <3>1. m[w] \in Ranges /\ mastery[w].score \in m[w] /\ mastery[w].score \in Nat
      BY <1>1, <1>5
    <3>2. mastery[w].score \in r => m[w] = r
      BY <1>3, <3>1, Zenon
    <3> QED BY <3>1, <3>2, Zenon
  <2>2. {w \in S : m[w] = r} = {w \in S : mastery[w].score \in r}
    <3> HIDE DEF m
    <3> QED BY <2>1
  <2> QED BY <2>2 DEF Distribution
<1> HIDE DEF m, S, g
<1>8. Weights(g, Ranges) /\ Sum(g, Ranges) = Cardinality(S)
  BY <1>1, <1>4, <1>6, <1>7, SumOfParts
<1>9. SumOver(LAMBDA range : g[range], Ranges) = Cardinality(S)
  BY <1>8, PairsAre DEF SumOver, Sum
<1> QED BY <1>9 DEF g, S

---------------------------------------------------------------------------
(* Pages and subjects                                                      *)

LEMMA FirstPage == ASSUME NEW x \in Nat, NEW n \in Nat \ {0} PROVE (x \div n = 1 - 1) <=> x < n
<1>1. CASE x < n
  <2>1. x = n * 0 + x /\ x \in 0..(n - 1)
    BY <1>1
  <2> QED BY <1>1, <2>1
<1>2. CASE x >= n
  BY <1>2
<1> QED BY <1>1, <1>2

\* The first page has the words that come first, as many as fit on it.
LEMMA PageAgrees ==
    ASSUME MasteryTyped, NEW page \in TopProblematic("all", 1)
    PROVE  LET list == NeedsReview("all", Words)
               review == Cardinality(list)
           IN  /\ Cardinality(page) = IF review < PageSize THEN review ELSE PageSize
               /\ \A w \in page, left \in list \ page : ~Before(mastery[left], mastery[w])
<1> DEFINE S == NeedsReview("all", Words)
           n == Cardinality(S)
           m == IF n < PageSize THEN n ELSE PageSize
<1>1. PICK rank \in Rankings(S) : page = {w \in S : rank[w] \div PageSize = 1 - 1}
  BY DEF TopProblematic
<1>2. IsFiniteSet(S) /\ n \in Nat
  BY HealthSplits DEF NeedsReview
<1>3. PageSize \in Nat \ {0}
  BY PageAssumption
<1>4. /\ rank \in [S -> 0..(n - 1)]
      /\ \A x, y \in S : x # y => rank[x] # rank[y]
      /\ \A x, y \in S : Before(mastery[x], mastery[y]) => rank[x] < rank[y]
  BY DEF Rankings
<1> HIDE DEF S, n
<1>5. \A w \in S : rank[w] \in Nat /\ rank[w] <= n - 1
  BY <1>2, <1>4
<1>6. page = {w \in S : rank[w] < PageSize}
  BY <1>1, <1>3, <1>5, FirstPage
<1>7. IsFiniteSet(0..(n - 1)) /\ Cardinality(0..(n - 1)) = n
  <2>1. 0 \in Int /\ n - 1 \in Int
    BY <1>2
  <2>2. IsFiniteSet(0..(n - 1)) /\ Cardinality(0..(n - 1)) = IF 0 > n - 1 THEN 0 ELSE (n - 1) - 0 + 1
    BY <2>1, FS_Interval, Zenon
  <2> QED BY <1>2, <2>2
<1>8. \A k \in 0..(n - 1) : \E w \in S : rank[w] = k
  <2>1. rank \in Injection(S, 0..(n - 1))
    BY <1>4 DEF Injection, IsInjective
  <2>2. rank \in Surjection(S, 0..(n - 1))
    BY <1>7, <2>1, FS_Injection DEF n
  <2> QED BY <2>2 DEF Surjection
<1>9. Cardinality(page) = m
  <2> DEFINE f == [w \in page |-> rank[w]]
  <2>1. m \in Nat /\ m <= n /\ m <= PageSize /\ (m = n \/ m = PageSize)
    BY <1>2, <1>3
  <2>2. page \subseteq S /\ \A w \in page : rank[w] \in 0..(m - 1)
    BY <1>5, <1>6, <2>1
  <2>3. ASSUME NEW k \in 0..(m - 1) PROVE \E w \in page : rank[w] = k
    <3> HIDE DEF m
    <3>1. k \in 0..(n - 1) /\ k < PageSize
      BY <1>2, <1>3, <2>1
    <3> QED BY <1>6, <1>8, <3>1
  <2>4. IsFiniteSet(0..(m - 1)) /\ Cardinality(0..(m - 1)) = m
    <3> HIDE DEF m
    <3>1. 0 \in Int /\ m - 1 \in Int
      BY <2>1
    <3>2. IsFiniteSet(0..(m - 1)) /\ Cardinality(0..(m - 1)) = IF 0 > m - 1 THEN 0 ELSE (m - 1) - 0 + 1
      BY <3>1, FS_Interval, Zenon
    <3> QED BY <2>1, <3>2
  <2> HIDE DEF m
  <2>5. f \in [page -> 0..(m - 1)] /\ \A w \in page : f[w] = rank[w]
    BY <2>2
  <2> HIDE DEF f
  <2>6. f \in Injection(page, 0..(m - 1)) /\ f \in Surjection(page, 0..(m - 1))
    BY <1>4, <2>2, <2>3, <2>5 DEF Injection, IsInjective, Surjection
  <2> QED BY <2>4, <2>6, FS_Injection
<1>10. ASSUME NEW w \in page, NEW left \in S \ page PROVE ~Before(mastery[left], mastery[w])
  <2>1. rank[w] < PageSize /\ ~(rank[left] < PageSize) /\ w \in S /\ left \in S
    BY <1>6
  <2>2. rank[w] \in Nat /\ rank[left] \in Nat
    BY <1>5, <2>1
  <2>3. ~(rank[left] < rank[w])
    BY <1>3, <2>1, <2>2
  <2> QED BY <1>4, <2>1, <2>3
<1> QED BY <1>9, <1>10 DEF S, n

LEMMA MoreTimes ==
    ASSUME NEW a \in Nat, NEW b \in Nat, NEW c \in Nat, a <= b
    PROVE  a * c \in Nat /\ b * c \in Nat /\ a * c <= b * c
<1>1. PICK d \in Nat : b = a + d
  <2>1. b - a \in Nat /\ b = a + (b - a)
    OBVIOUS
  <2> QED BY <2>1
<1>2. b * c = a * c + d * c /\ d * c \in Nat /\ a * c \in Nat
  BY <1>1
<1> QED BY <1>2

\* The average of a subject is between the scores of two of its words.
LEMMA WeighedBetween ==
    ASSUME NEW N, IsFiniteSet(N), N # {}, NEW g, Weights(g, N), NEW s, Weights(s, N),
           NEW b \in Nat, \A w \in N : s[w] <= b, NEW f, \A w \in N : f[w] = s[w] * g[w]
    PROVE  \E low, high \in N : s[low] * Sum(g, N) <= Sum(f, N) /\ Sum(f, N) <= s[high] * Sum(g, N)
<1>1. Weights(f, N)
  BY MoreTimes DEF Weights
<1>2. \E low \in N : \A w \in N : s[low] <= s[w]
  <2>1. {s[w] : w \in N} \in SUBSET Nat /\ {s[w] : w \in N} # {}
    BY DEF Weights
  <2>2. PICK n \in {s[w] : w \in N} : \A m \in {s[w] : w \in N} : n <= m
    BY <2>1, Smallest
  <2> QED BY <2>2
<1>3. \E high \in N : \A w \in N : s[w] <= s[high]
  <2>1. {b - s[w] : w \in N} \in SUBSET Nat /\ {b - s[w] : w \in N} # {}
    BY DEF Weights
  <2>2. PICK n \in {b - s[w] : w \in N} : \A m \in {b - s[w] : w \in N} : n <= m
    BY <2>1, Smallest
  <2>3. PICK high \in N : n = b - s[high]
    BY <2>2
  <2>4. ASSUME NEW w \in N PROVE s[w] <= s[high]
    <3>1. b - s[high] <= b - s[w]
      BY <2>2, <2>3
    <3>2. s[w] \in Nat /\ s[high] \in Nat
      BY DEF Weights
    <3> QED BY <3>1, <3>2
  <2> QED BY <2>4
<1>4. ASSUME NEW k \in N
      PROVE  /\ Weights([w \in N |-> s[k] * g[w]], N)
             /\ Sum([w \in N |-> s[k] * g[w]], N) = s[k] * Sum(g, N)
  <2>1. s[k] \in Nat
    BY DEF Weights
  <2> QED BY <2>1, SumScales, MoreTimes DEF Weights
<1>5. PICK low \in N : \A w \in N : s[low] <= s[w]
  BY <1>2
<1>6. PICK high \in N : \A w \in N : s[w] <= s[high]
  BY <1>3
<1>7. \A w \in N : s[low] * g[w] <= f[w] /\ f[w] <= s[high] * g[w]
  BY <1>5, <1>6, MoreTimes DEF Weights
<1>8. s[low] * Sum(g, N) <= Sum(f, N)
  <2> DEFINE h == [w \in N |-> s[low] * g[w]]
  <2>1. Weights(h, N) /\ Sum(h, N) = s[low] * Sum(g, N) /\ \A w \in N : h[w] <= f[w]
    BY <1>4, <1>7
  <2> HIDE DEF h
  <2>2. Sum(h, N) <= Sum(f, N)
    BY <1>1, <2>1, SumMonotone
  <2> QED BY <2>1, <2>2
<1>9. Sum(f, N) <= s[high] * Sum(g, N)
  <2> DEFINE h == [w \in N |-> s[high] * g[w]]
  <2>1. Weights(h, N) /\ Sum(h, N) = s[high] * Sum(g, N) /\ \A w \in N : f[w] <= h[w]
    BY <1>4, <1>7
  <2> HIDE DEF h
  <2>2. Sum(f, N) <= Sum(h, N)
    BY <1>1, <2>1, SumMonotone
  <2> QED BY <2>1, <2>2
<1> QED BY <1>8, <1>9

LEMMA SubjectsAgree ==
    ASSUME MasteryTyped, NEW s \in BySubject
    PROVE  \E low, high \in RowsOf(Words) :
               /\ mastery[low].score * s.rows <= s.scores /\ s.scores <= mastery[high].score * s.rows
               /\ s.vocabCount <= s.rows
<1> DEFINE Named(x) == {w \in RowsOf(Words) : LinksOf[w][x] > 0}
<1>1. PICK x \in UNION {DOMAIN LinksOf[w] : w \in Words} :
        /\ Named(x) # {}
        /\ s = [subject |-> x,
                scores |-> SumOver(LAMBDA w : mastery[w].score * LinksOf[w][x], Named(x)),
                rows |-> SumOver(LAMBDA w : LinksOf[w][x], Named(x)),
                vocabCount |-> Cardinality(Named(x))]
  BY DEF BySubject
<1> DEFINE N == Named(x)
           g == [w \in N |-> LinksOf[w][x]]
           c == [w \in N |-> mastery[w].score]
           f == [w \in N |-> mastery[w].score * LinksOf[w][x]]
<1>2. IsFiniteSet(N) /\ N \subseteq RowsOf(Words) /\ N # {}
  BY <1>1, RowsAre, FS_Subset
<1>3. \A w \in N : LinksOf[w][x] \in Nat /\ LinksOf[w][x] > 0
  BY <1>1, <1>2, RowsAre, LinksAssumption
<1>4. \A w \in N : mastery[w].score \in Nat /\ mastery[w].score <= 10
  BY <1>2, RowsAre
<1>5. Weights(g, N) /\ Weights(c, N) /\ \A w \in N : c[w] <= 10 /\ f[w] = c[w] * g[w]
  BY <1>3, <1>4 DEF Weights
<1>6. Weights(f, N)
  BY <1>3, <1>4, MoreTimes DEF Weights
<1>7. s.scores = Sum(f, N)
  <2>1. UNION {{w} \X (1..(mastery[w].score * LinksOf[w][x])) : w \in N} = UNION {{w} \X (1..f[w]) : w \in N}
    OBVIOUS
  <2>2. SumOver(LAMBDA w : mastery[w].score * LinksOf[w][x], N) = Sum(f, N)
    BY <1>6, <2>1, PairsAre DEF SumOver, Sum
  <2> QED BY <1>1, <2>2
<1>8. s.rows = Sum(g, N)
  <2>1. UNION {{w} \X (1..LinksOf[w][x]) : w \in N} = UNION {{w} \X (1..g[w]) : w \in N}
    OBVIOUS
  <2>2. SumOver(LAMBDA w : LinksOf[w][x], N) = Sum(g, N)
    BY <1>5, <2>1, PairsAre DEF SumOver, Sum
  <2> QED BY <1>1, <2>2
<1>9. s.vocabCount = Cardinality(N)
  BY <1>1
<1>10. \A w \in N : c[w] = mastery[w].score /\ g[w] > 0
  BY <1>3
<1> HIDE DEF N, g, c, f
<1>11. Cardinality(N) <= Sum(g, N)
  <2> DEFINE i == [w \in N |-> <<w, 1>>]
  <2>1. \A w \in N : <<w, 1>> \in Pairs(g, N)
    BY <1>5, <1>10 DEF Pairs, Weights
  <2>2. i \in Injection(N, Pairs(g, N))
    BY <2>1 DEF Injection, IsInjective
  <2> HIDE DEF i
  <2>3. IsFiniteSet(Pairs(g, N))
    BY <1>2, <1>5, PairsFinite
  <2> QED BY <2>2, <2>3, FS_Injection DEF Sum
<1>12. PICK low, high \in N : c[low] * Sum(g, N) <= Sum(f, N) /\ Sum(f, N) <= c[high] * Sum(g, N)
  <2>1. 10 \in Nat
    OBVIOUS
  <2>2. \A w \in N : f[w] = c[w] * g[w]
    BY <1>5
  <2>3. \A w \in N : c[w] <= 10
    BY <1>5
  <2> QED BY <1>2, <1>5, <2>1, <2>2, <2>3, WeighedBetween
<1>13. low \in RowsOf(Words) /\ high \in RowsOf(Words)
  BY <1>2
<1> QED BY <1>7, <1>8, <1>9, <1>10, <1>11, <1>12, <1>13

---------------------------------------------------------------------------
(* A request that updates a row has a word to update                       *)

Named(r) == r.pc \in {"create", "update", "history"} => r.marks[r.i].word \in Words
NamedInv == \A p \in Procs : Named(proc[p])

LEMMA NamedPuts ==
    ASSUME FullInv, NamedInv, NEW p \in Procs, NEW r, Puts(p, r), Named(r) PROVE NamedInv'
<1>1. proc'[p] = r /\ \A q \in Procs \ {p} : proc'[q] = proc[q]
  BY PutOne DEF FullInv, Inv
<1> QED
  BY <1>1 DEF NamedInv, Named

LEMMA OffNamed == ASSUME FullInv, NamedInv, NEW p \in Procs, Off(p) PROVE NamedInv'
BY NamedPuts DEF Off, Named, Loop

LEMMA OnNamed ==
    ASSUME FullInv, NamedInv, NEW p \in Procs, NEW pc, NEW i, NEW row, On(p, pc, i, row),
           pc \in {"create", "update", "history"} => proc[p].marks[i].word \in Words
    PROVE  NamedInv'
<1>1. PICK r : Puts(p, r) /\ r.pc = pc /\ r.i = i /\ r.row = row /\ r.marks = proc[p].marks
  BY DEF On
<1> QED
  BY <1>1, NamedPuts DEF Named

LEMMA MasterNamed ==
    ASSUME FullInv, CountInv, NamedInv, NEW p \in Procs, Master(p) PROVE NamedInv'
<1>1. CASE Abort(p)
  BY <1>1, AbortOff, OffNamed
<1>2. CASE NextResult(p)
  BY <1>2, NextOn, OnNamed
<1>3. CASE Word(p) \in Words /\ Goto(p, "create")
  BY <1>3, GotoOn, OnNamed DEF Word
<1>4. ASSUME Word(p) \in Words, NEW pc, NEW row, GotoWith(p, pc, row)
      PROVE  NamedInv'
  BY <1>4, RowOn, OnNamed DEF Word
<1>5. CASE FindMastery(p)
  BY <1>2, <1>3, <1>4, <1>5 DEF FindMastery
<1>6. CASE CreateMastery(p)
  <2>1. Word(p) \in Words
    BY <1>6 DEF CreateMastery, NamedInv, Named, InLoop, Word
  <2> QED BY <1>1, <1>4, <1>6, <2>1 DEF CreateMastery
<1>7. CASE UpdateMastery(p)
  <2>1. Word(p) \in Words
    BY <1>7 DEF UpdateMastery, NamedInv, Named, InLoop, Word
  <2> QED BY <1>1, <1>4, <1>7, <2>1 DEF UpdateMastery
<1>8. CASE SaveHistory(p)
  BY <1>1, <1>2, <1>8 DEF SaveHistory
<1> QED BY <1>5, <1>6, <1>7, <1>8 DEF Master

LEMMA NamedStep == FullInv /\ CountInv /\ NamedInv /\ [Next]_vars => NamedInv'
<1> SUFFICES ASSUME FullInv, CountInv, NamedInv, [Next]_vars PROVE NamedInv'
  OBVIOUS
<1>1. CASE UNCHANGED proc
  BY <1>1 DEF NamedInv, Named
<1>2. ASSUME NEW p \in Procs, Fail(p) PROVE NamedInv'
  BY <1>2, AbortOff, OffNamed DEF Fail
<1>3. ASSUME NEW p \in Procs, Grade(p) PROVE NamedInv'
  BY <1>3, GradeOff, OffNamed, OnNamed
<1>4. ASSUME NEW p \in Procs, Conclude(p) PROVE NamedInv'
  BY <1>4, ConcludeOff, OffNamed
<1>5. ASSUME NEW p \in Procs, SubmitChoice(p) \/ SubmitFill(p) \/ EditTrainer(p) PROVE NamedInv'
  <2>1. PICK kind, pc, marks, size :
          Start(p, kind, pc, marks, size) /\ pc \in {"wipe", "ai", "write"}
    BY <1>5, StartsStart DEF Starting
  <2>2. proc'[p].pc = pc /\ \A q \in Procs \ {p} : Alike(proc'[q], proc[q])
    BY <2>1, StartAlike
  <2> QED
    BY <2>1, <2>2 DEF NamedInv, Named, Alike
<1>6. CASE UNCHANGED vars \/ DeleteTrainer \/ \E w \in Words : DeleteWord(w)
  BY <1>1, <1>6 DEF vars, DeleteTrainer, DeleteWord
<1> QED
  BY <1>2, <1>3, <1>4, <1>5, <1>6, MasterNamed DEF Next

---------------------------------------------------------------------------
(* The history keeps up with the table while no updates overlap            *)

\* No request has met another, failed or lost its word.
Calm == upsets = 0 /\ \A p \in Procs : proc[p].pc # "idle" => proc[p].met = {}

At(r, pc, w) == r.pc = pc /\ r.marks[r.i].word = w
\* The history of a word has a row for each answer, and ends with the table's.
Settled(w) ==
    \/ mastery[w] = NoMastery /\ history[w] = <<>>
    \/ /\ mastery[w] # NoMastery /\ Len(history[w]) = Counted(mastery[w])
       /\ history[w] # <<>> => history[w][Len(history[w])] = mastery[w]
\* One row is missing while a request is about to write it.
Unrecorded(w, row) == mastery[w] # NoMastery /\ row = mastery[w] /\ Len(history[w]) + 1 = Counted(mastery[w])
Read(w, row) == mastery[w] # NoMastery /\ row = mastery[w]
WordTrend(w) ==
    /\ (\A p \in Procs : ~At(proc[p], "history", w)) => Settled(w)
    /\ \A p \in Procs : At(proc[p], "history", w) => Unrecorded(w, proc[p].row)
    /\ \A p \in Procs : At(proc[p], "update", w) => Read(w, proc[p].row)
TrendInv == upsets \in Nat /\ (Calm => \A w \in Words : WordTrend(w))

LEMMA AloneWhenCalm ==
    ASSUME FullInv, Calm, NEW p \in Procs, Active(p), NEW q \in Procs \ {p}
    PROVE  ~Active(q)
BY DEF FullInv, MetInv, AllMet, Calm, Active

\* Whoever has met nobody after a step had met nobody before it.
LEMMA CalmPuts ==
    ASSUME FullInv, TrendInv, NEW p \in Procs, \E r : Becomes(p, r), upsets' \in {upsets, upsets + 1}, Calm'
    PROVE  Calm /\ \A w \in Words : WordTrend(w)
<1>1. upsets = 0
  BY DEF TrendInv, Calm
<1>2. /\ \A q \in Procs : proc'[q].met = proc[q].met
      /\ proc'[p].pc # "idle" /\ \A q \in Procs \ {p} : proc'[q].pc = proc[q].pc
  BY MeetingsKept DEF FullInv, Inv, Becomes
<1> QED
  BY <1>1, <1>2 DEF Calm, TrendInv

\* One request moves, and no word's rows change.
LEMMA TrendStays ==
    ASSUME FullInv, Calm, \A w \in Words : WordTrend(w), NEW p \in Procs, NEW r, Puts(p, r),
           proc[p].pc # "history", r.pc # "history", UNCHANGED scores,
           \A w \in Words : At(r, "update", w) => Read(w, r.row)
    PROVE  \A w \in Words : WordTrend(w)'
<1> SUFFICES ASSUME NEW w \in Words PROVE WordTrend(w)'
  OBVIOUS
<1>1. proc'[p] = r /\ \A q \in Procs \ {p} : proc'[q] = proc[q]
  BY PutOne DEF FullInv, Inv
<1>2. mastery' = mastery /\ history' = history
  BY DEF scores
<1>3. \A q \in Procs : At(proc'[q], "history", w) <=> At(proc[q], "history", w)
  BY <1>1 DEF At
<1>4. Settled(w)' <=> Settled(w)
  BY <1>2 DEF Settled
<1>5. \A row : (Unrecorded(w, row) <=> Unrecorded(w, row)') /\ (Read(w, row) <=> Read(w, row)')
  BY <1>2 DEF Unrecorded, Read
<1>6. WordTrend(w)
  OBVIOUS
<1>7. ASSUME NEW q \in Procs, At(proc'[q], "history", w)
      PROVE  mastery'[w] # NoMastery /\ proc'[q].row = mastery'[w] /\ Len(history'[w]) + 1 = Counted(mastery'[w])
  <2>1. q # p /\ proc'[q] = proc[q] /\ At(proc[q], "history", w)
    BY <1>1, <1>7 DEF At
  <2>2. Unrecorded(w, proc[q].row)
    BY <1>6, <2>1 DEF WordTrend
  <2> QED BY <1>2, <2>1, <2>2 DEF Unrecorded
<1>8. ASSUME NEW q \in Procs, At(proc'[q], "update", w)
      PROVE  mastery'[w] # NoMastery /\ proc'[q].row = mastery'[w]
  <2>1. CASE q = p
    BY <1>1, <1>2, <1>8, <2>1 DEF Read
  <2>2. CASE q # p
    BY <1>1, <1>2, <1>6, <1>8, <2>2 DEF WordTrend, Read
  <2> QED BY <2>1, <2>2
<1> QED
  BY <1>3, <1>4, <1>6, <1>7, <1>8 DEF WordTrend, Unrecorded, Read, At

LEMMA UpsetsStay ==
    ASSUME NEW p \in Procs, Grade(p) \/ Master(p) \/ Conclude(p) PROVE upsets' = upsets
BY DEF Grade, Master, Conclude, CallAi, WipeResults, CreateResults, FindMastery, CreateMastery,
   UpdateMastery, SaveHistory, CountPass, NotifyCompleted, CompleteTrainer, SyncTrainer,
   ScheduleNotification, WriteTrainer

LEMMA GoesOn ==
    ASSUME FullInv, TrendInv, NEW p \in Procs, Grade(p) \/ Master(p) \/ Conclude(p), Calm'
    PROVE  Calm /\ \A w \in Words : WordTrend(w)
<1>1. \E r : Becomes(p, r)
  BY GradeMoves, MasterMoves, ConcludeMoves DEF Moves, MovesTo, FullInv, Inv
<1> QED
  BY <1>1, UpsetsStay, CalmPuts

LEMMA OffTrend ==
    ASSUME FullInv, Calm, \A w \in Words : WordTrend(w), NEW p \in Procs, Off(p),
           proc[p].pc # "history", UNCHANGED scores
    PROVE  \A w \in Words : WordTrend(w)'
<1>1. PICK r : Puts(p, r) /\ r.pc \notin Loop
  BY DEF Off
<1>2. r.pc # "history" /\ \A w \in Words : ~At(r, "update", w)
  BY <1>1 DEF Loop, At
<1> QED
  BY <1>1, <1>2, TrendStays

\* It goes on in the loop, and holds the table's row if it is to update it.
LEMMA OnTrend ==
    ASSUME FullInv, Calm, \A w \in Words : WordTrend(w), NEW p \in Procs, proc[p].pc # "history",
           NEW pc, NEW i, NEW row, On(p, pc, i, row), pc # "history", UNCHANGED scores,
           pc = "update" => i = proc[p].i /\ mastery[Word(p)] # NoMastery /\ row = mastery[Word(p)]
    PROVE  \A w \in Words : WordTrend(w)'
<1>1. PICK r : Puts(p, r) /\ r.pc = pc /\ r.i = i /\ r.row = row /\ r.marks = proc[p].marks
  BY DEF On
<1>2. \A w \in Words : At(r, "update", w) => Read(w, r.row)
  BY <1>1 DEF At, Read, Word
<1> QED
  BY <1>1, <1>2, TrendStays

LEMMA GradeTrend ==
    ASSUME FullInv, CountInv, Calm, \A w \in Words : WordTrend(w), NEW p \in Procs, Grade(p)
    PROVE  \A w \in Words : WordTrend(w)'
<1>1. proc[p].pc # "history" /\ UNCHANGED scores
  BY DEF Grade, CallAi, WipeResults, CreateResults
<1>2. CASE Off(p)
  BY <1>1, <1>2, OffTrend
<1>3. CASE On(p, "find", proc[p].i, proc[p].row)
  BY <1>1, <1>3, OnTrend
<1> QED
  BY <1>2, <1>3, GradeOff

LEMMA ConcludeTrend ==
    ASSUME FullInv, CountInv, Calm, \A w \in Words : WordTrend(w), NEW p \in Procs, Conclude(p)
    PROVE  \A w \in Words : WordTrend(w)'
<1>1. proc[p].pc # "history" /\ UNCHANGED scores
  BY DEF Conclude, CountPass, NotifyCompleted, CompleteTrainer, SyncTrainer,
     ScheduleNotification, WriteTrainer
<1> QED
  BY <1>1, ConcludeOff, OffTrend

LEMMA FindTrend ==
    ASSUME FullInv, CountInv, Calm, \A w \in Words : WordTrend(w), NEW p \in Procs, FindMastery(p)
    PROVE  \A w \in Words : WordTrend(w)'
<1>1. proc[p].pc = "find" /\ UNCHANGED scores
  BY DEF FindMastery, InLoop
<1>2. CASE NextResult(p)
  <2>1. On(p, "find", proc[p].i + 1, FreshRow)
    BY <1>2, NextOn
  <2> QED BY <1>1, <2>1, OnTrend
<1>3. CASE Goto(p, "create")
  <2>1. On(p, "create", proc[p].i, proc[p].row)
    BY <1>3, GotoOn
  <2> QED BY <1>1, <2>1, OnTrend
<1>4. CASE mastery[Word(p)] # NoMastery
           /\ GotoWith(p, "update", mastery[Word(p)])
  <2>1. On(p, "update", proc[p].i, mastery[Word(p)])
    BY <1>4, RowOn
  <2> QED BY <1>1, <1>4, <2>1, OnTrend
<1> QED
  BY <1>2, <1>3, <1>4 DEF FindMastery

\* The request at work is alone with its word, and writes the row r.
LEMMA AloneTrend ==
    ASSUME FullInv, Calm, \A w \in Words : WordTrend(w), NEW p \in Procs, Active(p),
           NEW r, Puts(p, r), NEW v,
           \A w \in Words \ {v} : mastery'[w] = mastery[w] /\ history'[w] = history[w],
           \A w \in Words \ {v} : /\ ~At(proc[p], "history", w)
                                  /\ ~At(r, "history", w) /\ ~At(r, "update", w),
           v \in Words => /\ ~At(r, "history", v) => Settled(v)'
                          /\ At(r, "history", v) => Unrecorded(v, r.row)'
                          /\ At(r, "update", v) => Read(v, r.row)'
    PROVE  \A w \in Words : WordTrend(w)'
<1>1. proc'[p] = r /\ \A q \in Procs \ {p} : proc'[q] = proc[q]
  BY PutOne DEF FullInv, Inv
<1>2. \A q \in Procs \ {p} : ~Active(q)
  BY AloneWhenCalm
<1>3. ASSUME NEW q \in Procs, NEW w, At(proc'[q], "history", w) \/ At(proc'[q], "update", w)
      PROVE  q = p /\ proc'[q] = r
  BY <1>1, <1>2, <1>3 DEF At, Active, Ended
<1> SUFFICES ASSUME NEW w \in Words PROVE WordTrend(w)'
  OBVIOUS
<1>4. CASE w = v
  <2>1. (\A q \in Procs : ~At(proc'[q], "history", w)) => Settled(w)'
    BY <1>1, <1>4
  <2>2. \A q \in Procs : At(proc'[q], "history", w) => Unrecorded(w, r.row)' /\ proc'[q] = r
    BY <1>3, <1>4
  <2>3. \A q \in Procs : At(proc'[q], "update", w) => Read(w, r.row)' /\ proc'[q] = r
    BY <1>3, <1>4
  <2> QED BY <2>1, <2>2, <2>3 DEF WordTrend, At, Unrecorded, Read
<1>5. CASE w # v
  <2>1. \A q \in Procs : ~At(proc'[q], "history", w) /\ ~At(proc'[q], "update", w)
    BY <1>3, <1>5
  <2>2. \A q \in Procs : ~At(proc[q], "history", w)
    BY <1>2, <1>5 DEF At, Active, Ended
  <2>3. Settled(w)
    BY <2>2 DEF WordTrend
  <2>4. Settled(w)'
    BY <1>5, <2>3 DEF Settled
  <2> QED BY <2>1, <2>4 DEF WordTrend, At
<1> QED BY <1>4, <1>5

LEMMA CreateTrend ==
    ASSUME FullInv, CountInv, Calm, \A w \in Words : WordTrend(w), NEW p \in Procs, CreateMastery(p)
    PROVE  \A w \in Words : WordTrend(w)'
<1>1. proc[p].pc = "create" /\ UNCHANGED history /\ Active(p)
  BY DEF CreateMastery, InLoop, Active, Ended
<1>2. CASE Abort(p) /\ UNCHANGED mastery
  BY <1>1, <1>2, AbortOff, OffTrend DEF scores
<1>3. CASE /\ mastery[Word(p)] = NoMastery /\ mastery' = [mastery EXCEPT ![Word(p)] = FreshRow]
           /\ GotoWith(p, "update", FreshRow)
  <2>1. On(p, "update", proc[p].i, FreshRow)
    BY <1>3, RowOn
  <2>2. PICK r : Puts(p, r) /\ r.pc = "update" /\ r.i = proc[p].i /\ r.row = FreshRow /\ r.marks = proc[p].marks
    BY <2>1 DEF On
  <2>3. PICK v : v = Word(p)
    OBVIOUS
  <2>4. \A w \in Words \ {v} : mastery'[w] = mastery[w] /\ history'[w] = history[w]
    BY <1>1, <1>3, <2>3 DEF FullInv, Inv, MasteryInv
  <2>5. \A w : ~At(proc[p], "history", w) /\ ~At(r, "history", w) /\ (At(r, "update", w) => w = v)
    BY <1>1, <2>2, <2>3 DEF At, Word
  <2>6. ASSUME v \in Words PROVE Settled(v)' /\ Read(v, r.row)'
    <3>1. \A q \in Procs : ~At(proc[q], "history", v)
      BY <1>3, <2>3, <2>6 DEF WordTrend, Unrecorded
    <3>2. Settled(v)
      BY <2>6, <3>1 DEF WordTrend
    <3>3. history'[v] = <<>>
      BY <1>1, <1>3, <2>3, <3>2 DEF Settled
    <3>4. mastery'[v] = FreshRow
      BY <1>3, <2>3, <2>6 DEF FullInv, Inv, MasteryInv
    <3>5. FreshRow # NoMastery
      BY FreshRowIs, NullAssumption
    <3>6. Counted(FreshRow) = 0
      BY DEF FreshRow, Counted
    <3> QED
      BY <2>2, <3>3, <3>4, <3>5, <3>6 DEF Settled, Read, Counted
  <2> QED
    BY <1>1, <2>2, <2>4, <2>5, <2>6, AloneTrend
<1> QED
  BY <1>2, <1>3 DEF CreateMastery

LEMMA UpdateTrend ==
    ASSUME FullInv, CountInv, Calm, \A w \in Words : WordTrend(w), NEW p \in Procs, UpdateMastery(p)
    PROVE  \A w \in Words : WordTrend(w)'
<1>1. proc[p].pc = "update" /\ UNCHANGED history /\ Active(p)
  BY DEF UpdateMastery, InLoop, Active, Ended
<1>2. CASE Abort(p) /\ UNCHANGED mastery
  BY <1>1, <1>2, AbortOff, OffTrend DEF scores
<1>3. PICK v, ok, row : v = Word(p) /\ ok = proc[p].marks[proc[p].i].ok /\ row = Graded(proc[p].row, ok)
  OBVIOUS
<1>4. CASE /\ mastery[v] # NoMastery /\ mastery' = [mastery EXCEPT ![v] = row]
           /\ GotoWith(p, "history", row)
  <2>1. On(p, "history", proc[p].i, row)
    BY <1>4, RowOn
  <2>2. PICK r : Puts(p, r) /\ r.pc = "history" /\ r.i = proc[p].i /\ r.row = row /\ r.marks = proc[p].marks
    BY <2>1 DEF On
  <2>3. \A w \in Words \ {v} : mastery'[w] = mastery[w] /\ history'[w] = history[w]
    BY <1>1, <1>4 DEF FullInv, Inv, MasteryInv
  <2>4. \A w : ~At(proc[p], "history", w) /\ ~At(r, "update", w) /\ (At(r, "history", w) <=> w = v)
    BY <1>1, <1>3, <2>2 DEF At, Word
  <2>5. ASSUME v \in Words PROVE Unrecorded(v, r.row)'
    <3>1. At(proc[p], "update", v)
      BY <1>1, <1>3 DEF At, Word
    <3>2. proc[p].row = mastery[v] /\ mastery[v] \in Rows
      BY <1>4, <2>5, <3>1 DEF WordTrend, Read, FullInv, Inv, MasteryInv
    <3>3. \A q \in Procs : ~At(proc[q], "history", v)
      BY <1>1, AloneWhenCalm DEF At, Active, Ended
    <3>4. Len(history[v]) = Counted(mastery[v])
      BY <1>4, <2>5, <3>3 DEF WordTrend, Settled
    <3>5. Counted(row) = Counted(mastery[v]) + 1
      BY <1>3, <3>2, GradedCounts
    <3>6. row \in Rows /\ row # NoMastery
      BY <1>3, GradedEarned, NullAssumption DEF FullInv, Inv, ProcInv, Sound, Earned
    <3>7. mastery'[v] = row /\ history'[v] = history[v]
      BY <1>1, <1>4, <2>5 DEF FullInv, Inv, MasteryInv
    <3> QED
      BY <2>2, <3>4, <3>5, <3>6, <3>7 DEF Unrecorded, Counted
  <2> QED
    BY <1>1, <2>2, <2>3, <2>4, <2>5, AloneTrend
<1> QED
  BY <1>2, <1>3, <1>4 DEF UpdateMastery

LEMMA SaveTrend ==
    ASSUME FullInv, CountInv, NamedInv, Calm, \A w \in Words : WordTrend(w), NEW p \in Procs, SaveHistory(p)
    PROVE  \A w \in Words : WordTrend(w)'
<1>1. InLoop(p, "history") /\ UNCHANGED mastery /\ Active(p)
  BY DEF SaveHistory, InLoop, Active, Ended
<1>2. PICK v, row : v = Word(p) /\ row = proc[p].row
  OBVIOUS
<1>3. row \in Rows /\ Recordable(row)
  <2>1. row \in Rows
    BY <1>2 DEF FullInv, Inv, ProcInv, Sound, Earned
  <2> QED
    BY <2>1 DEF Recordable, Rows
<1>4. At(proc[p], "history", v)
  BY <1>1, <1>2 DEF At, InLoop, Word
<1>5. v \in Words
  BY <1>1, <1>2 DEF NamedInv, Named, InLoop, Word
<1>7. mastery[v] # NoMastery /\ row = mastery[v] /\ Len(history[v]) + 1 = Counted(mastery[v])
  BY <1>2, <1>4, <1>5 DEF WordTrend, Unrecorded
<1>6. CASE NextResult(p) /\ history' = [history EXCEPT ![v] = Append(@, row)]
  <2>1. PICK r : Puts(p, r) /\ r.pc = "find"
    BY <1>6, NextOn DEF On
  <2>2. \A w \in Words \ {v} : mastery'[w] = mastery[w] /\ history'[w] = history[w]
    BY <1>1, <1>6 DEF FullInv, Inv, MasteryInv
  <2>3. \A w : /\ ~At(r, "history", w) /\ ~At(r, "update", w)
               /\ At(proc[p], "history", w) => w = v
    BY <1>2, <2>1 DEF At, Word
  <2>4. ASSUME v \in Words PROVE Settled(v)'
    <3>1. PICK past : past = history[v] /\ past \in Seq(Rows)
      BY <2>4 DEF FullInv, Inv, MasteryInv
    <3>2. history'[v] = Append(past, row)
      BY <1>6, <2>4, <3>1 DEF FullInv, Inv, MasteryInv
    <3>3. Len(Append(past, row)) = Len(past) + 1 /\ Append(past, row)[Len(past) + 1] = row
      BY <1>3, <3>1
    <3> QED
      BY <1>1, <1>7, <3>1, <3>2, <3>3 DEF Settled, Counted
  <2> QED
    BY <1>1, <2>1, <2>2, <2>3, <2>4, AloneTrend
<1> QED
  BY <1>2, <1>3, <1>7, <1>6 DEF SaveHistory

LEMMA StartTrend ==
    ASSUME FullInv, CountInv, TrendInv, NEW p \in Procs,
           SubmitChoice(p) \/ SubmitFill(p) \/ EditTrainer(p), Calm'
    PROVE  \A w \in Words : WordTrend(w)'
<1>1. UNCHANGED scores /\ upsets' = upsets /\ proc[p].pc = "idle" /\ upsets \in Nat
  BY StartsStart DEF SubmitChoice, SubmitFill, EditTrainer, TrendInv
<1>2. PICK kind, pc, marks, size : Start(p, kind, pc, marks, size) /\ pc \in {"wipe", "ai", "write"}
  BY StartsStart DEF Starting
<1>3. /\ proc'[p].pc = pc
      /\ \A q \in Procs \ {p} : Alike(proc'[q], proc[q]) /\ proc[q].met \subseteq proc'[q].met
  BY <1>2, StartAlike
<1>4. \A q \in Procs \ {p} : proc[q].pc # "idle" => proc[q].met = {}
  BY <1>3 DEF Calm, Alike
<1>5. Calm
  BY <1>1, <1>4 DEF Calm
<1> SUFFICES ASSUME NEW w \in Words PROVE WordTrend(w)'
  OBVIOUS
<1>6. WordTrend(w)
  BY <1>5 DEF TrendInv
<1>7. \A q \in Procs, x \in {"history", "update"} :
        /\ At(proc'[q], x, w) <=> At(proc[q], x, w)
        /\ At(proc'[q], x, w) => proc'[q].row = proc[q].row
  BY <1>1, <1>2, <1>3 DEF At, Alike
<1> QED
  BY <1>1, <1>6, <1>7 DEF WordTrend, Settled, Unrecorded, Read, At, scores

LEMMA TrendStep == FullInv /\ CountInv /\ NamedInv /\ TrendInv /\ [Next]_vars => TrendInv'
<1> SUFFICES ASSUME FullInv, CountInv, NamedInv, TrendInv, [Next]_vars PROVE TrendInv'
  OBVIOUS
<1>1. CASE UNCHANGED vars
  BY <1>1 DEF vars, scores, TrendInv, Calm, WordTrend, Settled, At, Unrecorded, Read
<1>2. CASE upsets' = upsets + 1
  BY <1>2 DEF TrendInv, Calm
<1>3. ASSUME NEW p \in Procs, Grade(p) \/ Master(p) \/ Conclude(p) PROVE TrendInv'
  <2>1. upsets' \in Nat
    BY <1>3, UpsetsStay DEF TrendInv
  <2>2. ASSUME Calm' PROVE \A w \in Words : WordTrend(w)'
    <3>1. Calm /\ \A w \in Words : WordTrend(w)
      BY <1>3, <2>2, GoesOn
    <3> QED
      BY <1>3, <3>1, GradeTrend, ConcludeTrend, FindTrend, CreateTrend, UpdateTrend, SaveTrend DEF Master
  <2> QED
    BY <2>1, <2>2 DEF TrendInv
<1>4. ASSUME NEW p \in Procs, SubmitChoice(p) \/ SubmitFill(p) \/ EditTrainer(p) PROVE TrendInv'
  <2>1. upsets' \in Nat
    BY <1>4 DEF TrendInv, SubmitChoice, SubmitFill, EditTrainer
  <2>2. Calm' => \A w \in Words : WordTrend(w)'
    BY <1>4, StartTrend
  <2> QED
    BY <2>1, <2>2 DEF TrendInv
<1>5. CASE (\E p \in Procs : Fail(p)) \/ DeleteTrainer \/ \E w \in Words : DeleteWord(w)
  BY <1>2, <1>5 DEF Fail, DeleteTrainer, DeleteWord, Upset
<1> QED
  BY <1>1, <1>3, <1>4, <1>5 DEF Next

LEMMA InitTrend == Init => NamedInv /\ TrendInv
<1> SUFFICES ASSUME Init PROVE NamedInv /\ TrendInv
  OBVIOUS
<1>1. \A p \in Procs : proc[p].pc = "idle"
  BY DEF Init, Idle
<1>2. \A w \in Words : mastery[w] = NoMastery /\ history[w] = <<>>
  BY DEF Init
<1> QED
  BY <1>1, <1>2 DEF Init, NamedInv, Named, TrendInv, WordTrend, Settled, At

---------------------------------------------------------------------------
(* The trends and the progress follow                                      *)

\* The right and the wrong answers that the rows count, and their practices.
Rights == [w \in RowsOf(Words) |-> mastery[w].correct]
Wrongs == [w \in RowsOf(Words) |-> mastery[w].incorrect]
Practices == [w \in RowsOf(Words) |-> Len(history[w])]

LEMMA TotalsAre ==
    ASSUME MasteryTyped
    PROVE  /\ Weights(Rights, RowsOf(Words)) /\ Weights(Wrongs, RowsOf(Words))
           /\ Totals.correct = Sum(Rights, RowsOf(Words)) /\ Totals.correct \in Nat
           /\ Totals.incorrect = Sum(Wrongs, RowsOf(Words)) /\ Totals.incorrect \in Nat
           /\ Totals.needReview = Cardinality(NeedsReview("all", Words)) /\ Totals.needReview \in Nat
<1> DEFINE T == RowsOf(Words)
<1>1. Weights(Rights, T) /\ Weights(Wrongs, T)
  BY RowsAre DEF Weights, Rights, Wrongs
<1>2. UNION {{w} \X (1..mastery[w].correct) : w \in T} = UNION {{w} \X (1..Rights[w]) : w \in T}
  BY DEF Rights
<1>3. UNION {{w} \X (1..mastery[w].incorrect) : w \in T} = UNION {{w} \X (1..Wrongs[w]) : w \in T}
  BY DEF Wrongs
<1>4. SumOver(LAMBDA w : mastery[w].correct, T) = Sum(Rights, T)
  BY <1>1, <1>2, PairsAre DEF SumOver, Sum
<1>5. SumOver(LAMBDA w : mastery[w].incorrect, T) = Sum(Wrongs, T)
  BY <1>1, <1>3, PairsAre DEF SumOver, Sum
<1>6. Sum(Rights, T) \in Nat /\ Sum(Wrongs, T) \in Nat
  BY <1>1, RowsAre, PairsFinite
<1>7. /\ CountHealth.critical + CountHealth.warning = Cardinality(NeedsReview("all", Words))
      /\ Cardinality(NeedsReview("all", Words)) \in Nat
  BY HealthSplits DEF CountHealth, NeedsReview
<1> QED
  BY <1>1, <1>4, <1>5, <1>6, <1>7 DEF Totals

\* The snapshot of now is rebuilt from the history as the totals are counted.
LEMMA SnapshotIs ==
    ASSUME MasteryTyped,
           \A w \in RowsOf(Words) : /\ history[w] = <<>> => Counted(mastery[w]) = 0
                                    /\ history[w] # <<>> => history[w][Len(history[w])] = mastery[w]
    PROVE  /\ Snapshot.correct = Totals.correct /\ Snapshot.incorrect = Totals.incorrect
           /\ Snapshot.needReview = Totals.needReview
<1> DEFINE T == RowsOf(Words)
           S == {w \in T : history[w] # <<>>}
           Final(w) == history[w][Len(history[w])]
<1>1. \A w \in S : Final(w) = mastery[w]
  OBVIOUS
<1>2. \A w \in T : mastery[w].correct \in Nat /\ mastery[w].incorrect \in Nat
  BY RowsAre
<1>3. ASSUME NEW w \in T \ S PROVE mastery[w].correct = 0 /\ mastery[w].incorrect = 0
  <2>1. mastery[w].correct + mastery[w].incorrect = 0
    BY DEF Counted
  <2>2. PICK m, n : m = mastery[w].correct /\ n = mastery[w].incorrect
    OBVIOUS
  <2>3. m \in Nat /\ n \in Nat /\ m + n = 0
    BY <1>2, <2>1, <2>2
  <2> QED BY <2>2, <2>3
<1>4. UNION {{w} \X (1..Final(w).correct) : w \in S} = UNION {{w} \X (1..mastery[w].correct) : w \in T}
  <2>1. UNION {{w} \X (1..Final(w).correct) : w \in S} = UNION {{w} \X (1..mastery[w].correct) : w \in S}
    BY <1>1
  <2>2. ASSUME NEW w \in T \ S PROVE {w} \X (1..mastery[w].correct) = {}
    <3>1. 1..mastery[w].correct = {}
      BY <1>3
    <3> QED BY <3>1
  <2>3. UNION {{w} \X (1..mastery[w].correct) : w \in S} = UNION {{w} \X (1..mastery[w].correct) : w \in T}
    <3> DEFINE B(w) == {w} \X (1..mastery[w].correct)
    <3>1. S \subseteq T /\ \A w \in T \ S : B(w) = {}
      BY <2>2
    <3> HIDE DEF S, B
    <3>2. UNION {B(w) : w \in S} = UNION {B(w) : w \in T}
      BY <3>1
    <3> QED BY <3>2 DEF B
  <2> QED BY <2>1, <2>3
<1>5. UNION {{w} \X (1..Final(w).incorrect) : w \in S} = UNION {{w} \X (1..mastery[w].incorrect) : w \in T}
  <2>1. UNION {{w} \X (1..Final(w).incorrect) : w \in S} = UNION {{w} \X (1..mastery[w].incorrect) : w \in S}
    BY <1>1
  <2>2. ASSUME NEW w \in T \ S PROVE {w} \X (1..mastery[w].incorrect) = {}
    <3>1. 1..mastery[w].incorrect = {}
      BY <1>3
    <3> QED BY <3>1
  <2>3. UNION {{w} \X (1..mastery[w].incorrect) : w \in S} = UNION {{w} \X (1..mastery[w].incorrect) : w \in T}
    <3> DEFINE B(w) == {w} \X (1..mastery[w].incorrect)
    <3>1. S \subseteq T /\ \A w \in T \ S : B(w) = {}
      BY <2>2
    <3> HIDE DEF S, B
    <3>2. UNION {B(w) : w \in S} = UNION {B(w) : w \in T}
      BY <3>1
    <3> QED BY <3>2 DEF B
  <2> QED BY <2>1, <2>3
<1>6. {w \in S : NeedsWork(Final(w))} = NeedsReview("all", Words)
  <2>1. ASSUME NEW w \in T \ S PROVE ~NeedsWork(mastery[w])
    BY <1>3 DEF NeedsWork, AtLeast, Answered
  <2>2. \A w \in S : NeedsWork(Final(w)) <=> NeedsWork(mastery[w])
    BY <1>1
  <2>3. NeedsReview("all", Words) = {w \in T : NeedsWork(mastery[w])}
    BY DEF NeedsReview, Having
  <2>4. S \subseteq T
    OBVIOUS
  <2> HIDE DEF S, T, Final
  <2> QED BY <2>1, <2>2, <2>3, <2>4
<1>7. Snapshot.correct = Totals.correct
  BY <1>4 DEF Snapshot, Totals, SumOver
<1>8. Snapshot.incorrect = Totals.incorrect
  BY <1>5 DEF Snapshot, Totals, SumOver
<1>9. Snapshot.needReview = Totals.needReview
  BY <1>6, TotalsAre DEF Snapshot
<1> QED BY <1>7, <1>8, <1>9

LEMMA TrendsAgree ==
    ASSUME FullInv, TrendInv PROVE TrendsComparable
<1> SUFFICES ASSUME upsets = 0, \A p \in Procs : proc[p].met = {} /\ proc[p].pc \notin {"history", "failed"}
             PROVE  /\ Summary.answersDelta = 0 /\ Summary.correctDelta = 0 /\ Summary.needReviewDelta = 0
                    /\ PracticeCount = Totals.correct + Totals.incorrect
  BY DEF TrendsComparable
<1> DEFINE T == RowsOf(Words)
<1>1. MasteryTyped /\ history \in [Words -> Seq(Rows)]
  BY DEF FullInv, Inv, MasteryInv, MasteryTyped
<1>2. ASSUME NEW w \in T
      PROVE  /\ Len(history[w]) = mastery[w].correct + mastery[w].incorrect
             /\ history[w] = <<>> => Counted(mastery[w]) = 0
             /\ history[w] # <<>> => history[w][Len(history[w])] = mastery[w]
  <2>1. w \in Words /\ mastery[w] # NoMastery
    BY DEF RowsOf
  <2>2. Settled(w)
    BY <2>1 DEF TrendInv, Calm, WordTrend, At
  <2> QED BY <2>1, <2>2 DEF Settled, Counted
<1>3. /\ Snapshot.correct = Totals.correct /\ Snapshot.incorrect = Totals.incorrect
      /\ Snapshot.needReview = Totals.needReview
  BY <1>1, <1>2, SnapshotIs
<1>4. Totals.correct \in Nat /\ Totals.incorrect \in Nat /\ Totals.needReview \in Nat
  BY <1>1, TotalsAre
<1>5. Summary.answersDelta = 0 /\ Summary.correctDelta = 0 /\ Summary.needReviewDelta = 0
  BY <1>3, <1>4 DEF Summary
<1>6. Weights(Practices, T) /\ Sum(Practices, T) = Sum(Rights, T) + Sum(Wrongs, T)
  <2>1. \A w \in T : Practices[w] = Rights[w] + Wrongs[w]
    BY <1>2 DEF Practices, Rights, Wrongs
  <2> QED BY <1>1, <2>1, TotalsAre, RowsAre, SumAdds
<1>7. UNION {{w} \X (1..Len(history[w])) : w \in T} = UNION {{w} \X (1..Practices[w]) : w \in T}
  BY DEF Practices
<1>8. PracticeCount = Sum(Practices, T)
  BY <1>6, <1>7, PairsAre DEF PracticeCount, SumOver, Sum
<1> QED
  BY <1>1, <1>5, <1>6, <1>8, TotalsAre

\* The sections of the dashboard agree on one state of the tables.
LEMMA SectionsAgree == ASSUME MasteryTyped PROVE QueriesAgree
<1> DEFINE d == Dashboard
           list == NeedsReview("all", Words)
           review == Cardinality(list)
<1>1. d.summary.totals.needReview = review
  BY TotalsAre DEF Dashboard, Summary
<1>2. /\ SumOver(LAMBDA c : c.total, d.languages) = review
      /\ \A c \in d.languages :
               /\ c.total = c.critical + c.warning
               /\ c.critical = Cardinality(NeedsReview("critical", Spoken(c.language)))
  BY LanguagesAgree DEF Dashboard
<1>3. \A w \in RowsOf(Words) : w \in list <=> ClassifyMasteryHealth(mastery[w]) # "NORMAL"
  BY LabelsAgree
<1>4. \A page \in d.problematic :
               /\ Cardinality(page) = IF review < PageSize THEN review ELSE PageSize
               /\ \A w \in page, left \in list \ page : ~Before(mastery[left], mastery[w])
  BY PageAgrees DEF Dashboard
<1>5. \A s \in d.subjects : \E low, high \in RowsOf(Words) :
               /\ mastery[low].score * s.rows <= s.scores /\ s.scores <= mastery[high].score * s.rows
               /\ s.vocabCount <= s.rows
  BY SubjectsAgree DEF Dashboard
<1>6. SumOver(LAMBDA range : d.distribution[range], Ranges) = Cardinality(RowsOf(Words))
  BY DistributionAgrees DEF Dashboard
<1> HIDE DEF d
<1> QED
  BY <1>1, <1>2, <1>3, <1>4, <1>5, <1>6 DEF QueriesAgree, d

---------------------------------------------------------------------------

\* The sections of the dashboard agree with each other on every state of the
\* tables, and its trends and its progress with the history whenever no update
\* has overlapped another, failed, or is between its two writes.
THEOREM DashboardAgreesCorrect == Spec => []DashboardAgrees
<1>1. FullInv /\ TrendInv => DashboardAgrees
  BY SectionsAgree, TrendsAgree DEF DashboardAgrees, FullInv, Inv, MasteryInv, MasteryTyped
<1>2. Init => CountInv /\ NamedInv /\ TrendInv
  BY InitCounts, InitTrend
<1>3. FullInv /\ (CountInv /\ NamedInv /\ TrendInv) /\ [Next]_vars => (CountInv /\ NamedInv /\ TrendInv)'
  BY StepCounts, NamedStep, TrendStep
<1> QED
  BY <1>1, <1>2, <1>3, SpecInv, PTL DEF Spec
=============================================================================
