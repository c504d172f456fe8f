---------------------------- MODULE ExamSubmission ----------------------------
(***************************************************************************)
(* The exams of one trainer of one user, from the answers to the pass      *)
(* count.  A choice exam is graded inside the request                      *)
(* (VocabTrainerService.submitChoiceBasedExam), a fill-in-the-blank exam   *)
(* by a job that Bull retries (FillInBlankEvaluationProcessor).  Both      *)
(* replace the result rows, update the mastery of each word with a read,   *)
(* perhaps an insert, an update and a history row, and count the pass.     *)
(* Requests run concurrently, no statement outside the last transaction is *)
(* in one, and the user may edit or delete trainer and words meanwhile.    *)
(***************************************************************************)
EXTENDS VocabMastery, FiniteSets

CONSTANTS Procs,        \* requests and jobs
          TextsOf,      \* the texts of each word: its source and its targets
          Assignments,  \* sequences of words a trainer may be assigned
          Replies,      \* texts a user may answer with
          StartRepeat,  \* reminderRepeat the trainer was created with
          Repeats,      \* values an edit may set reminderRepeat to
          MaxRepeat,    \* EReminderRepeat.MAX_REPEAT
          MaxAttempts,  \* attempts of the fill-in-blank queue
          MaxUpsets     \* bound on errors, crashes and deletions

ASSUME LimitAssumption == /\ MaxRepeat \in Nat \ {0} /\ StartRepeat \in Nat /\ Repeats \subseteq Nat
                          /\ MaxAttempts \in Nat \ {0} /\ MaxUpsets \in Nat
ASSUME TextAssumption == Assignments \subseteq Seq(Words) /\ DOMAIN TextsOf = Words

VARIABLES
    trainer,  \* the row: alive, reminderRepeat, assigned words
    words,    \* vocabularies that exist
    results,  \* rows of vocab_trainer_result: writer, position, word, passed
    mastery,  \* vocab_mastery row of each word
    history,  \* vocab_mastery_history rows of each word, oldest first
    proc,     \* progress of each request or job
    upsets,   \* errors, crashes and deletions so far
    passes,   \* history: gradings that ended as passed, one for each attempt of a job
    granted,  \* history: how far the user has set reminderRepeat beyond the passes
    asked,    \* history: per word, the answers submitted for it
    again     \* history: per word, the answers counted by an attempt that failed and
              \* that another attempt counts again

vars == <<trainer, words, results, mastery, history, proc, upsets, passes, granted, asked, again>>
scores == <<mastery, history>>
ghosts == <<passes, granted, asked>>   \* again changes with Abort alone

Idle == [kind |-> "none", pc |-> "idle", marks |-> <<>>, size |-> 0, i |-> 1,
         row |-> FreshRow, repeat |-> 0, attempt |-> 0, met |-> {}]
Ended == {"done", "failed"}
Active(p) == proc[p].pc \notin Ended \cup {"idle"}

Init ==
    /\ trainer \in [alive: {TRUE}, repeat: {StartRepeat}, words: Assignments]
    /\ words = Words
    /\ results = {}
    /\ mastery = [w \in Words |-> NoMastery]
    /\ history = [w \in Words |-> <<>>]
    /\ proc = [p \in Procs |-> Idle]
    /\ upsets = 0
    /\ passes = 0
    /\ granted = StartRepeat
    /\ asked = [w \in Words |-> 0]
    /\ again = [w \in Words |-> 0]

---------------------------------------------------------------------------
(* Answers                                                                 *)

\* One question per assigned word, whose correct answer is a text of that
\* word; the client sends it back as systemSelected with the user's reply.
Answers(ws) == {g \in [DOMAIN ws -> [system: UNION {TextsOf[w] : w \in Words}, user: Replies]] :
                    \A k \in DOMAIN ws : g[k].system \in TextsOf[ws[k]]}

Carriers(ws, text) == {k \in DOMAIN ws : ws[k] \in words /\ text \in TextsOf[ws[k]]}

\* vocabIdMap: a later assignment overwrites an earlier one.
LastCarrier(ws, text) ==
    LET c == Carriers(ws, text)
    IN  IF c = {} THEN NoWord ELSE ws[CHOOSE k \in c : \A l \in c : l <= k]

\* submitFillInBlank takes the first assignment that matches.
FirstCarrier(ws, text) ==
    LET c == Carriers(ws, text)
    IN  IF c = {} THEN NoWord ELSE ws[CHOOSE k \in c : \A l \in c : k <= l]

\* evaluateMultipleChoiceAnswers: an answer is right when it is the correct
\* answer of any question of the exam.
ChoiceMarks(ws, g) ==
    [k \in DOMAIN g |-> [word |-> LastCarrier(ws, g[k].system),
                         ok |-> \E l \in DOMAIN g : g[l].system = g[k].user]]

\* Answers whose word is unknown are left out of the job; the others keep
\* their order.
FillMarks(ws, g) ==
    LET known == {k \in DOMAIN g : FirstCarrier(ws, g[k].system) # NoWord}
        Nth(n) == CHOOSE k \in known : Cardinality({l \in known : l <= k}) = n
    IN  [n \in 1..Cardinality(known) |-> [word |-> FirstCarrier(ws, g[Nth(n)].system), ok |-> FALSE]]

---------------------------------------------------------------------------
(* The life of a request or job                                            *)

Goto(p, pc) == proc' = [proc EXCEPT ![p].pc = pc] /\ UNCHANGED again
GotoWith(p, pc, row) == proc' = [proc EXCEPT ![p].pc = pc, ![p].row = row] /\ UNCHANGED again
Finish(p, pc) ==
    /\ proc' = [proc EXCEPT ![p] = [Idle EXCEPT !.pc = pc, !.met = proc[p].met]]
    /\ UNCHANGED again
Upset == upsets < MaxUpsets /\ upsets' = upsets + 1

\* Every request in flight has met the one that starts, and the other way.
Start(p, kind, pc, marks, size) ==
    LET others == {q \in Procs \ {p} : Active(q)}
    IN  /\ proc' = [q \in Procs |->
              IF q = p
              THEN [Idle EXCEPT !.kind = kind, !.pc = pc, !.marks = marks, !.size = size,
                                !.repeat = trainer.repeat, !.attempt = 1, !.met = others]
              ELSE IF q \in others THEN [proc[q] EXCEPT !.met = @ \cup {p}] ELSE proc[q]]
        /\ UNCHANGED again

AnswersTo(w, marks) == {k \in DOMAIN marks : marks[k].word = w}
Ask(marks) == asked' = [w \in Words |-> asked[w] + Cardinality(AnswersTo(w, marks))]

\* submitChoiceBasedExam reads the trainer and grades.
SubmitChoice(p) ==
    /\ proc[p].pc = "idle" /\ trainer.alive
    /\ \E g \in Answers(trainer.words) :
           LET marks == ChoiceMarks(trainer.words, g)
           IN  /\ g # <<>>
               /\ Start(p, "choice", "wipe", marks, Len(g)) /\ Ask(marks)
    /\ UNCHANGED <<trainer, words, results, scores, upsets, passes, granted>>

\* submitFillInBlank matches the answers and queues the job; the lock of
\* the user (TrainerJob) admits one at a time.
SubmitFill(p) ==
    /\ proc[p].pc = "idle" /\ trainer.alive
    /\ \A q \in Procs : Active(q) => proc[q].kind # "fill"
    /\ \E g \in Answers(trainer.words) :
           LET marks == FillMarks(trainer.words, g)
           IN  /\ marks # <<>>
               /\ Start(p, "fill", "ai", marks, Len(g)) /\ Ask(marks)
    /\ UNCHANGED <<trainer, words, results, scores, upsets, passes, granted>>

\* The answers to w the attempt has put into the mastery row; before "history" the
\* answer at i is still to come.
CountedBy(p, w) ==
    {k \in AnswersTo(w, proc[p].marks) : IF proc[p].pc = "history" THEN k <= proc[p].i ELSE k < proc[p].i}

\* An error leaves the handler: a request answers 500, a job starts again from the
\* beginning while it has attempts left.
Abort(p) ==
    IF proc[p].kind = "fill" /\ proc[p].attempt < MaxAttempts
    THEN /\ proc' = [proc EXCEPT ![p].pc = "ai", ![p].i = 1, ![p].row = FreshRow, ![p].attempt = @ + 1]
         /\ again' = [w \in Words |-> again[w] + Cardinality(CountedBy(p, w))]
    ELSE Finish(p, "failed")

\* A statement fails or the process dies.
Fail(p) ==
    /\ Active(p) /\ Upset
    /\ Abort(p)
    /\ UNCHANGED <<trainer, words, results, scores, ghosts>>

\* evaluateAllFillInBlankAnswers: a verdict per answer.
CallAi(p) ==
    /\ proc[p].pc = "ai"
    /\ \E verdict \in [DOMAIN proc[p].marks -> BOOLEAN] :
           proc' = [proc EXCEPT ![p].pc = "wipe",
                                ![p].marks = [k \in DOMAIN @ |-> [word |-> @[k].word, ok |-> verdict[k]]]]
    /\ UNCHANGED <<trainer, words, results, scores, upsets, ghosts, again>>

---------------------------------------------------------------------------
(* Results                                                                 *)

\* Mutant: the former results stay.
WipeNothing(p) ==
    /\ proc[p].pc = "wipe"
    /\ Goto(p, "insert")
    /\ UNCHANGED <<trainer, words, results, scores, upsets, ghosts>>

\* deleteResultsByTrainerId, deleteVocabTrainerResults
WipeResults(p) ==
    /\ proc[p].pc = "wipe"
    /\ results' = {}
    /\ Goto(p, "insert")
    /\ UNCHANGED <<trainer, words, scores, upsets, ghosts>>

\* createResults: the foreign keys want the trainer and every named word.
CreateResults(p) ==
    LET marks == proc[p].marks
    IN  /\ proc[p].pc = "insert"
        /\ \/ /\ trainer.alive /\ \A k \in DOMAIN marks : marks[k].word \in words \cup {NoWord}
              /\ results' = results \cup
                    {[by |-> p, at |-> k, word |-> marks[k].word, ok |-> marks[k].ok] : k \in DOMAIN marks}
              /\ Goto(p, "find")
           \/ /\ ~trainer.alive \/ \E k \in DOMAIN marks : marks[k].word \notin words \cup {NoWord}
              /\ Abort(p)
              /\ UNCHANGED results
        /\ UNCHANGED <<trainer, words, scores, upsets, ghosts>>

---------------------------------------------------------------------------
(* Mastery: VocabMasteryService.updateMastery for each result in turn      *)

Word(p) == proc[p].marks[proc[p].i].word
InLoop(p, pc) == proc[p].pc = pc /\ proc[p].i <= Len(proc[p].marks)

NextResult(p) == /\ proc' = [proc EXCEPT ![p].pc = "find", ![p].i = @ + 1, ![p].row = FreshRow]
                 /\ UNCHANGED again

\* getOrCreateMastery looks the row up; a result without a word has none.
FindMastery(p) ==
    /\ InLoop(p, "find")
    /\ \/ Word(p) = NoWord /\ NextResult(p)
       \/ Word(p) \in Words /\ mastery[Word(p)] = NoMastery /\ Goto(p, "create")
       \/ /\ Word(p) \in Words /\ mastery[Word(p)] # NoMastery
          /\ GotoWith(p, "update", mastery[Word(p)])
    /\ UNCHANGED <<trainer, words, results, scores, upsets, ghosts>>

\* Mutant: the row is created with the answer in it, and updated with it again.
CreateCounted(p) ==
    /\ InLoop(p, "create")
    /\ LET row == Graded(FreshRow, proc[p].marks[proc[p].i].ok)
       IN  \/ /\ mastery[Word(p)] = NoMastery /\ Word(p) \in words
              /\ mastery' = [mastery EXCEPT ![Word(p)] = row]
              /\ GotoWith(p, "update", row)
           \/ /\ mastery[Word(p)] # NoMastery \/ Word(p) \notin words
              /\ Abort(p)
              /\ UNCHANGED mastery
    /\ UNCHANGED <<trainer, words, results, history, upsets, ghosts>>

\* The insert fails on a row created meanwhile or on a word deleted.
CreateMastery(p) ==
    /\ InLoop(p, "create")
    /\ \/ /\ mastery[Word(p)] = NoMastery /\ Word(p) \in words
          /\ mastery' = [mastery EXCEPT ![Word(p)] = FreshRow]
          /\ GotoWith(p, "update", FreshRow)
       \/ /\ mastery[Word(p)] # NoMastery \/ Word(p) \notin words
          /\ Abort(p)
          /\ UNCHANGED mastery
    /\ UNCHANGED <<trainer, words, results, history, upsets, ghosts>>

\* The update writes values computed from the row read before.
UpdateMastery(p) ==
    /\ InLoop(p, "update")
    /\ LET row == Graded(proc[p].row, proc[p].marks[proc[p].i].ok)
       IN  \/ /\ mastery[Word(p)] # NoMastery
              /\ mastery' = [mastery EXCEPT ![Word(p)] = row]
              /\ GotoWith(p, "history", row)
           \/ mastery[Word(p)] = NoMastery /\ Abort(p) /\ UNCHANGED mastery
    /\ UNCHANGED <<trainer, words, results, history, upsets, ghosts>>

SaveHistory(p) ==
    /\ InLoop(p, "history")
    /\ \/ /\ Recordable(proc[p].row) /\ mastery[Word(p)] # NoMastery
          /\ history' = [history EXCEPT ![Word(p)] = Append(@, proc[p].row)]
          /\ NextResult(p)
       \/ /\ ~Recordable(proc[p].row) \/ mastery[Word(p)] = NoMastery
          /\ Abort(p)
          /\ UNCHANGED history
    /\ UNCHANGED <<trainer, words, results, mastery, upsets, ghosts>>

---------------------------------------------------------------------------
(* The pass                                                                *)

Passed(p) ==
    10 * Len(SelectSeq(proc[p].marks, LAMBDA mark : mark.ok)) >= 7 * proc[p].size

\* passCount comes from the trainer as the request read it before grading;
\* the job reads it now, and fails when it is gone.
CountPass(p) ==
    LET read == IF proc[p].kind = "fill" THEN trainer.repeat ELSE proc[p].repeat
        count == IF Passed(p) THEN read + 1 ELSE read
    IN  /\ proc[p].pc = "find" /\ proc[p].i > Len(proc[p].marks)
        /\ \/ /\ proc[p].kind = "fill" => trainer.alive
              /\ proc' = [proc EXCEPT ![p].pc = IF count >= MaxRepeat THEN "notify" ELSE "sync",
                                      ![p].repeat = count]
              /\ passes' = IF Passed(p) THEN passes + 1 ELSE passes
              /\ UNCHANGED again
           \/ proc[p].kind = "fill" /\ ~trainer.alive /\ Abort(p) /\ UNCHANGED passes
        /\ UNCHANGED <<trainer, words, results, scores, upsets, granted, asked>>

\* "Your test has been completed after 6 passes", before the deletion.
NotifyCompleted(p) ==
    /\ proc[p].pc = "notify"
    /\ Goto(p, "remove")
    /\ UNCHANGED <<trainer, words, results, scores, upsets, ghosts>>

\* deleteVocabTrainerRow; results go with the trainer.
CompleteTrainer(p) ==
    /\ proc[p].pc = "remove"
    /\ \/ trainer.alive /\ trainer' = [trainer EXCEPT !.alive = FALSE] /\ results' = {} /\ Finish(p, "done")
       \/ ~trainer.alive /\ Abort(p) /\ UNCHANGED <<trainer, results>>
    /\ UNCHANGED <<words, scores, upsets, ghosts>>

\* Mutant: the pass is added to a count that has it already.
SyncTrainerTwice(p) ==
    /\ proc[p].pc = "sync"
    /\ \/ trainer.alive /\ trainer' = [trainer EXCEPT !.repeat = proc[p].repeat + 1] /\ Goto(p, "schedule")
       \/ ~trainer.alive /\ Abort(p) /\ UNCHANGED trainer
    /\ UNCHANGED <<words, results, scores, upsets, ghosts>>

\* updateVocabTrainerWithIncludes, in the transaction of the reminders.
SyncTrainer(p) ==
    /\ proc[p].pc = "sync"
    /\ \/ trainer.alive /\ trainer' = [trainer EXCEPT !.repeat = proc[p].repeat] /\ Goto(p, "schedule")
       \/ ~trainer.alive /\ Abort(p) /\ UNCHANGED trainer
    /\ UNCHANGED <<words, results, scores, upsets, ghosts>>

\* scheduleNotification, after the commit.
ScheduleNotification(p) ==
    /\ proc[p].pc = "schedule"
    /\ Finish(p, "done")
    /\ UNCHANGED <<trainer, words, results, scores, upsets, ghosts>>

---------------------------------------------------------------------------
(* The user meanwhile                                                      *)

\* update reads the trainer ...
EditTrainer(p) ==
    /\ proc[p].pc = "idle" /\ trainer.alive
    /\ Start(p, "edit", "write", <<>>, 0)
    /\ UNCHANGED <<trainer, words, results, scores, upsets, ghosts>>

\* ... and writes every field, as the client gives it or as it was read, the repeat
\* among them, with or without new assignments.
WriteTrainer(p) ==
    /\ proc[p].pc = "write"
    /\ \/ /\ trainer.alive
          /\ \E ws \in Assignments \cup {trainer.words}, n \in Repeats \cup {proc[p].repeat} :
                 /\ \A k \in DOMAIN ws : ws[k] \in words \/ ws = trainer.words
                 /\ trainer' = [trainer EXCEPT !.repeat = n, !.words = ws]
                 /\ granted' = IF n \in Repeats /\ n > granted + passes THEN n - passes ELSE granted
          /\ Finish(p, "done")
       \/ ~trainer.alive /\ Abort(p) /\ UNCHANGED <<trainer, granted>>
    /\ UNCHANGED <<words, results, scores, upsets, passes, asked>>

DeleteTrainer ==
    /\ trainer.alive /\ Upset
    /\ trainer' = [trainer EXCEPT !.alive = FALSE]
    /\ results' = {}
    /\ UNCHANGED <<words, scores, proc, ghosts, again>>

\* Deleting a word takes its mastery, history and results along.
DeleteWord(w) ==
    /\ w \in words /\ Upset
    /\ words' = words \ {w}
    /\ results' = {r \in results : r.word # w}
    /\ mastery' = [mastery EXCEPT ![w] = NoMastery]
    /\ history' = [history EXCEPT ![w] = <<>>]
    /\ UNCHANGED <<trainer, proc, ghosts, again>>

---------------------------------------------------------------------------

Grade(p) == CallAi(p) \/ WipeResults(p) \/ CreateResults(p)
Master(p) == FindMastery(p) \/ CreateMastery(p) \/ UpdateMastery(p) \/ SaveHistory(p)
Conclude(p) == CountPass(p) \/ NotifyCompleted(p) \/ CompleteTrainer(p) \/ SyncTrainer(p)
               \/ ScheduleNotification(p) \/ WriteTrainer(p)

Next ==
    \/ \E p \in Procs : SubmitChoice(p) \/ SubmitFill(p) \/ EditTrainer(p) \/ Fail(p)
                        \/ Grade(p) \/ Master(p) \/ Conclude(p)
    \/ DeleteTrainer
    \/ \E w \in Words : DeleteWord(w)

Spec == Init /\ [][Next]_vars

---------------------------------------------------------------------------
(* Properties                                                              *)

\* Whatever updates overlap or are lost, a score is earned: no row of the
\* table or of the history has a score above the correct answers it counts.
ScoreEarned ==
    \A w \in Words :
        /\ mastery[w] # NoMastery => mastery[w].score <= mastery[w].correct
        /\ \A k \in DOMAIN history[w] : history[w][k].score <= history[w][k].correct

\* An answer is counted once, unless its job failed after counting it and started
\* again: a word's counts stay within the answers submitted for it and those a failed
\* attempt had counted already.
AnswersCountedOnce ==
    \A w \in Words :
        mastery[w] # NoMastery => mastery[w].correct + mastery[w].incorrect <= asked[w] + again[w]

\* The pass count of the trainer is covered by what the user has set it to and the
\* passes graded since, whatever stale value a submission or an edit writes back, and a
\* trainer is completed on MaxRepeat of them.
PassesEarned ==
    /\ trainer.repeat <= granted + passes
    /\ \A p \in Procs : proc[p].pc \in {"notify", "remove"} => granted + passes >= MaxRepeat

\* Result rows of two exams mix only when the exams overlapped.
ResultsOfOneExam ==
    \A r, s \in results : r.by # s.by => s.by \in proc[r.by].met

=============================================================================
