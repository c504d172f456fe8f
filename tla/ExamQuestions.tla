--------------------------- MODULE ExamQuestions ---------------------------
(***************************************************************************)
(* How the exams of one user get their questions.  GET :id/exam reads the  *)
(* trainer; fill-in-the-blank and flip cards are built in the answer, a    *)
(* dialogue is written by the AI before the answer, and the choice exams   *)
(* are generated by a job.  That job, like the jobs that evaluate answers, *)
(* needs the user's one lock; whoever does not get it is answered with the *)
(* id of the job that has it.                                              *)
(* TrainerJob has the steps of the lock and of Bull's retries one by one;  *)
(* here they are as fine as the questions need.  A request, its job and    *)
(* the questions they write share one name.                                *)
(***************************************************************************)
EXTENDS Naturals, FiniteSets

CONSTANTS
  Trainers, Requests,
  QuestionType,       \* the kind of exam of each trainer
  MaxUpsets,          \* errors, expired locks and ended processes
  None

ChoiceTypes == {"MULTIPLE_CHOICE", "FILL_IN_BLANK_CHOICE"}
QuestionTypes == ChoiceTypes \cup {"FILL_IN_THE_BLANK", "FLIP_CARD", "TRANSLATION_AUDIO"}
ASSUME TypeAssumption == QuestionType \in [Trainers -> QuestionTypes]
ASSUME UpsetAssumption == MaxUpsets \in Nat
ASSUME NoneAssumption == None \notin Requests \cup Trainers

VARIABLES
  trainers,           \* questionAnswers and lastExamSubmittedAt of each trainer
  lock,               \* the job that holds the user's lock
  requests,           \* requests on exams
  jobs,               \* the job of each request
  upsets,
  hit                 \* history: requests that failed, whose job was left by its process or lost the lock

vars == <<trainers, lock, requests, jobs, upsets, hit>>

NewRequest == [pc |-> "new", op |-> "exam", trainer |-> None, told |-> None]
Init ==
  /\ trainers = [t \in Trainers |-> [questions |-> None, submitted |-> FALSE]]
  /\ lock = None
  /\ requests = [r \in Requests |-> NewRequest]
  /\ jobs = [r \in Requests |-> "none"]
  /\ upsets = 0 /\ hit = {}

Upset == upsets < MaxUpsets /\ upsets' = upsets + 1
Hit(r) == Upset /\ hit' = hit \cup {r}
Calm == UNCHANGED <<upsets, hit>>
Goto(r, pc) == requests' = [requests EXCEPT ![r].pc = pc]
Begin(r, op, t, pc) ==
  requests[r] = NewRequest /\ requests' = [requests EXCEPT ![r] = [NewRequest EXCEPT !.pc = pc, !.op = op, !.trainer = t]]
AnswerWith(r, job) == requests' = [requests EXCEPT ![r].pc = "answered", ![r].told = job]
Store(t, questions) == trainers' = [trainers EXCEPT ![t].questions = questions]
Submitted(t) == trainers' = [trainers EXCEPT ![t].submitted = TRUE]
Choice(t) == QuestionType[t] \in ChoiceTypes
Dialogue(t) == QuestionType[t] = "TRANSLATION_AUDIO"

----------------------------------------------------------------------------
(* findOneAndExam. *)

\* Questions that are there are kept until the first submission; from then on
\* every request replaces them.
NextStep(t) ==
  IF trainers[t].questions = None THEN "lock"
  ELSE IF trainers[t].submitted THEN "wipe" ELSE "answered"

OpenChoice(r, t) ==
  Choice(t) /\ Begin(r, "exam", t, NextStep(t)) /\ UNCHANGED <<trainers, lock, jobs>> /\ Calm

\* Mutant: a job is queued only if there were no questions.
WipeAndAnswer(r) ==
  /\ requests[r].pc = "wipe" /\ Goto(r, "answered") /\ Store(requests[r].trainer, None)
  /\ UNCHANGED <<lock, jobs>> /\ Calm
\* The questions go before the lock is asked for.
WipeQuestions(r) ==
  /\ requests[r].pc = "wipe" /\ Goto(r, "lock") /\ Store(requests[r].trainer, None)
  /\ UNCHANGED <<lock, jobs>> /\ Calm

\* Built from the words for this answer alone, and not stored.
OpenBuilt(r, t) ==
  /\ QuestionType[t] \in {"FILL_IN_THE_BLANK", "FLIP_CARD"}
  /\ Begin(r, "exam", t, "answered") /\ UNCHANGED <<trainers, lock, jobs>> /\ Calm

OpenDialogue(r, t) ==
  Dialogue(t) /\ Begin(r, "exam", t, "dialogue") /\ UNCHANGED <<trainers, lock, jobs>> /\ Calm
\* No dialogue is written when no word has a translation.
WriteDialogue(r) ==
  /\ requests[r].pc = "dialogue" /\ Goto(r, "answered")
  /\ Store(requests[r].trainer, r) \/ UNCHANGED trainers
  /\ UNCHANGED <<lock, jobs>> /\ Calm

----------------------------------------------------------------------------
(* The submissions that touch the questions or the lock. *)

SubmitChoice(r, t) ==
  Choice(t) /\ Begin(r, "submit", t, "answered") /\ Submitted(t) /\ UNCHANGED <<lock, jobs>> /\ Calm
SubmitBlank(r, t) ==
  /\ QuestionType[t] = "FILL_IN_THE_BLANK"
  /\ Begin(r, "submit", t, "lock") /\ UNCHANGED <<trainers, lock, jobs>> /\ Calm
SubmitAudio(r, t) ==
  /\ Dialogue(t) /\ trainers[t].questions # None
  /\ Begin(r, "submit", t, "lock") /\ UNCHANGED <<trainers, lock, jobs>> /\ Calm

----------------------------------------------------------------------------
(* withUserActiveJobLock. *)

AcquireOrGetActive(r) ==
  /\ requests[r].pc = "lock"
  /\ \/ lock = None /\ lock' = r /\ Goto(r, "enqueue")
     \/ lock # None /\ AnswerWith(r, lock) /\ UNCHANGED lock
  /\ UNCHANGED <<trainers, jobs>> /\ Calm
Enqueue(r) ==
  /\ requests[r].pc = "enqueue" /\ AnswerWith(r, r) /\ jobs' = [jobs EXCEPT ![r] = "waiting"]
  /\ UNCHANGED <<trainers, lock>> /\ Calm

Released(r) == IF lock = r THEN None ELSE lock
EnqueueError(r) ==
  /\ requests[r].pc = "enqueue" /\ Goto(r, "error") /\ Hit(r)
  /\ lock' = Released(r) /\ UNCHANGED <<trainers, jobs>>
\* The AI or the database refuses, or the process of the request ends.
RequestError(r) ==
  /\ requests[r].pc \in {"wipe", "dialogue", "lock", "enqueue"} /\ Goto(r, "error") /\ Hit(r)
  /\ UNCHANGED <<trainers, lock, jobs>>

----------------------------------------------------------------------------
(* The processors. *)

JobGoto(r, from, to) == jobs[r] = from /\ jobs' = [jobs EXCEPT ![r] = to]

\* A job without the lock is skipped, and nobody is told.
Start(r) ==
  /\ JobGoto(r, "waiting", IF lock = r THEN "running" ELSE "skipped")
  /\ UNCHANGED <<trainers, lock, requests>> /\ Calm
\* A generation saves the questions it got, maybe none: words without a
\* translation and what the AI leaves out give none.
SaveQuestions(r) ==
  /\ requests[r].op = "exam"
  /\ \E questions \in {r, None} :
       /\ JobGoto(r, "running", IF questions = None THEN "savedNone" ELSE "saved")
       /\ Store(requests[r].trainer, questions)
  /\ UNCHANGED <<lock, requests>> /\ Calm
\* An evaluation saves results; that of a blank is the submission of the exam.
SaveResults(r) ==
  /\ requests[r].op = "submit" /\ JobGoto(r, "running", "saved")
  /\ IF Dialogue(requests[r].trainer) THEN UNCHANGED trainers ELSE Submitted(requests[r].trainer)
  /\ UNCHANGED <<lock, requests>> /\ Calm
\* The gateway says "completed"; only then the lock is released.
EmitCompleted(r) ==
  /\ JobGoto(r, "saved", "completed") \/ JobGoto(r, "savedNone", "completedNone")
  /\ UNCHANGED <<trainers, lock, requests>> /\ Calm
Release(r) ==
  /\ JobGoto(r, "completed", "ended") \/ JobGoto(r, "completedNone", "endedNone")
  /\ lock' = Released(r) /\ UNCHANGED <<trainers, requests>> /\ Calm

InHand == {"running", "saved", "savedNone", "completed", "completedNone"}
\* Mutant: the lock is released after every attempt.
FailReleasing(r) ==
  /\ jobs[r] \in InHand /\ Upset /\ lock' = Released(r)
  /\ JobGoto(r, jobs[r], "waiting") \/ JobGoto(r, jobs[r], "failed")
  /\ UNCHANGED <<trainers, requests, hit>>
\* The gateway says "failed", after every attempt.  After the last one the lock
\* is released; so it is after a rate limit, and the attempts that follow end
\* where they ask for it.
Fail(r) ==
  /\ jobs[r] \in InHand /\ Upset
  /\ \/ JobGoto(r, jobs[r], "waiting") /\ UNCHANGED lock
     \/ JobGoto(r, jobs[r], "failed") /\ lock' = Released(r)
  /\ UNCHANGED <<trainers, requests, hit>>
\* The process ends; Bull runs the job again, or gives it up in silence.
Stall(r) ==
  /\ jobs[r] \in InHand /\ Hit(r)
  /\ JobGoto(r, jobs[r], "waiting") \/ JobGoto(r, jobs[r], "skipped")
  /\ UNCHANGED <<trainers, lock, requests>>
Expire ==
  lock # None /\ Hit(lock) /\ lock' = None /\ UNCHANGED <<trainers, requests, jobs>>

Next ==
  \/ Expire
  \/ \E r \in Requests :
       \/ \E t \in Trainers :
            \/ OpenChoice(r, t) \/ OpenBuilt(r, t) \/ OpenDialogue(r, t)
            \/ SubmitChoice(r, t) \/ SubmitBlank(r, t) \/ SubmitAudio(r, t)
       \/ WipeQuestions(r) \/ WriteDialogue(r) \/ AcquireOrGetActive(r) \/ Enqueue(r)
       \/ EnqueueError(r) \/ RequestError(r)
       \/ Start(r) \/ SaveQuestions(r) \/ SaveResults(r) \/ EmitCompleted(r) \/ Release(r)
       \/ Fail(r) \/ Stall(r)
Spec == Init /\ [][Next]_vars

----------------------------------------------------------------------------
(* Properties. *)

ToCome == {"waiting", "running", "saved", "savedNone"}
Announced == {"completed", "completedNone", "ended", "endedNone", "failed"}

\* A request that is answered with a job id names a job that is under way, about
\* to be queued, or whose end has been announced, unless that job's request
\* failed, its process ended or its lock ran out (findOneAndExam and the
\* submissions hand out the id of any active job; attempts may fail).
WaitIsAnswered ==
  \A r \in Requests : requests[r].told # None =>
    LET job == requests[r].told IN
    jobs[job] \in ToCome \cup Announced \/ requests[job].pc = "enqueue" \/ job \in hit

\* A choice exam that was opened has questions, or a request or a job that works
\* on them, or was answered with the job of something else, or its generation
\* failed or found no question to ask, unless a process ended or a lock ran out
\* (findOneAndExam empties the questions in a statement of its own, long before
\* the job writes).
QuestionsAccounted ==
  \A t \in Trainers :
    LET opened == { r \in Requests : requests[r].trainer = t /\ requests[r].op = "exam" } IN
    Choice(t) /\ opened # {} /\ trainers[t].questions = None =>
      \E r \in opened :
        \/ requests[r].pc \in {"lock", "enqueue"}
        \/ requests[r].told \notin {None, r}
        \/ jobs[r] \in ToCome \cup {"completedNone", "endedNone", "failed"}
        \/ r \in hit

=============================================================================
