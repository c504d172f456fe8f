-------------------------- MODULE MC_ExamQuestions --------------------------
(* Two choice exams and one of each other kind; the requests are alike. *)
EXTENDS ExamQuestions, TLC

CONSTANTS t1, t2, t3, t4
MCTypes == (t1 :> "MULTIPLE_CHOICE") @@ (t2 :> "FILL_IN_BLANK_CHOICE") @@ (t3 :> "FILL_IN_THE_BLANK")
           @@ (t4 :> "TRANSLATION_AUDIO")
Sym == Permutations(Requests)
=============================================================================
