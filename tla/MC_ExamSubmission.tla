--------------------------- MODULE MC_ExamSubmission ---------------------------
(* Instances of ExamSubmission for TLC: two words that share a text. *)
EXTENDS MasteryDashboard, TLC

CONSTANTS w1, w2

Homonyms == (w1 :> {"a"} @@ w2 :> {"a", "b"})
OneOrBoth == {<<w1, w2>>, <<w2>>}
TwoLanguages == (w1 :> "en" @@ w2 :> "ko")
OneSubject == (w1 :> [s \in {"s"} |-> 1] @@ w2 :> [s \in {"s"} |-> 2])
Symmetry == Permutations(Procs)
=============================================================================
