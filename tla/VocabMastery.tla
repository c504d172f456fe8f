----------------------------- MODULE VocabMastery -----------------------------
(***************************************************************************)
(* The rows of vocab_mastery and vocab_mastery_history of one user, and    *)
(* the arithmetic of VocabMasteryService on them.                          *)
(***************************************************************************)
EXTENDS Naturals, Sequences

CONSTANTS Words,      \* ids of the user's vocabularies
          MaxScore,   \* 10 in the code
          NoWord,     \* vocabId null
          NoMastery   \* no row yet for a word

\* A row: the score and the answers counted so far.
Rows == [score: 0..MaxScore, correct: Nat, incorrect: Nat]

ASSUME ScoreAssumption == MaxScore \in Nat \ {0}
ASSUME NullAssumption == NoWord \notin Words /\ NoMastery \notin Rows

FreshRow == [score |-> 0, correct |-> 0, incorrect |-> 0]

\* Mutant: a right answer is counted as a wrong one.
GradedSwapped(row, isCorrect) ==
    IF isCorrect
    THEN [row EXCEPT !.score = IF @ < MaxScore THEN @ + 1 ELSE MaxScore, !.incorrect = @ + 1]
    ELSE [row EXCEPT !.score = IF @ > 0 THEN @ - 1 ELSE 0, !.correct = @ + 1]

\* The row updateMastery writes, from the row it has read.
Graded(row, isCorrect) ==
    IF isCorrect
    THEN [score |-> IF row.score < MaxScore THEN row.score + 1 ELSE MaxScore,
          correct |-> row.correct + 1, incorrect |-> row.incorrect]
    ELSE [score |-> IF row.score > 0 THEN row.score - 1 ELSE 0,
          correct |-> row.correct, incorrect |-> row.incorrect + 1]

\* saveHistory refuses anything else.
Recordable(row) == row.score \in 0..MaxScore /\ row.correct >= 0 /\ row.incorrect >= 0
=============================================================================
