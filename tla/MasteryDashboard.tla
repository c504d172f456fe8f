--------------------------- MODULE MasteryDashboard ---------------------------
(***************************************************************************)
(* What the dashboard reads off the mastery tables: the aggregates of      *)
(* VocabMasteryRepository, each a query of its own with conditions of its  *)
(* own, which getSummary and the needs-review lists put side by side.      *)
(***************************************************************************)
EXTENDS ExamSubmission, Integers

CONSTANTS LanguageOf, \* source language of each word
          LinksOf,    \* word -> subject -> how many of its text targets name it
          PageSize    \* rows of a page of the needs-review list, 10 by default

ASSUME PageAssumption == PageSize \in 1..100
\* The ranges of the distribution end at 10.
ASSUME WordsAssumption == IsFiniteSet(Words) /\ MaxScore <= 10
\* A word names each subject some number of times, or none.
ASSUME LinksAssumption ==
    \A v, w \in Words : /\ DOMAIN LinksOf[v] = DOMAIN LinksOf[w]
                        /\ \A s \in DOMAIN LinksOf[w] : LinksOf[w][s] \in Nat

\* VOCAB_STATUS_THRESHOLDS, in tenths.
CRITICAL == 6
WARNING == 4

Answered(row) == row.correct + row.incorrect
AtLeast(row, threshold) == Answered(row) > 0 /\ 10 * row.incorrect >= threshold * Answered(row)

\* The rows of vocab_mastery of these words, and what a condition selects.
RowsOf(ws) == {w \in ws : mastery[w] # NoMastery}
Having(ws, Test(_)) == {w \in RowsOf(ws) : Test(mastery[w])}
IsCritical(row) == AtLeast(row, CRITICAL)

\* Mutant: the warning list has no upper bound.
IsWarningUnbounded(row) == AtLeast(row, WARNING)
IsWarning(row) == AtLeast(row, WARNING) /\ ~AtLeast(row, CRITICAL)
NeedsWork(row) == AtLeast(row, WARNING)

\* SUM(...): as many pairs as the terms add up to.
SumOver(Term(_), S) == Cardinality(UNION {{x} \X (1..Term(x)) : x \in S})

\* classifyMasteryHealth, which labels one word at a time in memory.
ClassifyMasteryHealth(row) ==
    CASE Answered(row) = 0 -> "NORMAL"
      [] AtLeast(row, CRITICAL) -> "CRITICAL"
      [] AtLeast(row, WARNING) /\ ~AtLeast(row, CRITICAL) -> "WARNING"
      [] OTHER -> "NORMAL"

\* countHealthByUserId
CountHealth == [critical |-> Cardinality(Having(Words, IsCritical)),
                warning |-> Cardinality(Having(Words, IsWarning))]

\* findNeedsReviewVocabs, all pages, over the words of one language or all.
NeedsReview(status, ws) ==
    CASE status = "critical" -> Having(ws, IsCritical)
      [] status = "warning" -> Having(ws, IsWarning)
      [] OTHER -> Having(ws, NeedsWork)

\* Its order: error rate, then wrong answers; equal rows come in any order.
Before(r, s) ==
    LET rate == r.incorrect * Answered(s) - s.incorrect * Answered(r)
    IN  rate > 0 \/ (rate = 0 /\ r.incorrect > s.incorrect)
Rankings(S) ==
    {rank \in [S -> 0..(Cardinality(S) - 1)] :
        \A x, y \in S : /\ x # y => rank[x] # rank[y]
                        /\ Before(mastery[x], mastery[y]) => rank[x] < rank[y]}

\* getTopProblematicVocabs: the words of a page, for each order of the query.
TopProblematic(status, page) ==
    LET S == NeedsReview(status, Words)
    IN  {{w \in S : rank[w] \div PageSize = page - 1} : rank \in Rankings(S)}

\* findProblematicLanguageCounts: one row per language that has any.
Spoken(l) == {w \in Words : LanguageOf[w] = l}
LanguageCounts ==
    {[language |-> l,
      critical |-> Cardinality(Having(Spoken(l), IsCritical)),
      warning |-> Cardinality(Having(Spoken(l), IsWarning)),
      total |-> Cardinality(Having(Spoken(l), NeedsWork))] :
         l \in {LanguageOf[w] : w \in NeedsReview("all", Words)}}

\* getMasteryBySubjectRaw: the join has a row per text target that names the
\* subject, so a word weighs in the average as often as its targets do.
BySubject ==
    LET Named(s) == {w \in RowsOf(Words) : LinksOf[w][s] > 0}
    IN  {[subject |-> s,
          scores |-> SumOver(LAMBDA w : mastery[w].score * LinksOf[w][s], Named(s)),
          rows |-> SumOver(LAMBDA w : LinksOf[w][s], Named(s)),
          vocabCount |-> Cardinality(Named(s))] :
             s \in {x \in UNION {DOMAIN LinksOf[w] : w \in Words} : Named(x) # {}}}

\* getProgressOverTimeRaw: the practices of every day, taken together.
PracticeCount == SumOver(LAMBDA w : Len(history[w]), RowsOf(Words))

\* getMasteryDistributionRaw: how many rows have a score in each range.
Ranges == {0..0, 1..2, 3..4, 5..6, 7..8, 9..10}
Distribution == [range \in Ranges |-> Cardinality({w \in RowsOf(Words) : mastery[w].score \in range})]

\* aggregateByUserId, with the need-review count getSummary puts beside it.
Totals ==
    [correct |-> SumOver(LAMBDA w : mastery[w].correct, RowsOf(Words)),
     incorrect |-> SumOver(LAMBDA w : mastery[w].incorrect, RowsOf(Words)),
     needReview |-> CountHealth.critical + CountHealth.warning]

\* getSummarySnapshotAt, for a cutoff of now: the last history row of each.
Snapshot ==
    LET recorded == {w \in RowsOf(Words) : history[w] # <<>>}
        Last(w) == history[w][Len(history[w])]
    IN  [correct |-> SumOver(LAMBDA w : Last(w).correct, recorded),
         incorrect |-> SumOver(LAMBDA w : Last(w).incorrect, recorded),
         needReview |-> Cardinality({w \in recorded : NeedsWork(Last(w))})]

\* getSummary: the totals, and how they moved since the snapshot.
Summary ==
    LET now == Totals
        before == Snapshot
    IN  [totals |-> now,
         answersDelta |-> (now.correct + now.incorrect) - (before.correct + before.incorrect),
         correctDelta |-> now.correct - before.correct,
         needReviewDelta |-> now.needReview - before.needReview]

\* getDashboard with every section asked for.
Dashboard == [summary |-> Summary, subjects |-> BySubject,
              problematic |-> TopProblematic("all", 1), languages |-> LanguageCounts,
              distribution |-> Distribution, progress |-> PracticeCount]

---------------------------------------------------------------------------
(* Properties                                                              *)

\* The summary, the needs-review list and its pages, the counts per language,
\* the subjects and the distribution are separate queries, and the label of a
\* word is computed in memory; on one state of the tables they agree.
QueriesAgree ==
    LET d == Dashboard
        list == NeedsReview("all", Words)
        review == Cardinality(list)
        Score(w) == mastery[w].score
    IN  /\ d.summary.totals.needReview = review
        /\ SumOver(LAMBDA c : c.total, d.languages) = review
        /\ \A c \in d.languages :
               /\ c.total = c.critical + c.warning
               /\ c.critical = Cardinality(NeedsReview("critical", Spoken(c.language)))
        /\ \A w \in RowsOf(Words) : w \in list <=> ClassifyMasteryHealth(mastery[w]) # "NORMAL"
        /\ \A page \in d.problematic :
               /\ Cardinality(page) = IF review < PageSize THEN review ELSE PageSize
               /\ \A w \in page, left \in list \ page : ~Before(mastery[left], mastery[w])
        /\ \A s \in d.subjects : \E low, high \in RowsOf(Words) :
               /\ Score(low) * s.rows <= s.scores /\ s.scores <= Score(high) * s.rows
               /\ s.vocabCount <= s.rows
        /\ SumOver(LAMBDA range : d.distribution[range], Ranges) = Cardinality(RowsOf(Words))

\* The trends compare the table with a snapshot rebuilt from the history: a
\* summary whose window holds no practice shows no change, and the progress
\* has a practice for each answer counted, unless updates overlapped, one
\* failed, or one is between its two writes.
TrendsComparable ==
    (upsets = 0 /\ \A p \in Procs : proc[p].met = {} /\ proc[p].pc \notin {"history", "failed"})
        => /\ Summary.answersDelta = 0 /\ Summary.correctDelta = 0 /\ Summary.needReviewDelta = 0
           /\ PracticeCount = Totals.correct + Totals.incorrect

\* What getDashboard returns, taken at one moment, is one account of the practice:
\* its sections agree with each other, and its trends with the history.
DashboardAgrees == QueriesAgree /\ TrendsComparable
=============================================================================
