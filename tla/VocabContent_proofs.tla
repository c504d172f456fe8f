------------------------- MODULE VocabContent_proofs -------------------------
(***************************************************************************)
(* Proofs about VocabContent, for any number of requests served at a time  *)
(* and whatever of them fails where: the daily quota holds, translations   *)
(* are accounted for, an import loses no row it does not report, and the   *)
(* subjects of a guest exceed their limit by overlapping requests alone.   *)
(***************************************************************************)
EXTENDS VocabContent, FiniteSetTheorems, TLAPS

\* Requests of a guest that the counter has let through and that have not
\* created their entry yet, and those that have still to give back their count.
Passed == {c \in Calls : calls[c].op = "create" /\ calls[c].guest /\ calls[c].pc = "refs"}
Back == {c \in Calls : calls[c].pc = "giveBack"}

\* A call has the fields of NoCall.
IsCall(r) ==
  r = [pc |-> r.pc, op |-> r.op, src |-> r.src, texts |-> r.texts, names |-> r.names,
       guest |-> r.guest, rows |-> r.rows, on |-> r.on, todo |-> r.todo, counted |-> r.counted,
       subs |-> r.subs, known |-> r.known, left |-> r.left, errs |-> r.errs,
       refused |-> r.refused]
AreCalls == calls = [c \in Calls |-> calls[c]] /\ \A c \in Calls : IsCall(calls[c])

\* The counter covers what was created and what may still be; a request passes
\* only while there is room for its entry.
QuotaInv ==
  /\ AreCalls
  /\ quota \in Nat /\ made \in Nat
  /\ made + Cardinality(Passed) + Cardinality(Back) <= quota
  /\ made + Cardinality(Passed) <= VocabLimit

LEMMA Counted ==
  /\ IsFiniteSet(Passed) /\ Cardinality(Passed) \in Nat
  /\ IsFiniteSet(Back) /\ Cardinality(Back) \in Nat
<1>1. Passed \in SUBSET Calls /\ Back \in SUBSET Calls
  BY DEF Passed, Back
<1> QED
  BY <1>1, FS_Subset, FS_CardinalityType, VocabAssumption

LEMMA NoCallIsCall == IsCall(NoCall) /\ NoCall.pc = "idle"
BY DEF IsCall, NoCall

\* Assigning to fields of a call leaves it one.
LEMMA QueueCall ==
  ASSUME NEW r, IsCall(r), NEW x, NEW s, s = [r EXCEPT !.pc = "queue", !.on = x]
  PROVE  IsCall(s) /\ s.pc = "queue"
BY DEF IsCall

\* A step that lets no further request through and creates nothing.
LEMMA NoMore ==
  ASSUME QuotaInv, AreCalls', Passed' \subseteq Passed, Back' \subseteq Back,
         UNCHANGED <<quota, made>>
  PROVE  QuotaInv'
<1>1. Cardinality(Passed') <= Cardinality(Passed) /\ Cardinality(Passed') \in Nat
  BY Counted, FS_Subset, FS_CardinalityType
<1>2. Cardinality(Back') <= Cardinality(Back) /\ Cardinality(Back') \in Nat
  BY Counted, FS_Subset, FS_CardinalityType
<1> QED
  BY <1>1, <1>2, Counted, VocabAssumption DEF QuotaInv

\* One call changes.
LEMMA OneCall ==
  ASSUME AreCalls, NEW c \in Calls, NEW r, IsCall(r), calls' = [calls EXCEPT ![c] = r]
  PROVE  /\ AreCalls'
         /\ calls'[c] = r /\ \A k \in Calls \ {c} : calls'[k] = calls[k]
<1>1. calls'[c] = r /\ \A k \in Calls \ {c} : calls'[k] = calls[k]
  BY DEF AreCalls
<1>2. calls' = [k \in Calls |-> calls'[k]]
  BY DEF AreCalls
<1> QED
  BY <1>1, <1>2 DEF AreCalls

\* ... without passing the counter.
LEMMA OneCallNoMore ==
  ASSUME QuotaInv, NEW c \in Calls, NEW r, IsCall(r), calls' = [calls EXCEPT ![c] = r],
         r.op = "create" /\ r.guest /\ r.pc = "refs" => c \in Passed,
         r.pc = "giveBack" => c \in Back,
         UNCHANGED <<quota, made>>
  PROVE  QuotaInv'
<1>1. /\ AreCalls'
      /\ calls'[c] = r /\ \A k \in Calls \ {c} : calls'[k] = calls[k]
  BY OneCall DEF QuotaInv
<1>2. Passed' \subseteq Passed /\ Back' \subseteq Back
  BY <1>1 DEF Passed, Back
<1> QED
  BY <1>1, <1>2, NoMore

LEMMA Finishes ==
  ASSUME QuotaInv, NEW c \in Calls, Finish(c), UNCHANGED <<quota, made>>
  PROVE  QuotaInv'
BY NoCallIsCall, OneCallNoMore DEF Finish

LEMMA Goes ==
  ASSUME QuotaInv, NEW c \in Calls, NEW pc, Goto(c, pc), pc \notin {"refs", "giveBack"},
         UNCHANGED <<quota, made>>
  PROVE  QuotaInv'
<1> DEFINE r == [calls[c] EXCEPT !.pc = pc]
<1>1. IsCall(calls[c]) /\ calls' = [calls EXCEPT ![c] = r]
  BY DEF QuotaInv, AreCalls, Goto
<1>2. IsCall(r) /\ r.pc = pc
  BY <1>1 DEF IsCall
<1> HIDE DEF r
<1> QED
  BY <1>1, <1>2, OneCallNoMore

\* Steps that leave op, guest and pc of their call alone.
LEMMA Stays ==
  ASSUME QuotaInv, NEW c \in Calls, NEW r, IsCall(r), calls' = [calls EXCEPT ![c] = r],
         r.op = calls[c].op, r.guest = calls[c].guest, r.pc = calls[c].pc,
         UNCHANGED <<quota, made>>
  PROVE  QuotaInv'
<1>1. r.op = "create" /\ r.guest /\ r.pc = "refs" => c \in Passed
  BY DEF Passed
<1>2. r.pc = "giveBack" => c \in Back
  BY DEF Back
<1> QED
  BY <1>1, <1>2, OneCallNoMore

----------------------------------------------------------------------------
(* The steps of the counter                                                *)

LEMMA ArriveStep ==
  ASSUME QuotaInv, NEW c \in Calls, NEW in \in Inputs, Arrive(c, in)
  PROVE  QuotaInv'
<1> DEFINE pc == IF in.op = "create" THEN "quota"
                 ELSE IF in.op \in {"subject", "update"} THEN "refs" ELSE in.op
           Row(x) == [NoCall EXCEPT !.pc = pc, !.op = in.op, !.src = in.src, !.texts = in.texts,
                        !.names = in.names, !.guest = in.guest, !.rows = in.rows,
                        !.on = x, !.todo = in.names, !.subs = in.links]
<1>1. UNCHANGED <<quota, made>> /\ \E x : calls' = [calls EXCEPT ![c] = Row(x)]
  BY DEF Arrive
<1>2. ASSUME NEW x PROVE IsCall(Row(x)) /\ Row(x).op = in.op /\ Row(x).pc = pc
  <2> HIDE DEF pc
  <2>1. PICK s : s = Row(x)
    OBVIOUS
  <2>2. PICK op, src, texts, names, guest, rows, links :
          /\ op = in.op /\ src = in.src /\ texts = in.texts /\ names = in.names
          /\ guest = in.guest /\ rows = in.rows /\ links = in.links
    OBVIOUS
  <2>3. s = [NoCall EXCEPT !.pc = pc, !.op = op, !.src = src, !.texts = texts, !.names = names,
                           !.guest = guest, !.rows = rows, !.on = x, !.todo = names, !.subs = links]
    BY <2>1, <2>2
  <2>4. IsCall(s) /\ s.pc = pc /\ s.op = op
    BY <2>3 DEF IsCall, NoCall
  <2> QED
    BY <2>1, <2>2, <2>4
<1>3. in.op \in Ops
  BY VocabAssumption
<1>4. (in.op = "create" => pc # "refs") /\ pc # "giveBack"
  BY <1>3 DEF Ops
<1> HIDE DEF Row, pc
<1> QED
  BY <1>1, <1>2, <1>4, OneCallNoMore

LEMMA CountStep ==
  ASSUME QuotaInv, NEW c \in Calls, CountVocab(c)
  PROVE  QuotaInv'
<1> DEFINE Moved(pc) == [calls[c] EXCEPT !.pc = pc]
<1>1. IsCall(calls[c]) /\ calls[c].pc = "quota" /\ UNCHANGED made
  BY DEF QuotaInv, AreCalls, CountVocab
<1>2. ASSUME NEW pc
      PROVE  /\ IsCall(Moved(pc)) /\ Moved(pc).pc = pc /\ Moved(pc).op = calls[c].op
             /\ Moved(pc).guest = calls[c].guest
  BY <1>1 DEF IsCall
<1>3. c \notin Passed /\ c \notin Back
  BY <1>1 DEF Passed, Back
<1>4. CASE ~calls[c].guest
  <2>1. calls' = [calls EXCEPT ![c] = Moved("refs")] /\ UNCHANGED quota
    BY <1>4 DEF CountVocab, Goto
  <2> HIDE DEF Moved
  <2> QED
    BY <1>1, <1>2, <1>4, <2>1, OneCallNoMore
<1>5. CASE calls[c].guest /\ OverLimit(quota + 1)
  <2>1. calls' = [calls EXCEPT ![c] = Moved("giveBack")] /\ quota' = quota + 1
    BY <1>5 DEF CountVocab, Goto
  <2> HIDE DEF Moved
  <2>2. /\ AreCalls' /\ calls'[c] = Moved("giveBack")
        /\ \A k \in Calls \ {c} : calls'[k] = calls[k]
    BY <1>2, <2>1, OneCall DEF QuotaInv
  <2>3. Passed' = Passed /\ Back' = Back \cup {c}
    BY <1>2, <1>3, <2>2 DEF Passed, Back
  <2>4. Cardinality(Back') = Cardinality(Back) + 1
    BY <1>3, <2>3, Counted, FS_AddElement
  <2> QED
    BY <1>1, <2>1, <2>2, <2>3, <2>4, Counted, VocabAssumption DEF QuotaInv
<1>6. CASE calls[c].guest /\ ~OverLimit(quota + 1)
  <2>1. calls' = [calls EXCEPT ![c] = Moved("refs")] /\ quota' = quota + 1
    BY <1>6 DEF CountVocab, Goto
  <2> HIDE DEF Moved
  <2>2. /\ AreCalls' /\ calls'[c] = Moved("refs")
        /\ \A k \in Calls \ {c} : calls'[k] = calls[k]
    BY <1>2, <2>1, OneCall DEF QuotaInv
  <2>3. Back' = Back /\ Passed' \subseteq Passed \cup {c}
    BY <1>2, <1>3, <2>2 DEF Passed, Back
  <2>4. /\ IsFiniteSet(Passed \cup {c})
        /\ Cardinality(Passed \cup {c}) = Cardinality(Passed) + 1
    BY <1>3, Counted, FS_AddElement
  <2>5. Cardinality(Passed') <= Cardinality(Passed) + 1 /\ Cardinality(Passed') \in Nat
    BY <2>3, <2>4, FS_Subset, FS_CardinalityType
  <2>6. quota + 1 <= VocabLimit
    BY <1>6, VocabAssumption DEF OverLimit, QuotaInv
  <2> QED
    BY <1>1, <2>1, <2>2, <2>3, <2>5, <2>6, Counted, VocabAssumption DEF QuotaInv
<1> QED
  BY <1>4, <1>5, <1>6

LEMMA GiveBackStep ==
  ASSUME QuotaInv, NEW c \in Calls, GiveBack(c)
  PROVE  QuotaInv'
<1>1. /\ c \in Back /\ c \notin Passed /\ quota' = quota - 1 /\ UNCHANGED made
      /\ calls' = [calls EXCEPT ![c] = NoCall]
  BY DEF GiveBack, Back, Passed, Finish
<1>2. /\ AreCalls' /\ calls'[c] = NoCall
      /\ \A k \in Calls \ {c} : calls'[k] = calls[k]
  BY <1>1, NoCallIsCall, OneCall DEF QuotaInv
<1>3. Passed' = Passed /\ Back' = Back \ {c}
  BY <1>1, <1>2, NoCallIsCall DEF Passed, Back
<1>4. Cardinality(Back') = Cardinality(Back) - 1
  BY <1>1, <1>3, Counted, FS_RemoveElement
<1>5. Cardinality(Back') \in Nat
  BY <1>3, Counted, FS_RemoveElement, FS_CardinalityType
<1> QED
  BY <1>1, <1>2, <1>3, <1>4, <1>5, Counted DEF QuotaInv

\* The entry a request creates was counted.
LEMMA CreateStep ==
  ASSUME QuotaInv, NEW c \in Calls, Create(c)
  PROVE  QuotaInv'
<1>1. UNCHANGED quota /\ calls[c].pc = "refs" /\ calls[c].op = "create" /\ IsCall(calls[c])
  BY DEF Create, Resolved, QuotaInv, AreCalls
<1>2. ASSUME NEW r, IsCall(r), r.pc \notin {"refs", "giveBack"}, calls' = [calls EXCEPT ![c] = r],
             made' = made + (IF calls[c].guest THEN 1 ELSE 0)
      PROVE  QuotaInv'
  <2>1. AreCalls' /\ calls'[c] = r /\ \A k \in Calls \ {c} : calls'[k] = calls[k]
    BY <1>2, OneCall DEF QuotaInv
  <2>2. Passed' = Passed \ {c} /\ Back' \subseteq Back
    BY <1>2, <2>1 DEF Passed, Back
  <2>3. Cardinality(Back') <= Cardinality(Back) /\ Cardinality(Back') \in Nat
    BY <2>2, Counted, FS_Subset, FS_CardinalityType
  <2>4. CASE calls[c].guest
    <3>1. c \in Passed
      BY <1>1, <2>4 DEF Passed
    <3>2. Cardinality(Passed') = Cardinality(Passed) - 1
      BY <2>2, <3>1, Counted, FS_RemoveElement
    <3>3. Cardinality(Passed') \in Nat
      BY <2>2, Counted, FS_RemoveElement, FS_CardinalityType
    <3> QED
      BY <1>1, <1>2, <2>1, <2>3, <2>4, <3>2, <3>3, Counted, VocabAssumption DEF QuotaInv
  <2>5. CASE ~calls[c].guest
    <3>1. made' = made
      BY <1>2, <2>5 DEF QuotaInv
    <3> QED
      BY <1>1, <2>1, <2>2, <3>1, NoMore
  <2> QED
    BY <2>4, <2>5
<1>3. CASE Failed(c)
  BY <1>1, <1>3, Finishes DEF Failed
<1>4. ASSUME NEW v, calls' = [calls EXCEPT ![c].pc = "queue", ![c].on = v],
             made' = made + (IF calls[c].guest THEN 1 ELSE 0)
      PROVE  QuotaInv'
  <2> DEFINE r == [calls[c] EXCEPT !.pc = "queue", !.on = v]
  <2>1. IsCall(r) /\ r.pc = "queue"
    <3>1. PICK s : s = r
      OBVIOUS
    <3> QED
      BY <1>1, <3>1, QueueCall
  <2>2. calls' = [calls EXCEPT ![c] = r]
    BY <1>4 DEF QuotaInv, AreCalls
  <2> HIDE DEF r
  <2> QED
    BY <1>2, <1>4, <2>1, <2>2
<1>5. ASSUME Finish(c), made' = made + (IF calls[c].guest THEN 1 ELSE 0)
      PROVE  QuotaInv'
  BY <1>2, <1>5, NoCallIsCall DEF Finish
<1> QED
  BY <1>3, <1>4, <1>5 DEF Create

----------------------------------------------------------------------------
(* The other steps                                                         *)

LEMMA SubjectStep ==
  ASSUME QuotaInv, NEW c \in Calls, NEW n, CountSubjects(c, n) \/ UpsertSubject(c, n)
  PROVE  QuotaInv'
<1>1. IsCall(calls[c]) /\ UNCHANGED <<quota, made>>
  BY DEF QuotaInv, AreCalls, CountSubjects, UpsertSubject
<1>2. ASSUME NEW x, NEW y, NEW z, NEW r, calls' = [calls EXCEPT ![c] = r],
             \/ r = [calls[c] EXCEPT !.todo = x, !.counted = y, !.refused = z]
             \/ r = [calls[c] EXCEPT !.counted = x, !.subs = y, !.refused = z]
             \/ r = [calls[c] EXCEPT !.counted = x, !.subs = y]
      PROVE  QuotaInv'
  <2>1. PICK call : call = calls[c]
    OBVIOUS
  <2>2. /\ IsCall(call)
        /\ \/ r = [call EXCEPT !.todo = x, !.counted = y, !.refused = z]
           \/ r = [call EXCEPT !.counted = x, !.subs = y, !.refused = z]
           \/ r = [call EXCEPT !.counted = x, !.subs = y]
    BY <1>1, <1>2, <2>1
  <2>3. r = [call EXCEPT !.todo = x, !.counted = y, !.refused = z]
          => IsCall(r) /\ r.pc = call.pc /\ r.op = call.op /\ r.guest = call.guest
    BY <2>2 DEF IsCall
  <2>4. r = [call EXCEPT !.counted = x, !.subs = y, !.refused = z]
          => IsCall(r) /\ r.pc = call.pc /\ r.op = call.op /\ r.guest = call.guest
    BY <2>2 DEF IsCall
  <2>5. r = [call EXCEPT !.counted = x, !.subs = y]
          => IsCall(r) /\ r.pc = call.pc /\ r.op = call.op /\ r.guest = call.guest
    BY <2>2 DEF IsCall
  <2> QED
    BY <1>1, <1>2, <2>1, <2>2, <2>3, <2>4, <2>5, Stays
<1>3. CASE CountSubjects(c, n)
  <2> DEFINE full == calls[c].guest /\ SubjectsFull(Cardinality(Own))
             y == IF full THEN calls[c].counted ELSE calls[c].counted \cup {n}
             r == [calls[c] EXCEPT !.todo = @ \ {n}, !.counted = y, !.refused = @ \/ full]
  <2>1. calls' = [calls EXCEPT ![c] = r]
    BY <1>3 DEF CountSubjects, QuotaInv, AreCalls
  <2> HIDE DEF full, y
  <2> QED
    BY <1>2, <2>1
<1>4. CASE UpsertSubject(c, n)
  <2> DEFINE found == {s \in Own : Lower[subjects[s].name] = Lower[n]}
             rest == calls[c].counted \ {n}
             r == [calls[c] EXCEPT !.counted = rest, !.subs = @ \cup found,
                                   !.refused = @ \/ calls[c].op = "subject"]
             q(s) == [calls[c] EXCEPT !.counted = rest, !.subs = @ \cup {s}]
  <2>1. calls' = [calls EXCEPT ![c] = r] \/ \E s : calls' = [calls EXCEPT ![c] = q(s)]
    BY <1>4 DEF UpsertSubject, QuotaInv, AreCalls
  <2> DEFINE subs == calls[c].subs \cup found
             refused == calls[c].refused \/ calls[c].op = "subject"
             more(s) == calls[c].subs \cup {s}
  <2>2. r = [calls[c] EXCEPT !.counted = rest, !.subs = subs, !.refused = refused]
    OBVIOUS
  <2>3. \A s : q(s) = [calls[c] EXCEPT !.counted = rest, !.subs = more(s)]
    OBVIOUS
  <2> HIDE DEF found, rest, r, q, subs, refused, more
  <2>4. CASE calls' = [calls EXCEPT ![c] = r]
    BY <1>2, <2>2, <2>4
  <2>5. ASSUME NEW s, calls' = [calls EXCEPT ![c] = q(s)] PROVE QuotaInv'
    BY <1>2, <2>3, <2>5
  <2> QED
    BY <2>1, <2>4, <2>5
<1> QED
  BY <1>3, <1>4

LEMMA ImportStep ==
  ASSUME QuotaInv, NEW c \in Calls, NEW k, Load(c) \/ MergeGroup(c, k) \/ NewGroup(c, k)
  PROVE  QuotaInv'
<1>1. IsCall(calls[c]) /\ UNCHANGED <<quota, made>>
  BY DEF QuotaInv, AreCalls, Load, MergeGroup, NewGroup
<1>2. CASE Load(c)
  <2>1. Finish(c) \/ \E x, y : calls' = [calls EXCEPT ![c].pc = "groups", ![c].left = x, ![c].known = y]
    BY <1>2 DEF Load
  <2>2. ASSUME NEW x, NEW y, calls' = [calls EXCEPT ![c].pc = "groups", ![c].left = x, ![c].known = y]
        PROVE  QuotaInv'
    <3>0. PICK call : call = calls[c]
      OBVIOUS
    <3>1. PICK r : r = [call EXCEPT !.pc = "groups", !.left = x, !.known = y]
      OBVIOUS
    <3>2. calls' = [calls EXCEPT ![c] = r]
      BY <2>2, <3>0, <3>1 DEF QuotaInv, AreCalls
    <3>3. IsCall(call) => IsCall(r) /\ r.pc = "groups"
      BY <3>1 DEF IsCall
    <3> QED
      BY <1>1, <3>0, <3>2, <3>3, OneCallNoMore
  <2> QED
    BY <1>1, <2>1, <2>2, Finishes
<1>3. CASE MergeGroup(c, k) \/ NewGroup(c, k)
  <2>1. PICK errs : GroupDone(c, k, errs)
    BY <1>3 DEF MergeGroup, NewGroup
  <2> DEFINE x == calls[c].left \ {k}
             y == calls[c].errs \cup errs
  <2>0. PICK call : call = calls[c]
    OBVIOUS
  <2>2. PICK r : r = [call EXCEPT !.left = x, !.errs = y]
    OBVIOUS
  <2>3. calls' = [calls EXCEPT ![c] = r]
    BY <2>0, <2>1, <2>2 DEF GroupDone, QuotaInv, AreCalls
  <2> HIDE DEF x, y
  <2>4. IsCall(call) => IsCall(r) /\ r.pc = call.pc /\ r.op = call.op /\ r.guest = call.guest
    BY <2>2 DEF IsCall
  <2> QED
    BY <1>1, <2>0, <2>3, <2>4, Stays
<1> QED
  BY <1>2, <1>3

LEMMA RequestStep ==
  ASSUME QuotaInv, NEW c \in Calls, Request(c) \/ CallDies(c)
  PROVE  QuotaInv'
<1>1. CASE \/ Refuse(c) \/ Queue(c) \/ Update(c) \/ Delete(c) \/ DeleteFolder(c) \/ AddTarget(c)
           \/ EditTarget(c) \/ RemoveTarget(c) \/ DeleteSubject(c) \/ EndImport(c) \/ CallDies(c)
  <2>1. Finish(c) /\ UNCHANGED <<quota, made>>
    BY <1>1 DEF Refuse, Queue, Update, Delete, DeleteFolder, AddTarget, EditTarget, RemoveTarget,
       DeleteSubject, EndImport, CallDies, Failed
  <2> QED
    BY <2>1, Finishes
<1>2. CASE CheckSubject(c)
  BY <1>2, Finishes, Goes DEF CheckSubject
<1>3. QED
  BY <1>1, <1>2, ArriveStep, CountStep, GiveBackStep, CreateStep, SubjectStep, ImportStep
     DEF Request

LEMMA OtherStep ==
  ASSUME QuotaInv,
         (\E w \in Workers : Work(w)) \/ (\E s \in Foreign : OtherUserDrops(s)) \/ UNCHANGED vars
  PROVE  QuotaInv'
<1>1. UNCHANGED <<calls, quota, made>>
  BY DEF Work, Take, Strip, Translate, RunFails, LockLapses, OtherUserDrops, vars
<1> QED
  BY <1>1, NoMore DEF AreCalls, Passed, Back, QuotaInv

LEMMA QuotaInit == Init => QuotaInv
<1> SUFFICES ASSUME Init PROVE QuotaInv
  OBVIOUS
<1>1. Passed = {} /\ Back = {}
  BY NoCallIsCall DEF Init, Passed, Back, NoCall
<1>2. AreCalls
  BY NoCallIsCall DEF Init, AreCalls
<1> QED
  BY <1>1, <1>2, FS_EmptySet, VocabAssumption DEF Init, QuotaInv

LEMMA QuotaHolds == Spec => []QuotaInv
<1>1. QuotaInv /\ [Next]_vars => QuotaInv'
  BY RequestStep, OtherStep DEF Next
<1> QED
  BY <1>1, QuotaInit, PTL DEF Spec

\* However many requests of a guest overlap, and whatever of them fails or dies,
\* a day sees at most as many entries as the plan allows (enforceDailyVocabQuota).
THEOREM GuestQuotaCorrect == Spec => []GuestQuota
<1>1. QuotaInv => GuestQuota
  BY Counted, VocabAssumption DEF QuotaInv, GuestQuota
<1> QED
  BY <1>1, QuotaHolds, PTL

----------------------------------------------------------------------------
(* Rows and jobs                                                           *)

IsTarget(t) == t = [text |-> t.text, subs |-> t.subs]
IsVocab(r) ==
  /\ r = [at |-> r.at, src |-> r.src, first |-> r.first, targets |-> r.targets,
          edited |-> r.edited]
  /\ \A t \in r.targets : IsTarget(t)
  /\ r.edited \in BOOLEAN /\ (r.at = "unused" => r = NoVocab)
IsJob(j) ==
  j = [st |-> j.st, tries |-> j.tries, stalls |-> j.stalls, subs |-> j.subs, owner |-> j.owner]
AreRows == /\ vocabs = [v \in Ids |-> vocabs[v]] /\ \A v \in Ids : IsVocab(vocabs[v])
           /\ jobs = [v \in Ids |-> jobs[v]] /\ \A v \in Ids : IsJob(jobs[v])
Shapes == AreCalls /\ AreRows

TextsOf(row) == {t.text : t \in row.targets}

\* An entry lives on under its first source, and what the user has not touched keeps
\* its source and its texts; only a placeholder may go.
Keeps(old, new) ==
  /\ new.at # "unused" /\ new.first = old.first /\ (old.edited => new.edited)
  /\ \/ new.edited
     \/ /\ new.at = old.at /\ new.src = old.src
        /\ TextsOf(old) \ {Empty} \subseteq TextsOf(new)
        /\ Empty \in TextsOf(new) => Empty \in TextsOf(old)
IsNew(row) == row.at = "live" /\ ~row.edited /\ row.first = row.src
Effect(old, new) == /\ IsVocab(new)
                    /\ new = old \/ (old.at # "unused" /\ Keeps(old, new))
                       \/ (old.at = "unused" /\ IsNew(new))

LEMMA RowKept ==
  ASSUME NEW old, NEW new, Effect(old, new)
  PROVE  /\ old.at # "unused" => new.at # "unused" /\ (old.edited => new.edited)
                                 /\ new.first = old.first
         /\ old.at # "unused" /\ new.at = "live" /\ ~new.edited =>
              /\ old.at = "live" /\ ~old.edited /\ new.src = old.src
              /\ TextsOf(old) \ {Empty} \subseteq TextsOf(new)
              /\ Empty \in TextsOf(new) => Empty \in TextsOf(old)
BY DEF Effect, Keeps

LEMMA NewRow ==
  ASSUME NEW src, NEW targets, \A t \in targets : IsTarget(t)
  PROVE  /\ IsVocab(NewVocab(src, targets)) /\ IsNew(NewVocab(src, targets))
         /\ NewVocab(src, targets).targets = targets /\ NewVocab(src, targets).src = src
<1>1. PICK new : new = [NoVocab EXCEPT !.at = "live", !.src = src, !.first = src,
                                       !.targets = targets]
  OBVIOUS
<1>2. new = [at |-> new.at, src |-> new.src, first |-> new.first, targets |-> new.targets,
             edited |-> new.edited]
  BY <1>1 DEF NoVocab
<1>3. /\ new.at = "live" /\ new.src = src /\ new.first = src /\ new.targets = targets
      /\ new.edited = FALSE
  BY <1>1 DEF NoVocab
<1>4. NewVocab(src, targets) = new
  BY <1>1 DEF NewVocab
<1> QED
  BY <1>2, <1>3, <1>4 DEF IsVocab, IsNew

\* A request of the user rewrites or removes the row.
LEMMA EditedRow ==
  ASSUME NEW row, IsVocab(row), row.at # "unused", NEW src, NEW targets, NEW at,
         at # "unused", \A t \in targets : IsTarget(t),
         NEW new, \/ new = [row EXCEPT !.at = at, !.targets = targets, !.edited = TRUE]
                  \/ new = [row EXCEPT !.src = src, !.targets = targets, !.edited = TRUE]
                  \/ new = [row EXCEPT !.targets = targets, !.edited = TRUE]
  PROVE  Effect(row, new) /\ new.edited
<1>1. new = [at |-> new.at, src |-> new.src, first |-> new.first, targets |-> new.targets,
             edited |-> new.edited]
  BY DEF IsVocab
<1>2. /\ new.at \in {at, row.at} /\ new.first = row.first /\ new.edited = TRUE
      /\ new.targets = targets
  BY DEF IsVocab
<1> QED
  BY <1>1, <1>2 DEF Effect, Keeps, IsVocab

\* The targets change without the user.
LEMMA FilledRow ==
  ASSUME NEW row, IsVocab(row), row.at # "unused", NEW targets, \A t \in targets : IsTarget(t),
         TextsOf(row) \ {Empty} \subseteq {t.text : t \in targets},
         Empty \in {t.text : t \in targets} => Empty \in TextsOf(row),
         NEW new, new = [row EXCEPT !.targets = targets]
  PROVE  /\ Effect(row, new) /\ Keeps(row, new)
         /\ new.targets = targets /\ new.at = row.at /\ new.edited = row.edited
<1>1. new = [at |-> row.at, src |-> row.src, first |-> row.first, targets |-> targets,
             edited |-> row.edited]
  BY DEF IsVocab
<1>2. /\ new.at = row.at /\ new.first = row.first /\ new.edited = row.edited
      /\ new.targets = targets /\ new.src = row.src
  BY <1>1
<1>3. TextsOf(new) = {t.text : t \in targets}
  BY <1>2 DEF TextsOf
<1>4. Keeps(row, new)
  BY <1>2, <1>3 DEF Keeps
<1>5. IsVocab(new)
  BY <1>1, <1>2 DEF IsVocab
<1>6. Effect(row, new)
  BY <1>4, <1>5 DEF Effect
<1> QED
  BY <1>2, <1>4, <1>6

LEMMA TargetParts ==
  ASSUME NEW text, NEW subs
  PROVE  IsTarget(Target(text, subs)) /\ Target(text, subs).text = text
BY DEF IsTarget, Target

\* The links of a deleted subject go with it.
Cut(row, s) == [row EXCEPT !.targets = {[t EXCEPT !.subs = @ \ {s}] : t \in @}]
LEMMA UnlinkedRow ==
  ASSUME NEW row, IsVocab(row), NEW s
  PROVE  Effect(row, Cut(row, s))
<1>0. PICK new : new = Cut(row, s)
  OBVIOUS
<1> SUFFICES Effect(row, new)
  BY <1>0
<1> DEFINE cut(t) == [t EXCEPT !.subs = @ \ {s}]
           targets == {cut(t) : t \in row.targets}
<1>1. ASSUME NEW t \in row.targets PROVE IsTarget(cut(t)) /\ cut(t).text = t.text
  <2>1. PICK u : u = t
    OBVIOUS
  <2>2. u = [text |-> u.text, subs |-> u.subs]
    BY <2>1 DEF IsVocab, IsTarget
  <2>3. PICK w : w = [u EXCEPT !.subs = @ \ {s}]
    OBVIOUS
  <2>4. w.text = u.text /\ w = [text |-> w.text, subs |-> w.subs]
    BY <2>2, <2>3
  <2> QED
    BY <2>1, <2>3, <2>4 DEF IsTarget
<1>2. new = [row EXCEPT !.targets = targets]
  BY <1>0 DEF Cut
<1> HIDE DEF cut
<1>3. \A t \in targets : IsTarget(t)
  BY <1>1
<1>4. {t.text : t \in targets} = TextsOf(row)
  BY <1>1 DEF TextsOf
<1>5. row.at = "unused" => targets = {} /\ row.targets = {}
  BY DEF IsVocab, NoVocab
<1> HIDE DEF targets
<1>6. CASE row.at # "unused"
  <2>1. PICK x : x = [row EXCEPT !.targets = targets]
    OBVIOUS
  <2>2. Effect(row, x) /\ x.targets = targets /\ x.at = row.at /\ x.edited = row.edited
    BY <1>3, <1>4, <1>6, <2>1, FilledRow
  <2> QED
    BY <1>2, <1>4, <2>1, <2>2 DEF TextsOf
<1>7. CASE row.at = "unused"
  <2>1. new = row
    BY <1>2, <1>5, <1>7 DEF IsVocab
  <2> QED
    BY <2>1 DEF Effect
<1> QED
  BY <1>6, <1>7

----------------------------------------------------------------------------
(* What a step does to a call                                              *)

RowsFine(r) == \A x \in r.rows : x.src \in DOMAIN Lower /\ Lower[x.text] # Empty
CallsFine == AreCalls /\ \A c \in Calls : RowsFine(calls[c])

\* An import goes on with the groups that are left.
Advances(r, s, k, errs) ==
  /\ s.pc = r.pc /\ s.rows = r.rows /\ s.known = r.known
  /\ s.left = r.left \ {k} /\ s.errs = r.errs \cup errs
\* An import has read what the folder has.
Loads(r, s) ==
  /\ s.rows = r.rows /\ s.left = Keys({x.src : x \in r.rows})
  /\ s.known = {[key |-> Lower[vocabs[v].src], id |-> v, texts |-> Keys(Texts(v))] :
                  v \in {u \in Live(vocabs) : \E k \in s.left : Matches(u, k)}}
CallEffect(c) ==
  LET r == calls[c]
      s == calls'[c]
  IN \/ s = r
     \/ s.pc \notin {"queue", "groups"}
     \/ Create(c) /\ s.pc = "queue"
     \/ Load(c) /\ Loads(r, s) /\ s.pc = "groups"
     \/ s.pc = "groups" /\ \E k \in r.left : MergeGroup(c, k) \/ NewGroup(c, k)

LEMMA NoCallRows == RowsFine(NoCall) /\ NoCall.pc = "idle"
BY DEF NoCall, RowsFine

LEMMA CallPut ==
  ASSUME AreCalls, NEW c \in Calls, NEW s, calls' = [calls EXCEPT ![c] = s]
  PROVE  calls'[c] = s /\ \A k \in Calls \ {c} : calls'[k] = calls[k]
BY DEF AreCalls

LEMMA ArriveCall ==
  ASSUME CallsFine, NEW c \in Calls, NEW in \in Inputs, Arrive(c, in)
  PROVE  /\ \A k \in Calls \ {c} : calls'[k] = calls[k]
         /\ RowsFine(calls'[c]) /\ CallEffect(c)
<1> DEFINE pc == IF in.op = "create" THEN "quota"
                 ELSE IF in.op \in {"subject", "update"} THEN "refs" ELSE in.op
<1>1. PICK x, s, op, src, texts, names, guest, rows, links :
        /\ s = [NoCall EXCEPT !.pc = pc, !.op = op, !.src = src, !.texts = texts, !.names = names,
                              !.guest = guest, !.rows = rows, !.on = x, !.todo = names,
                              !.subs = links]
        /\ rows = in.rows /\ calls' = [calls EXCEPT ![c] = s]
  <2> DEFINE Row(x) == [NoCall EXCEPT !.pc = pc, !.op = in.op, !.src = in.src, !.texts = in.texts,
                        !.names = in.names, !.guest = in.guest, !.rows = in.rows,
                        !.on = x, !.todo = in.names, !.subs = in.links]
  <2>1. PICK x : calls' = [calls EXCEPT ![c] = Row(x)]
    BY DEF Arrive
  <2> HIDE DEF pc
  <2> QED
    BY <2>1
<1>2. pc \notin {"queue", "groups"}
  <2>1. in.op \in Ops
    BY VocabAssumption
  <2> QED
    BY <2>1 DEF Ops
<1> HIDE DEF pc
<1>3. s.pc = pc /\ s.rows = rows
  BY <1>1 DEF NoCall
<1>4. RowsFine(s)
  BY <1>1, <1>3, TextsAssumption DEF RowsFine
<1>5. calls'[c] = s /\ \A k \in Calls \ {c} : calls'[k] = calls[k]
  BY <1>1, CallPut DEF CallsFine
<1> QED
  BY <1>2, <1>3, <1>4, <1>5 DEF CallEffect

\* The call goes to a step with nothing else changed, or ends.
LEMMA GoneOn ==
  ASSUME CallsFine, NEW c \in Calls,
         Finish(c) \/ \E pc : pc \notin {"queue", "groups"} /\ Goto(c, pc)
  PROVE  /\ \A k \in Calls \ {c} : calls'[k] = calls[k]
         /\ RowsFine(calls'[c]) /\ CallEffect(c)
<1>1. CASE Finish(c)
  <2>1. calls'[c] = NoCall /\ \A k \in Calls \ {c} : calls'[k] = calls[k]
    BY <1>1, CallPut DEF CallsFine, Finish
  <2> QED
    BY <2>1, NoCallRows DEF CallEffect
<1>2. ASSUME NEW pc, pc \notin {"queue", "groups"}, Goto(c, pc)
      PROVE  /\ \A k \in Calls \ {c} : calls'[k] = calls[k]
             /\ RowsFine(calls'[c]) /\ CallEffect(c)
  <2>1. PICK s : s = [calls[c] EXCEPT !.pc = pc]
    OBVIOUS
  <2>2. s.pc = pc /\ s.rows = calls[c].rows
    BY <2>1 DEF CallsFine, AreCalls, IsCall
  <2>3. calls'[c] = s /\ \A k \in Calls \ {c} : calls'[k] = calls[k]
    BY <1>2, <2>1, CallPut DEF CallsFine, Goto
  <2> QED
    BY <1>2, <2>2, <2>3 DEF CallEffect, CallsFine, RowsFine
<1> QED
  BY <1>1, <1>2

\* Subjects are resolved: the call stays where it is.
LEMMA ResolvesCall ==
  ASSUME CallsFine, NEW c \in Calls, calls[c].pc = "refs", NEW x, NEW y, NEW z, NEW s,
         calls' = [calls EXCEPT ![c] = s],
         \/ s = [calls[c] EXCEPT !.todo = x, !.counted = y, !.refused = z]
         \/ s = [calls[c] EXCEPT !.counted = x, !.subs = y, !.refused = z]
         \/ s = [calls[c] EXCEPT !.counted = x, !.subs = y]
  PROVE  /\ \A k \in Calls \ {c} : calls'[k] = calls[k]
         /\ RowsFine(calls'[c]) /\ CallEffect(c)
<1>1. PICK r : r = calls[c]
  OBVIOUS
<1>2. IsCall(r) /\ RowsFine(r)
  BY <1>1 DEF CallsFine, AreCalls
<1>3. s = [r EXCEPT !.todo = x, !.counted = y, !.refused = z] => s.pc = r.pc /\ s.rows = r.rows
  BY <1>2 DEF IsCall
<1>4. s = [r EXCEPT !.counted = x, !.subs = y, !.refused = z] => s.pc = r.pc /\ s.rows = r.rows
  BY <1>2 DEF IsCall
<1>5. s = [r EXCEPT !.counted = x, !.subs = y] => s.pc = r.pc /\ s.rows = r.rows
  BY <1>2 DEF IsCall
<1>6. s.pc = r.pc /\ s.rows = r.rows
  BY <1>1, <1>3, <1>4, <1>5
<1>7. calls'[c] = s /\ \A k \in Calls \ {c} : calls'[k] = calls[k]
  BY CallPut DEF CallsFine
<1> QED
  BY <1>1, <1>2, <1>6, <1>7 DEF CallEffect, RowsFine

LEMMA SubjectCall ==
  ASSUME CallsFine, NEW c \in Calls, NEW n, CountSubjects(c, n) \/ UpsertSubject(c, n)
  PROVE  /\ \A k \in Calls \ {c} : calls'[k] = calls[k]
         /\ RowsFine(calls'[c]) /\ CallEffect(c)
<1>0. calls[c].pc = "refs"
  BY DEF CountSubjects, UpsertSubject
<1>1. CASE CountSubjects(c, n)
  <2> DEFINE full == calls[c].guest /\ SubjectsFull(Cardinality(Own))
             x == calls[c].todo \ {n}
             y == IF full THEN calls[c].counted ELSE calls[c].counted \cup {n}
             z == calls[c].refused \/ full
             s == [calls[c] EXCEPT !.todo = x, !.counted = y, !.refused = z]
  <2>1. calls' = [calls EXCEPT ![c] = s]
    BY <1>1 DEF CountSubjects, CallsFine, AreCalls
  <2>2. s = [calls[c] EXCEPT !.todo = x, !.counted = y, !.refused = z]
    OBVIOUS
  <2> HIDE DEF full, x, y, z, s
  <2> QED
    BY <1>0, <2>1, <2>2, ResolvesCall
<1>2. CASE UpsertSubject(c, n)
  <2> DEFINE found == {s \in Own : Lower[subjects[s].name] = Lower[n]}
             x == calls[c].counted \ {n}
             y == calls[c].subs \cup found
             z == calls[c].refused \/ calls[c].op = "subject"
             more(i) == calls[c].subs \cup {i}
             s == [calls[c] EXCEPT !.counted = x, !.subs = y, !.refused = z]
             q(i) == [calls[c] EXCEPT !.counted = x, !.subs = more(i)]
  <2>1. calls' = [calls EXCEPT ![c] = s] \/ \E i : calls' = [calls EXCEPT ![c] = q(i)]
    BY <1>2 DEF UpsertSubject, CallsFine, AreCalls
  <2>2. s = [calls[c] EXCEPT !.counted = x, !.subs = y, !.refused = z]
    OBVIOUS
  <2>3. \A i : q(i) = [calls[c] EXCEPT !.counted = x, !.subs = more(i)]
    OBVIOUS
  <2> HIDE DEF found, x, y, z, more, s, q
  <2>4. CASE calls' = [calls EXCEPT ![c] = s]
    BY <1>0, <2>2, <2>4, ResolvesCall
  <2>5. ASSUME NEW i, calls' = [calls EXCEPT ![c] = q(i)]
        PROVE  /\ \A k \in Calls \ {c} : calls'[k] = calls[k]
               /\ RowsFine(calls'[c]) /\ CallEffect(c)
    <3>1. PICK t, m : t = q(i) /\ m = more(i)
      OBVIOUS
    <3> QED
      BY <1>0, <2>3, <2>5, <3>1, ResolvesCall
  <2> QED
    BY <2>1, <2>4, <2>5
<1> QED
  BY <1>1, <1>2

LEMMA CreateCall ==
  ASSUME CallsFine, NEW c \in Calls, Create(c)
  PROVE  /\ \A k \in Calls \ {c} : calls'[k] = calls[k]
         /\ RowsFine(calls'[c]) /\ CallEffect(c)
<1>1. CASE Finish(c)
  BY <1>1, GoneOn
<1>2. ASSUME NEW v, calls' = [calls EXCEPT ![c].pc = "queue", ![c].on = v]
      PROVE  /\ \A k \in Calls \ {c} : calls'[k] = calls[k]
             /\ RowsFine(calls'[c]) /\ CallEffect(c)
  <2>1. PICK r, s : r = calls[c] /\ s = [r EXCEPT !.pc = "queue", !.on = v]
    OBVIOUS
  <2>2. IsCall(r)
    BY <2>1 DEF CallsFine, AreCalls
  <2>3. s.pc = "queue" /\ s.rows = r.rows
    BY <2>1, <2>2 DEF IsCall
  <2>4. calls' = [calls EXCEPT ![c] = s]
    BY <1>2, <2>1 DEF CallsFine, AreCalls
  <2>5. calls'[c] = s /\ \A k \in Calls \ {c} : calls'[k] = calls[k]
    BY <2>4, CallPut DEF CallsFine
  <2> QED
    BY <2>1, <2>3, <2>5 DEF CallEffect, CallsFine, RowsFine
<1> QED
  BY <1>1, <1>2 DEF Create, Failed

LEMMA GroupCall ==
  ASSUME CallsFine, NEW c \in Calls, NEW k, NEW errs, GroupDone(c, k, errs)
  PROVE  /\ \A i \in Calls \ {c} : calls'[i] = calls[i]
         /\ RowsFine(calls'[c]) /\ Advances(calls[c], calls'[c], k, errs)
<1>1. PICK r, s, x, y : /\ r = calls[c] /\ s = [r EXCEPT !.left = x, !.errs = y]
                        /\ x = r.left \ {k} /\ y = r.errs \cup errs
  OBVIOUS
<1>2. IsCall(r)
  BY <1>1 DEF CallsFine, AreCalls
<1>3. s.pc = r.pc /\ s.rows = r.rows /\ s.left = x /\ s.known = r.known /\ s.errs = y
  BY <1>1, <1>2 DEF IsCall
<1>4. calls' = [calls EXCEPT ![c] = s]
  BY <1>1 DEF CallsFine, AreCalls, GroupDone
<1>5. calls'[c] = s /\ \A i \in Calls \ {c} : calls'[i] = calls[i]
  BY <1>4, CallPut DEF CallsFine
<1> QED
  BY <1>1, <1>3, <1>5 DEF Advances, CallsFine, RowsFine

LEMMA ImportCall ==
  ASSUME CallsFine, NEW c \in Calls, NEW k, Load(c) \/ MergeGroup(c, k) \/ NewGroup(c, k)
  PROVE  /\ \A i \in Calls \ {c} : calls'[i] = calls[i]
         /\ RowsFine(calls'[c]) /\ CallEffect(c)
<1>1. ASSUME Load(c), ~Finish(c)
      PROVE  /\ \A i \in Calls \ {c} : calls'[i] = calls[i]
             /\ RowsFine(calls'[c]) /\ CallEffect(c)
  <2> DEFINE keys == Keys({r.src : r \in calls[c].rows})
             Known(v) == [key |-> Lower[vocabs[v].src], id |-> v, texts |-> Keys(Texts(v))]
             known == {Known(v) : v \in {u \in Live(vocabs) : \E i \in keys : Matches(u, i)}}
  <2>1. calls' = [calls EXCEPT ![c].pc = "groups", ![c].left = keys, ![c].known = known]
    BY <1>1 DEF Load
  <2>2. PICK r, s, x, y : /\ r = calls[c] /\ s = [r EXCEPT !.pc = "groups", !.left = x, !.known = y]
                          /\ x = keys /\ y = known
    OBVIOUS
  <2>3. IsCall(r)
    BY <2>2 DEF CallsFine, AreCalls
  <2>4. s.pc = "groups" /\ s.rows = r.rows /\ s.left = x /\ s.known = y
    BY <2>2, <2>3 DEF IsCall
  <2>5. calls' = [calls EXCEPT ![c] = s]
    <3> HIDE DEF keys, known
    <3> QED
      BY <2>1, <2>2 DEF CallsFine, AreCalls
  <2>6. calls'[c] = s /\ \A i \in Calls \ {c} : calls'[i] = calls[i]
    BY <2>5, CallPut DEF CallsFine
  <2>7. Loads(calls[c], s)
    BY <2>2, <2>4 DEF Loads
  <2> QED
    BY <1>1, <2>2, <2>4, <2>6, <2>7 DEF CallEffect, CallsFine, RowsFine
<1>2. ASSUME MergeGroup(c, k) \/ NewGroup(c, k)
      PROVE  /\ \A i \in Calls \ {c} : calls'[i] = calls[i]
             /\ RowsFine(calls'[c]) /\ CallEffect(c)
  <2>1. PICK errs : GroupDone(c, k, errs) /\ k \in calls[c].left /\ calls[c].pc = "groups"
    BY <1>2 DEF MergeGroup, NewGroup
  <2>2. CallEffect(c)
    BY <1>2, <2>1, GroupCall DEF CallEffect, Advances
  <2> QED
    BY <2>1, <2>2, GroupCall
<1> QED
  BY <1>1, <1>2, GoneOn

LEMMA RequestCall ==
  ASSUME CallsFine, NEW c \in Calls, Request(c) \/ CallDies(c)
  PROVE  /\ \A k \in Calls \ {c} : calls'[k] = calls[k]
         /\ RowsFine(calls'[c]) /\ CallEffect(c)
<1>1. CASE \/ Refuse(c) \/ Queue(c) \/ Update(c) \/ Delete(c) \/ DeleteFolder(c) \/ AddTarget(c)
           \/ EditTarget(c) \/ RemoveTarget(c) \/ DeleteSubject(c) \/ EndImport(c) \/ CallDies(c) \/ GiveBack(c)
  <2>1. Finish(c)
    BY <1>1 DEF Refuse, Queue, Update, Delete, DeleteFolder, AddTarget, EditTarget, RemoveTarget,
       DeleteSubject, EndImport, CallDies, Failed, GiveBack
  <2> QED
    BY <2>1, GoneOn
<1>2. CASE CheckSubject(c) \/ CountVocab(c)
  BY <1>2, GoneOn DEF CheckSubject, CountVocab
<1> QED
  BY <1>1, <1>2, ArriveCall, SubjectCall, CreateCall, ImportCall DEF Request

----------------------------------------------------------------------------
(* What a step does to the rows                                            *)

RowsMove == vocabs' = [v \in Ids |-> vocabs'[v]] /\ \A v \in Ids : Effect(vocabs[v], vocabs'[v])

LEMMA RowPut ==
  ASSUME AreRows, NEW v, NEW row, SetVocab(v, row), v \in Ids => Effect(vocabs[v], row)
  PROVE  RowsMove
<1>1. /\ vocabs' = [u \in Ids |-> vocabs'[u]] /\ (v \in Ids => vocabs'[v] = row)
      /\ \A u \in Ids \ {v} : vocabs'[u] = vocabs[u]
  BY DEF AreRows, SetVocab
<1>2. \A u \in Ids : IsVocab(vocabs[u]) /\ Effect(vocabs[u], vocabs[u])
  BY DEF AreRows, Effect
<1>3. ASSUME NEW u \in Ids PROVE Effect(vocabs[u], vocabs'[u])
  <2>1. CASE u = v
    BY <1>1, <2>1
  <2>2. CASE u # v
    BY <1>1, <1>2, <2>2
  <2> QED
    BY <2>1, <2>2
<1> QED
  BY <1>1, <1>3 DEF RowsMove

LEMMA RowsStay == ASSUME AreRows, UNCHANGED vocabs PROVE RowsMove
BY DEF RowsMove, Effect, AreRows

LEMMA NewTargetsFine == ASSUME NEW c PROVE \A t \in NewTargets(c) : IsTarget(t)
BY TargetParts DEF NewTargets

LEMMA PlainFine ==
  ASSUME NEW texts
  PROVE  (\A t \in Plain(texts) : IsTarget(t)) /\ {t.text : t \in Plain(texts)} = texts
BY TargetParts DEF Plain

LEMMA Unused == ASSUME AreRows, NEW v \in Fresh(vocabs) PROVE v \in Ids /\ vocabs[v].at = "unused"
BY VocabAssumption DEF Fresh, AreRows

LEMMA GoneRow ==
  ASSUME NEW row, IsVocab(row), row.at = "live"
  PROVE  Effect(row, Gone(row))
<1>1. PICK new, targets : /\ new = [row EXCEPT !.at = "gone", !.targets = targets, !.edited = TRUE]
                          /\ targets = {}
  OBVIOUS
<1>2. Effect(row, new)
  BY <1>1, EditedRow
<1> QED
  BY <1>1, <1>2 DEF Gone

LEMMA CreateRows == ASSUME AreRows, NEW c, Create(c) PROVE RowsMove
<1>1. CASE UNCHANGED vocabs
  BY <1>1, RowsStay
<1>2. ASSUME NEW v \in Fresh(vocabs), SetVocab(v, NewVocab(calls[c].src, NewTargets(c)))
      PROVE  RowsMove
  <2> DEFINE row == NewVocab(calls[c].src, NewTargets(c))
  <2>1. IsVocab(row) /\ IsNew(row)
    BY NewTargetsFine, NewRow
  <2> HIDE DEF row
  <2>2. Effect(vocabs[v], row)
    BY <2>1, Unused DEF Effect
  <2>3. SetVocab(v, row)
    BY <1>2 DEF row
  <2> QED
    BY <2>2, <2>3, RowPut
<1> QED
  BY <1>1, <1>2 DEF Create, Failed

LEMMA EditRows ==
  ASSUME AreRows, NEW c,
         Update(c) \/ Delete(c) \/ DeleteFolder(c) \/ AddTarget(c) \/ EditTarget(c)
  PROVE  RowsMove
<1>1. ASSUME NEW v, vocabs[v].at = "live", NEW src, NEW targets, \A t \in targets : IsTarget(t),
             NEW new, SetVocab(v, new),
             \/ new = [vocabs[v] EXCEPT !.src = src, !.targets = targets, !.edited = TRUE]
             \/ new = [vocabs[v] EXCEPT !.targets = targets, !.edited = TRUE]
      PROVE  RowsMove
  <2>1. ASSUME v \in Ids PROVE Effect(vocabs[v], new)
    <3>1. PICK row : row = vocabs[v]
      OBVIOUS
    <3>2. IsVocab(row) /\ row.at # "unused"
      BY <1>1, <2>1, <3>1 DEF AreRows
    <3>3. \/ new = [row EXCEPT !.src = src, !.targets = targets, !.edited = TRUE]
          \/ new = [row EXCEPT !.targets = targets, !.edited = TRUE]
      BY <1>1, <3>1
    <3>4. Effect(row, new)
      BY <1>1, <3>2, <3>3, EditedRow
    <3> QED
      BY <3>1, <3>4
  <2> QED
    BY <1>1, <2>1, RowPut
<1>2. CASE Update(c)
  <2> DEFINE v == calls[c].on
             new == [vocabs[v] EXCEPT !.src = calls[c].src, !.targets = NewTargets(c),
                                      !.edited = TRUE]
  <2>1. UNCHANGED vocabs \/ (vocabs[v].at = "live" /\ SetVocab(v, new))
    BY <1>2 DEF Update, Failed
  <2>2. PICK src, targets, row : src = calls[c].src /\ targets = NewTargets(c) /\ row = new
    OBVIOUS
  <2>3. row = [vocabs[v] EXCEPT !.src = src, !.targets = targets, !.edited = TRUE]
    BY <2>2
  <2> HIDE DEF new, v
  <2> QED
    BY <1>1, <2>1, <2>2, <2>3, NewTargetsFine, RowsStay
<1>3. CASE AddTarget(c)
  <2> DEFINE v == calls[c].on
             targets == vocabs[v].targets \cup NewTargets(c)
             new == [vocabs[v] EXCEPT !.targets = targets, !.edited = TRUE]
  <2>1. UNCHANGED vocabs \/ (vocabs[v].at = "live" /\ SetVocab(v, new))
    BY <1>3 DEF AddTarget
  <2>2. PICK row : row = new
    OBVIOUS
  <2>3. ASSUME v \in Ids PROVE \A t \in targets : IsTarget(t)
    BY <2>3, NewTargetsFine DEF AreRows, IsVocab
  <2>4. ASSUME v \notin Ids, SetVocab(v, new) PROVE RowsMove
    BY <2>4, RowPut
  <2> HIDE DEF targets
  <2>5. row = [vocabs[v] EXCEPT !.targets = targets, !.edited = TRUE]
    BY <2>2
  <2> HIDE DEF new, v
  <2> QED
    BY <1>1, <2>1, <2>2, <2>3, <2>4, <2>5, RowsStay
<1>4. CASE Delete(c) \/ DeleteFolder(c)
  <2>1. /\ vocabs' = [v \in Ids |-> vocabs'[v]]
        /\ \A v \in Ids : \/ vocabs'[v] = vocabs[v]
                          \/ vocabs[v].at = "live" /\ vocabs'[v] = Gone(vocabs[v])
    BY <1>4 DEF Delete, DeleteFolder, AreRows
  <2> QED
    BY <2>1, GoneRow DEF RowsMove, Effect, AreRows
<1>5. CASE EditTarget(c)
  <2> DEFINE v == calls[c].on
  <2>1. CASE UNCHANGED vocabs
    BY <2>1, RowsStay
  <2>2. ASSUME NEW t \in vocabs[v].targets, NEW text, NEW subs,
               SetVocab(v, [vocabs[v] EXCEPT !.targets = (@ \ {t}) \cup {Target(text, subs)},
                                             !.edited = TRUE])
        PROVE  RowsMove
    <3>1. PICK row, targets, new, at, src :
            /\ row = vocabs[v] /\ targets = (row.targets \ {t}) \cup {Target(text, subs)}
            /\ new = [row EXCEPT !.targets = targets, !.edited = TRUE] /\ at = "live" /\ src = Empty
      OBVIOUS
    <3>2. SetVocab(v, new)
      BY <2>2, <3>1
    <3>3. ASSUME v \in Ids PROVE Effect(row, new)
      <4>1. IsVocab(row) /\ t \in row.targets
        BY <2>2, <3>1, <3>3 DEF AreRows
      <4>2. row.at # "unused" /\ at # "unused"
        BY <3>1, <4>1 DEF IsVocab, NoVocab
      <4>3. \A u \in targets : IsTarget(u)
        BY <3>1, <4>1, TargetParts DEF IsVocab
      <4> QED
        BY <3>1, <4>1, <4>2, <4>3, EditedRow
    <3> HIDE DEF v
    <3> QED
      BY <3>1, <3>2, <3>3, RowPut
  <2> QED
    BY <1>5, <2>1, <2>2 DEF EditTarget
<1> QED
  BY <1>2, <1>3, <1>4, <1>5

LEMMA RemoveRows == ASSUME AreRows, NEW c, RemoveTarget(c) PROVE RowsMove
<1> DEFINE v == calls[c].on
           new(t) == [vocabs[v] EXCEPT !.targets = @ \ {t}, !.edited = @ \/ t \in vocabs[v].targets]
<1>1. PICK t : SetVocab(v, new(t))
  BY DEF RemoveTarget
<1>2. ASSUME v \in Ids PROVE Effect(vocabs[v], new(t))
  <2>1. PICK row : row = vocabs[v]
    OBVIOUS
  <2>2. IsVocab(row)
    BY <1>2, <2>1 DEF AreRows
  <2>3. CASE t \in row.targets
    <3>1. PICK targets, s : /\ targets = row.targets \ {t}
                            /\ s = [row EXCEPT !.targets = targets, !.edited = TRUE]
      OBVIOUS
    <3>2. s = new(t)
      BY <2>1, <2>3, <3>1
    <3>3. row.at # "unused"
      BY <2>2, <2>3 DEF IsVocab, NoVocab
    <3>4. \A u \in targets : IsTarget(u)
      BY <2>2, <3>1 DEF IsVocab
    <3>5. PICK at, src : at = "live" /\ src = Empty
      OBVIOUS
    <3>6. at # "unused"
      BY <3>5
    <3>7. Effect(row, s)
      BY <2>2, <3>1, <3>3, <3>4, <3>6, EditedRow
    <3> QED
      BY <2>1, <3>2, <3>7
  <2>4. CASE t \notin row.targets
    <3>1. PICK targets, s, edited : /\ targets = row.targets \ {t} /\ edited = (row.edited \/ FALSE)
                            /\ s = [row EXCEPT !.targets = targets, !.edited = edited]
      OBVIOUS
    <3>2. targets = row.targets /\ edited = row.edited
      BY <2>2, <2>4, <3>1 DEF IsVocab
    <3>3. s = new(t)
      BY <2>1, <2>4, <3>1
    <3>4. s = row
      BY <2>2, <3>1, <3>2 DEF IsVocab
    <3> QED
      BY <2>1, <2>2, <3>3, <3>4 DEF Effect
  <2> QED
    BY <2>3, <2>4
<1> HIDE DEF new, v
<1> QED
  BY <1>1, <1>2, RowPut

LEMMA DropRows ==
  ASSUME AreRows, NEW c, NEW i, DeleteSubject(c) \/ OtherUserDrops(i)
  PROVE  RowsMove
<1>1. CASE UNCHANGED vocabs
  BY <1>1, RowsStay
<1>2. ASSUME NEW s, vocabs' = Unlinked(s) PROVE RowsMove
  <2>1. ASSUME NEW v \in Ids PROVE Effect(vocabs[v], vocabs'[v])
    <3>1. vocabs'[v] = Cut(vocabs[v], s)
      BY <1>2 DEF Unlinked, Cut
    <3> QED
      BY <3>1, UnlinkedRow DEF AreRows
  <2>2. vocabs' = [v \in Ids |-> vocabs'[v]]
    BY <1>2 DEF Unlinked
  <2> QED
    BY <2>1, <2>2 DEF RowsMove
<1> QED
  BY <1>1, <1>2 DEF DeleteSubject, OtherUserDrops

\* The texts of a group, one of each Lower; none is a placeholder.
LEMMA GroupTexts ==
  ASSUME CallsFine, NEW c \in Calls, NEW k, NEW D \in Deduped({r.text : r \in GroupOf(calls[c].rows, k)})
  PROVE  /\ Keys(D) = Keys({r.text : r \in GroupOf(calls[c].rows, k)})
         /\ \A t \in D : Lower[t] # Empty /\ t # Empty
<1>1. D \subseteq {r.text : r \in calls[c].rows}
  BY DEF Deduped, GroupOf
<1>2. \A t \in D : Lower[t] # Empty
  BY <1>1 DEF CallsFine, RowsFine
<1> QED
  BY <1>2, VocabAssumption DEF Deduped

LEMMA MergeRows == ASSUME CallsFine, AreRows, NEW c \in Calls, NEW k, MergeGroup(c, k) PROVE RowsMove
<1>1. CASE UNCHANGED vocabs
  BY <1>1, RowsStay
<1>2. ASSUME NEW e, NEW D \in Deduped({r.text : r \in GroupOf(calls[c].rows, k)}),
             Missing(D, e) # {} => vocabs[e.id].at = "live",
             vocabs' = [vocabs EXCEPT ![e.id].targets = @ \cup Plain(Missing(D, e))]
      PROVE  RowsMove
  <2>1. PICK v, row, add, targets, new :
          /\ v = e.id /\ row = vocabs[v] /\ add = Missing(D, e)
          /\ targets = row.targets \cup Plain(add) /\ new = [row EXCEPT !.targets = targets]
    OBVIOUS
  <2>2. SetVocab(v, new)
    BY <1>2, <2>1 DEF SetVocab
  <2>3. ASSUME v \in Ids PROVE Effect(row, new)
    <3>1. IsVocab(row)
      BY <2>1, <2>3 DEF AreRows
    <3>2. CASE add = {}
      <4>1. targets = row.targets
        BY <2>1, <3>2 DEF Plain
      <4>2. new = row
        BY <2>1, <3>1, <4>1 DEF IsVocab
      <4> QED
        BY <3>1, <4>2 DEF Effect
    <3>3. CASE add # {}
      <4>1. row.at = "live"
        BY <1>2, <2>1, <3>3
      <4>2. add \subseteq D
        BY <2>1 DEF Missing
      <4>3. \A t \in targets : IsTarget(t)
        BY <2>1, <3>1, PlainFine DEF IsVocab
      <4>4. {t.text : t \in targets} = TextsOf(row) \cup add
        BY <2>1, PlainFine DEF TextsOf
      <4>5. Empty \notin add
        BY <4>2, GroupTexts
      <4> QED
        BY <2>1, <3>1, <4>1, <4>3, <4>4, <4>5, FilledRow
    <3> QED
      BY <3>2, <3>3
  <2> QED
    BY <2>1, <2>2, <2>3, RowPut
<1> QED
  BY <1>1, <1>2 DEF MergeGroup

LEMMA NewRows ==
  ASSUME AreRows, NEW c, NEW k, NewGroup(c, k)
  PROVE  RowsMove
<1>1. CASE UNCHANGED vocabs
  BY <1>1, RowsStay
<1>2. ASSUME NEW v \in Fresh(vocabs), NEW D, SetVocab(v, NewVocab(k, Plain(D))) PROVE RowsMove
  <2>1. IsVocab(NewVocab(k, Plain(D))) /\ IsNew(NewVocab(k, Plain(D)))
    BY PlainFine, NewRow
  <2>2. Effect(vocabs[v], NewVocab(k, Plain(D)))
    BY <2>1, Unused DEF Effect
  <2> QED
    BY <1>2, <2>2, RowPut
<1> QED
  BY <1>1, <1>2 DEF NewGroup

\* The worker takes the placeholder away ...
LEMMA StrippedRow ==
  ASSUME NEW row, IsVocab(row)
  PROVE  Effect(row, WithoutPlaceholder(row)) /\ Empty \notin TextsOf(WithoutPlaceholder(row))
<1>1. PICK new, targets : /\ new = [row EXCEPT !.targets = targets]
                          /\ targets = {t \in row.targets : t.text # Empty}
  OBVIOUS
<1>2. WithoutPlaceholder(row) = new
  BY <1>1 DEF WithoutPlaceholder
<1>3. /\ \A t \in targets : IsTarget(t)
      /\ {t.text : t \in targets} = TextsOf(row) \ {Empty}
  BY <1>1 DEF TextsOf, IsVocab
<1>4. CASE row.at # "unused"
  <2>1. Effect(row, new) /\ new.targets = targets
    BY <1>1, <1>3, <1>4, FilledRow
  <2> QED
    BY <1>2, <1>3, <2>1 DEF TextsOf
<1>5. CASE row.at = "unused"
  <2>1. row = NoVocab
    BY <1>5 DEF IsVocab
  <2>2. targets = {} /\ row.targets = {}
    BY <1>1, <2>1 DEF NoVocab
  <2>3. new = row
    BY <1>1, <2>1, <2>2 DEF NoVocab
  <2> QED
    BY <1>2, <2>2, <2>3 DEF Effect, TextsOf
<1> QED
  BY <1>4, <1>5

\* ... or, in an entry that was edited, another target ...
LEMMA MissedRow ==
  ASSUME NEW row, IsVocab(row), row.edited, NEW t, NEW new, new = [row EXCEPT !.targets = @ \ {t}]
  PROVE  Effect(row, new) /\ new.edited
<1>1. PICK targets, s, at, src :
        /\ targets = row.targets \ {t} /\ s = [row EXCEPT !.targets = targets, !.edited = TRUE]
        /\ at = "live" /\ src = Empty
  OBVIOUS
<1>2. row.at # "unused" /\ at # "unused"
  BY <1>1 DEF IsVocab, NoVocab
<1>3. \A u \in targets : IsTarget(u)
  BY <1>1 DEF IsVocab
<1>4. Effect(row, s) /\ s.edited
  BY <1>1, <1>2, <1>3, EditedRow
<1>5. row.edited = TRUE
  BY DEF IsVocab
<1>6. s = new
  BY <1>1, <1>5 DEF IsVocab
<1> QED
  BY <1>4, <1>6

\* ... and puts the answer in its place.
LEMMA AnsweredRow ==
  ASSUME NEW row, IsVocab(row), row.at = "live", NEW text \in Translations, NEW subs,
         NEW new, new = [row EXCEPT !.targets = @ \cup {Target(text, subs)}]
  PROVE  Effect(row, new) /\ text \in TextsOf(new)
<1>1. PICK targets : targets = row.targets \cup {Target(text, subs)}
  OBVIOUS
<1>2. new = [row EXCEPT !.targets = targets]
  BY <1>1
<1>3. /\ \A t \in targets : IsTarget(t)
      /\ {t.text : t \in targets} = TextsOf(row) \cup {text}
  BY <1>1, TargetParts DEF TextsOf, IsVocab
<1>4. text # Empty /\ row.at # "unused"
  BY VocabAssumption
<1>5. PICK s : s = [row EXCEPT !.targets = targets]
  OBVIOUS
<1>6. /\ TextsOf(row) \ {Empty} \subseteq {t.text : t \in targets}
      /\ Empty \in {t.text : t \in targets} => Empty \in TextsOf(row)
      /\ \A t \in targets : IsTarget(t)
  BY <1>3, <1>4
<1>7. Effect(row, s) /\ s.targets = targets
  BY <1>4, <1>5, <1>6, FilledRow
<1> QED
  BY <1>2, <1>3, <1>5, <1>7 DEF TextsOf

LEMMA WorkRows == ASSUME AreRows, NEW w, Work(w) PROVE RowsMove
<1>1. CASE UNCHANGED vocabs
  BY <1>1, RowsStay
<1>2. CASE Strip(w)
  <2> DEFINE v == workers[w].on
  <2>1. CASE SetVocab(v, WithoutPlaceholder(vocabs[v]))
    BY <2>1, StrippedRow, RowPut DEF AreRows
  <2>2. ASSUME NEW t, vocabs[v].edited, SetVocab(v, [vocabs[v] EXCEPT !.targets = @ \ {t}])
        PROVE  RowsMove
    <3>1. PICK row, new : row = vocabs[v] /\ new = [row EXCEPT !.targets = @ \ {t}]
      OBVIOUS
    <3>2. v \in Ids => Effect(row, new)
      BY <2>2, <3>1, MissedRow DEF AreRows
    <3> QED
      BY <2>2, <3>1, <3>2, RowPut
  <2> QED
    BY <1>2, <2>1, <2>2 DEF Strip
<1>3. ASSUME NEW v, NEW text \in Translations, vocabs[v].at = "live",
             SetVocab(v, [vocabs[v] EXCEPT !.targets = @ \cup {Target(text, jobs[v].subs)}])
      PROVE  RowsMove
  <2>1. PICK row, subs, new : /\ row = vocabs[v] /\ subs = jobs[v].subs
                              /\ new = [row EXCEPT !.targets = @ \cup {Target(text, subs)}]
    OBVIOUS
  <2>2. v \in Ids => Effect(row, new)
    BY <1>3, <2>1, AnsweredRow DEF AreRows
  <2> QED
    BY <1>3, <2>1, <2>2, RowPut
<1> QED
  BY <1>1, <1>2, <1>3 DEF Work, Take, Translate, RunFails, LockLapses

LEMMA EveryRow == ASSUME CallsFine, AreRows, [Next]_vars PROVE RowsMove
<1>1. ASSUME NEW c \in Calls, Request(c) \/ CallDies(c) PROVE RowsMove
  <2>1. CASE UNCHANGED vocabs
    BY <2>1, RowsStay
  <2>2. ASSUME NEW k, MergeGroup(c, k) \/ NewGroup(c, k) PROVE RowsMove
    BY <2>2, MergeRows, NewRows
  <2> QED
    BY <1>1, <2>1, <2>2, CreateRows, EditRows, RemoveRows, DropRows
       DEF Request, CallDies, Arrive, CountVocab, GiveBack, CountSubjects, UpsertSubject, Refuse,
       Queue, CheckSubject, Load, EndImport
<1>2. CASE UNCHANGED vars
  BY <1>2, RowsStay DEF vars
<1> QED
  BY <1>1, <1>2, WorkRows, DropRows DEF Next

----------------------------------------------------------------------------
(* What a step does to the jobs                                            *)

\* The request that created entry v is about to queue its job.
Waited(v) == \E c \in Calls : calls[c].pc = "queue" /\ calls[c].on = v

\* A row the user has left alone that still has its placeholder; the runs a job has had.
Lacks(row) == row.at = "live" /\ ~row.edited /\ Empty \in TextsOf(row)
Spent(j) == j.tries + j.stalls

JobStep(v) ==
  LET j == jobs[v]
      s == jobs'[v]
      old == vocabs[v]
      new == vocabs'[v]
  IN /\ IsJob(s)
     /\ \/ s = j /\ (old.at = "unused" => new.at = "unused" \/ Empty \notin TextsOf(new))
        \/ /\ s.st \in {"wait", "active", "failed"} /\ (s.owner # Nobody => s.st = "active")
           /\ old.at # "unused" /\ s.tries \in Nat /\ s.stalls \in Nat
           /\ Lacks(new) => Spent(s) <= faults'
        \/ /\ s.st = "done" /\ s.owner = Nobody /\ old.at # "unused"
           /\ s.tries = j.tries /\ s.stalls = j.stalls
           /\ Translations \cap TextsOf(new) # {} /\ ~Lacks(new)
        \/ /\ s.st = "owed" /\ s.owner = j.owner /\ s.tries = j.tries /\ s.stalls = j.stalls
           /\ old.at = "unused" /\ IsNew(new) /\ Waited(v)'
JobsMove == jobs' = [v \in Ids |-> jobs'[v]] /\ \A v \in Ids : JobStep(v)

\* Only create and an import make an entry.
LEMMA AtPut ==
  ASSUME AreRows, NEW u, NEW x, NEW y, NEW row,
         \/ row = [vocabs[u] EXCEPT !.targets = x, !.edited = y]
         \/ row = [vocabs[u] EXCEPT !.targets = x],
         SetVocab(u, row), NEW v \in Ids
  PROVE  vocabs'[v].at = vocabs[v].at
<1>1. CASE v # u
  BY <1>1 DEF SetVocab, AreRows
<1>2. CASE v = u
  <2>1. PICK old : old = vocabs[u]
    OBVIOUS
  <2>2. IsVocab(old) /\ vocabs'[v] = row
    BY <1>2, <2>1 DEF SetVocab, AreRows
  <2>3. row = [old EXCEPT !.targets = x, !.edited = y] \/ row = [old EXCEPT !.targets = x]
    BY <2>1
  <2>4. row.at = old.at
    BY <2>2, <2>3 DEF IsVocab
  <2> QED
    BY <1>2, <2>1, <2>2, <2>4
<1> QED
  BY <1>1, <1>2

LEMMA NoneNew ==
  ASSUME AreRows, NEW c, NEW k, NEW w, NEW i, NEW v \in Ids, vocabs[v].at = "unused",
         \/ UNCHANGED vocabs
         \/ Update(c) \/ Delete(c) \/ DeleteFolder(c) \/ AddTarget(c) \/ EditTarget(c)
         \/ RemoveTarget(c) \/ DeleteSubject(c) \/ OtherUserDrops(i) \/ MergeGroup(c, k) \/ Work(w)
  PROVE  vocabs'[v].at = "unused"
<1>1. CASE UNCHANGED vocabs
  BY <1>1
<1>2. CASE Update(c) \/ AddTarget(c) \/ Delete(c) \/ DeleteFolder(c)
  BY <1>2 DEF Update, AddTarget, Delete, DeleteFolder, Failed, SetVocab, AreRows
<1>3. CASE RemoveTarget(c)
  <2>1. PICK u, t : SetVocab(u, [vocabs[u] EXCEPT !.targets = @ \ {t},
                                     !.edited = @ \/ t \in vocabs[u].targets])
    BY <1>3 DEF RemoveTarget
  <2>2. PICK x, y, row : /\ x = vocabs[u].targets \ {t}
                         /\ y = (vocabs[u].edited \/ t \in vocabs[u].targets)
                         /\ row = [vocabs[u] EXCEPT !.targets = x, !.edited = y]
    OBVIOUS
  <2>3. SetVocab(u, row)
    BY <2>1, <2>2
  <2> QED
    BY <2>2, <2>3, AtPut
<1>4. CASE DeleteSubject(c) \/ OtherUserDrops(i)
  <2>1. ASSUME NEW s, vocabs' = Unlinked(s) PROVE vocabs'[v].at = "unused"
    <3>1. PICK row, x, new : row = vocabs[v] /\ new = [row EXCEPT !.targets = x] /\ vocabs'[v] = new
      BY <2>1 DEF Unlinked
    <3>2. new.at = row.at
      BY <3>1 DEF AreRows, IsVocab
    <3> QED
      BY <3>1, <3>2
  <2> QED
    BY <1>1, <1>4, <2>1 DEF DeleteSubject, OtherUserDrops
<1>5. CASE MergeGroup(c, k)
  <2>1. ASSUME NEW u, NEW y, vocabs' = [vocabs EXCEPT ![u].targets = @ \cup y]
        PROVE  vocabs'[v].at = "unused"
    <3>1. PICK x, row : x = vocabs[u].targets \cup y /\ row = [vocabs[u] EXCEPT !.targets = x]
      OBVIOUS
    <3>2. SetVocab(u, row)
      BY <2>1, <3>1 DEF SetVocab
    <3> QED
      BY <3>1, <3>2, AtPut
  <2> QED
    BY <1>1, <1>5, <2>1 DEF MergeGroup
<1>6. CASE Work(w)
  <2>1. UNCHANGED vocabs \/ Strip(w) \/ \E u, row : vocabs[u].at = "live" /\ SetVocab(u, row)
    BY <1>6 DEF Work, Take, Translate, RunFails, LockLapses
  <2>2. ASSUME Strip(w) PROVE vocabs'[v].at = "unused"
    <3>1. PICK u, x, row : row = [vocabs[u] EXCEPT !.targets = x] /\ SetVocab(u, row)
      BY <2>2 DEF Strip, WithoutPlaceholder
    <3> QED
      BY <3>1, AtPut
  <2> QED
    BY <2>1, <2>2 DEF SetVocab, AreRows
<1>7. CASE EditTarget(c)
  <2>1. ASSUME NEW u, NEW t, NEW y, SetVocab(u, [vocabs[u] EXCEPT !.targets = (@ \ {t}) \cup y,
                                                                 !.edited = TRUE])
        PROVE  vocabs'[v].at = "unused"
    <3>1. PICK x, e, row : /\ x = (vocabs[u].targets \ {t}) \cup y /\ e = TRUE
                           /\ row = [vocabs[u] EXCEPT !.targets = x, !.edited = e]
      OBVIOUS
    <3>2. SetVocab(u, row)
      BY <2>1, <3>1
    <3> QED
      BY <3>1, <3>2, AtPut
  <2> QED
    BY <1>1, <1>7, <2>1 DEF EditTarget
<1> QED
  BY <1>1, <1>2, <1>3, <1>4, <1>5, <1>6, <1>7

LEMMA JobsStay ==
  ASSUME AreRows, UNCHANGED jobs,
         \A v \in Ids : vocabs[v].at = "unused" =>
           vocabs'[v].at = "unused" \/ Empty \notin TextsOf(vocabs'[v])
  PROVE  JobsMove
BY DEF JobsMove, JobStep, AreRows

LEMMA JobPut ==
  ASSUME AreRows, NEW u, NEW s, jobs' = [jobs EXCEPT ![u] = s], u \in Ids => JobStep(u),
         \A v \in Ids : vocabs[v].at = "unused" => vocabs'[v].at = "unused" \/ v = u
  PROVE  JobsMove
<1>1. /\ jobs' = [v \in Ids |-> jobs'[v]]
      /\ \A v \in Ids \ {u} : jobs'[v] = jobs[v]
  BY DEF AreRows
<1>2. ASSUME NEW v \in Ids PROVE JobStep(v)
  <2>1. CASE v = u
    BY <2>1
  <2>2. CASE v # u
    BY <1>1, <2>2 DEF JobStep, AreRows
  <2> QED
    BY <2>1, <2>2
<1> QED
  BY <1>1, <1>2 DEF JobsMove

\* A run of a job fails.
LEMMA FailJobs ==
  ASSUME AreRows, NEW u, AttemptFails(u), u \in Ids => vocabs[u].at # "unused",
         u \in Ids => jobs[u].tries \in Nat /\ jobs[u].stalls \in Nat,
         u \in Ids /\ Lacks(vocabs'[u]) => Spent(jobs[u]) + 1 <= faults',
         \A v \in Ids : vocabs[v].at = "unused" => vocabs'[v].at = "unused"
  PROVE  JobsMove
<1>1. PICK j, st, n, s : /\ j = jobs[u] /\ st = Retry(u) /\ n = j.tries + 1
                         /\ s = [j EXCEPT !.st = st, !.tries = n, !.owner = Nobody]
  OBVIOUS
<1>2. jobs' = [jobs EXCEPT ![u] = s]
  BY <1>1 DEF AttemptFails
<1>3. st \in {"wait", "failed"}
  BY <1>1 DEF Retry
<1>4. ASSUME u \in Ids PROVE JobStep(u)
  <2>1. IsJob(j)
    BY <1>1, <1>4 DEF AreRows
  <2>2. IsJob(s) /\ s.st = st /\ s.owner = Nobody /\ s.tries = n /\ s.stalls = j.stalls
    BY <1>1, <2>1 DEF IsJob
  <2>3. jobs'[u] = s
    BY <1>2, <1>4 DEF AreRows
  <2>4. s.tries \in Nat /\ s.stalls \in Nat /\ Spent(s) = Spent(j) + 1
    BY <1>1, <1>4, <2>2 DEF Spent
  <2> QED
    BY <1>1, <1>3, <1>4, <2>2, <2>3, <2>4 DEF JobStep
<1> QED
  BY <1>2, <1>4, JobPut

----------------------------------------------------------------------------
(* Translations                                                            *)

JobOK(v) == /\ jobs[v].owner # Nobody => jobs[v].st = "active"
            /\ jobs[v].st # "none" => vocabs[v].at # "unused"
            /\ jobs[v].tries \in Nat /\ jobs[v].stalls \in Nat
\* A worker that asks the AI has seen the placeholder go.
RunOK(w) == workers[w].pc # "idle" =>
  /\ workers[w].on \in Ids /\ vocabs[workers[w].on].at # "unused"
  /\ workers[w].pc = "translate" => ~Lacks(vocabs[workers[w].on])
AreRuns == /\ workers = [w \in Workers |-> workers[w]]
           /\ \A w \in Workers : workers[w] = [on |-> workers[w].on, pc |-> workers[w].pc]
Due(v) ==
  vocabs[v].at = "live" /\ ~vocabs[v].edited =>
    /\ jobs[v].st = "done" => /\ Empty \notin TextsOf(vocabs[v])
                              /\ Translations \cap TextsOf(vocabs[v]) # {}
    /\ Empty \in TextsOf(vocabs[v]) =>
         \/ jobs[v].st \in {"wait", "active", "failed"} /\ Spent(jobs[v]) <= faults
         \/ jobs[v].st = "owed" /\ (faults > 0 \/ Waited(v))
TransInv ==
  /\ CallsFine /\ AreRows /\ faults \in Nat
  /\ \A v \in Ids : JobOK(v) /\ Due(v)
  /\ AreRuns /\ \A w \in Workers : RunOK(w)
  /\ \A c \in Calls : calls[c].pc = "queue" =>
       calls[c].on \in Ids /\ vocabs[calls[c].on].at # "unused"

\* The translation is owed as soon as the entry is there.
LEMMA CreateJobs == ASSUME TransInv, NEW c \in Calls, Create(c) PROVE JobsMove
<1>0. AreRows
  BY DEF TransInv
<1>1. CASE UNCHANGED <<vocabs, jobs>>
  BY <1>0, <1>1, JobsStay
<1>2. ASSUME NEW v \in Fresh(vocabs), NEW row, row = NewVocab(calls[c].src, NewTargets(c)),
             SetVocab(v, row), Owed(row) => /\ calls' = [calls EXCEPT ![c].pc = "queue", ![c].on = v]
                                            /\ jobs' = [jobs EXCEPT ![v].st = "owed"],
             ~Owed(row) => UNCHANGED jobs
      PROVE  JobsMove
  <2>1. /\ v \in Ids /\ vocabs[v].at = "unused" /\ vocabs'[v] = row
        /\ \A u \in Ids \ {v} : vocabs'[u] = vocabs[u]
    BY <1>0, <1>2, Unused DEF SetVocab, AreRows
  <2>2. IsNew(row)
    BY <1>2, NewRow, NewTargetsFine
  <2>3. CASE ~Owed(row)
    <3>1. Empty \notin TextsOf(row)
      BY <2>3 DEF Owed, TextsOf
    <3> QED
      BY <1>0, <1>2, <2>1, <2>3, <3>1, JobsStay
  <2>4. CASE Owed(row)
    <3>1. PICK j, s : j = jobs[v] /\ s = [j EXCEPT !.st = "owed"]
      OBVIOUS
    <3>2. IsJob(j)
      BY <1>0, <2>1, <3>1 DEF AreRows
    <3>3. IsJob(s) /\ s.st = "owed" /\ s.owner = j.owner /\ s.tries = j.tries /\ s.stalls = j.stalls
      BY <3>1, <3>2 DEF IsJob
    <3>4. jobs' = [jobs EXCEPT ![v] = s] /\ jobs'[v] = s
      BY <1>0, <1>2, <2>1, <2>4, <3>1 DEF AreRows
    <3>5. Waited(v)'
      <4>1. PICK r, t : r = calls[c] /\ t = [r EXCEPT !.pc = "queue", !.on = v]
        OBVIOUS
      <4>2. IsCall(r)
        BY <4>1 DEF TransInv, CallsFine, AreCalls
      <4>3. t.pc = "queue" /\ t.on = v
        BY <4>1, <4>2 DEF IsCall
      <4>4. calls'[c] = t
        BY <1>2, <2>4, <4>1 DEF TransInv, CallsFine, AreCalls
      <4> QED
        BY <4>3, <4>4 DEF Waited
    <3>6. JobStep(v)
      BY <2>1, <2>2, <3>1, <3>3, <3>4, <3>5 DEF JobStep
    <3> QED
      BY <1>0, <2>1, <3>4, <3>6, JobPut
  <2> QED
    BY <2>3, <2>4
<1> QED
  BY <1>1, <1>2 DEF Create, Failed

LEMMA QueueJobs == ASSUME TransInv, NEW c \in Calls, Queue(c) PROVE JobsMove
<1>1. PICK subs, s, v : /\ subs = calls[c].subs /\ s = [NoJob EXCEPT !.st = "wait", !.subs = subs]
                        /\ v = calls[c].on
  OBVIOUS
<1>2. jobs' = [jobs EXCEPT ![v] = s]
  BY <1>1 DEF Queue
<1>3. IsJob(s) /\ s.st = "wait" /\ s.owner = Nobody /\ s.tries = 0 /\ s.stalls = 0
  BY <1>1 DEF IsJob, NoJob
<1>4. v \in Ids /\ vocabs[v].at # "unused" /\ vocabs' = vocabs
  BY <1>1 DEF TransInv, Queue
<1>5. jobs'[v] = s
  BY <1>2, <1>4 DEF TransInv, AreRows
<1>6. Spent(s) <= faults'
  BY <1>3 DEF Spent, TransInv, Queue
<1>7. JobStep(v)
  BY <1>3, <1>4, <1>5, <1>6 DEF JobStep
<1> QED
  BY <1>2, <1>4, <1>7, JobPut DEF TransInv

LEMMA TakeJobs == ASSUME TransInv, NEW w \in Workers, NEW v \in Ids, Take(w, v) PROVE JobsMove
<1>0. AreRows /\ JobOK(v) /\ Due(v)
  BY DEF TransInv
<1>1. \A u \in Ids : vocabs[u].at = "unused" => vocabs'[u].at = "unused"
  BY <1>0, NoneNew DEF Work
<1>2. /\ vocabs[v].at # "unused" /\ jobs[v].st = "wait" /\ UNCHANGED <<vocabs, faults>>
      /\ jobs[v].tries \in Nat /\ jobs[v].stalls \in Nat
  BY <1>0 DEF JobOK, Take
<1>3. CASE vocabs[v].at # "live"
  <2>1. ~Lacks(vocabs'[v])
    BY <1>2, <1>3 DEF Lacks
  <2>2. AttemptFails(v)
    BY <1>3 DEF Take
  <2> QED
    BY <1>0, <1>1, <1>2, <2>1, <2>2, FailJobs
<1>4. CASE vocabs[v].at = "live"
  <2>1. PICK j, s : j = jobs[v] /\ s = [j EXCEPT !.st = "active", !.owner = w]
    OBVIOUS
  <2>2. IsJob(j)
    BY <1>0, <2>1 DEF AreRows
  <2>3. IsJob(s) /\ s.st = "active" /\ s.tries = j.tries /\ s.stalls = j.stalls
    BY <2>1, <2>2 DEF IsJob
  <2>4. jobs' = [jobs EXCEPT ![v] = s] /\ jobs'[v] = s
    BY <1>0, <1>4, <2>1 DEF Take, AreRows
  <2>5. Lacks(vocabs'[v]) => Spent(s) <= faults'
    BY <1>0, <1>2, <2>1, <2>3 DEF Lacks, Due, Spent
  <2>6. JobStep(v)
    BY <1>2, <2>1, <2>3, <2>4, <2>5 DEF JobStep
  <2> QED
    BY <1>0, <1>1, <2>4, <2>6, JobPut
<1> QED
  BY <1>3, <1>4

LEMMA SettleJobs ==
  ASSUME TransInv, NEW w \in Workers, NEW v, NEW ok \in BOOLEAN, Settle(w, v, ok),
         ok /\ v \in Ids => Translations \cap TextsOf(vocabs'[v]) # {} /\ ~Lacks(vocabs'[v]),
         ~ok /\ v \in Ids /\ jobs[v].st = "active" /\ Lacks(vocabs'[v]) =>
           Spent(jobs[v]) + 1 <= faults',
         \A u \in Ids : vocabs[u].at = "unused" => vocabs'[u].at = "unused"
  PROVE  JobsMove
<1>0. AreRows /\ (v \in Ids => JobOK(v))
  BY DEF TransInv
<1>1. CASE UNCHANGED jobs
  BY <1>0, <1>1, JobsStay
<1>2. CASE jobs[v].st = "active" /\ ~ok /\ AttemptFails(v)
  <2>1. v \in Ids => /\ vocabs[v].at # "unused"
                     /\ jobs[v].tries \in Nat /\ jobs[v].stalls \in Nat
    BY <1>0, <1>2 DEF JobOK
  <2> QED
    BY <1>0, <1>2, <2>1, FailJobs
<1>3. CASE jobs[v].st = "active" /\ ok /\ jobs' = [jobs EXCEPT ![v].st = "done", ![v].owner = Nobody]
  <2>1. PICK j, s : j = jobs[v] /\ s = [j EXCEPT !.st = "done", !.owner = Nobody]
    OBVIOUS
  <2>2. jobs' = [jobs EXCEPT ![v] = s]
    BY <1>0, <1>3, <2>1 DEF AreRows
  <2>3. ASSUME v \in Ids PROVE JobStep(v)
    <3>1. IsJob(j)
      BY <1>0, <2>1, <2>3 DEF AreRows
    <3>2. IsJob(s) /\ s.st = "done" /\ s.owner = Nobody /\ s.tries = j.tries /\ s.stalls = j.stalls
      BY <2>1, <3>1 DEF IsJob
    <3>3. jobs'[v] = s
      BY <1>0, <2>2, <2>3 DEF AreRows
    <3>4. /\ vocabs[v].at # "unused" /\ Translations \cap TextsOf(vocabs'[v]) # {}
          /\ ~Lacks(vocabs'[v])
      BY <1>0, <1>3, <2>3 DEF JobOK
    <3> QED
      BY <1>3, <2>1, <3>2, <3>3, <3>4 DEF JobStep
  <2> QED
    BY <1>0, <2>2, <2>3, JobPut
<1> QED
  BY <1>1, <1>2, <1>3 DEF Settle

LEMMA TranslateJobs ==
  ASSUME TransInv, NEW w \in Workers, NEW text \in Translations, Translate(w, text)
  PROVE  JobsMove
<1> DEFINE v == workers[w].on
<1>0. AreRows /\ v \in Ids /\ ~Lacks(vocabs[v])
  BY DEF TransInv, Translate, RunOK
<1>1. \A u \in Ids : vocabs[u].at = "unused" => vocabs'[u].at = "unused"
  BY <1>0, NoneNew DEF Work
<1>2. ASSUME Storable(v, text)
      PROVE  Translations \cap TextsOf(vocabs'[v]) # {}
  <2>1. PICK row, subs, new : /\ row = vocabs[v] /\ subs = jobs[v].subs
                              /\ new = [row EXCEPT !.targets = @ \cup {Target(text, subs)}]
    OBVIOUS
  <2>2. vocabs'[v] = new
    BY <1>0, <1>2, <2>1 DEF Translate, Storable, SetVocab, AreRows
  <2>3. IsVocab(row) /\ row.at = "live"
    BY <1>0, <1>2, <2>1 DEF AreRows, Storable
  <2> QED
    BY <2>1, <2>2, <2>3, AnsweredRow
<1>3. Settle(w, v, Storable(v, text)) /\ Storable(v, text) \in BOOLEAN
  BY DEF Translate, Storable
<1>4. ~Lacks(vocabs'[v])
  <2>1. Effect(vocabs[v], vocabs'[v]) /\ vocabs[v].at # "unused"
    BY <1>0, WorkRows DEF RowsMove, Work, TransInv, RunOK, Translate
  <2> QED
    BY <1>0, <2>1, RowKept DEF Lacks
<1> HIDE DEF v
<1> QED
  BY <1>1, <1>2, <1>3, <1>4, SettleJobs

LEMMA LapseJobs ==
  ASSUME TransInv, NEW w \in Workers, NEW dies, LockLapses(w, dies)
  PROVE  JobsMove
<1>0. AreRows /\ vocabs' = vocabs
  BY DEF TransInv, LockLapses
<1>1. PICK v, j, st, n, s :
        /\ v = workers[w].on /\ j = jobs[v] /\ st = (IF j.stalls = 0 THEN "wait" ELSE "failed")
        /\ n = j.stalls + 1 /\ s = [j EXCEPT !.st = st, !.stalls = n, !.owner = Nobody]
  OBVIOUS
<1>2. jobs' = [jobs EXCEPT ![v] = s] /\ j.owner = w /\ faults' = faults + 1
  BY <1>1 DEF LockLapses, Fault
<1>3. ASSUME v \in Ids PROVE JobStep(v)
  <2>1. IsJob(j) /\ JobOK(v) /\ Due(v) /\ faults \in Nat
    BY <1>0, <1>1, <1>3 DEF AreRows, TransInv
  <2>2. IsJob(s) /\ s.st = st /\ s.owner = Nobody /\ s.tries = j.tries /\ s.stalls = n
    BY <1>1, <2>1 DEF IsJob
  <2>3. j.st = "active" /\ vocabs[v].at # "unused"
    BY <1>1, <1>2, <2>1, VocabAssumption DEF JobOK
  <2>4. jobs'[v] = s
    BY <1>0, <1>2, <1>3 DEF AreRows
  <2>5. s.tries \in Nat /\ s.stalls \in Nat /\ Spent(s) = Spent(j) + 1 /\ Spent(j) \in Nat
    BY <1>1, <2>1, <2>2 DEF JobOK, Spent
  <2>6. Lacks(vocabs'[v]) => Spent(j) <= faults
    BY <1>0, <1>1, <2>1, <2>3 DEF Lacks, Due
  <2>7. Lacks(vocabs'[v]) => Spent(s) <= faults'
    BY <1>2, <2>1, <2>5, <2>6
  <2> QED
    BY <1>1, <2>2, <2>3, <2>4, <2>5, <2>7 DEF JobStep
<1> QED
  BY <1>0, <1>2, <1>3, JobPut

LEMMA NewGroupJobs == ASSUME TransInv, NEW c \in Calls, NEW k, NewGroup(c, k) PROVE JobsMove
<1>0. AreRows /\ CallsFine /\ UNCHANGED jobs
  BY DEF TransInv, NewGroup
<1>1. CASE UNCHANGED vocabs
  BY <1>0, <1>1, JobsStay
<1>2. ASSUME NEW v \in Fresh(vocabs), NEW D \in Deduped({r.text : r \in GroupOf(calls[c].rows, k)}),
             SetVocab(v, NewVocab(k, Plain(D)))
      PROVE  JobsMove
  <2>1. NewVocab(k, Plain(D)).targets = Plain(D)
    BY PlainFine, NewRow
  <2>2. Empty \notin TextsOf(NewVocab(k, Plain(D)))
    BY <1>0, <2>1, GroupTexts, PlainFine DEF TextsOf
  <2>3. v \in Ids
    BY <1>0, <1>2, Unused
  <2>4. \A u \in Ids : vocabs'[u] = vocabs[u] \/ vocabs'[u] = NewVocab(k, Plain(D))
    BY <1>0, <1>2, <2>3 DEF SetVocab, AreRows
  <2> QED
    BY <1>0, <2>2, <2>4, JobsStay
<1> QED
  BY <1>1, <1>2 DEF NewGroup

LEMMA EveryJob == ASSUME TransInv, [Next]_vars PROVE JobsMove
<1>0. AreRows
  BY DEF TransInv
<1>1. ASSUME NEW c \in Calls, Request(c) \/ CallDies(c) PROVE JobsMove
  <2>1. ASSUME NEW k, UNCHANGED jobs,
               \/ UNCHANGED vocabs
               \/ Update(c) \/ Delete(c) \/ DeleteFolder(c) \/ AddTarget(c) \/ EditTarget(c)
               \/ RemoveTarget(c) \/ DeleteSubject(c) \/ MergeGroup(c, k)
        PROVE  JobsMove
    BY <1>0, <2>1, NoneNew, JobsStay
  <2>2. \A k : MergeGroup(c, k) => UNCHANGED jobs
    BY DEF MergeGroup
  <2>3. CASE \/ Update(c) \/ Delete(c) \/ DeleteFolder(c) \/ AddTarget(c) \/ EditTarget(c)
             \/ RemoveTarget(c) \/ DeleteSubject(c)
    <3>1. UNCHANGED jobs
      BY <2>3 DEF Update, Failed, Delete, DeleteFolder, AddTarget, EditTarget, RemoveTarget,
         DeleteSubject
    <3> QED
      BY <2>1, <2>3, <3>1
  <2>4. CASE UNCHANGED <<vocabs, jobs>>
    BY <2>1, <2>4
  <2> QED
    BY <1>1, <2>1, <2>2, <2>3, <2>4, CreateJobs, QueueJobs, NewGroupJobs
       DEF Request, CallDies, Arrive, CountVocab, GiveBack, CountSubjects, UpsertSubject, Refuse,
       CheckSubject, Load, EndImport
<1>2. ASSUME NEW w \in Workers, Work(w) PROVE JobsMove
  <2>1. CASE RunFails(w)
    <3>1. PICK v : v = workers[w].on
      OBVIOUS
    <3>2. UNCHANGED vocabs /\ Settle(w, v, FALSE) /\ faults' = faults + 1 /\ faults \in Nat
      BY <2>1, <3>1 DEF RunFails, Fault, TransInv
    <3>3. ASSUME v \in Ids, jobs[v].st = "active", Lacks(vocabs'[v])
          PROVE  Spent(jobs[v]) + 1 <= faults'
      <4>1. JobOK(v) /\ Due(v)
        BY <3>3 DEF TransInv
      <4>2. Spent(jobs[v]) \in Nat /\ Spent(jobs[v]) <= faults
        BY <3>2, <3>3, <4>1 DEF JobOK, Due, Lacks, Spent
      <4> QED
        BY <3>2, <4>2
    <3> QED
      BY <3>2, <3>3, SettleJobs
  <2>2. CASE Strip(w)
    BY <1>0, <2>2, NoneNew, JobsStay DEF Strip, Work
  <2> QED
    BY <1>2, <2>1, <2>2, TakeJobs, TranslateJobs, LapseJobs DEF Work
<1>3. CASE UNCHANGED vars
  BY <1>0, <1>3, JobsStay DEF vars
<1>4. ASSUME NEW s, OtherUserDrops(s) PROVE JobsMove
  <2>1. UNCHANGED jobs
    BY <1>4 DEF OtherUserDrops
  <2> QED
    BY <1>0, <1>4, <2>1, NoneNew, JobsStay
<1> QED
  BY <1>1, <1>2, <1>3, <1>4 DEF Next

\* A request waits to queue its job until it does, or dies.
LEMMA WaitsOn ==
  ASSUME TransInv, NEW c \in Calls, NEW i \in Calls, Request(i) \/ CallDies(i),
         calls[c].pc = "queue"
  PROVE  calls'[c] = calls[c] \/ (Queue(i) /\ i = c) \/ faults' > 0
<1>1. CASE i # c
  BY <1>1, RequestCall DEF TransInv
<1>2. CASE i = c /\ CallDies(i)
  BY <1>2 DEF CallDies, Fault, TransInv
<1>3. CASE i = c /\ Request(i)
  BY <1>3 DEF Request, Arrive, CountVocab, GiveBack, CountSubjects, UpsertSubject, Refuse, Resolved,
     Create, Update, Delete, DeleteFolder, AddTarget, EditTarget, RemoveTarget, CheckSubject, DeleteSubject,
     Load, EndImport, MergeGroup, NewGroup
<1> QED
  BY <1>1, <1>2, <1>3

LEMMA EveryCall ==
  ASSUME TransInv, AreCalls', [Next]_vars
  PROVE  /\ CallsFine'
         /\ \A c \in Calls : calls'[c] = calls[c] \/ CallEffect(c)
<1>1. ASSUME NEW i \in Calls, Request(i) \/ CallDies(i)
      PROVE  /\ \A c \in Calls : RowsFine(calls'[c])
             /\ \A c \in Calls : calls'[c] = calls[c] \/ CallEffect(c)
  BY <1>1, RequestCall DEF TransInv, CallsFine
<1>2. ASSUME UNCHANGED calls
      PROVE  /\ \A c \in Calls : RowsFine(calls'[c])
             /\ \A c \in Calls : calls'[c] = calls[c] \/ CallEffect(c)
  BY <1>2 DEF TransInv, CallsFine
<1>3. /\ \A w \in Workers : Work(w) => UNCHANGED calls
      /\ \A s \in Foreign : OtherUserDrops(s) => UNCHANGED calls
  BY DEF Work, Take, Strip, Translate, RunFails, LockLapses, OtherUserDrops
<1>4. /\ \A c \in Calls : RowsFine(calls'[c])
      /\ \A c \in Calls : calls'[c] = calls[c] \/ CallEffect(c)
  <2>1. (\E i \in Calls : Request(i) \/ CallDies(i)) \/ UNCHANGED calls
    BY <1>3 DEF Next, vars
  <2>2. CASE \E i \in Calls : Request(i) \/ CallDies(i)
    BY <1>1, <2>2
  <2>3. CASE UNCHANGED calls
    BY <1>2, <2>3
  <2> QED
    BY <2>1, <2>2, <2>3
<1> QED
  BY <1>4 DEF CallsFine

LEMMA FaultsGrow ==
  ASSUME TransInv, [Next]_vars
  PROVE  faults' \in Nat /\ faults <= faults' /\ (faults > 0 => faults' > 0)
<1>1. ASSUME NEW c \in Calls, Request(c) PROVE UNCHANGED faults
  <2>1. CASE Create(c) \/ Update(c)
    BY <2>1 DEF Create, Update
  <2> QED
    BY <1>1, <2>1 DEF Request, Arrive, CountVocab, GiveBack, CountSubjects, UpsertSubject, Refuse,
       Queue, Delete, DeleteFolder, AddTarget, EditTarget, RemoveTarget, CheckSubject, DeleteSubject, Load,
       EndImport, MergeGroup, NewGroup
<1>2. \A c \in Calls : CallDies(c) => faults' = faults + 1
  BY DEF CallDies, Fault
<1>3. \A w \in Workers : Work(w) => UNCHANGED faults \/ faults' = faults + 1
  BY DEF Work, Take, Strip, Translate, RunFails, LockLapses, Fault
<1>4. UNCHANGED faults \/ faults' = faults + 1
  <2>1. \/ \E c \in Calls : Request(c) \/ CallDies(c)
        \/ \E w \in Workers : Work(w)
        \/ UNCHANGED faults
    BY DEF Next, vars, OtherUserDrops
  <2> QED
    BY <1>1, <1>2, <1>3, <2>1
<1>5. faults \in Nat
  BY DEF TransInv
<1> QED
  BY <1>4, <1>5

LEMMA WaitingKept ==
  ASSUME TransInv, [Next]_vars, NEW v \in Ids, jobs'[v].st = "owed", jobs'[v] = jobs[v],
         faults > 0 \/ Waited(v)
  PROVE  faults' > 0 \/ Waited(v)'
<1>1. faults' \in Nat /\ (faults > 0 => faults' > 0)
  BY FaultsGrow
<1>2. ASSUME NEW c \in Calls, calls[c].pc = "queue", calls[c].on = v
      PROVE  faults' > 0 \/ Waited(v)'
  <2>1. ASSUME NEW i \in Calls, Request(i) \/ CallDies(i)
        PROVE  faults' > 0 \/ Waited(v)'
    <3>1. CASE Queue(i) /\ i = c
      <4>1. PICK subs, s : s = [NoJob EXCEPT !.st = "wait", !.subs = subs]
                           /\ subs = calls[c].subs
        OBVIOUS
      <4>2. s.st = "wait"
        BY <4>1 DEF NoJob
      <4>3. jobs'[v] = s
        BY <1>2, <3>1, <4>1 DEF Queue, TransInv, AreRows
      <4> QED
        BY <4>2, <4>3
    <3>2. CASE calls'[c] = calls[c]
      BY <1>2, <3>2 DEF Waited
    <3> QED
      BY <1>2, <2>1, <3>1, <3>2, WaitsOn
  <2>2. CASE UNCHANGED calls
    BY <1>2, <2>2 DEF Waited
  <2>3. /\ \A w \in Workers : Work(w) => UNCHANGED calls
        /\ \A s \in Foreign : OtherUserDrops(s) => UNCHANGED calls
    BY DEF Work, Take, Strip, Translate, RunFails, LockLapses, OtherUserDrops
  <2> QED
    BY <2>1, <2>2, <2>3 DEF Next, vars
<1> QED
  BY <1>1, <1>2 DEF Waited

LEMMA EntriesDue ==
  ASSUME TransInv, [Next]_vars, NEW v \in Ids, Effect(vocabs[v], vocabs'[v]), JobStep(v)
  PROVE  JobOK(v)' /\ Due(v)'
<1> DEFINE j == jobs[v]
           s == jobs'[v]
           old == vocabs[v]
           new == vocabs'[v]
<1>1. JobOK(v) /\ Due(v)
  BY DEF TransInv
<1>2. /\ old.at # "unused" => new.at # "unused"
      /\ old.at # "unused" /\ new.at = "live" /\ ~new.edited =>
           /\ old.at = "live" /\ ~old.edited
           /\ TextsOf(old) \ {Empty} \subseteq TextsOf(new)
           /\ Empty \in TextsOf(new) => Empty \in TextsOf(old)
  BY RowKept
<1>3. Empty \notin Translations /\ faults' \in Nat /\ faults \in Nat /\ faults <= faults'
  BY VocabAssumption, FaultsGrow DEF TransInv
<1>4. CASE s = j /\ (old.at = "unused" => new.at = "unused" \/ Empty \notin TextsOf(new))
  <2>1. old.at = "unused" => j.st = "none"
    BY <1>1 DEF JobOK
  <2>2. s.st = "owed" /\ (faults > 0 \/ Waited(v)) => faults' > 0 \/ Waited(v)'
    BY <1>4, WaitingKept
  <2>3. JobOK(v)'
    BY <1>1, <1>2, <1>4, <2>1 DEF JobOK
  <2>4. Due(v)'
    <3> SUFFICES ASSUME new.at = "live" /\ ~new.edited
                 PROVE  /\ s.st = "done" => /\ Empty \notin TextsOf(new)
                                            /\ Translations \cap TextsOf(new) # {}
                        /\ Empty \in TextsOf(new) =>
                             \/ s.st \in {"wait", "active", "failed"} /\ Spent(s) <= faults'
                             \/ s.st = "owed" /\ (faults' > 0 \/ Waited(v)')
      BY DEF Due
    <3>1. CASE old.at = "unused"
      BY <1>4, <2>1, <3>1
    <3>2. CASE old.at # "unused"
      <4>1. Spent(j) \in Nat
        BY <1>1 DEF JobOK, Spent
      <4>2. Spent(j) <= faults => Spent(j) <= faults'
        BY <1>3, <4>1
      <4> QED
        BY <1>1, <1>2, <1>3, <1>4, <2>2, <3>2, <4>2 DEF Due
    <3> QED
      BY <3>1, <3>2
  <2> QED
    BY <2>3, <2>4
<1>5. CASE /\ s.st \in {"wait", "active", "failed"} /\ (s.owner # Nobody => s.st = "active")
           /\ old.at # "unused" /\ s.tries \in Nat /\ s.stalls \in Nat
           /\ Lacks(new) => Spent(s) <= faults'
  <2>1. JobOK(v)'
    BY <1>2, <1>5 DEF JobOK
  <2>2. Due(v)'
    BY <1>5 DEF Due, Lacks
  <2> QED
    BY <2>1, <2>2
<1>7. CASE /\ s.st = "done" /\ s.owner = Nobody /\ old.at # "unused"
           /\ s.tries = j.tries /\ s.stalls = j.stalls
           /\ Translations \cap TextsOf(new) # {} /\ ~Lacks(new)
  <2>1. JobOK(v)'
    BY <1>1, <1>2, <1>7 DEF JobOK
  <2>2. Due(v)'
    BY <1>7 DEF Due, Lacks
  <2> QED
    BY <2>1, <2>2
<1>8. CASE /\ s.st = "owed" /\ s.owner = j.owner /\ s.tries = j.tries /\ s.stalls = j.stalls
           /\ old.at = "unused" /\ IsNew(new) /\ Waited(v)'
  <2>1. JobOK(v)'
    BY <1>1, <1>8 DEF JobOK, IsNew
  <2>2. Due(v)'
    BY <1>8 DEF Due
  <2> QED
    BY <2>1, <2>2
<1> QED
  BY <1>4, <1>5, <1>7, <1>8 DEF JobStep

\* A run goes on with the entry it was started for.
LEMMA EveryRun ==
  ASSUME TransInv, [Next]_vars, RowsMove
  PROVE  AreRuns' /\ \A w \in Workers : RunOK(w)'
<1>0. AreRuns /\ AreRows /\ \A w \in Workers : RunOK(w)
  BY DEF TransInv
<1>1. ASSUME NEW w \in Workers, workers'[w] = workers[w] PROVE RunOK(w)'
  <2>1. RunOK(w)
    BY <1>0
  <2>2. CASE workers[w].pc = "idle"
    BY <1>1, <2>2 DEF RunOK
  <2>3. CASE workers[w].pc # "idle"
    <3>1. Effect(vocabs[workers[w].on], vocabs'[workers[w].on])
      BY <2>1, <2>3 DEF RunOK, RowsMove
    <3> QED
      BY <1>1, <2>1, <2>3, <3>1, RowKept DEF RunOK, Lacks
  <2> QED
    BY <2>2, <2>3
<1>2. CASE UNCHANGED workers
  BY <1>0, <1>1, <1>2 DEF AreRuns
<1>3. ASSUME NEW w \in Workers, NEW run, run = [on |-> run.on, pc |-> run.pc],
             workers' = [workers EXCEPT ![w] = run],
             run.pc # "idle" => /\ run.on \in Ids /\ vocabs'[run.on].at # "unused"
                                /\ run.pc = "translate" => ~Lacks(vocabs'[run.on])
      PROVE  AreRuns' /\ \A x \in Workers : RunOK(x)'
  <2>1. workers'[w] = run /\ \A x \in Workers \ {w} : workers'[x] = workers[x]
    BY <1>0, <1>3 DEF AreRuns
  <2>2. AreRuns'
    BY <1>0, <1>3, <2>1 DEF AreRuns
  <2>3. RunOK(w)'
    BY <1>3, <2>1 DEF RunOK
  <2> QED
    BY <1>1, <2>1, <2>2, <2>3
<1>4. ASSUME NEW w \in Workers, Release(w) PROVE AreRuns' /\ \A x \in Workers : RunOK(x)'
  <2>1. PICK run : run = NoRun
    OBVIOUS
  <2>2. run = [on |-> run.on, pc |-> run.pc] /\ run.pc = "idle"
    BY <2>1 DEF NoRun
  <2> QED
    BY <1>3, <1>4, <2>1, <2>2 DEF Release
<1>5. ASSUME NEW w \in Workers, NEW v \in Ids, Take(w, v)
      PROVE  AreRuns' /\ \A x \in Workers : RunOK(x)'
  <2>1. CASE vocabs[v].at = "live"
    <3>1. PICK pc, run : /\ pc = (IF Empty \in Texts(v) THEN "strip" ELSE "translate")
                         /\ run = [on |-> v, pc |-> pc]
      OBVIOUS
    <3>2. workers' = [workers EXCEPT ![w] = run] /\ vocabs' = vocabs
      BY <1>5, <2>1, <3>1 DEF Take
    <3>3. run.on = v /\ run.pc = pc /\ run = [on |-> run.on, pc |-> run.pc]
      BY <3>1
    <3>4. pc = "translate" => ~Lacks(vocabs'[v])
      BY <3>1, <3>2 DEF Lacks, Texts, TextsOf
    <3>5. vocabs'[v].at # "unused"
      BY <2>1, <3>2
    <3> QED
      BY <1>3, <3>2, <3>3, <3>4, <3>5
  <2>2. CASE vocabs[v].at # "live"
    BY <1>2, <1>5, <2>2 DEF Take
  <2> QED
    BY <2>1, <2>2
<1>6. ASSUME NEW w \in Workers, Strip(w) PROVE AreRuns' /\ \A x \in Workers : RunOK(x)'
  <2>1. PICK old, v, run : old = workers[w] /\ v = old.on /\ run = [old EXCEPT !.pc = "translate"]
    OBVIOUS
  <2>2. old = [on |-> old.on, pc |-> old.pc] /\ RunOK(w) /\ old.pc = "strip"
    BY <1>0, <1>6, <2>1 DEF AreRuns, Strip
  <2>3. run = [on |-> run.on, pc |-> run.pc] /\ run.on = v /\ run.pc = "translate"
    BY <2>1, <2>2
  <2>4. v \in Ids /\ vocabs[v].at # "unused" /\ workers' = [workers EXCEPT ![w] = run]
    BY <1>6, <2>1, <2>2 DEF RunOK, Strip
  <2>5. Effect(vocabs[v], vocabs'[v])
    BY <2>4 DEF RowsMove
  <2>6. vocabs'[v].at # "unused" /\ (vocabs[v].edited => vocabs'[v].edited)
    BY <2>4, <2>5, RowKept
  <2>7. ~Lacks(vocabs'[v])
    <3>1. CASE SetVocab(v, WithoutPlaceholder(vocabs[v]))
      <4>1. vocabs'[v] = WithoutPlaceholder(vocabs[v])
        BY <1>0, <2>4, <3>1 DEF SetVocab, AreRows
      <4> QED
        BY <1>0, <2>4, <4>1, StrippedRow DEF AreRows, Lacks
    <3>2. CASE vocabs[v].edited
      BY <2>6, <3>2 DEF Lacks
    <3> QED
      BY <1>6, <2>1, <3>1, <3>2 DEF Strip
  <2> QED
    BY <1>3, <2>3, <2>4, <2>6, <2>7
<1>7. ASSUME NEW w \in Workers, Work(w) PROVE AreRuns' /\ \A x \in Workers : RunOK(x)'
  BY <1>2, <1>4, <1>5, <1>6, <1>7 DEF Work, Translate, RunFails, LockLapses
<1>8. ASSUME NEW c \in Calls, Request(c) \/ CallDies(c) PROVE UNCHANGED workers
  <2>1. CASE Create(c) \/ Update(c)
    BY <2>1 DEF Create, Update
  <2> QED
    BY <1>8, <2>1 DEF Request, CallDies, Arrive, CountVocab, GiveBack, CountSubjects, UpsertSubject,
       Refuse, Queue, Delete, DeleteFolder, AddTarget, EditTarget, RemoveTarget, CheckSubject,
       DeleteSubject, Load, EndImport, MergeGroup, NewGroup
<1>9. (\E s \in Foreign : OtherUserDrops(s)) \/ UNCHANGED vars => UNCHANGED workers
  BY DEF OtherUserDrops, vars
<1> QED
  BY <1>2, <1>7, <1>8, <1>9 DEF Next

LEMMA TransStep == ASSUME TransInv, AreCalls', [Next]_vars PROVE TransInv'
<1>0. RowsMove /\ JobsMove /\ CallsFine'
  BY EveryRow, EveryJob, EveryCall DEF TransInv
<1>1. RowsMove /\ JobsMove /\ CallsFine' /\ AreRuns' /\ \A w \in Workers : RunOK(w)'
  BY <1>0, EveryRun
<1>2. AreRows'
  BY <1>1 DEF AreRows, RowsMove, JobsMove, Effect, JobStep
<1>3. \A v \in Ids : JobOK(v)' /\ Due(v)'
  BY <1>1, EntriesDue DEF RowsMove, JobsMove
<1>4. ASSUME NEW c \in Calls, calls'[c].pc = "queue"
      PROVE  calls'[c].on \in Ids /\ vocabs'[calls'[c].on].at # "unused"
  <2>1. CASE calls'[c] = calls[c]
    <3>1. calls[c].on \in Ids /\ vocabs[calls[c].on].at # "unused"
      BY <1>4, <2>1 DEF TransInv
    <3> QED
      BY <1>1, <2>1, <3>1, RowKept DEF RowsMove
  <2>2. CASE Create(c)
    <3>1. PICK v, row :
            /\ v \in Fresh(vocabs) /\ SetVocab(v, row) /\ row = NewVocab(calls[c].src, NewTargets(c))
            /\ calls' = [calls EXCEPT ![c].pc = "queue", ![c].on = v]
      <4>1. ~Finish(c)
        BY <1>4, NoCallRows DEF Finish, TransInv, CallsFine, AreCalls
      <4> QED
        BY <2>2, <4>1 DEF Create, Failed
    <3>2. IsNew(row)
      BY <3>1, NewRow, NewTargetsFine
    <3>3. v \in Ids /\ vocabs'[v] = row
      BY <3>1, Unused DEF SetVocab, TransInv, AreRows
    <3>4. calls'[c].on = v
      <4>1. PICK r, t : r = calls[c] /\ t = [r EXCEPT !.pc = "queue", !.on = v]
        OBVIOUS
      <4>2. IsCall(r)
        BY <4>1 DEF TransInv, CallsFine, AreCalls
      <4>3. t.on = v
        BY <4>1, <4>2 DEF IsCall
      <4>4. calls'[c] = t
        BY <3>1, <4>1 DEF TransInv, CallsFine, AreCalls
      <4> QED
        BY <4>3, <4>4
    <3> QED
      BY <3>2, <3>3, <3>4 DEF IsNew
  <2> QED
    BY <1>4, <2>1, <2>2, EveryCall DEF CallEffect
<1> QED
  BY <1>1, <1>2, <1>3, <1>4, FaultsGrow DEF TransInv

LEMMA TransInit == Init => TransInv
<1> SUFFICES ASSUME Init PROVE TransInv
  OBVIOUS
<1>1. CallsFine
  BY NoCallIsCall, NoCallRows DEF Init, CallsFine, AreCalls
<1>2. IsVocab(NoVocab) /\ NoVocab.at = "unused"
  BY DEF IsVocab, NoVocab
<1>3. IsJob(NoJob) /\ NoJob.st = "none" /\ NoJob.owner = Nobody /\ NoJob.tries = 0 /\ NoJob.stalls = 0
  BY DEF IsJob, NoJob
<1>4. AreRows
  BY <1>2, <1>3 DEF Init, AreRows
<1>5. \A v \in Ids : JobOK(v) /\ Due(v)
  BY <1>2, <1>3 DEF Init, JobOK, Due
<1>6. \A c \in Calls : calls[c].pc # "queue"
  BY NoCallIsCall DEF Init
<1>7. AreRuns /\ \A w \in Workers : RunOK(w)
  BY DEF Init, AreRuns, RunOK, NoRun
<1> QED
  BY <1>1, <1>4, <1>5, <1>6, <1>7 DEF Init, TransInv

LEMMA TransHolds == Spec => []TransInv
<1>1. QuotaInv' => AreCalls'
  BY DEF QuotaInv
<1>2. TransInv /\ QuotaInv' /\ [Next]_vars => TransInv'
  BY <1>1, TransStep
<1> QED
  BY <1>2, TransInit, QuotaHolds, PTL DEF Spec

\* An entry whose targets the user has left alone holds an answer of the AI once its
\* job is done; and while it holds the placeholder its job is there and not finished,
\* or each run of it was cut short by a fault, or the request that made the entry was
\* (create, the translation worker).
THEOREM TranslationAccountedCorrect == Spec => []TranslationAccounted
<1>1. TransInv => TranslationAccounted
  <2> SUFFICES ASSUME TransInv, NEW v \in Ids, vocabs[v].at = "live", ~vocabs[v].edited
               PROVE  /\ jobs[v].st = "done" => /\ Empty \notin Texts(v)
                                                /\ Translations \cap Texts(v) # {}
                      /\ Empty \in Texts(v) =>
                           \/ jobs[v].st \in {"wait", "active"}
                           \/ jobs[v].st = "failed" /\ jobs[v].tries + jobs[v].stalls <= faults
                           \/ jobs[v].st = "owed" /\ (faults > 0 \/ \E c \in Calls : calls[c].on = v)
    BY DEF TranslationAccounted
  <2>1. Due(v) /\ Texts(v) = TextsOf(vocabs[v])
    BY DEF TransInv, Texts, TextsOf
  <2> QED
    BY <2>1 DEF Due, Waited, Spent
<1> QED
  BY <1>1, TransHolds, PTL

----------------------------------------------------------------------------
(* The import                                                              *)

\* The row has source e.key and the texts e.texts, up to case; or the user has
\* edited it.
Stored(row, e) ==
  \/ row.edited
  \/ row.at = "live" /\ Lower[row.src] = e.key /\ e.texts \ {Empty} \subseteq Keys(TextsOf(row))
FoundOK(e) == e.id \in Ids /\ vocabs[e.id].at # "unused" /\ Stored(vocabs[e.id], e)
FoundIds(c) == {e.id : e \in calls[c].known}
Wanted(r) == [key |-> Lower[r.src], texts |-> {Lower[r.text]}]
RowLanded(c, r) ==
  \E v \in Ids : /\ v \in FoundIds(c) \/ Lower[vocabs[v].first] = Lower[r.src]
                 /\ vocabs[v].at # "unused" /\ Stored(vocabs[v], Wanted(r))
ImportOK(c) ==
  calls[c].pc = "groups" =>
    /\ \A e \in calls[c].known : FoundOK(e)
    /\ \A r \in calls[c].rows : Lower[r.src] \in calls[c].left \cup calls[c].errs \/ RowLanded(c, r)
LandInv == \A c \in Calls : ImportOK(c)

\* What is in an entry stays, or the user has edited it.
LEMMA StoredKept ==
  ASSUME NEW old, NEW new, Effect(old, new), old.at # "unused", NEW e, Stored(old, e)
  PROVE  Stored(new, e)
<1>1. CASE new = old \/ new.edited
  BY <1>1 DEF Stored
<1>2. CASE new # old /\ ~new.edited
  <2>1. /\ new.at = old.at /\ new.src = old.src /\ ~old.edited
        /\ TextsOf(old) \ {Empty} \subseteq TextsOf(new)
    BY <1>2 DEF Effect, Keeps
  <2>2. ASSUME NEW x \in e.texts \ {Empty} PROVE x \in Keys(TextsOf(new))
    <3>1. x \in Keys(TextsOf(old))
      BY <2>1 DEF Stored
    <3>2. PICK t \in TextsOf(old) : x = Lower[t]
      BY <3>1 DEF Keys
    <3>3. t # Empty
      BY <3>2, VocabAssumption
    <3> QED
      BY <2>1, <3>2, <3>3 DEF Keys
  <2> QED
    BY <2>1, <2>2 DEF Stored
<1> QED
  BY <1>1, <1>2

LEMMA FoundKept == ASSUME RowsMove, NEW e, FoundOK(e) PROVE FoundOK(e)'
<1>1. /\ e.id \in Ids /\ vocabs[e.id].at # "unused" /\ Stored(vocabs[e.id], e)
      /\ Effect(vocabs[e.id], vocabs'[e.id])
  BY DEF FoundOK, RowsMove
<1>2. Stored(vocabs'[e.id], e) /\ vocabs'[e.id].at # "unused"
  BY <1>1, StoredKept, RowKept
<1> QED
  BY <1>1, <1>2 DEF FoundOK

LEMMA LandedKept ==
  ASSUME RowsMove, NEW c \in Calls, calls'[c].known = calls[c].known, NEW r, RowLanded(c, r)
  PROVE  RowLanded(c, r)'
<1>1. PICK v \in Ids : /\ v \in FoundIds(c) \/ Lower[vocabs[v].first] = Lower[r.src]
                       /\ vocabs[v].at # "unused" /\ Stored(vocabs[v], Wanted(r))
  BY DEF RowLanded
<1>2. Effect(vocabs[v], vocabs'[v])
  BY DEF RowsMove
<1>3. /\ vocabs'[v].at # "unused" /\ vocabs'[v].first = vocabs[v].first
      /\ Stored(vocabs'[v], Wanted(r))
  BY <1>1, <1>2, StoredKept, RowKept
<1>4. FoundIds(c)' = FoundIds(c)
  BY DEF FoundIds
<1> QED
  BY <1>1, <1>3, <1>4 DEF RowLanded, Wanted

\* What the import has read of the folder is there, and no row is settled.
LEMMA LoadLands ==
  ASSUME CallsFine, AreRows, NEW c \in Calls, Load(c), Loads(calls[c], calls'[c])
  PROVE  ImportOK(c)'
<1>1. vocabs' = vocabs
  BY DEF Load
<1>2. ASSUME NEW e \in calls'[c].known PROVE FoundOK(e)'
  <2>1. PICK v \in Live(vocabs) :
          e = [key |-> Lower[vocabs[v].src], id |-> v, texts |-> Keys(Texts(v))]
    BY <1>2 DEF Loads
  <2>2. v \in Ids /\ vocabs[v].at = "live"
    BY DEF Live, AreRows
  <2>3. e.id = v /\ e.key = Lower[vocabs[v].src] /\ e.texts = Keys(TextsOf(vocabs[v]))
    BY <2>1 DEF Texts, TextsOf
  <2>4. Stored(vocabs[v], e)
    BY <2>2, <2>3 DEF Stored
  <2> QED
    BY <1>1, <2>2, <2>3, <2>4 DEF FoundOK
<1>3. ASSUME NEW r \in calls'[c].rows PROVE Lower[r.src] \in calls'[c].left
  BY <1>3 DEF Loads, Keys
<1> QED
  BY <1>2, <1>3 DEF ImportOK

\* A row whose group is settled, and not as one that failed, is in an entry.
LEMMA GroupLands ==
  ASSUME LandInv, RowsMove, CallsFine, AreRows, NEW c \in Calls, NEW k, NEW errs,
         calls[c].pc = "groups", GroupDone(c, k, errs),
         \A r \in calls[c].rows : Lower[r.src] = k => k \in errs \/ RowLanded(c, r)'
  PROVE  ImportOK(c)'
<1>1. Advances(calls[c], calls'[c], k, errs)
  BY GroupCall
<1>2. ImportOK(c)
  BY DEF LandInv
<1>3. \A e \in calls'[c].known : FoundOK(e)'
  BY <1>1, <1>2, FoundKept DEF Advances, ImportOK
<1>4. ASSUME NEW r \in calls'[c].rows
      PROVE  Lower[r.src] \in calls'[c].left \cup calls'[c].errs \/ RowLanded(c, r)'
  <2>1. r \in calls[c].rows
    BY <1>1 DEF Advances
  <2>2. CASE Lower[r.src] = k
    BY <1>1, <2>1, <2>2 DEF Advances
  <2>3. CASE RowLanded(c, r)
    BY <1>1, <2>3, LandedKept DEF Advances
  <2>4. CASE Lower[r.src] # k /\ Lower[r.src] \in calls[c].left \cup calls[c].errs
    BY <1>1, <2>4 DEF Advances
  <2> QED
    BY <1>2, <2>1, <2>2, <2>3, <2>4 DEF ImportOK
<1> QED
  BY <1>3, <1>4 DEF ImportOK

\* The text of a row is among those of its group.
LEMMA RowText ==
  ASSUME CallsFine, NEW c \in Calls, NEW r \in calls[c].rows, NEW k, Lower[r.src] = k,
         NEW D \in Deduped({x.text : x \in GroupOf(calls[c].rows, k)})
  PROVE  \E t \in D : Lower[t] = Lower[r.text]
<1>1. r.text \in {x.text : x \in GroupOf(calls[c].rows, k)}
  BY DEF GroupOf
<1>2. Lower[r.text] \in Keys({x.text : x \in GroupOf(calls[c].rows, k)})
  BY <1>1 DEF Keys
<1>3. Lower[r.text] \in Keys(D)
  BY <1>2, GroupTexts
<1> QED
  BY <1>3 DEF Keys

LEMMA MergeLands ==
  ASSUME LandInv, CallsFine, AreRows, RowsMove, NEW c \in Calls, NEW k, MergeGroup(c, k)
  PROVE  ImportOK(c)'
<1>1. calls[c].pc = "groups" /\ ImportOK(c)
  BY DEF MergeGroup, LandInv
<1>2. CASE GroupDone(c, k, {k})
  BY <1>1, <1>2, GroupLands
<1>3. ASSUME NEW e \in calls[c].known, NEW D \in Deduped({r.text : r \in GroupOf(calls[c].rows, k)}),
             e.key = k, GroupDone(c, k, {}),
             vocabs' = [vocabs EXCEPT ![e.id].targets = @ \cup Plain(Missing(D, e))]
      PROVE  ImportOK(c)'
  <2>1. FoundOK(e) /\ e.id \in Ids
    BY <1>1 DEF ImportOK, FoundOK
  <2>2. PICK row, new : row = vocabs[e.id] /\ new = vocabs'[e.id]
    OBVIOUS
  <2>3. FoundOK(e)' /\ Stored(new, e) /\ new.at # "unused"
    BY <2>1, <2>2, FoundKept DEF FoundOK
  <2>4. Missing(D, e) \subseteq TextsOf(new)
    <3>1. PICK add, targets : add = Missing(D, e) /\ targets = row.targets \cup Plain(add)
      OBVIOUS
    <3>2. new = [row EXCEPT !.targets = targets]
      BY <1>3, <2>1, <2>2, <3>1 DEF AreRows
    <3>3. new.targets = targets
      BY <2>1, <2>2, <3>2 DEF AreRows, IsVocab
    <3> QED
      BY <3>1, <3>3, PlainFine DEF TextsOf
  <2>5. ASSUME NEW r \in calls[c].rows, Lower[r.src] = k PROVE RowLanded(c, r)'
    <3>1. PICK t \in D : Lower[t] = Lower[r.text]
      BY <2>5, RowText
    <3>2. ASSUME ~new.edited PROVE Lower[r.text] \in Keys(TextsOf(new))
      <4>1. CASE Lower[t] \in e.texts
        <5>1. Lower[t] # Empty
          BY GroupTexts
        <5> QED
          BY <2>3, <3>1, <3>2, <4>1, <5>1 DEF Stored
      <4>2. CASE Lower[t] \notin e.texts
        BY <2>4, <3>1, <4>2 DEF Missing, Keys
      <4> QED
        BY <4>1, <4>2
    <3>3. Stored(new, Wanted(r))
      BY <1>3, <2>3, <2>5, <3>2 DEF Stored, Wanted
    <3>4. e.id \in FoundIds(c)'
      <4>1. calls'[c].known = calls[c].known
        BY <1>3, GroupCall DEF Advances
      <4> QED
        BY <4>1 DEF FoundIds
    <3> QED
      BY <2>1, <2>2, <2>3, <3>3, <3>4 DEF RowLanded, Wanted
  <2> QED
    BY <1>1, <1>3, <2>5, GroupLands
<1> QED
  BY <1>2, <1>3 DEF MergeGroup

LEMMA NewLands ==
  ASSUME LandInv, CallsFine, AreRows, RowsMove, NEW c \in Calls, NEW k, NewGroup(c, k)
  PROVE  ImportOK(c)'
<1>1. calls[c].pc = "groups"
  BY DEF NewGroup
<1>2. CASE GroupDone(c, k, {k})
  BY <1>1, <1>2, GroupLands
<1>3. ASSUME NEW v \in Fresh(vocabs), NEW D \in Deduped({r.text : r \in GroupOf(calls[c].rows, k)}),
             SetVocab(v, NewVocab(k, Plain(D))), GroupDone(c, k, {})
      PROVE  ImportOK(c)'
  <2>1. PICK row : row = NewVocab(k, Plain(D))
    OBVIOUS
  <2>2. row.src = k /\ row.first = k /\ row.at = "live" /\ row.targets = Plain(D)
    BY <2>1, NewRow, PlainFine DEF IsNew
  <2>3. v \in Ids /\ vocabs'[v] = row
    BY <1>3, <2>1, Unused DEF SetVocab, AreRows
  <2>4. TextsOf(row) = D
    BY <2>2, PlainFine DEF TextsOf
  <2>5. ASSUME NEW r \in calls[c].rows, Lower[r.src] = k PROVE RowLanded(c, r)'
    <3>1. Lower[k] = k
      BY <2>5, TextsAssumption DEF CallsFine, RowsFine
    <3>2. PICK t \in D : Lower[t] = Lower[r.text]
      BY <2>5, RowText
    <3>3. Lower[r.text] \in Keys(TextsOf(row))
      BY <2>4, <3>2 DEF Keys
    <3>4. Stored(row, Wanted(r))
      BY <2>2, <2>5, <3>1, <3>3 DEF Stored, Wanted
    <3> QED
      BY <2>2, <2>3, <2>5, <3>1, <3>4 DEF RowLanded, Wanted
  <2> QED
    BY <1>1, <1>3, <2>5, GroupLands
<1> QED
  BY <1>2, <1>3 DEF NewGroup

LEMMA LandStep == ASSUME LandInv, TransInv, AreCalls', [Next]_vars PROVE LandInv'
<1>1. RowsMove /\ CallsFine /\ AreRows
  BY EveryRow DEF TransInv
<1>2. ASSUME NEW c \in Calls, calls'[c] = calls[c] PROVE ImportOK(c)'
  <2>1. ImportOK(c)
    BY DEF LandInv
  <2>2. ASSUME calls'[c].pc = "groups", NEW e \in calls'[c].known PROVE FoundOK(e)'
    BY <1>1, <1>2, <2>1, <2>2, FoundKept DEF ImportOK
  <2>3. ASSUME calls'[c].pc = "groups", NEW r \in calls'[c].rows
        PROVE  Lower[r.src] \in calls'[c].left \cup calls'[c].errs \/ RowLanded(c, r)'
    BY <1>1, <1>2, <2>1, <2>3, LandedKept DEF ImportOK
  <2> QED
    BY <2>2, <2>3 DEF ImportOK
<1>3. ASSUME NEW c \in Calls, CallEffect(c) PROVE ImportOK(c)'
  <2>1. CASE calls'[c].pc # "groups"
    BY <2>1 DEF ImportOK
  <2>2. CASE Load(c) /\ Loads(calls[c], calls'[c])
    BY <1>1, <2>2, LoadLands
  <2>3. ASSUME NEW k, MergeGroup(c, k) \/ NewGroup(c, k) PROVE ImportOK(c)'
    BY <1>1, <2>3, MergeLands, NewLands
  <2> QED
    BY <1>2, <1>3, <2>1, <2>2, <2>3 DEF CallEffect
<1> QED
  BY <1>2, <1>3, EveryCall DEF LandInv

\* As an import goes on, every row whose group is settled and not reported is in the
\* folder, up to case, or the user has edited an entry of that source (the import).
THEOREM ImportLandsCorrect == Spec => []ImportLands
<1>1. Init => LandInv
  BY NoCallIsCall DEF Init, LandInv, ImportOK
<1>2. LandInv /\ TransInv /\ QuotaInv' /\ [Next]_vars => LandInv'
  BY LandStep DEF QuotaInv
<1>3. LandInv /\ TransInv => ImportLands
  <2> SUFFICES ASSUME LandInv, TransInv, NEW c \in Calls, calls[c].pc = "groups",
                      NEW r \in calls[c].rows,
                      Lower[r.src] \notin calls[c].left \cup calls[c].errs, ~Landed(r)
               PROVE  \E v \in Ids : vocabs[v].edited /\
                        (Lower[vocabs[v].first] = Lower[r.src] \/ v \in {e.id : e \in calls[c].known})
    BY DEF ImportLands
  <2>1. RowLanded(c, r)
    BY DEF LandInv, ImportOK
  <2>2. PICK v \in Ids : /\ v \in FoundIds(c) \/ Lower[vocabs[v].first] = Lower[r.src]
                         /\ vocabs[v].at # "unused" /\ Stored(vocabs[v], Wanted(r))
    BY <2>1 DEF RowLanded
  <2>3. CASE vocabs[v].edited
    BY <2>2, <2>3 DEF FoundIds
  <2>4. CASE ~vocabs[v].edited
    <3>1. /\ vocabs[v].at = "live" /\ Lower[vocabs[v].src] = Lower[r.src]
          /\ {Lower[r.text]} \ {Empty} \subseteq Keys(TextsOf(vocabs[v]))
      BY <2>2, <2>4 DEF Stored, Wanted
    <3>2. Lower[r.text] # Empty
      BY DEF TransInv, CallsFine, RowsFine
    <3>3. v \in Live(vocabs) /\ Texts(v) = TextsOf(vocabs[v])
      BY <3>1 DEF Live, Texts, TextsOf, TransInv, AreRows
    <3> QED
      BY <3>1, <3>2, <3>3 DEF Landed
  <2> QED
    BY <2>3, <2>4
<1> QED
  BY <1>1, <1>2, <1>3, QuotaHolds, TransHolds, PTL DEF Spec

----------------------------------------------------------------------------
(* Subjects                                                                *)

\* What is between count and creation counts as made: a name passes its count while
\* there is room for one more, and is one of at most peak names that wait.
AreSubjects ==
  /\ subjects = [s \in SubIds |-> subjects[s]]
  /\ \A s \in SubIds : subjects[s] = [at |-> subjects[s].at, name |-> subjects[s].name,
                                     of |-> subjects[s].of]
SubjectInv ==
  /\ AreSubjects
  /\ peak \in Nat /\ IsFiniteSet(Own) /\ IsFiniteSet(Between) /\ Cardinality(Between) <= peak
  /\ Mine # {} \/ Between # {} =>
       Cardinality(Mine) + Cardinality(Between) < SubjectLimit + peak

LEMMA InBetween ==
  \A x : x \in Between <=> \E c \in Calls : \E n \in calls[c].counted : calls[c].guest /\ x = <<c, n>>
BY DEF Between

LEMMA MineCounted ==
  ASSUME SubjectInv
  PROVE  /\ Mine \subseteq Own /\ IsFiniteSet(Mine) /\ Cardinality(Mine) \in Nat
         /\ Cardinality(Mine) <= Cardinality(Own) /\ Cardinality(Own) \in Nat
         /\ Cardinality(Between) \in Nat
<1>1. Mine \subseteq Own
  BY DEF Mine, Own
<1> QED
  BY <1>1, FS_Subset, FS_CardinalityType DEF SubjectInv

\* A call gives up names, or ends.
LEMMA NamesKept ==
  ASSUME AreCalls, NEW c \in Calls, NEW r, calls' = [calls EXCEPT ![c] = r],
         \/ r.counted = {}
         \/ r.counted \subseteq calls[c].counted /\ r.guest = calls[c].guest
  PROVE  Between' \subseteq Between
<1>1. calls'[c] = r /\ \A k \in Calls \ {c} : calls'[k] = calls[k]
  BY CallPut
<1>2. ASSUME NEW k \in Calls, NEW n \in calls'[k].counted, calls'[k].guest
      PROVE  n \in calls[k].counted /\ calls[k].guest
  <2>1. CASE k = c
    BY <1>1, <1>2, <2>1
  <2>2. CASE k # c
    BY <1>1, <1>2, <2>2
  <2> QED
    BY <2>1, <2>2
<1>3. ASSUME NEW x \in Between' PROVE x \in Between
  <2>1. PICK k \in Calls : \E n \in calls'[k].counted : calls'[k].guest /\ x = <<k, n>>
    BY <1>3 DEF Between
  <2> QED
    BY <1>2, <2>1, InBetween
<1> QED
  BY <1>3

LEMMA NoneMore ==
  ASSUME SubjectInv, UNCHANGED peak, Between' \subseteq Between,
         Mine' \subseteq Mine, Own' \subseteq Own, AreSubjects'
  PROVE  SubjectInv'
<1>1. /\ IsFiniteSet(Own') /\ IsFiniteSet(Between')
      /\ Cardinality(Between') \in Nat /\ Cardinality(Between') <= Cardinality(Between)
      /\ Cardinality(Mine') \in Nat /\ Cardinality(Mine') <= Cardinality(Mine)
  BY MineCounted, FS_Subset, FS_CardinalityType DEF SubjectInv
<1>2. Mine' # {} \/ Between' # {} => Mine # {} \/ Between # {}
  OBVIOUS
<1> QED
  BY <1>1, <1>2, MineCounted, VocabAssumption DEF SubjectInv

LEMMA SubjectsStay ==
  ASSUME SubjectInv, UNCHANGED <<subjects, peak>>, Between' \subseteq Between
  PROVE  SubjectInv'
<1>1. Mine' = Mine /\ Own' = Own /\ AreSubjects'
  BY DEF Mine, Own, Live, SubjectInv, AreSubjects
<1> QED
  BY <1>1, NoneMore

\* A subject goes.
LEMMA SubjectGone ==
  ASSUME SubjectInv, NEW i, subjects' = [subjects EXCEPT ![i].at = "gone"], UNCHANGED peak,
         Between' \subseteq Between
  PROVE  SubjectInv'
<1>1. ASSUME NEW s \in SubIds
      PROVE  /\ subjects'[s] = [at |-> subjects'[s].at, name |-> subjects'[s].name,
                                of |-> subjects'[s].of]
             /\ subjects'[s] = subjects[s] \/ subjects'[s].at = "gone"
  <2>1. PICK r, new : r = subjects[s] /\ new = [r EXCEPT !.at = "gone"]
    OBVIOUS
  <2>2. r = [at |-> r.at, name |-> r.name, of |-> r.of]
    BY <2>1 DEF SubjectInv, AreSubjects
  <2>3. new = [at |-> new.at, name |-> new.name, of |-> new.of] /\ new.at = "gone"
    BY <2>1, <2>2
  <2>4. subjects'[s] = r \/ subjects'[s] = new
    BY <2>1 DEF SubjectInv, AreSubjects
  <2> QED
    BY <2>1, <2>2, <2>3, <2>4
<1>2. AreSubjects'
  BY <1>1 DEF SubjectInv, AreSubjects
<1>3. Mine' \subseteq Mine /\ Own' \subseteq Own
  BY <1>1, <1>2 DEF Mine, Own, Live, SubjectInv, AreSubjects
<1> QED
  BY <1>2, <1>3, NoneMore

\* A name is counted while there is room for it.
LEMMA CountNames ==
  ASSUME SubjectInv, AreCalls, NEW c \in Calls, NEW n, CountSubjects(c, n)
  PROVE  SubjectInv'
<1> DEFINE full == calls[c].guest /\ SubjectsFull(Cardinality(Own))
           y == IF full THEN calls[c].counted ELSE calls[c].counted \cup {n}
           x == calls[c].todo \ {n}
           z == calls[c].refused \/ full
           s == [calls[c] EXCEPT !.todo = x, !.counted = y, !.refused = z]
<1>1. PICK r : r = calls[c]
  OBVIOUS
<1>2. calls' = [calls EXCEPT ![c] = s]
  BY DEF CountSubjects, AreCalls
<1>3. UNCHANGED subjects /\ peak' = IF Cardinality(Between') > peak THEN Cardinality(Between') ELSE peak
  BY DEF CountSubjects
<1>4. IsCall(r)
  BY <1>1 DEF AreCalls
<1>5. s.counted = y /\ s.guest = r.guest
  <2> HIDE DEF y, full, x, z
  <2>1. s = [r EXCEPT !.todo = x, !.counted = y, !.refused = z]
    BY <1>1
  <2> HIDE DEF s
  <2> QED
    BY <1>4, <2>1 DEF IsCall
<1> HIDE DEF s, x, z
<1>6. calls'[c] = s /\ \A k \in Calls \ {c} : calls'[k] = calls[k]
  BY <1>2, CallPut
<1>7. Mine' = Mine /\ Own' = Own /\ AreSubjects'
  BY <1>3 DEF Mine, Own, Live, SubjectInv, AreSubjects
<1>8. CASE ~calls[c].guest \/ full
  <2>1. s.counted = r.counted \/ ~r.guest
    BY <1>1, <1>5, <1>8
  <2>2. \A k \in Calls : \A m \in calls'[k].counted : calls'[k].guest => m \in calls[k].counted /\ calls[k].guest
    BY <1>1, <1>5, <1>6, <2>1
  <2>3. Between' \subseteq Between
    BY <2>2 DEF Between
  <2>4. Cardinality(Between') <= Cardinality(Between) /\ Cardinality(Between') \in Nat
    BY <2>3, FS_Subset, FS_CardinalityType DEF SubjectInv
  <2>5. peak' = peak
    BY <1>3, <2>4, MineCounted DEF SubjectInv
  <2> QED
    BY <1>3, <2>3, <2>5, SubjectsStay
<1>9. CASE calls[c].guest /\ ~full
  <2>1. Cardinality(Own) < SubjectLimit
    <3>1. ~(Cardinality(Own) >= SubjectLimit)
      BY <1>9 DEF SubjectsFull
    <3> QED
      BY <3>1, MineCounted, VocabAssumption
  <2>2. \A k \in Calls : \A m \in calls'[k].counted :
          calls'[k].guest => calls[k].guest /\ (m \in calls[k].counted \/ (k = c /\ m = n))
    BY <1>1, <1>5, <1>6, <1>9
  <2>3. Between' \subseteq Between \cup {<<c, n>>}
    BY <2>2 DEF Between
  <2>4. IsFiniteSet(Between \cup {<<c, n>>})
    BY FS_AddElement DEF SubjectInv
  <2>5. IsFiniteSet(Between') /\ Cardinality(Between') \in Nat
    BY <2>3, <2>4, FS_Subset, FS_CardinalityType
  <2>6. PICK b : b = Cardinality(Between')
    OBVIOUS
  <2>7. b \in Nat /\ peak' \in Nat /\ b <= peak'
    BY <1>3, <2>5, <2>6 DEF SubjectInv
  <2>8. Cardinality(Mine) + b < SubjectLimit + peak'
    BY <2>1, <2>7, MineCounted, VocabAssumption
  <2> QED
    BY <1>7, <2>5, <2>6, <2>7, <2>8 DEF SubjectInv
<1> QED
  BY <1>8, <1>9

\* A subject is made for a name that waited.
LEMMA MakesSubject ==
  ASSUME SubjectInv, AreCalls, NEW c \in Calls, NEW n \in calls[c].counted, NEW i \in Fresh(subjects),
         NEW new, new = [at |-> "live", name |-> n, of |-> IF calls[c].guest THEN "guest" ELSE "member"],
         subjects' = [subjects EXCEPT ![i] = new],
         calls'[c].counted = calls[c].counted \ {n}, calls'[c].guest = calls[c].guest,
         \A k \in Calls \ {c} : calls'[k] = calls[k], UNCHANGED peak
  PROVE  SubjectInv'
<1>1. i \in SubIds /\ subjects[i].at = "unused"
  BY VocabAssumption DEF Fresh, SubjectInv, AreSubjects
<1>2. /\ subjects'[i] = new /\ \A s \in SubIds \ {i} : subjects'[s] = subjects[s]
      /\ DOMAIN subjects' = SubIds /\ DOMAIN subjects = SubIds
  BY <1>1 DEF SubjectInv, AreSubjects
<1>3. /\ new.at = "live" /\ (new.of = "guest" <=> calls[c].guest) /\ new.of # "other"
      /\ new = [at |-> new.at, name |-> new.name, of |-> new.of]
  OBVIOUS
<1>4. AreSubjects'
  <2>1. subjects' = [s \in SubIds |-> subjects'[s]]
    BY DEF SubjectInv, AreSubjects
  <2> QED
    BY <1>2, <1>3, <2>1 DEF SubjectInv, AreSubjects
<1>5. Own' = Own \cup {i}
  BY <1>1, <1>2, <1>3 DEF Own, Live
<1>6. IsFiniteSet(Own')
  BY <1>5, FS_AddElement DEF SubjectInv
<1>7. CASE ~calls[c].guest
  <2>1. Mine' = Mine
    BY <1>1, <1>2, <1>3, <1>7 DEF Mine, Live
  <2>2. \A k \in Calls : \A m \in calls'[k].counted : calls'[k].guest => m \in calls[k].counted /\ calls[k].guest
    BY <1>7
  <2>3. Between' \subseteq Between
    BY <2>2 DEF Between
  <2>4. /\ IsFiniteSet(Between')
        /\ Cardinality(Between') <= Cardinality(Between) /\ Cardinality(Between') \in Nat
    BY <2>3, FS_Subset, FS_CardinalityType DEF SubjectInv
  <2>5. Mine' # {} \/ Between' # {} => Mine # {} \/ Between # {}
    BY <2>1, <2>3
  <2> QED
    BY <1>4, <1>6, <2>1, <2>4, <2>5, MineCounted, VocabAssumption DEF SubjectInv
<1>8. CASE calls[c].guest
  <2>1. Mine' = Mine \cup {i} /\ i \notin Mine
    BY <1>1, <1>2, <1>3, <1>8 DEF Mine, Live
  <2>2. Cardinality(Mine') = Cardinality(Mine) + 1
    BY <2>1, MineCounted, FS_AddElement
  <2>3. <<c, n>> \in Between
    BY <1>8 DEF Between
  <2>4. \A k \in Calls : \A m \in calls'[k].counted :
          calls'[k].guest => calls[k].guest /\ m \in calls[k].counted /\ <<k, m>> # <<c, n>>
    OBVIOUS
  <2>5. Between' \subseteq Between \ {<<c, n>>}
    BY <2>4 DEF Between
  <2>6. IsFiniteSet(Between \ {<<c, n>>}) /\ Cardinality(Between \ {<<c, n>>}) = Cardinality(Between) - 1
    BY <2>3, FS_RemoveElement DEF SubjectInv
  <2>7. /\ IsFiniteSet(Between')
        /\ Cardinality(Between') <= Cardinality(Between) - 1 /\ Cardinality(Between') \in Nat
    BY <2>5, <2>6, FS_Subset, FS_CardinalityType
  <2>8. Cardinality(Mine) + Cardinality(Between) < SubjectLimit + peak
    BY <2>3 DEF SubjectInv
  <2> QED
    BY <1>4, <1>6, <2>2, <2>7, <2>8, MineCounted, VocabAssumption DEF SubjectInv
<1> QED
  BY <1>7, <1>8

LEMMA UpsertNames ==
  ASSUME SubjectInv, AreCalls, NEW c \in Calls, NEW n, UpsertSubject(c, n)
  PROVE  SubjectInv'
<1>1. n \in calls[c].counted /\ UNCHANGED peak
  BY DEF UpsertSubject
<1>2. PICK r, rest : r = calls[c] /\ rest = r.counted \ {n}
  OBVIOUS
<1>3. IsCall(r)
  BY <1>2 DEF AreCalls
<1>4. ASSUME NEW y, NEW z, NEW s,
             \/ s = [r EXCEPT !.counted = rest, !.subs = y, !.refused = z]
             \/ s = [r EXCEPT !.counted = rest, !.subs = y]
      PROVE  s.counted = rest /\ s.guest = r.guest
  BY <1>3, <1>4 DEF IsCall
<1>5. CASE UNCHANGED subjects
  <2> DEFINE found == {s \in Own : Lower[subjects[s].name] = Lower[n]}
             y == calls[c].subs \cup found
             z == calls[c].refused \/ calls[c].op = "subject"
             more(i) == calls[c].subs \cup {i}
             s == [calls[c] EXCEPT !.counted = rest, !.subs = y, !.refused = z]
             q(i) == [calls[c] EXCEPT !.counted = rest, !.subs = more(i)]
  <2>1. calls' = [calls EXCEPT ![c] = s] \/ \E i : calls' = [calls EXCEPT ![c] = q(i)]
    BY <1>2 DEF UpsertSubject, AreCalls
  <2> HIDE DEF found, y, z, more
  <2>3. s = [r EXCEPT !.counted = rest, !.subs = y, !.refused = z]
    BY <1>2
  <2>4. \A i : q(i) = [r EXCEPT !.counted = rest, !.subs = more(i)]
    BY <1>2
  <2> HIDE DEF s, q
  <2>2. PICK t : calls' = [calls EXCEPT ![c] = t] /\ t.counted = rest /\ t.guest = r.guest
    <3>1. CASE calls' = [calls EXCEPT ![c] = s]
      BY <1>4, <2>3, <3>1
    <3>2. ASSUME NEW i, calls' = [calls EXCEPT ![c] = q(i)]
          PROVE  \E t : calls' = [calls EXCEPT ![c] = t] /\ t.counted = rest /\ t.guest = r.guest
      BY <1>4, <2>4, <3>2
    <3> QED
      BY <2>1, <3>1, <3>2
  <2> QED
    BY <1>1, <1>2, <1>5, <2>2, NamesKept, SubjectsStay
<1>6. ASSUME NEW i \in Fresh(subjects),
             subjects' = [subjects EXCEPT ![i] =
               [at |-> "live", name |-> n, of |-> IF calls[c].guest THEN "guest" ELSE "member"]],
             calls' = [calls EXCEPT ![c].counted = @ \ {n}, ![c].subs = @ \cup {i}]
      PROVE  SubjectInv'
  <2>1. PICK s, y : s = [r EXCEPT !.counted = rest, !.subs = y] /\ y = r.subs \cup {i}
    OBVIOUS
  <2>2. calls' = [calls EXCEPT ![c] = s]
    BY <1>2, <1>6, <2>1 DEF AreCalls
  <2>3. calls'[c] = s /\ \A k \in Calls \ {c} : calls'[k] = calls[k]
    BY <2>2, CallPut
  <2>4. s.counted = rest /\ s.guest = r.guest
    BY <1>4, <2>1
  <2>5. PICK new : new = [at |-> "live", name |-> n, of |-> IF calls[c].guest THEN "guest" ELSE "member"]
    OBVIOUS
  <2> QED
    BY <1>1, <1>2, <1>6, <2>3, <2>4, <2>5, MakesSubject
<1> QED
  BY <1>5, <1>6 DEF UpsertSubject

\* The other steps of a request give names up at most.
LEMMA RequestNames ==
  ASSUME SubjectInv, AreCalls, NEW c \in Calls, Request(c) \/ CallDies(c)
  PROVE  SubjectInv'
<1>1. IsCall(calls[c])
  BY DEF AreCalls
<1>2. ASSUME Finish(c) PROVE Between' \subseteq Between
  <2>1. NoCall.counted = {}
    BY DEF NoCall
  <2> QED
    BY <1>2, <2>1, NamesKept DEF Finish
<1>3. ASSUME NEW r, NEW s, r = calls[c], calls' = [calls EXCEPT ![c] = s],
             s.counted = r.counted /\ s.guest = r.guest
      PROVE  Between' \subseteq Between
  BY <1>3, NamesKept
<1>4. ASSUME NEW pc, Goto(c, pc) PROVE Between' \subseteq Between
  <2>1. PICK r, s : r = calls[c] /\ s = [r EXCEPT !.pc = pc]
    OBVIOUS
  <2>2. calls' = [calls EXCEPT ![c] = s]
    BY <1>4, <2>1 DEF Goto, AreCalls
  <2>3. s.counted = r.counted /\ s.guest = r.guest
    BY <1>1, <2>1 DEF IsCall
  <2> QED
    BY <1>3, <2>1, <2>2, <2>3
<1>5. ASSUME NEW in \in Inputs, Arrive(c, in) PROVE SubjectInv'
  <2> DEFINE pc == IF in.op = "create" THEN "quota"
                   ELSE IF in.op \in {"subject", "update"} THEN "refs" ELSE in.op
  <2>1. PICK x, s, op, src, texts, names, guest, rows, links :
          /\ s = [NoCall EXCEPT !.pc = pc, !.op = op, !.src = src, !.texts = texts, !.names = names,
                                !.guest = guest, !.rows = rows, !.on = x, !.todo = names,
                                !.subs = links]
          /\ calls' = [calls EXCEPT ![c] = s]
    <3> DEFINE Row(x) == [NoCall EXCEPT !.pc = pc, !.op = in.op, !.src = in.src, !.texts = in.texts,
                          !.names = in.names, !.guest = in.guest, !.rows = in.rows,
                          !.on = x, !.todo = in.names, !.subs = in.links]
    <3>1. PICK x : calls' = [calls EXCEPT ![c] = Row(x)]
      BY <1>5 DEF Arrive
    <3> HIDE DEF pc
    <3> QED
      BY <3>1
  <2> HIDE DEF pc
  <2>2. s.counted = {}
    BY <2>1 DEF NoCall
  <2>3. Between' \subseteq Between
    BY <2>1, <2>2, NamesKept
  <2> QED
    BY <1>5, <2>3, SubjectsStay DEF Arrive
<1>6. CASE Create(c)
  <2>1. ASSUME NEW v, calls' = [calls EXCEPT ![c].pc = "queue", ![c].on = v]
        PROVE  Between' \subseteq Between
    <3>1. PICK r, s : r = calls[c] /\ s = [r EXCEPT !.pc = "queue", !.on = v]
      OBVIOUS
    <3>2. calls' = [calls EXCEPT ![c] = s]
      BY <2>1, <3>1 DEF AreCalls
    <3>3. s.counted = r.counted /\ s.guest = r.guest
      BY <1>1, <3>1 DEF IsCall
    <3> QED
      BY <1>3, <3>1, <3>2, <3>3
  <2>2. UNCHANGED <<subjects, peak>>
    BY <1>6 DEF Create
  <2>3. Finish(c) \/ \E v : calls' = [calls EXCEPT ![c].pc = "queue", ![c].on = v]
    BY <1>6 DEF Create, Failed
  <2> QED
    BY <1>2, <2>1, <2>2, <2>3, SubjectsStay
<1>7. ASSUME NEW k, Load(c) \/ MergeGroup(c, k) \/ NewGroup(c, k) PROVE SubjectInv'
  <2>1. UNCHANGED <<subjects, peak>>
    BY <1>7 DEF Load, MergeGroup, NewGroup
  <2>2. ASSUME NEW x, NEW y, calls' = [calls EXCEPT ![c].pc = "groups", ![c].left = x, ![c].known = y]
        PROVE  Between' \subseteq Between
    <3>1. PICK r, s : r = calls[c] /\ s = [r EXCEPT !.pc = "groups", !.left = x, !.known = y]
      OBVIOUS
    <3>2. calls' = [calls EXCEPT ![c] = s]
      BY <2>2, <3>1 DEF AreCalls
    <3>3. s.counted = r.counted /\ s.guest = r.guest
      BY <1>1, <3>1 DEF IsCall
    <3> QED
      BY <1>3, <3>1, <3>2, <3>3
  <2>3. ASSUME NEW errs, GroupDone(c, k, errs) PROVE Between' \subseteq Between
    <3>1. PICK r, s, x, y : /\ r = calls[c] /\ s = [r EXCEPT !.left = x, !.errs = y]
                            /\ x = r.left \ {k} /\ y = r.errs \cup errs
      OBVIOUS
    <3>2. calls' = [calls EXCEPT ![c] = s]
      BY <2>3, <3>1 DEF GroupDone, AreCalls
    <3>3. s.counted = r.counted /\ s.guest = r.guest
      BY <1>1, <3>1 DEF IsCall
    <3> QED
      BY <1>3, <3>1, <3>2, <3>3
  <2>4. \/ Finish(c)
        \/ \E x, y : calls' = [calls EXCEPT ![c].pc = "groups", ![c].left = x, ![c].known = y]
        \/ \E errs : GroupDone(c, k, errs)
    BY <1>7 DEF Load, MergeGroup, NewGroup
  <2> QED
    BY <1>2, <2>1, <2>2, <2>3, <2>4, SubjectsStay
<1>8. CASE CountVocab(c) \/ CheckSubject(c)
  <2>1. Between' \subseteq Between /\ UNCHANGED <<subjects, peak>>
    BY <1>2, <1>4, <1>8 DEF CountVocab, CheckSubject
  <2> QED
    BY <2>1, SubjectsStay
<1>9. CASE DeleteSubject(c)
  <2>1. Between' \subseteq Between /\ UNCHANGED peak
    BY <1>2, <1>9 DEF DeleteSubject
  <2> QED
    BY <1>9, <2>1, SubjectGone, SubjectsStay DEF DeleteSubject
<1>10. CASE \/ Refuse(c) \/ Queue(c) \/ Update(c) \/ Delete(c) \/ DeleteFolder(c) \/ AddTarget(c)
            \/ EditTarget(c) \/ RemoveTarget(c) \/ EndImport(c) \/ CallDies(c) \/ GiveBack(c)
  <2>1. Finish(c) /\ UNCHANGED <<subjects, peak>>
    BY <1>10 DEF Refuse, Queue, Update, Delete, DeleteFolder, AddTarget, EditTarget, RemoveTarget,
       EndImport, CallDies, Failed, GiveBack
  <2> QED
    BY <1>2, <2>1, SubjectsStay
<1> QED
  BY <1>5, <1>6, <1>7, <1>8, <1>9, <1>10, CountNames, UpsertNames DEF Request

LEMMA SubjectInit == Init => SubjectInv
<1> SUFFICES ASSUME Init PROVE SubjectInv
  OBVIOUS
<1>1. PICK theirs : theirs = [NoSubject EXCEPT !.at = "live", !.of = "other"]
  OBVIOUS
<1>2. /\ theirs.of = "other" /\ theirs = [at |-> theirs.at, name |-> theirs.name, of |-> theirs.of]
      /\ NoSubject.at = "unused"
      /\ NoSubject = [at |-> NoSubject.at, name |-> NoSubject.name, of |-> NoSubject.of]
  BY <1>1 DEF NoSubject
<1>3. subjects = [s \in SubIds |-> IF s \in Foreign THEN theirs ELSE NoSubject]
  BY <1>1 DEF Init
<1>4. \A s \in SubIds : subjects[s] = theirs \/ subjects[s] = NoSubject
  BY <1>3
<1>5. AreSubjects
  BY <1>2, <1>3, <1>4 DEF AreSubjects
<1>6. Own = {} /\ Mine = {}
  BY <1>2, <1>3, <1>4 DEF Own, Mine, Live
<1>7. Between = {}
  <2>1. \A c \in Calls : calls[c].counted = {}
    BY DEF Init, NoCall
  <2> QED
    BY <2>1, InBetween
<1> QED
  BY <1>5, <1>6, <1>7, FS_EmptySet DEF Init, SubjectInv

\* However many requests overlap, and whatever of them fails or dies, a guest has
\* less subjects than the limit and the names that were ever under way at one time
\* together (assertSubjectQuota counts, upsertByName creates later).
THEOREM SubjectQuotaCorrect == Spec => []SubjectQuota
<1>1. SubjectInv /\ QuotaInv /\ [Next]_vars => SubjectInv'
  <2> SUFFICES ASSUME SubjectInv, AreCalls, [Next]_vars PROVE SubjectInv'
    BY DEF QuotaInv
  <2>1. CASE UNCHANGED <<subjects, peak, calls>>
    BY <2>1, SubjectsStay DEF Between
  <2>2. \A w \in Workers : Work(w) => UNCHANGED <<subjects, peak, calls>>
    BY DEF Work, Take, Strip, Translate, RunFails, LockLapses
  <2>3. ASSUME NEW s, OtherUserDrops(s) PROVE SubjectInv'
    <3>1. UNCHANGED calls /\ UNCHANGED peak
      BY <2>3 DEF OtherUserDrops
    <3>2. Between' \subseteq Between
      BY <3>1 DEF Between
    <3> QED
      BY <2>3, <3>1, <3>2, SubjectGone DEF OtherUserDrops
  <2> QED
    BY <2>1, <2>2, <2>3, RequestNames DEF Next, vars
<1>2. SubjectInv => SubjectQuota
  <2> SUFFICES ASSUME SubjectInv, Mine # {} PROVE Cardinality(Mine) < SubjectLimit + peak
    BY DEF SubjectQuota
  <2> QED
    BY MineCounted, VocabAssumption DEF SubjectInv
<1> QED
  BY <1>1, <1>2, SubjectInit, QuotaHolds, PTL DEF Spec

=============================================================================
