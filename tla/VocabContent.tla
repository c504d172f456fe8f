---------------------------- MODULE VocabContent ----------------------------
(***************************************************************************)
(* The entries of one folder of one user, their text targets and the       *)
(* subjects of these: requests that create, edit, delete and import        *)
(* entries, the plan quotas they pass, and the queue that fills a          *)
(* placeholder target with an AI translation.                              *)
(*                                                                         *)
(* Every request runs through awaits, so its database calls are steps of   *)
(* their own; a transaction is one step, at its commit.  Two texts that    *)
(* differ only in case have one Lower; uniqueness in the database is       *)
(* exact, the import compares by Lower.                                    *)
(***************************************************************************)
EXTENDS Naturals, FiniteSets

CONSTANTS Ids,          \* identifiers of entries, each given out once
          SubIds,       \* identifiers of subjects, each given out once; 0 is none
          Foreign,      \* subjects of another user, there from the start
          Calls,        \* requests served at a time
          Workers,      \* workers of the translation queue
          Lower,        \* text -> the text without case
          Empty,        \* the text of a placeholder target
          Translations, \* what the AI may answer
          Inputs,       \* the bodies of the requests
          VocabLimit,   \* entries a guest may create on a day
          SubjectLimit, \* subjects a guest may have
          Attempts,     \* runs a translation job is given
          MaxCalls,     \* bound: requests made in all
          MaxFaults,    \* bound: crashes, failed calls and lapsed job locks
          Nobody

Ops == {"create", "update", "delete", "addTarget", "editTarget", "removeTarget", "subject",
        "dropSubject", "deleteFolder", "import"}
\* Requests that take the identifiers of subjects as they come.
Linking == {"update", "addTarget", "editTarget"}

ASSUME VocabAssumption ==
  /\ IsFiniteSet(Calls)
  /\ \A in \in Inputs : /\ in.op \in Ops /\ in.guest \in BOOLEAN
                        /\ in.links \subseteq SubIds /\ (in.links = {} \/ in.op \in Linking)
  /\ {VocabLimit, SubjectLimit, Attempts, MaxCalls, MaxFaults} \subseteq Nat
  /\ Empty \in DOMAIN Lower /\ Lower[Empty] = Empty /\ Empty \notin Translations
  /\ Ids \cup SubIds \subseteq Nat \ {0} /\ Nobody \notin Workers
  /\ Foreign \subseteq SubIds /\ \A f \in Foreign, s \in SubIds \ Foreign : f < s
\* Ignoring case twice is ignoring it once; a row of a file has a target.
ASSUME TextsAssumption ==
  /\ \A t \in DOMAIN Lower : Lower[t] \in DOMAIN Lower /\ Lower[Lower[t]] = Lower[t]
  /\ \A in \in Inputs : \A r \in in.rows : r.src \in DOMAIN Lower /\ Lower[r.text] # Empty

VARIABLES vocabs,    \* Ids -> row of the table
          subjects,  \* SubIds -> row of the table
          jobs,      \* Ids -> the translation job of the entry
          workers,   \* Workers -> the run of a job: its entry and the step it is at
          quota,     \* the guest's counter of the day
          made,      \* entries the guest has created on the day
          peak,      \* most names of a guest between count and creation at one time
          folder,    \* the folder exists
          calls,     \* Calls -> the request served
          begun,     \* requests made
          faults     \* faults so far

vars == <<vocabs, subjects, jobs, workers, quota, made, peak, folder, calls, begun, faults>>

\* first: the source it was created with; edited: a request of the user changed
\* the entry or its targets, or deleted it.
NoVocab == [at |-> "unused", src |-> Empty, first |-> Empty, targets |-> {}, edited |-> FALSE]
NewVocab(src, targets) ==
  [NoVocab EXCEPT !.at = "live", !.src = src, !.first = src, !.targets = targets]
\* of: who made it: the user as "guest" or as "member", or the "other" user.
NoSubject == [at |-> "unused", name |-> Empty, of |-> "none"]
NoJob == [st |-> "none", tries |-> 0, stalls |-> 0, subs |-> {}, owner |-> Nobody]
NoCall == [pc |-> "idle", op |-> "none", src |-> Empty, texts |-> {}, names |-> {},
           guest |-> FALSE, rows |-> {}, on |-> 0, todo |-> {}, counted |-> {},
           subs |-> {}, known |-> {}, left |-> {}, errs |-> {}, refused |-> FALSE]

NoRun == [on |-> 0, pc |-> "idle"]

Live(tab) == {x \in DOMAIN tab : tab[x].at = "live"}
Own == {s \in Live(subjects) : subjects[s].of # "other"}
Texts(v) == {t.text : t \in vocabs[v].targets}
Keys(S) == {Lower[x] : x \in S}
Links(targets) == UNION {t.subs : t \in targets}
LinksOK(S) == S \subseteq Live(subjects)
Target(text, subs) == [text |-> text, subs |-> subs]
\* The next identifier: they are numbers, given out in order.
Fresh(tab) == {x \in DOMAIN tab : \A y \in DOMAIN tab : tab[y].at = "unused" <=> y >= x}

\* unique(textSource, languages, folder), over the languages of the folder.
SourceFree(src, except) ==
  \A v \in Live(vocabs) \ except : vocabs[v].src # src

Goto(c, pc) == calls' = [calls EXCEPT ![c].pc = pc]
Finish(c) == calls' = [calls EXCEPT ![c] = NoCall]
SetVocab(v, row) == vocabs' = [vocabs EXCEPT ![v] = row]

-----------------------------------------------------------------------------
(* Quotas.                                                                 *)

\* A request arrives; an edit or a deletion names its entry or subject.
Arrive(c, in) ==
  /\ calls[c].pc = "idle" /\ begun < MaxCalls /\ begun' = begun + 1
  /\ \E x \in CASE in.op \in {"delete", "removeTarget"} \cup Linking -> Live(vocabs)
                [] in.op = "dropSubject" -> Own
                [] OTHER -> {0} :
       calls' = [calls EXCEPT ![c] =
         [NoCall EXCEPT !.pc = IF in.op = "create" THEN "quota"
                               ELSE IF in.op \in {"subject", "update"} THEN "refs"
                               ELSE in.op,
                        !.op = in.op, !.src = in.src, !.texts = in.texts,
                        !.names = in.names, !.guest = in.guest, !.rows = in.rows,
                        !.on = x, !.todo = in.names, !.subs = in.links]]
  /\ UNCHANGED <<vocabs, subjects, jobs, workers, quota, made, peak, folder, faults>>

\* Mutant: the counter is compared before it is incremented.
OverLimitBefore(n) == n - 1 > VocabLimit
OverLimit(n) == n > VocabLimit
\* INCR; members and administrators have no limit.
CountVocab(c) ==
  /\ calls[c].pc = "quota"
  /\ IF ~calls[c].guest THEN Goto(c, "refs") /\ UNCHANGED quota
     ELSE quota' = quota + 1 /\ Goto(c, IF OverLimit(quota + 1) THEN "giveBack" ELSE "refs")
  /\ UNCHANGED <<vocabs, subjects, jobs, workers, made, peak, folder, begun, faults>>

\* DECR, then the refusal.
GiveBack(c) ==
  /\ calls[c].pc = "giveBack" /\ quota' = quota - 1 /\ Finish(c)
  /\ UNCHANGED <<vocabs, subjects, jobs, workers, made, peak, folder, begun, faults>>

\* Mutant: the comparison lets one subject more than the limit exist.
SubjectsFullOver(n) == n > SubjectLimit
SubjectsFull(n) == n >= SubjectLimit
\* The names of a guest that were counted and are not created or found yet.
Between == UNION {{<<c, n>> : n \in calls[c].counted} : c \in {k \in Calls : calls[k].guest}}
\* One of the names that are resolved in parallel: the user's subjects are counted,
\* known name or not.
CountSubjects(c, n) ==
  LET full == calls[c].guest /\ SubjectsFull(Cardinality(Own)) IN
  /\ calls[c].pc = "refs" /\ n \in calls[c].todo
  /\ calls' = [calls EXCEPT ![c].todo = @ \ {n},
                            ![c].counted = IF full THEN @ ELSE @ \cup {n},
                            ![c].refused = @ \/ full]
  /\ peak' = IF Cardinality(Between') > peak THEN Cardinality(Between') ELSE peak
  /\ UNCHANGED <<vocabs, subjects, jobs, workers, quota, made, folder, begun, faults>>

\* find, else create; a creation that loses the race finds the row of the winner.
\* POST /subjects creates only.
UpsertSubject(c, n) ==
  LET found == {s \in Own : Lower[subjects[s].name] = Lower[n]} IN
  /\ calls[c].pc = "refs" /\ n \in calls[c].counted
  /\ \/ /\ found # {} /\ UNCHANGED subjects
        /\ calls' = [calls EXCEPT ![c].counted = @ \ {n}, ![c].subs = @ \cup found,
                                  ![c].refused = @ \/ calls[c].op = "subject"]
     \/ /\ found = {}
        /\ \E s \in Fresh(subjects) :
             /\ subjects' = [subjects EXCEPT ![s] =
                  [at |-> "live", name |-> n, of |-> IF calls[c].guest THEN "guest" ELSE "member"]]
             /\ calls' = [calls EXCEPT ![c].counted = @ \ {n}, ![c].subs = @ \cup {s}]
  /\ UNCHANGED <<vocabs, jobs, workers, quota, made, peak, folder, begun, faults>>

Resolved(c) == calls[c].pc = "refs" /\ calls[c].todo = {} /\ calls[c].counted = {}
Refuse(c) ==
  /\ Resolved(c) /\ (calls[c].refused \/ calls[c].op = "subject") /\ Finish(c)
  /\ UNCHANGED <<vocabs, subjects, jobs, workers, quota, made, peak, folder, begun, faults>>

-----------------------------------------------------------------------------
(* Requests on entries.                                                    *)

\* A failing write leaves the tables as they are.
Failed(c) == Finish(c) /\ UNCHANGED <<vocabs, jobs, made>>
NewTargets(c) == {Target(t, calls[c].subs) : t \in calls[c].texts}
Owed(row) == \E t \in row.targets : t.text = Empty

\* The transaction of create; the translation is queued after it.
Create(c) ==
  /\ Resolved(c) /\ calls[c].op = "create" /\ ~calls[c].refused
  /\ IF folder /\ SourceFree(calls[c].src, {}) /\ LinksOK(calls[c].subs)
     THEN \E v \in Fresh(vocabs) :
            LET row == NewVocab(calls[c].src, NewTargets(c))
            IN /\ SetVocab(v, row)
               /\ made' = made + (IF calls[c].guest THEN 1 ELSE 0)
               /\ IF Owed(row)
                  THEN /\ calls' = [calls EXCEPT ![c].pc = "queue", ![c].on = v]
                       /\ jobs' = [jobs EXCEPT ![v].st = "owed"]
                  ELSE Finish(c) /\ UNCHANGED jobs
     ELSE Failed(c)
  /\ UNCHANGED <<subjects, workers, quota, peak, folder, begun, faults>>

Queue(c) ==
  /\ calls[c].pc = "queue"
  /\ jobs' = [jobs EXCEPT ![calls[c].on] = [NoJob EXCEPT !.st = "wait", !.subs = calls[c].subs]]
  /\ Finish(c)
  /\ UNCHANGED <<vocabs, subjects, workers, quota, made, peak, folder, begun, faults>>

\* The targets are replaced by those of the request.
Update(c) ==
  /\ Resolved(c) /\ calls[c].op = "update" /\ ~calls[c].refused
  /\ LET v == calls[c].on IN
       IF vocabs[v].at = "live" /\ SourceFree(calls[c].src, {v}) /\ LinksOK(calls[c].subs)
       THEN /\ SetVocab(v, [vocabs[v] EXCEPT !.src = calls[c].src, !.targets = NewTargets(c),
                                             !.edited = TRUE])
            /\ Finish(c) /\ UNCHANGED <<jobs, made>>
       ELSE Failed(c)
  /\ UNCHANGED <<subjects, workers, quota, peak, folder, begun, faults>>

\* The rows that hang on the entry go with it.
Gone(row) == [row EXCEPT !.at = "gone", !.targets = {}, !.edited = TRUE]
Delete(c) ==
  /\ calls[c].pc = "delete"
  /\ vocabs' = [vocabs EXCEPT ![calls[c].on] = IF @.at = "live" THEN Gone(@) ELSE @]
  /\ Finish(c)
  /\ UNCHANGED <<subjects, jobs, workers, quota, made, peak, folder, begun, faults>>

DeleteFolder(c) ==
  /\ calls[c].pc = "deleteFolder" /\ folder' = FALSE
  /\ vocabs' = [v \in Ids |-> IF vocabs[v].at = "live" THEN Gone(vocabs[v]) ELSE vocabs[v]]
  /\ Finish(c)
  /\ UNCHANGED <<subjects, jobs, workers, quota, made, peak, begun, faults>>

\* The subjects of a single target are linked whoever owns them; they have to exist.
AddTarget(c) ==
  /\ calls[c].pc = "addTarget"
  /\ LET v == calls[c].on IN
       IF /\ vocabs[v].at = "live" /\ calls[c].texts \cap Texts(v) = {}
          /\ LinksOK(calls[c].subs)
       THEN SetVocab(v, [vocabs[v] EXCEPT !.targets = @ \cup NewTargets(c), !.edited = TRUE])
       ELSE UNCHANGED vocabs
  /\ Finish(c)
  /\ UNCHANGED <<subjects, jobs, workers, quota, made, peak, folder, begun, faults>>

\* The text or the links of one target are replaced, or both; nothing is written
\* when the target has gone, the text is taken or a subject does not exist.
EditTarget(c) ==
  /\ calls[c].pc = "editTarget"
  /\ LET v == calls[c].on IN
       \/ UNCHANGED vocabs
       \/ \E t \in vocabs[v].targets :
          \E text \in calls[c].texts \cup {t.text}, subs \in {t.subs, calls[c].subs} :
            /\ text \notin Texts(v) \ {t.text} /\ LinksOK(subs)
            /\ SetVocab(v, [vocabs[v] EXCEPT !.targets = (@ \ {t}) \cup {Target(text, subs)},
                                             !.edited = TRUE])
  /\ Finish(c)
  /\ UNCHANGED <<subjects, jobs, workers, quota, made, peak, folder, begun, faults>>

RemoveTarget(c) ==
  /\ calls[c].pc = "removeTarget"
  /\ LET v == calls[c].on IN
       \E t \in vocabs[v].targets \cup {Target(Empty, {})} :
         SetVocab(v, [vocabs[v] EXCEPT !.targets = @ \ {t},
                                       !.edited = @ \/ t \in vocabs[v].targets])
  /\ Finish(c)
  /\ UNCHANGED <<subjects, jobs, workers, quota, made, peak, folder, begun, faults>>

-----------------------------------------------------------------------------
(* Deleting a subject.                                                     *)

InUse(s) == \E v \in Live(vocabs) : s \in Links(vocabs[v].targets)

\* Refused while an entry uses the subject.
CheckSubject(c) ==
  /\ calls[c].pc = "dropSubject"
  /\ IF InUse(calls[c].on) THEN Finish(c) ELSE Goto(c, "deleteSubject")
  /\ UNCHANGED <<vocabs, subjects, jobs, workers, quota, made, peak, folder, begun, faults>>

Unlinked(s) == [v \in Ids |-> [vocabs[v] EXCEPT
  !.targets = {[t EXCEPT !.subs = @ \ {s}] : t \in @}]]
\* Counted again and deleted in one serializable transaction; the links of a
\* deleted subject are deleted with it.
DeleteSubject(c) ==
  /\ calls[c].pc = "deleteSubject"
  /\ LET s == calls[c].on IN
       IF subjects[s].at = "live" /\ ~InUse(s)
       THEN subjects' = [subjects EXCEPT ![s].at = "gone"] /\ vocabs' = Unlinked(s)
       ELSE UNCHANGED <<subjects, vocabs>>
  /\ Finish(c)
  /\ UNCHANGED <<jobs, workers, quota, made, peak, folder, begun, faults>>

\* The other user deletes a subject: only that user's own entries are counted.
OtherUserDrops(s) ==
  /\ s \in Foreign /\ subjects[s].at = "live"
  /\ subjects' = [subjects EXCEPT ![s].at = "gone"] /\ vocabs' = Unlinked(s)
  /\ UNCHANGED <<jobs, workers, quota, made, peak, folder, calls, begun, faults>>

-----------------------------------------------------------------------------
(* The CSV import: rows name a source and a target; rows of one Lower      *)
(* source are a group with a transaction of its own.                       *)

GroupOf(rows, k) == {r \in rows : Lower[r.src] = k}
Matches(v, k) == Lower[vocabs[v].src] = k

\* The checks of the whole file, then one read of the entries it names.
Load(c) ==
  /\ calls[c].pc = "import"
  /\ LET keys == Keys({r.src : r \in calls[c].rows})
         Known(v) == [key |-> Lower[vocabs[v].src], id |-> v, texts |-> Keys(Texts(v))]
         known == {Known(v) : v \in {u \in Live(vocabs) : \E k \in keys : Matches(u, k)}}
     IN IF folder THEN calls' = [calls EXCEPT ![c].pc = "groups", ![c].left = keys,
                                              ![c].known = known]
        ELSE Finish(c)
  /\ UNCHANGED <<vocabs, subjects, jobs, workers, quota, made, peak, folder, begun, faults>>

\* One text of each Lower, the first one of the file.
Deduped(texts) == {D \in SUBSET texts : /\ Keys(D) = Keys(texts)
                                        /\ Cardinality(D) = Cardinality(Keys(D))}
Missing(D, k) == {t \in D : Lower[t] \notin k.texts}
\* Mutant: a transaction that failed is not reported.
GroupDoneQuiet(c, k, errs) == calls' = [calls EXCEPT ![c].left = @ \ {k}]
GroupDone(c, k, errs) ==
  calls' = [calls EXCEPT ![c].left = @ \ {k}, ![c].errs = @ \cup errs]
Plain(texts) == {Target(t, {}) : t \in texts}

\* Targets missing at the read are added to the entry found then.
MergeGroup(c, k) ==
  /\ calls[c].pc = "groups" /\ k \in calls[c].left
  /\ \E e \in calls[c].known, D \in Deduped({r.text : r \in GroupOf(calls[c].rows, k)}) :
       /\ e.key = k
       /\ LET add == Missing(D, e)
              fails == add # {} /\ (vocabs[e.id].at # "live" \/ add \cap Texts(e.id) # {})
          IN IF fails THEN UNCHANGED vocabs /\ GroupDone(c, k, {k})
             ELSE /\ vocabs' = [vocabs EXCEPT ![e.id].targets = @ \cup Plain(add)]
                  /\ GroupDone(c, k, {})
  /\ UNCHANGED <<subjects, jobs, workers, quota, made, peak, folder, begun, faults>>

\* No entry was found: one is created under the Lower source.
NewGroup(c, k) ==
  /\ calls[c].pc = "groups" /\ k \in calls[c].left
  /\ \A e \in calls[c].known : e.key # k
  /\ IF folder /\ SourceFree(k, {})
     THEN \E v \in Fresh(vocabs), D \in Deduped({r.text : r \in GroupOf(calls[c].rows, k)}) :
            /\ SetVocab(v, NewVocab(k, Plain(D)))
            /\ GroupDone(c, k, {})
     ELSE UNCHANGED vocabs /\ GroupDone(c, k, {k})
  /\ UNCHANGED <<subjects, jobs, workers, quota, made, peak, folder, begun, faults>>

\* The answer lists the groups that failed.
EndImport(c) ==
  /\ calls[c].pc = "groups" /\ calls[c].left = {} /\ Finish(c)
  /\ UNCHANGED <<vocabs, subjects, jobs, workers, quota, made, peak, folder, begun, faults>>

-----------------------------------------------------------------------------
(* The translation queue.                                                  *)

\* Mutant: the placeholder is left for the update to replace.
WithoutPlaceholderKept(row) == row
WithoutPlaceholder(row) == [row EXCEPT !.targets = {t \in @ : t.text # Empty}]

Retry(v) == IF jobs[v].tries + 1 >= Attempts THEN "failed" ELSE "wait"
AttemptFails(v) ==
  jobs' = [jobs EXCEPT ![v].st = Retry(v), ![v].tries = @ + 1, ![v].owner = Nobody]
Release(w) == workers' = [workers EXCEPT ![w] = NoRun]

\* A worker is handed a job and reads the entry; one that has gone fails the run.
Take(w, v) ==
  /\ workers[w].pc = "idle" /\ jobs[v].st = "wait"
  /\ IF vocabs[v].at = "live"
     THEN /\ workers' = [workers EXCEPT ![w] =
               [on |-> v, pc |-> IF Empty \in Texts(v) THEN "strip" ELSE "translate"]]
          /\ jobs' = [jobs EXCEPT ![v].st = "active", ![v].owner = w]
     ELSE AttemptFails(v) /\ UNCHANGED workers
  /\ UNCHANGED <<vocabs, subjects, quota, made, peak, folder, calls, begun, faults>>

\* The placeholder that was read is removed.  In an entry edited since the reading
\* its row may be any target by now, or be gone.
Strip(w) ==
  LET v == workers[w].on IN
  /\ workers[w].pc = "strip" /\ workers' = [workers EXCEPT ![w].pc = "translate"]
  /\ \/ SetVocab(v, WithoutPlaceholder(vocabs[v]))
     \/ /\ vocabs[v].edited
        /\ \E t \in vocabs[v].targets \cup {Target(Empty, {})} :
             SetVocab(v, [vocabs[v] EXCEPT !.targets = @ \ {t}])
  /\ UNCHANGED <<subjects, jobs, quota, made, peak, folder, calls, begun, faults>>

\* Only the worker that holds the lock of the job settles it.
Settle(w, v, ok) ==
  IF jobs[v].st # "active" \/ jobs[v].owner # w THEN UNCHANGED jobs
  ELSE IF ok THEN jobs' = [jobs EXCEPT ![v].st = "done", ![v].owner = Nobody]
  ELSE AttemptFails(v)

Storable(v, text) ==
  vocabs[v].at = "live" /\ text \notin Texts(v) /\ LinksOK(jobs[v].subs)

\* The answer of the AI is stored as a new target; a failed write fails the run.
Translate(w, text) ==
  LET v == workers[w].on IN
  /\ workers[w].pc = "translate"
  /\ IF vocabs[v].at = "live" /\ text \notin Texts(v) /\ LinksOK(jobs[v].subs)
     THEN SetVocab(v, [vocabs[v] EXCEPT !.targets = @ \cup {Target(text, jobs[v].subs)}])
     ELSE UNCHANGED vocabs
  /\ Settle(w, v, Storable(v, text))
  /\ Release(w)
  /\ UNCHANGED <<subjects, quota, made, peak, folder, calls, begun, faults>>

-----------------------------------------------------------------------------
(* Faults.                                                                 *)

Fault == faults < MaxFaults /\ faults' = faults + 1

\* The process dies, or a call to the database or the queue fails.
CallDies(c) ==
  /\ Fault /\ calls[c].pc # "idle" /\ Finish(c)
  /\ UNCHANGED <<vocabs, subjects, jobs, workers, quota, made, peak, folder, begun>>

\* Reading the entry, removing the placeholder, the AI or the write fails.
RunFails(w) ==
  /\ Fault /\ workers[w].pc # "idle"
  /\ Settle(w, workers[w].on, FALSE) /\ Release(w)
  /\ UNCHANGED <<vocabs, subjects, quota, made, peak, folder, calls, begun>>

\* The lock of a running job lapses: Bull hands the job out again, once, and the
\* worker dies or goes on.
LockLapses(w, dies) ==
  LET v == workers[w].on IN
  /\ Fault /\ workers[w].pc # "idle" /\ jobs[v].owner = w
  /\ jobs' = [jobs EXCEPT ![v].st = IF jobs[v].stalls = 0 THEN "wait" ELSE "failed",
                          ![v].stalls = @ + 1, ![v].owner = Nobody]
  /\ IF dies THEN Release(w) ELSE UNCHANGED workers
  /\ UNCHANGED <<vocabs, subjects, quota, made, peak, folder, calls, begun>>

-----------------------------------------------------------------------------
Init == /\ vocabs = [v \in Ids |-> NoVocab]
        /\ subjects = [s \in SubIds |-> IF s \in Foreign
                                      THEN [NoSubject EXCEPT !.at = "live", !.of = "other"]
                                      ELSE NoSubject]
        /\ jobs = [v \in Ids |-> NoJob]
        /\ workers = [w \in Workers |-> NoRun]
        /\ quota = 0 /\ made = 0 /\ peak = 0 /\ folder = TRUE
        /\ calls = [c \in Calls |-> NoCall]
        /\ begun = 0 /\ faults = 0

Request(c) ==
  \/ \E in \in Inputs : Arrive(c, in)
  \/ CountVocab(c) \/ GiveBack(c)
  \/ \E n \in calls[c].names : CountSubjects(c, n) \/ UpsertSubject(c, n)
  \/ Refuse(c) \/ Create(c) \/ Queue(c) \/ Update(c) \/ Delete(c) \/ DeleteFolder(c)
  \/ AddTarget(c) \/ EditTarget(c) \/ RemoveTarget(c)
  \/ CheckSubject(c) \/ DeleteSubject(c)
  \/ Load(c) \/ EndImport(c)
  \/ \E k \in calls[c].left : MergeGroup(c, k) \/ NewGroup(c, k)

Work(w) ==
  \/ \E v \in Ids : Take(w, v)
  \/ Strip(w)
  \/ \E text \in Translations : Translate(w, text)
  \/ RunFails(w)
  \/ \E dies \in BOOLEAN : LockLapses(w, dies)

Next == \/ \E c \in Calls : Request(c) \/ CallDies(c)
        \/ \E w \in Workers : Work(w)
        \/ \E s \in Foreign : OtherUserDrops(s)

Spec == Init /\ [][Next]_vars

-----------------------------------------------------------------------------
(* Properties.                                                             *)

\* An entry whose targets the user has left alone is, when its translation job
\* is done, without placeholder and with an answer of the AI.  As long as it has
\* a placeholder, its job is there and still to run or running; or it has failed,
\* and then every run of it was cut short by a fault; or it was never queued,
\* because the request that made the entry still has to, or was cut short (create
\* and the translation worker).
TranslationAccounted ==
  \A v \in Ids : vocabs[v].at = "live" /\ ~vocabs[v].edited =>
    /\ jobs[v].st = "done" => /\ Empty \notin Texts(v)
                              /\ Translations \cap Texts(v) # {}
    /\ Empty \in Texts(v) => \/ jobs[v].st \in {"wait", "active"}
                             \/ jobs[v].st = "failed" /\ jobs[v].tries + jobs[v].stalls <= faults
                             \/ jobs[v].st = "owed" /\ (faults > 0 \/ \E c \in Calls : calls[c].on = v)

\* However many requests of a guest overlap, and whatever of them fails, a day
\* does not see more entries of the guest than the plan allows (the daily quota).
GuestQuota == made <= VocabLimit

\* The subjects a guest has made exceed the limit of the plan by no more than the
\* names that were between their count and their creation at one time, less one:
\* requests that do not overlap keep the limit (the subject quota, which counts and
\* creates in two steps).
Mine == {s \in Live(subjects) : subjects[s].of = "guest"}
SubjectQuota == Mine # {} => Cardinality(Mine) < SubjectLimit + peak

\* As an import goes on, every row it does not report is in the folder, up to
\* case; or the user has edited an entry of that source.
Landed(r) ==
  \E v \in Live(vocabs) : Lower[vocabs[v].src] = Lower[r.src] /\ Lower[r.text] \in Keys(Texts(v))
ImportLands ==
  \A c \in Calls : calls[c].pc = "groups" =>
    \A r \in calls[c].rows :
      \/ Lower[r.src] \in calls[c].left \cup calls[c].errs
      \/ Landed(r)
      \/ \E v \in Ids : vocabs[v].edited /\
           (Lower[vocabs[v].first] = Lower[r.src] \/ v \in {e.id : e \in calls[c].known})
=============================================================================
