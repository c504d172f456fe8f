---------------------------- MODULE RelatedWords ----------------------------
(***************************************************************************)
(* Related words: a table of free-text and linked relations between the    *)
(* vocabulary entries of one folder.  A linked relation is stored twice,   *)
(* once on each side.  Transactions serialise on one advisory lock per     *)
(* entry, taken in the order of the identifiers, in two batches; the       *)
(* upgrade of free texts that a creation performs takes no lock.           *)
(*                                                                         *)
(* An identifier also stands for the text of its entry: a free text is the *)
(* identifier of the word it names, stored or not.  Identifiers are        *)
(* numbers because their order is the order of the locks.  A transaction   *)
(* reads what is committed (READ COMMITTED): its reads and its commit are  *)
(* steps of their own, its writes become visible at the commit.            *)
(***************************************************************************)
EXTENDS Naturals, FiniteSets

CONSTANTS Ids,       \* the entries of the folder, stored or to be created
          Existing,  \* the entries stored at the start
          Procs,     \* concurrent requests
          Rels,      \* the kinds of relation: synonym, antonym, related
          MaxOps,    \* bound: requests made in all
          MaxWords,  \* bound: words one request lists
          NoProc     \* nobody holds the lock

ASSUME RelatedAssumption == /\ Ids \subseteq Nat
                            /\ Existing \subseteq Ids
                            /\ NoProc \notin Procs
                            /\ MaxOps \in Nat /\ MaxWords \in Nat

VARIABLES vocabs,  \* Ids -> "new" | "stored" | "deleted"
          rows,    \* the relations
          locks,   \* Ids -> holder of the advisory lock
          procs,   \* Procs -> the request being served
          ops,     \* requests started: names the request that wrote a row
          raced    \* pairs linked by a creation that overlapped another request

vars == <<vocabs, rows, locks, procs, ops, raced>>

Word == [to : Ids, linked : BOOLEAN, rel : Rels]
\* by tells rows of the same content apart, as their identifiers do: the request that
\* wrote the row, or 0 for the back of an upgraded text.  The text itself keeps its own.
Row == [of : Ids, to : Ids, linked : BOOLEAN, rel : Rels, by : 0 .. MaxOps]
\* Bound: a free text names a word that is not stored yet (no other is upgraded).
WordSets == UNION {{ {w[i] : i \in 1 .. k} :
                        w \in [1 .. k -> {x \in Word : x.linked \/ vocabs[x.to] = "new"}] }
                   : k \in 0 .. MaxWords}

Stored == {v \in Ids : vocabs[v] = "stored"}
RowsOf(v) == {r \in rows : r.of = v}
Links(ws) == {w.to : w \in {x \in ws : x.linked}}
Pair(a, b) == {r \in rows : r.linked /\ {r.of, r.to} = {a, b}}

NoCall == [pc |-> "idle", v |-> 0, words |-> {}, want |-> {}, seen |-> {}, n |-> 0]
Call(pc, v, words, want, seen) ==
  [pc |-> pc, v |-> v, words |-> words, want |-> want, seen |-> seen, n |-> ops + 1]

Become(p, c) == procs' = [procs EXCEPT ![p] = c]
Start(p, c) == procs[p] = NoCall /\ ops < MaxOps /\ ops' = ops + 1 /\ Become(p, c)

\* No link to itself, every word listed once.
ValidWords(v, ws) == /\ v \notin Links(ws)
                     /\ \A w, x \in ws : w.to = x.to => w = x
\* Every linked entry exists in the folder.
LinkedInFolder(ws) == Links(ws) \subseteq Stored

\* Mutant: a lock of the session outlives the transaction.
ReleaseSession(p) == locks
\* pg_advisory_xact_lock: held to the end of the transaction.
Release(p) == [i \in Ids |-> IF locks[i] = p THEN NoProc ELSE locks[i]]
End(p) == Become(p, NoCall) /\ locks' = Release(p)
Rollback(p) == End(p) /\ UNCHANGED <<vocabs, rows, ops, raced>>

\* Mutant: the locks are taken in the order in which they are listed.
NextLockUnsorted(want) == want
\* The lowest identifier first.
NextLock(want) == {a \in want : \A b \in want : a <= b}

Waiting(p) == \E a \in procs[p].want : a \in NextLock(procs[p].want) /\ locks[a] # NoProc
Holders(p) == {locks[a] : a \in NextLock(procs[p].want)} \ {NoProc}

\* Every request of S waits for a lock another of S holds.
Cycle(S) == S # {} /\ (\A q \in S : Waiting(q)) /\ UNION {Holders(q) : q \in S} = S

Lock(p) ==
  \E a \in NextLock(procs[p].want) :
    /\ locks[a] = NoProc
    /\ locks' = [locks EXCEPT ![a] = p]
    /\ Become(p, [procs[p] EXCEPT !.want = @ \ {a}])
    /\ UNCHANGED <<vocabs, rows, ops, raced>>

\* The database aborts one transaction of a cycle of waiters.
Victim(p) == (\E S \in SUBSET Procs : p \in S /\ Cycle(S)) /\ Rollback(p)
\* The client gives up a transaction that lasts longer than five seconds.
TimedOut(p) == Waiting(p) /\ Rollback(p)
-----------------------------------------------------------------------------
\* PUT related words, and an update that carries related words.
Upsert(p) ==
  \E v \in Stored : \E ws \in WordSets :
    /\ ValidWords(v, ws) /\ LinkedInFolder(ws)
    /\ Start(p, Call("lock", v, ws, {v} \cup Links(ws), {}))
    /\ UNCHANGED <<vocabs, rows, locks, raced>>

\* A CSV import: free texts only, not validated.
CsvRelated(p) ==
  \E v \in Stored : \E ws \in WordSets :
    /\ ws # {} /\ Links(ws) = {}
    /\ Start(p, Call("lock", v, ws, {v}, {}))
    /\ UNCHANGED <<vocabs, rows, locks, raced>>

\* With the first locks held: read the present neighbours, then lock them.
ReadNeighbours(p) ==
  LET c == procs[p] IN
  /\ c.pc = "lock" /\ c.want = {}
  /\ Become(p, [c EXCEPT !.pc = "lock2", !.seen = RowsOf(c.v),
                         !.want = Links(RowsOf(c.v)) \ ({c.v} \cup Links(c.words))])
  /\ UNCHANGED <<vocabs, rows, locks, ops, raced>>

\* What the entry lists, and the mirror of each link.
Both(v, ws, n) ==
  {[of |-> v, to |-> w.to, linked |-> w.linked, rel |-> w.rel, by |-> n] : w \in ws}
  \cup {[of |-> w.to, to |-> v, linked |-> TRUE, rel |-> w.rel, by |-> n]
          : w \in {x \in ws : x.linked}}

\* Mutant: the mirrors of the entry's former links stay.
WrittenStaleMirrors(c) ==
  (rows \ (RowsOf(c.v) \cup UNION {Pair(c.v, b) : b \in Links(c.words)})) \cup Both(c.v, c.words, c.n)
\* Mutant: the mirror is created without deleting the one that is there.
WrittenTwice(c) ==
  (rows \ (RowsOf(c.v) \cup UNION {Pair(c.v, b) : b \in Links(c.seen) \ Links(c.words)}))
  \cup Both(c.v, c.words, c.n)
\* Stale mirrors go, the entry's rows are replaced, the mirrors are made anew.
Written(c) ==
  (rows \ (RowsOf(c.v) \cup UNION {Pair(c.v, b) : b \in Links(c.seen) \cup Links(c.words)}))
  \cup Both(c.v, c.words, c.n)

\* A word listed twice breaks a unique index; an entry deleted meanwhile breaks
\* a foreign key.
Refused(c) == \/ \E w, x \in c.words : w # x /\ w.to = x.to
              \/ c.words # {} /\ ~({c.v} \cup Links(c.words) \subseteq Stored)

Write(p) ==
  LET c == procs[p] IN
  /\ c.pc = "lock2" /\ c.want = {}
  /\ \/ Refused(c) /\ Rollback(p)
     \/ ~Refused(c) /\ rows' = Written(c) /\ End(p) /\ UNCHANGED <<vocabs, ops, raced>>
-----------------------------------------------------------------------------
\* DELETE of one relation: the row is read before the locks are taken.
FindPair(p) ==
  \E r \in rows :
    /\ Start(p, Call("pair", r.of, {}, IF r.linked THEN {r.of, r.to} ELSE {r.of}, {r}))
    /\ UNCHANGED <<vocabs, rows, locks, raced>>

\* The row as it is now: an upgrade may have linked it since it was read.
Now(r) == IF r \in rows THEN {r} ELSE {[r EXCEPT !.linked = TRUE]}

\* A link goes with its mirror, a free text by its identifier.
Deleted(r) == IF r.linked THEN Pair(r.of, r.to) ELSE Now(r)

DeletePair(p) ==
  LET c == procs[p] IN
  /\ c.pc = "pair" /\ c.want = {}
  /\ rows' = rows \ UNION {Deleted(r) : r \in c.seen}
  /\ End(p) /\ UNCHANGED <<vocabs, ops, raced>>
-----------------------------------------------------------------------------
\* Creation: the entry and its words in one transaction, seen at the commit.
Create(p) ==
  \E n \in Ids : \E ws \in WordSets :
    /\ vocabs[n] = "new" /\ \A q \in Procs : procs[q].pc \in {"new", "upgrade"} => procs[q].v # n
    /\ ValidWords(n, ws) /\ LinkedInFolder(ws)
    /\ Start(p, Call("new", n, ws, IF ws = {} THEN {} ELSE {n} \cup Links(ws), {}))
    /\ UNCHANGED <<vocabs, rows, locks, raced>>

\* The free texts that name the new entry, its own rows included.
ReadMatching(p) ==
  LET c == procs[p] IN
  /\ c.pc = "new" /\ c.want = {}
  /\ Become(p, [c EXCEPT !.pc = "upgrade", !.seen = {r \in rows : ~r.linked /\ r.to = c.v}])
  /\ UNCHANGED <<vocabs, rows, locks, ops, raced>>

Upgraded(c) == {[r EXCEPT !.linked = TRUE] : r \in c.seen}
               \cup {[r EXCEPT !.of = c.v, !.to = r.of, !.linked = TRUE, !.by = 0] : r \in c.seen}

\* A listed entry is gone; a word is the entry itself or an entry that already
\* names it (the link exists twice); a row that was read is gone.
CreationFails(c) == \/ ~(Links(c.words) \subseteq Stored)
                    \/ \E w \in c.words : w.to = c.v
                    \/ \E r \in c.seen : r.of \in Links(c.words)
                    \/ ~(c.seen \subseteq rows)

\* Requests that have read the rows this creation upgrades and not yet written.
Overlapped(c) == {{c.v, procs[q].v} : q \in {q \in Procs :
                    procs[q].pc \in {"lock2", "pair"} /\ procs[q].seen \cap c.seen # {}}}

CommitCreation(p) ==
  LET c == procs[p] IN
  /\ c.pc = "upgrade"
  /\ \/ CreationFails(c) /\ Rollback(p)
     \/ /\ ~CreationFails(c)
        /\ vocabs' = [vocabs EXCEPT ![c.v] = "stored"]
        /\ rows' = (rows \ c.seen) \cup Upgraded(c) \cup Both(c.v, c.words, c.n)
        /\ raced' = raced \cup Overlapped(c)
        /\ End(p) /\ UNCHANGED ops

\* Deletion: the foreign keys delete the relations of both sides.
DeleteVocab ==
  \E v \in Stored :
    /\ ops < MaxOps /\ ops' = ops + 1
    /\ vocabs' = [vocabs EXCEPT ![v] = "deleted"]
    /\ rows' = {r \in rows : r.of # v /\ ~(r.linked /\ r.to = v)}
    /\ UNCHANGED <<locks, procs, raced>>
-----------------------------------------------------------------------------
Init == /\ vocabs = [v \in Ids |-> IF v \in Existing THEN "stored" ELSE "new"]
        /\ rows = {} /\ raced = {} /\ ops = 0
        /\ locks = [v \in Ids |-> NoProc]
        /\ procs = [p \in Procs |-> NoCall]

Serve(p) == \/ Lock(p) \/ ReadNeighbours(p) \/ Write(p) \/ DeletePair(p)
            \/ ReadMatching(p) \/ CommitCreation(p) \/ Victim(p)

Next == \/ \E p \in Procs : \/ Upsert(p) \/ CsvRelated(p) \/ FindPair(p) \/ Create(p)
                            \/ TimedOut(p) \/ Serve(p)
        \/ DeleteVocab

\* The server goes on with every request, the database gives a free lock to a
\* waiter and ends a cycle of waiters.
Fairness == \A p \in Procs : SF_vars(Lock(p)) /\ WF_vars(Serve(p))
Spec == Init /\ [][Next]_vars /\ Fairness
-----------------------------------------------------------------------------

\* A link leads to another entry that links back with the same kind of relation,
\* except between the words a creation linked while a request on the older word
\* was under way (upgradeFreeTextToLinkedInTransaction takes no lock).
LinksMirrored ==
  \A r \in rows : r.linked =>
    /\ r.of # r.to
    /\ \/ {r.of, r.to} \in raced
       \/ \E m \in rows : m.of = r.to /\ m.to = r.of /\ m.linked /\ m.rel = r.rel

\* No write of the code breaks the unique indexes of the table: two entries are
\* linked by one row in each direction, and an entry lists a text once.
OneRowPerPair ==
  \A r, s \in rows : r.of = s.of /\ r.to = s.to /\ r.linked = s.linked => r = s

\* Requests wait for each other only when one of them has gone on to the locks
\* of the neighbours it read: the first batch is sorted, the two are not.
DeadlockNeedsSecondBatch ==
  \A S \in SUBSET Procs : Cycle(S) => \E q \in S : procs[q].pc = "lock2"

\* Every request is answered: no lock outlives its transaction.
RequestsEnd == \A p \in Procs : procs[p].pc # "idle" ~> procs[p].pc = "idle"

=============================================================================
