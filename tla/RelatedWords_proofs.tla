------------------------- MODULE RelatedWords_proofs -------------------------
(***************************************************************************)
(* Why the sorted first batch of locks cannot deadlock, why no write       *)
(* breaks the unique indexes of the relations, and why links stay          *)
(* mirrored, for any number of entries, requests and words; and, last, why *)
(* a copy in Redis is stale only where operations have overlapped or one   *)
(* was cut short, for any number of operations.                            *)
(***************************************************************************)
EXTENDS RelatedWords, CacheAside, SequenceTheorems, WellFoundedInduction, TLAPS

Relation == [of : Ids, to : Ids, linked : BOOLEAN, rel : Rels, by : Nat]
CallType == [pc : {"idle", "lock", "lock2", "pair", "new", "upgrade"}, v : Nat,
             words : SUBSET Word, want : SUBSET Ids, seen : SUBSET Relation, n : Nat]

Types ==
  /\ vocabs \in [Ids -> {"new", "stored", "deleted"}]
  /\ rows \subseteq Relation
  /\ locks \in [Ids -> Procs \cup {NoProc}]
  /\ procs \in [Procs -> CallType]
  /\ ops \in Nat
  /\ \A p \in Procs : IF procs[p].pc = "idle" THEN procs[p].want = {} ELSE procs[p].v \in Ids

\* Nobody idle holds a lock, and in the first batch what is held lies below
\* what is still wanted.
LockOrder ==
  \A p \in Procs, a \in Ids : locks[a] = p =>
    /\ procs[p].pc # "idle"
    /\ procs[p].pc # "lock2" => \A b \in procs[p].want : a < b

\* A relation leads from a stored entry, a link to one.
RowsStored == \A r \in rows : r.of \in Stored /\ (r.linked => r.to \in Stored)

\* What a request knows of the words it carries.
CallKnows(p) ==
  LET c == procs[p] IN
  /\ c.pc \in {"lock", "lock2"} => c.v \notin Links(c.words)
  /\ c.pc \in {"new", "upgrade"} =>
       /\ vocabs[c.v] = "new"
       /\ \A w, x \in c.words : w.to = x.to => w = x
       /\ \A q \in Procs : procs[q].pc \in {"new", "upgrade"} /\ procs[q].v = c.v => q = p
  /\ c.pc = "upgrade" => \A r \in c.seen : r.to = c.v /\ ~r.linked
Known == \A p \in Procs : CallKnows(p)

Inv == Types /\ LockOrder /\ RowsStored /\ Known /\ OneRowPerPair

LEMMA InitInv == Init => Inv
<1> SUFFICES ASSUME Init PROVE Inv
  OBVIOUS
<1>1. \A p \in Procs : procs[p] = NoCall
  BY DEF Init
<1>2. NoCall \in CallType /\ NoCall.pc = "idle" /\ NoCall.want = {}
  BY DEF NoCall, CallType
<1>3. Types
  BY <1>1, <1>2 DEF Init, Types
<1>4. LockOrder /\ RowsStored /\ OneRowPerPair
  BY RelatedAssumption DEF Init, LockOrder, RowsStored, OneRowPerPair
<1>5. Known
  BY <1>1, <1>2 DEF Known, CallKnows
<1> QED BY <1>3, <1>4, <1>5 DEF Inv

-----------------------------------------------------------------------------
(* What the steps do to requests and locks.                                *)

\* One request becomes another record.
Becomes(p, c) == /\ procs'[p] = c /\ \A q \in Procs \ {p} : procs'[q] = procs[q]
                 /\ procs' \in [Procs -> CallType]

Starts(p) == /\ procs[p].pc = "idle" /\ UNCHANGED locks
             /\ \E c \in CallType : c.pc \in {"lock", "pair", "new"} /\ c.v \in Ids /\ Becomes(p, c)
Ends(p) == /\ locks' = Release(p)
           /\ \E c \in CallType : c.pc = "idle" /\ c.want = {} /\ Becomes(p, c)
Reads(p) == /\ UNCHANGED locks
            /\ \E c \in CallType : /\ Becomes(p, c) /\ c.v = procs[p].v /\ procs[p].pc # "idle"
                                   /\ c.pc = "lock2" \/ (c.pc = "upgrade" /\ c.want = {})
Locks(p) == \E a \in procs[p].want :
              /\ \A b \in procs[p].want : a <= b
              /\ locks[a] = NoProc /\ locks' = [locks EXCEPT ![a] = p]
              /\ procs[p].pc # "idle"
              /\ \E c \in CallType : Becomes(p, c) /\ c = [procs[p] EXCEPT !.want = @ \ {a}]

LEMMA BecomesCall ==
  ASSUME Types, NEW p \in Procs, NEW c \in CallType, Become(p, c)
  PROVE  Becomes(p, c)
BY DEF Types, Become, Becomes

LEMMA OrderStarts ==
  ASSUME Types, LockOrder, NEW p \in Procs, Starts(p)
  PROVE  LockOrder'
BY DEF Types, LockOrder, Starts, Becomes

LEMMA OrderEnds ==
  ASSUME Types, LockOrder, NEW p \in Procs, Ends(p)
  PROVE  LockOrder' /\ locks' \in [Ids -> Procs \cup {NoProc}]
<1>1. \A a \in Ids : locks'[a] = IF locks[a] = p THEN NoProc ELSE locks[a]
  BY DEF Ends, Release
<1>2. locks' \in [Ids -> Procs \cup {NoProc}]
  BY DEF Ends, Release, Types
<1>3. LockOrder'
  BY <1>1, RelatedAssumption DEF Ends, LockOrder, Becomes
<1> QED BY <1>2, <1>3

LEMMA OrderReads ==
  ASSUME Types, LockOrder, NEW p \in Procs, Reads(p)
  PROVE  LockOrder'
BY DEF Types, LockOrder, Reads, Becomes

LEMMA OrderLocks ==
  ASSUME Types, LockOrder, NEW p \in Procs, Locks(p)
  PROVE  LockOrder' /\ locks' \in [Ids -> Procs \cup {NoProc}]
<1> PICK a \in procs[p].want :
      /\ \A b \in procs[p].want : a <= b
      /\ locks[a] = NoProc /\ locks' = [locks EXCEPT ![a] = p]
      /\ procs[p].pc # "idle"
      /\ \E c \in CallType : Becomes(p, c) /\ c = [procs[p] EXCEPT !.want = @ \ {a}]
  BY DEF Locks
<1> PICK c \in CallType : Becomes(p, c) /\ c = [procs[p] EXCEPT !.want = @ \ {a}]
  OBVIOUS
<1>1. procs[p] \in CallType /\ a \in Ids
  BY DEF Types, CallType
<1>2. c.pc = procs[p].pc /\ c.want = procs[p].want \ {a} /\ procs[p].want \subseteq Ids
  BY <1>1 DEF CallType
<1>3. /\ locks' \in [Ids -> Procs \cup {NoProc}]
      /\ \A i \in Ids : locks'[i] = IF i = a THEN p ELSE locks[i]
  BY <1>1 DEF Types
<1>4. \A b \in c.want : a < b
  BY <1>1, <1>2, RelatedAssumption
<1>5. ASSUME NEW q \in Procs, NEW i \in Ids, locks'[i] = q
      PROVE  /\ procs'[q].pc # "idle"
             /\ procs'[q].pc # "lock2" => \A b \in procs'[q].want : i < b
  <2>1. CASE q = p
    BY <1>2, <1>3, <1>4, <1>5, <2>1 DEF Becomes, LockOrder
  <2>2. CASE q # p
    BY <1>3, <1>5, <2>2 DEF Becomes, LockOrder
  <2> QED BY <2>1, <2>2
<1> QED BY <1>3, <1>5 DEF LockOrder

-----------------------------------------------------------------------------
\* A set of requests in the first batch is no cycle: one of them waits for the
\* lowest lock, and its holder in the set would wait for a higher one.
LEMMA SmallestOf ==
  ASSUME NEW T, T \subseteq Nat, T # {}
  PROVE  \E m \in T : \A k \in T : m <= k
<1>1. IsWellFoundedOn(OpToRel(<, Nat), Nat)
  BY NatLessThanWellFounded, Zenon
<1>2. PICK m \in T : \A k \in T : ~(<<k, m>> \in OpToRel(<, Nat))
  BY <1>1, WFMin, Zenon
<1>3. \A k \in T : ~(k < m)
  BY <1>2 DEF OpToRel
<1> QED BY <1>3

LEMMA OrderNoCycle ==
  ASSUME Types, LockOrder, NEW S \in SUBSET Procs, Cycle(S)
  PROVE  \E q \in S : procs[q].pc = "lock2"
<1> SUFFICES ASSUME \A q \in S : procs[q].pc # "lock2" PROVE FALSE
  OBVIOUS
<1> DEFINE T == {a \in Ids : \E q \in S : a \in NextLock(procs[q].want)}
<1>1. \A q \in S : procs[q].want \subseteq Ids
  BY DEF Types, CallType
<1>2. T # {} /\ T \subseteq Nat
  BY <1>1, RelatedAssumption DEF Cycle, Waiting, NextLock
<1>3. PICK m \in T : \A k \in T : m <= k
  BY <1>2, SmallestOf
<1>4. PICK p \in S : m \in NextLock(procs[p].want)
  BY <1>3
<1>5. PICK q \in S : p \in Holders(q)
  BY <1>4 DEF Cycle
<1>6. PICK a \in NextLock(procs[q].want) : locks[a] = p
  BY <1>5 DEF Holders
<1>7. a \in Ids /\ a \in T
  BY <1>1, <1>6 DEF NextLock
<1>8. a < m
  BY <1>4, <1>6, <1>7 DEF LockOrder, NextLock
<1> QED BY <1>2, <1>3, <1>7, <1>8

-----------------------------------------------------------------------------
(* The rows.                                                               *)

\* What the entry lists, and the mirrors of its links.
Lists(r, c) == \E w \in c.words :
  r = [of |-> c.v, to |-> w.to, linked |-> w.linked, rel |-> w.rel, by |-> c.n]
Mirrors(r, c) == \E w \in c.words : w.linked /\
  r = [of |-> w.to, to |-> c.v, linked |-> TRUE, rel |-> w.rel, by |-> c.n]
SameKey(r, s) == r.of = s.of /\ r.to = s.to /\ r.linked = s.linked

LEMMA BothRows ==
  ASSUME NEW c \in CallType, c.v \in Ids
  PROVE  /\ \A r \in Both(c.v, c.words, c.n) : Lists(r, c) \/ Mirrors(r, c)
         /\ Both(c.v, c.words, c.n) \subseteq Relation
<1>1. \A r \in Both(c.v, c.words, c.n) : Lists(r, c) \/ Mirrors(r, c)
  BY DEF Both, Lists, Mirrors
<1>2. ASSUME NEW w \in c.words
      PROVE  /\ [of |-> c.v, to |-> w.to, linked |-> w.linked, rel |-> w.rel, by |-> c.n] \in Relation
             /\ [of |-> w.to, to |-> c.v, linked |-> TRUE, rel |-> w.rel, by |-> c.n] \in Relation
  <2>1. w \in Word /\ c.n \in Nat
    BY DEF CallType
  <2> QED BY <2>1 DEF Word, Relation
<1>3. \A r : Lists(r, c) \/ Mirrors(r, c) => r \in Relation
  BY <1>2 DEF Lists, Mirrors
<1> QED BY <1>1, <1>3

LEMMA ListsKey ==
  ASSUME NEW c \in CallType, NEW r, Lists(r, c)
  PROVE  \E w \in c.words : r.of = c.v /\ r.to = w.to /\ r.linked = w.linked /\ r.rel = w.rel /\ r.by = c.n
BY DEF Lists

LEMMA MirrorsKey ==
  ASSUME NEW c \in CallType, NEW r, Mirrors(r, c)
  PROVE  \E w \in c.words : w.linked /\ r.of = w.to /\ r.to = c.v /\ r.linked = TRUE
BY DEF Mirrors

\* The rows of one call differ in their keys.
LEMMA BothDiffer ==
  ASSUME NEW c \in CallType, c.v \notin Links(c.words),
         \A w, x \in c.words : w.to = x.to => w = x,
         NEW r, NEW s, Lists(r, c) \/ Mirrors(r, c), Lists(s, c) \/ Mirrors(s, c), SameKey(r, s)
  PROVE  r = s
<1>1. CASE Lists(r, c) /\ Lists(s, c)
  <2> PICK w \in c.words : r = [of |-> c.v, to |-> w.to, linked |-> w.linked, rel |-> w.rel, by |-> c.n]
    BY <1>1 DEF Lists
  <2> PICK x \in c.words : s = [of |-> c.v, to |-> x.to, linked |-> x.linked, rel |-> x.rel, by |-> c.n]
    BY <1>1 DEF Lists
  <2>1. w.to = x.to
    BY DEF SameKey
  <2>2. w = x
    BY <2>1
  <2> QED BY <2>2
<1>2. CASE Mirrors(r, c) /\ Mirrors(s, c)
  <2> PICK w \in c.words : r = [of |-> w.to, to |-> c.v, linked |-> TRUE, rel |-> w.rel, by |-> c.n]
    BY <1>2 DEF Mirrors
  <2> PICK x \in c.words : s = [of |-> x.to, to |-> c.v, linked |-> TRUE, rel |-> x.rel, by |-> c.n]
    BY <1>2 DEF Mirrors
  <2>1. w.to = x.to
    BY DEF SameKey
  <2>2. w = x
    BY <2>1
  <2> QED BY <2>2
<1>3. \A a, b : ~(Lists(a, c) /\ Mirrors(b, c) /\ SameKey(a, b))
  <2> SUFFICES ASSUME NEW a, NEW b, Lists(a, c), Mirrors(b, c), SameKey(a, b) PROVE FALSE
    OBVIOUS
  <2> PICK w \in c.words : w.linked /\ b.of = w.to /\ b.to = c.v /\ b.linked = TRUE
    BY MirrorsKey
  <2> PICK x \in c.words : a.of = c.v /\ a.to = x.to /\ a.linked = x.linked
    BY ListsKey
  <2>1. w.to = c.v
    BY DEF SameKey
  <2> QED BY <2>1 DEF Links
<1>4. SameKey(s, r)
  BY DEF SameKey
<1> QED BY <1>1, <1>2, <1>3, <1>4

\* Rows that are only taken away keep the indexes.
LEMMA FewerRows ==
  ASSUME RowsStored, OneRowPerPair, rows' \subseteq rows, \A r \in rows' : r.of \in Stored' /\ (r.linked => r.to \in Stored')
  PROVE  RowsStored' /\ OneRowPerPair'
BY DEF RowsStored, OneRowPerPair

\* Replacing the words of one entry.
LEMMA WrittenRows ==
  ASSUME Types, RowsStored, OneRowPerPair, NEW c \in CallType, c.v \in Ids, c.v \notin Links(c.words),
         ~Refused(c), rows' = Written(c), UNCHANGED vocabs
  PROVE  rows' \subseteq Relation /\ RowsStored' /\ OneRowPerPair'
<1>1. ASSUME NEW r \in rows'
      PROVE  \/ /\ r \in rows /\ r.of # c.v
                /\ \A w \in c.words : w.linked => r \notin Pair(c.v, w.to)
             \/ Lists(r, c) \/ Mirrors(r, c)
  BY BothRows DEF Written, RowsOf, Links
<1>2. rows' \subseteq Relation
  BY BothRows DEF Written, Types
<1>3. c.words # {} => {c.v} \cup Links(c.words) \subseteq Stored
  BY DEF Refused
<1>4. Stored' = Stored
  BY DEF Stored
<1>5. RowsStored'
  <2> SUFFICES ASSUME NEW r \in rows' PROVE r.of \in Stored /\ (r.linked => r.to \in Stored)
    BY <1>4 DEF RowsStored
  <2>1. CASE r \in rows
    BY <2>1 DEF RowsStored
  <2>2. CASE Lists(r, c)
    <3> PICK w \in c.words : r.of = c.v /\ r.to = w.to /\ r.linked = w.linked
      BY <2>2, ListsKey
    <3> QED BY <1>3 DEF Links
  <2>3. CASE Mirrors(r, c)
    <3> PICK w \in c.words : w.linked /\ r.of = w.to /\ r.to = c.v
      BY <2>3, MirrorsKey
    <3> QED BY <1>3 DEF Links
  <2> QED BY <1>1, <2>1, <2>2, <2>3
<1>6. \A w, x \in c.words : w.to = x.to => w = x
  BY DEF Refused
<1>7. \A a, b \in rows' : ~(/\ a \in rows /\ a.of # c.v
                            /\ \A w \in c.words : w.linked => a \notin Pair(c.v, w.to)
                            /\ Lists(b, c) \/ Mirrors(b, c)
                            /\ SameKey(a, b))
  <2> SUFFICES ASSUME NEW a \in rows, a.of # c.v, NEW b,
                      \A w \in c.words : w.linked => a \notin Pair(c.v, w.to),
                      Lists(b, c) \/ Mirrors(b, c), SameKey(a, b)
               PROVE  FALSE
    OBVIOUS
  <2>1. ~Lists(b, c)
    BY ListsKey DEF SameKey
  <2> PICK w \in c.words : w.linked /\ b.of = w.to /\ b.to = c.v /\ b.linked = TRUE
    BY <2>1, MirrorsKey
  <2>2. a \in Pair(c.v, w.to)
    BY DEF Pair, SameKey
  <2> QED BY <2>2
<1>8. OneRowPerPair'
  <2> SUFFICES ASSUME NEW r \in rows', NEW s \in rows', SameKey(r, s) PROVE r = s
    BY DEF OneRowPerPair, SameKey
  <2>1. SameKey(s, r)
    BY DEF SameKey
  <2>2. CASE r \in rows /\ s \in rows
    BY <2>2 DEF OneRowPerPair, SameKey
  <2>3. CASE (Lists(r, c) \/ Mirrors(r, c)) /\ (Lists(s, c) \/ Mirrors(s, c))
    BY <1>6, <2>3, BothDiffer
  <2> QED BY <1>1, <1>7, <2>1, <2>2, <2>3
<1> QED BY <1>2, <1>5, <1>8

\* A free text becomes a link, and gets its mirror.
BecomesLink(r, c) == \E old \in c.seen :
  r = [of |-> old.of, to |-> old.to, linked |-> TRUE, rel |-> old.rel, by |-> old.by]
LinksBack(r, c) == \E old \in c.seen :
  r = [of |-> c.v, to |-> old.of, linked |-> TRUE, rel |-> old.rel, by |-> 0]

LEMMA Relinked ==
  ASSUME NEW old \in Relation, NEW v, NEW n, NEW link, NEW back,
         link = [old EXCEPT !.linked = TRUE],
         back = [old EXCEPT !.of = v, !.to = old.of, !.linked = TRUE, !.by = n]
  PROVE  /\ link = [of |-> old.of, to |-> old.to, linked |-> TRUE, rel |-> old.rel, by |-> old.by]
         /\ back = [of |-> v, to |-> old.of, linked |-> TRUE, rel |-> old.rel, by |-> n]
<1>1. old = [of |-> old.of, to |-> old.to, linked |-> old.linked, rel |-> old.rel, by |-> old.by]
  BY DEF Relation
<1> QED BY <1>1

LEMMA UpgradedRows ==
  ASSUME NEW c \in CallType, c.v \in Ids
  PROVE  /\ \A r \in Upgraded(c) : BecomesLink(r, c) \/ LinksBack(r, c)
         /\ Upgraded(c) \subseteq Relation
<1>1. ASSUME NEW old \in c.seen
      PROVE  /\ old \in Relation
             /\ [of |-> old.of, to |-> old.to, linked |-> TRUE, rel |-> old.rel, by |-> old.by] \in Relation
             /\ [of |-> c.v, to |-> old.of, linked |-> TRUE, rel |-> old.rel, by |-> 0] \in Relation
  <2>1. old \in Relation /\ c.n \in Nat
    BY DEF CallType
  <2> QED BY <2>1 DEF Relation
<1>2. ASSUME NEW r \in Upgraded(c) PROVE BecomesLink(r, c) \/ LinksBack(r, c)
  <2> PICK old \in c.seen : \/ r = [old EXCEPT !.linked = TRUE]
                            \/ r = [old EXCEPT !.of = c.v, !.to = old.of, !.linked = TRUE, !.by = 0]
    BY Zenon DEF Upgraded
  <2> PICK link : link = [old EXCEPT !.linked = TRUE]
    OBVIOUS
  <2> PICK back : back = [old EXCEPT !.of = c.v, !.to = old.of, !.linked = TRUE, !.by = 0]
    OBVIOUS
  <2>1. /\ link = [of |-> old.of, to |-> old.to, linked |-> TRUE, rel |-> old.rel, by |-> old.by]
        /\ back = [of |-> c.v, to |-> old.of, linked |-> TRUE, rel |-> old.rel, by |-> 0]
    BY <1>1, Relinked
  <2>2. r = link \/ r = back
    BY Zenon
  <2> QED BY <2>1, <2>2 DEF BecomesLink, LinksBack
<1>3. \A r : BecomesLink(r, c) \/ LinksBack(r, c) => r \in Relation
  BY <1>1 DEF BecomesLink, LinksBack
<1> QED BY <1>2, <1>3

\* A creation: nothing named the new entry by a link, and the free texts that
\* become links belong to entries it does not list.
LEMMA CreatedRows ==
  ASSUME Types, RowsStored, OneRowPerPair, NEW c \in CallType, c.v \in Ids, vocabs[c.v] = "new",
         \A w, x \in c.words : w.to = x.to => w = x,
         \A r \in c.seen : r.to = c.v /\ ~r.linked,
         ~CreationFails(c), vocabs' = [vocabs EXCEPT ![c.v] = "stored"],
         rows' = (rows \ c.seen) \cup Upgraded(c) \cup Both(c.v, c.words, c.n)
  PROVE  rows' \subseteq Relation /\ RowsStored' /\ OneRowPerPair'
<1> DEFINE Kept(r) == r \in rows
           Own(r) == LinksBack(r, c) \/ Lists(r, c)
<1>1. /\ Stored \subseteq Stored' /\ c.v \in Stored' /\ c.v \notin Stored
      /\ Links(c.words) \subseteq Stored /\ c.v \notin Links(c.words)
      /\ \A w \in c.words : w.to # c.v
      /\ \A old \in c.seen : old \in rows /\ old.of \notin Links(c.words) /\ old.of \in Stored
  BY DEF Types, Stored, CreationFails, Links, RowsStored
<1>2. rows' \subseteq Relation
  BY BothRows, UpgradedRows DEF Types
<1>3. \A r \in rows' : Kept(r) \/ BecomesLink(r, c) \/ LinksBack(r, c) \/ Lists(r, c) \/ Mirrors(r, c)
  BY BothRows, UpgradedRows
<1>4. ASSUME NEW r, Kept(r)
      PROVE  r.of # c.v /\ r.of \in Stored /\ (r.linked => r.to # c.v /\ r.to \in Stored)
  BY <1>1, <1>4 DEF RowsStored
<1>5. ASSUME NEW r, BecomesLink(r, c)
      PROVE  /\ r.of \in Stored /\ r.of \notin Links(c.words) /\ r.to = c.v /\ r.linked
             /\ r.of # c.v
  <2> PICK old \in c.seen :
        r = [of |-> old.of, to |-> old.to, linked |-> TRUE, rel |-> old.rel, by |-> old.by]
    BY <1>5 DEF BecomesLink
  <2> QED BY <1>1
<1>6. ASSUME NEW r, LinksBack(r, c)
      PROVE  r.of = c.v /\ r.linked /\ r.to \in Stored /\ r.to \notin Links(c.words)
  <2> PICK old \in c.seen :
        r = [of |-> c.v, to |-> old.of, linked |-> TRUE, rel |-> old.rel, by |-> 0]
    BY <1>6 DEF LinksBack
  <2> QED BY <1>1
<1>7. ASSUME NEW r, Lists(r, c)
      PROVE  r.of = c.v /\ (r.linked => r.to \in Links(c.words))
  <2> PICK w \in c.words : r.of = c.v /\ r.to = w.to /\ r.linked = w.linked
    BY <1>7, ListsKey
  <2> QED BY DEF Links
<1>8. ASSUME NEW r, Mirrors(r, c)
      PROVE  r.of \in Links(c.words) /\ r.of # c.v /\ r.to = c.v /\ r.linked
  <2> PICK w \in c.words : w.linked /\ r.of = w.to /\ r.to = c.v /\ r.linked = TRUE
    BY <1>8, MirrorsKey
  <2> QED BY <1>1 DEF Links
<1>9. RowsStored'
  BY <1>1, <1>3, <1>4, <1>5, <1>6, <1>7, <1>8 DEF RowsStored
<1>10. ASSUME NEW r, NEW s, BecomesLink(r, c), BecomesLink(s, c), SameKey(r, s)
       PROVE  r = s
  <2> PICK old \in c.seen :
        r = [of |-> old.of, to |-> old.to, linked |-> TRUE, rel |-> old.rel, by |-> old.by]
    BY <1>10 DEF BecomesLink
  <2> PICK new \in c.seen :
        s = [of |-> new.of, to |-> new.to, linked |-> TRUE, rel |-> new.rel, by |-> new.by]
    BY <1>10 DEF BecomesLink
  <2>1. old.of = new.of
    BY <1>10 DEF SameKey
  <2>2. old = new
    <3>1. old \in Relation /\ new \in Relation /\ old \in rows /\ new \in rows
      BY <1>1 DEF Types
    <3>2. old.linked = new.linked /\ old.to = new.to
      BY <3>1 DEF Relation
    <3> QED BY <2>1, <3>1, <3>2 DEF OneRowPerPair
  <2> QED BY <2>2
<1>11. ASSUME NEW r, NEW s, LinksBack(r, c), LinksBack(s, c), SameKey(r, s)
       PROVE  r = s
  <2> PICK old \in c.seen :
        r = [of |-> c.v, to |-> old.of, linked |-> TRUE, rel |-> old.rel, by |-> 0]
    BY <1>11 DEF LinksBack
  <2> PICK new \in c.seen :
        s = [of |-> c.v, to |-> new.of, linked |-> TRUE, rel |-> new.rel, by |-> 0]
    BY <1>11 DEF LinksBack
  <2>1. old.of = new.of
    BY <1>11 DEF SameKey
  <2>2. old = new
    <3>1. old \in Relation /\ new \in Relation /\ old \in rows /\ new \in rows
      BY <1>1 DEF Types
    <3>2. old.linked = new.linked /\ old.to = new.to
      BY <3>1 DEF Relation
    <3> QED BY <2>1, <3>1, <3>2 DEF OneRowPerPair
  <2> QED BY <2>2
<1>12. OneRowPerPair'
  <2> SUFFICES ASSUME NEW r \in rows', NEW s \in rows', SameKey(r, s) PROVE r = s
    BY DEF OneRowPerPair, SameKey
  <2>1. r.of = s.of /\ r.to = s.to /\ r.linked = s.linked
    BY DEF SameKey
  <2>2. CASE Kept(r)
    <3>1. Kept(s)
      BY <1>3, <1>4, <1>5, <1>6, <1>7, <1>8, <2>1, <2>2
    <3> QED BY <2>1, <2>2, <3>1 DEF OneRowPerPair
  <2>3. CASE BecomesLink(r, c)
    <3>1. BecomesLink(s, c)
      BY <1>3, <1>4, <1>5, <1>6, <1>7, <1>8, <2>1, <2>3
    <3> QED BY <1>10, <2>3, <3>1
  <2>4. CASE LinksBack(r, c)
    <3>1. LinksBack(s, c)
      BY <1>3, <1>4, <1>5, <1>6, <1>7, <1>8, <2>1, <2>4
    <3> QED BY <1>11, <2>4, <3>1
  <2>5. CASE Lists(r, c) \/ Mirrors(r, c)
    <3>1. Lists(s, c) \/ Mirrors(s, c)
      BY <1>3, <1>4, <1>5, <1>6, <1>7, <1>8, <2>1, <2>5
    <3> QED BY <1>1, <2>5, <3>1, BothDiffer
  <2> QED BY <1>3, <2>2, <2>3, <2>4, <2>5
<1> QED BY <1>2, <1>9, <1>12

-----------------------------------------------------------------------------
(* What a request knows.                                                   *)

Creating(c) == c.pc \in {"new", "upgrade"}

LEMMA KnownStep ==
  ASSUME Types, Known, NEW p \in Procs, NEW c \in CallType, Becomes(p, c),
         c.pc \in {"lock", "lock2"} => c.v \notin Links(c.words),
         Creating(c) =>
           /\ vocabs'[c.v] = "new"
           /\ \A w, x \in c.words : w.to = x.to => w = x
           /\ \A q \in Procs \ {p} : Creating(procs[q]) => procs[q].v # c.v,
         c.pc = "upgrade" => \A r \in c.seen : r.to = c.v /\ ~r.linked,
         \A q \in Procs \ {p} : Creating(procs[q]) => vocabs'[procs[q].v] = "new"
  PROVE  Known'
<1>1. procs'[p] = c /\ \A q \in Procs \ {p} : procs'[q] = procs[q]
  BY DEF Becomes
<1>2. CallKnows(p)'
  BY <1>1 DEF CallKnows, Creating
<1>3. ASSUME NEW q \in Procs \ {p} PROVE CallKnows(q)'
  BY <1>1, <1>3 DEF Known, CallKnows, Creating
<1> QED BY <1>2, <1>3 DEF Known

-----------------------------------------------------------------------------
(* The steps.                                                              *)

LEMMA WordSetsWords ==
  ASSUME NEW ws \in WordSets
  PROVE  ws \in SUBSET Word
<1> PICK k \in 0 .. MaxWords :
      ws \in {{w[i] : i \in 1 .. k} : w \in [1 .. k -> {x \in Word : x.linked \/ vocabs[x.to] = "new"}]}
  BY Zenon DEF WordSets
<1> PICK w \in [1 .. k -> {x \in Word : x.linked \/ vocabs[x.to] = "new"}] : ws = {w[i] : i \in 1 .. k}
  BY Zenon
<1> QED OBVIOUS

LEMMA CallTyped ==
  ASSUME NEW pc \in {"lock", "pair", "new"}, NEW v \in Ids, NEW words \in SUBSET Word,
         NEW want \in SUBSET Ids, NEW seen \in SUBSET Relation, ops \in Nat
  PROVE  /\ Call(pc, v, words, want, seen) \in CallType
         /\ Call(pc, v, words, want, seen).pc = pc
         /\ Call(pc, v, words, want, seen).v = v
         /\ Call(pc, v, words, want, seen).words = words
BY RelatedAssumption DEF Call, CallType

LEMMA BeginsInv ==
  ASSUME Inv, NEW p \in Procs, NEW c \in CallType, Start(p, c), UNCHANGED <<vocabs, rows, locks>>,
         c.pc \in {"lock", "pair", "new"}, c.v \in Ids,
         c.pc = "lock" => c.v \notin Links(c.words),
         c.pc = "new" => /\ vocabs[c.v] = "new"
                         /\ \A w, x \in c.words : w.to = x.to => w = x
                         /\ \A q \in Procs : Creating(procs[q]) => procs[q].v # c.v
  PROVE  Inv'
<1>1. Becomes(p, c) /\ procs[p].pc = "idle" /\ ops' \in Nat
  BY BecomesCall DEF Inv, Start, NoCall, Types
<1>2. LockOrder'
  <2>1. Starts(p)
    BY <1>1 DEF Starts
  <2> QED BY <2>1, OrderStarts DEF Inv
<1>3. Types'
  BY <1>1 DEF Types, Inv, Becomes
<1>4. Known'
  BY <1>1, KnownStep DEF Inv, Known, CallKnows, Creating
<1>5. RowsStored' /\ OneRowPerPair'
  BY DEF Inv, RowsStored, OneRowPerPair, Stored
<1> QED BY <1>2, <1>3, <1>4, <1>5 DEF Inv

LEMMA EndsInv ==
  ASSUME Inv, NEW p \in Procs, End(p), ops' \in Nat,
         vocabs' \in [Ids -> {"new", "stored", "deleted"}],
         rows' \subseteq Relation, RowsStored', OneRowPerPair',
         \A q \in Procs \ {p} : Creating(procs[q]) => vocabs'[procs[q].v] = "new"
  PROVE  Inv'
<1>1. NoCall \in CallType /\ NoCall.pc = "idle" /\ NoCall.want = {}
  BY DEF NoCall, CallType
<1>2. Becomes(p, NoCall)
  BY <1>1, BecomesCall DEF Inv, End
<1>3. LockOrder' /\ locks' \in [Ids -> Procs \cup {NoProc}]
  <2>1. Ends(p)
    BY <1>1, <1>2 DEF Ends, End
  <2> QED BY <2>1, OrderEnds DEF Inv
<1>4. Types'
  BY <1>1, <1>2, <1>3 DEF Types, Inv, Becomes
<1>5. Known'
  BY <1>1, <1>2, KnownStep DEF Inv, Creating
<1> QED BY <1>3, <1>4, <1>5 DEF Inv

LEMMA RollbackInv ==
  ASSUME Inv, NEW p \in Procs, Rollback(p)
  PROVE  Inv'
<1>1. End(p) /\ UNCHANGED <<vocabs, rows, ops, raced>>
  BY DEF Rollback
<1>2. RowsStored' /\ OneRowPerPair'
  BY <1>1 DEF Inv, RowsStored, OneRowPerPair, Stored
<1>3. ops' \in Nat /\ rows' \subseteq Relation /\ vocabs' \in [Ids -> {"new", "stored", "deleted"}]
  BY <1>1 DEF Inv, Types
<1>4. \A q \in Procs \ {p} : Creating(procs[q]) => vocabs'[procs[q].v] = "new"
  BY <1>1 DEF Inv, Known, CallKnows, Creating
<1> QED BY <1>1, <1>2, <1>3, <1>4, EndsInv

LEMMA UpsertInv ==
  ASSUME Inv, NEW p \in Procs, Upsert(p) \/ CsvRelated(p)
  PROVE  Inv'
<1>1. PICK v \in Stored, ws \in WordSets, want \in SUBSET Ids :
        /\ v \notin Links(ws) /\ Start(p, Call("lock", v, ws, want, {}))
        /\ UNCHANGED <<vocabs, rows, locks>>
  <2>1. CASE Upsert(p)
    <3> PICK v \in Stored, ws \in WordSets :
          /\ ValidWords(v, ws) /\ LinkedInFolder(ws)
          /\ Start(p, Call("lock", v, ws, {v} \cup Links(ws), {}))
          /\ UNCHANGED <<vocabs, rows, locks, raced>>
      BY <2>1 DEF Upsert
    <3>1. {v} \cup Links(ws) \in SUBSET Ids
      BY DEF LinkedInFolder, Stored
    <3> QED BY <3>1 DEF ValidWords
  <2>2. CASE CsvRelated(p)
    <3> PICK v \in Stored, ws \in WordSets :
          /\ ws # {} /\ Links(ws) = {}
          /\ Start(p, Call("lock", v, ws, {v}, {}))
          /\ UNCHANGED <<vocabs, rows, locks, raced>>
      BY <2>2 DEF CsvRelated
    <3>1. {v} \in SUBSET Ids
      BY DEF Stored
    <3> QED BY <3>1
  <2> QED BY <2>1, <2>2
<1> DEFINE c == Call("lock", v, ws, want, {})
<1>2. c \in CallType /\ c.pc = "lock" /\ c.v = v /\ c.words = ws
  BY CallTyped, WordSetsWords DEF Inv, Types, Stored
<1> HIDE DEF c
<1>3. Start(p, c)
  BY <1>1 DEF c
<1>4. c.v \in Ids
  BY <1>2 DEF Stored
<1> QED BY <1>1, <1>2, <1>3, <1>4, BeginsInv

LEMMA FindPairInv ==
  ASSUME Inv, NEW p \in Procs, FindPair(p)
  PROVE  Inv'
<1> PICK r \in rows :
      /\ Start(p, Call("pair", r.of, {}, IF r.linked THEN {r.of, r.to} ELSE {r.of}, {r}))
      /\ UNCHANGED <<vocabs, rows, locks, raced>>
  BY DEF FindPair
<1> DEFINE c == Call("pair", r.of, {}, IF r.linked THEN {r.of, r.to} ELSE {r.of}, {r})
<1>1. r \in Relation
  BY DEF Inv, Types
<1>2. r.of \in Ids /\ r.to \in Ids
  BY <1>1 DEF Relation
<1>3. c \in CallType /\ c.pc = "pair" /\ c.v = r.of
  BY <1>1, <1>2, CallTyped DEF Inv, Types
<1>4. Start(p, c)
  OBVIOUS
<1> HIDE DEF c
<1> QED BY <1>2, <1>3, <1>4, BeginsInv

LEMMA CreateInv ==
  ASSUME Inv, NEW p \in Procs, Create(p)
  PROVE  Inv'
<1> PICK v \in Ids, ws \in WordSets :
      /\ vocabs[v] = "new" /\ \A q \in Procs : procs[q].pc \in {"new", "upgrade"} => procs[q].v # v
      /\ ValidWords(v, ws) /\ LinkedInFolder(ws)
      /\ Start(p, Call("new", v, ws, IF ws = {} THEN {} ELSE {v} \cup Links(ws), {}))
      /\ UNCHANGED <<vocabs, rows, locks, raced>>
  BY DEF Create
<1> DEFINE want == IF ws = {} THEN {} ELSE {v} \cup Links(ws)
<1> DEFINE c == Call("new", v, ws, want, {})
<1>1. want \in SUBSET Ids
  BY DEF LinkedInFolder, Stored
<1>2. c \in CallType /\ c.pc = "new" /\ c.v = v /\ c.words = ws
  <2> HIDE DEF want
  <2> QED BY <1>1, CallTyped, WordSetsWords DEF Inv, Types
<1>3. Start(p, c)
  OBVIOUS
<1> HIDE DEF c
<1> QED BY <1>2, <1>3, BeginsInv DEF ValidWords, Creating

LEMMA LockInv ==
  ASSUME Inv, NEW p \in Procs, Lock(p)
  PROVE  Inv'
<1> PICK a \in NextLock(procs[p].want) :
      /\ locks[a] = NoProc
      /\ locks' = [locks EXCEPT ![a] = p]
      /\ Become(p, [procs[p] EXCEPT !.want = @ \ {a}])
      /\ UNCHANGED <<vocabs, rows, ops, raced>>
  BY DEF Lock
<1> PICK c : c = [procs[p] EXCEPT !.want = @ \ {a}]
  OBVIOUS
<1>1. procs[p] \in CallType
  BY DEF Inv, Types
<1>2. /\ c \in CallType /\ c.pc = procs[p].pc /\ c.v = procs[p].v
      /\ c.words = procs[p].words /\ c.seen = procs[p].seen
  BY <1>1 DEF CallType
<1>3. Becomes(p, c)
  BY <1>2, BecomesCall DEF Inv
<1>4. a \in procs[p].want /\ \A b \in procs[p].want : a <= b
  BY DEF NextLock
<1>5. procs[p].pc # "idle"
  BY <1>4 DEF Inv, Types
<1>6. LockOrder' /\ locks' \in [Ids -> Procs \cup {NoProc}]
  <2>1. Locks(p)
    BY <1>2, <1>3, <1>4, <1>5 DEF Locks
  <2> QED BY <2>1, OrderLocks DEF Inv
<1>7. Types'
  BY <1>2, <1>3, <1>5, <1>6 DEF Types, Inv, Becomes
<1>8. Known'
  <2>1. /\ c.pc \in {"lock", "lock2"} => c.v \notin Links(c.words)
        /\ Creating(c) =>
             /\ vocabs[c.v] = "new"
             /\ \A w, x \in c.words : w.to = x.to => w = x
             /\ \A q \in Procs \ {p} : Creating(procs[q]) => procs[q].v # c.v
        /\ c.pc = "upgrade" => \A r \in c.seen : r.to = c.v /\ ~r.linked
    BY <1>2 DEF Inv, Known, CallKnows, Creating
  <2>2. \A q \in Procs \ {p} : Creating(procs[q]) => vocabs'[procs[q].v] = "new"
    BY DEF Inv, Known, CallKnows, Creating
  <2>3. Types /\ Known /\ vocabs' = vocabs
    BY DEF Inv
  <2> QED BY <1>2, <1>3, <2>1, <2>2, <2>3, KnownStep, Zenon
<1>9. RowsStored' /\ OneRowPerPair'
  BY DEF Inv, RowsStored, OneRowPerPair, Stored
<1> QED BY <1>6, <1>7, <1>8, <1>9 DEF Inv

LEMMA ReadsInv ==
  ASSUME Inv, NEW p \in Procs, NEW c \in CallType, Become(p, c),
         UNCHANGED <<vocabs, rows, locks, ops>>,
         c.v = procs[p].v, c.words = procs[p].words,
         \/ procs[p].pc = "lock" /\ c.pc = "lock2"
         \/ /\ procs[p].pc = "new" /\ c.pc = "upgrade" /\ c.want = {}
            /\ \A r \in c.seen : r.to = c.v /\ ~r.linked
  PROVE  Inv'
<1>1. Becomes(p, c)
  BY BecomesCall DEF Inv
<1>2. LockOrder'
  <2>1. Reads(p)
    BY <1>1 DEF Reads
  <2> QED BY <2>1, OrderReads DEF Inv
<1>3. Types'
  BY <1>1 DEF Types, Inv, Becomes
<1>4. Known'
  BY <1>1, KnownStep DEF Inv, Known, CallKnows, Creating
<1>5. RowsStored' /\ OneRowPerPair'
  BY DEF Inv, RowsStored, OneRowPerPair, Stored
<1> QED BY <1>2, <1>3, <1>4, <1>5 DEF Inv

LEMMA ReadNeighboursInv ==
  ASSUME Inv, NEW p \in Procs, ReadNeighbours(p)
  PROVE  Inv'
<1> PICK c : c = [procs[p] EXCEPT !.pc = "lock2", !.seen = RowsOf(procs[p].v),
                   !.want = Links(RowsOf(procs[p].v)) \ ({procs[p].v} \cup Links(procs[p].words))]
  OBVIOUS
<1>1. procs[p] \in CallType /\ procs[p].pc = "lock"
  BY DEF Inv, Types, ReadNeighbours
<1>2. Become(p, c) /\ UNCHANGED <<vocabs, rows, locks, ops>>
  BY DEF ReadNeighbours
<1>3. RowsOf(procs[p].v) \in SUBSET Relation
  BY DEF RowsOf, Inv, Types
<1>4. Links(RowsOf(procs[p].v)) \in SUBSET Ids
  BY <1>3 DEF Links, Relation
<1>5. c \in CallType /\ c.pc = "lock2" /\ c.v = procs[p].v /\ c.words = procs[p].words
  BY <1>1, <1>3, <1>4 DEF CallType
<1> QED BY <1>1, <1>2, <1>5, ReadsInv

LEMMA ReadMatchingInv ==
  ASSUME Inv, NEW p \in Procs, ReadMatching(p)
  PROVE  Inv'
<1> PICK seen : seen = {r \in rows : ~r.linked /\ r.to = procs[p].v}
  OBVIOUS
<1> PICK c : c = [procs[p] EXCEPT !.pc = "upgrade", !.seen = seen]
  OBVIOUS
<1>1. procs[p] \in CallType /\ procs[p].pc = "new" /\ procs[p].want = {}
  BY DEF Inv, Types, ReadMatching
<1>2. Become(p, c) /\ UNCHANGED <<vocabs, rows, locks, ops>>
  BY DEF ReadMatching
<1>3. seen \in SUBSET Relation /\ \A r \in seen : r.to = procs[p].v /\ ~r.linked
  BY DEF Inv, Types
<1>4. /\ c \in CallType /\ c.pc = "upgrade" /\ c.v = procs[p].v /\ c.words = procs[p].words
      /\ c.want = {} /\ c.seen = seen
  BY <1>1, <1>3 DEF CallType
<1> QED BY <1>1, <1>2, <1>3, <1>4, ReadsInv

LEMMA WriteInv ==
  ASSUME Inv, NEW p \in Procs, Write(p)
  PROVE  Inv'
<1>1. CASE Rollback(p)
  BY <1>1, RollbackInv
<1>2. CASE /\ procs[p].pc = "lock2" /\ ~Refused(procs[p]) /\ rows' = Written(procs[p])
           /\ End(p) /\ UNCHANGED <<vocabs, ops, raced>>
  <2>1. procs[p] \in CallType /\ procs[p].v \in Ids
    BY <1>2 DEF Inv, Types
  <2>2. procs[p].v \notin Links(procs[p].words)
    BY <1>2 DEF Inv, Known, CallKnows
  <2>3. rows' \subseteq Relation /\ RowsStored' /\ OneRowPerPair'
    BY <1>2, <2>1, <2>2, WrittenRows DEF Inv
  <2>4. ops' \in Nat /\ vocabs' \in [Ids -> {"new", "stored", "deleted"}]
    BY <1>2 DEF Inv, Types
  <2>5. \A q \in Procs \ {p} : Creating(procs[q]) => vocabs'[procs[q].v] = "new"
    BY <1>2 DEF Inv, Known, CallKnows, Creating
  <2> QED BY <1>2, <2>3, <2>4, <2>5, EndsInv
<1> QED BY <1>1, <1>2 DEF Write

LEMMA DeletePairInv ==
  ASSUME Inv, NEW p \in Procs, DeletePair(p)
  PROVE  Inv'
<1>1. rows' \subseteq rows /\ End(p) /\ UNCHANGED <<vocabs, ops, raced>>
  BY DEF DeletePair
<1>2. RowsStored' /\ OneRowPerPair'
  <2>1. \A r \in rows' : r.of \in Stored' /\ (r.linked => r.to \in Stored')
    BY <1>1 DEF Inv, RowsStored, Stored
  <2> QED BY <1>1, <2>1, FewerRows DEF Inv
<1>3. ops' \in Nat /\ rows' \subseteq Relation /\ vocabs' \in [Ids -> {"new", "stored", "deleted"}]
  BY <1>1 DEF Inv, Types
<1>4. \A q \in Procs \ {p} : Creating(procs[q]) => vocabs'[procs[q].v] = "new"
  BY <1>1 DEF Inv, Known, CallKnows, Creating
<1> QED BY <1>1, <1>2, <1>3, <1>4, EndsInv

LEMMA CommitCreationInv ==
  ASSUME Inv, NEW p \in Procs, CommitCreation(p)
  PROVE  Inv'
<1>1. CASE Rollback(p)
  BY <1>1, RollbackInv
<1>2. CASE /\ procs[p].pc = "upgrade" /\ ~CreationFails(procs[p])
           /\ vocabs' = [vocabs EXCEPT ![procs[p].v] = "stored"]
           /\ rows' = (rows \ procs[p].seen) \cup Upgraded(procs[p])
                      \cup Both(procs[p].v, procs[p].words, procs[p].n)
           /\ End(p) /\ UNCHANGED ops
  <2>1. procs[p] \in CallType /\ procs[p].v \in Ids
    BY <1>2 DEF Inv, Types
  <2>2. /\ vocabs[procs[p].v] = "new"
        /\ \A w, x \in procs[p].words : w.to = x.to => w = x
        /\ \A r \in procs[p].seen : r.to = procs[p].v /\ ~r.linked
        /\ \A q \in Procs : Creating(procs[q]) /\ procs[q].v = procs[p].v => q = p
    BY <1>2 DEF Inv, Known, CallKnows, Creating
  <2>3. rows' \subseteq Relation /\ RowsStored' /\ OneRowPerPair'
    BY <1>2, <2>1, <2>2, CreatedRows DEF Inv
  <2>4. ops' \in Nat /\ vocabs' \in [Ids -> {"new", "stored", "deleted"}]
    BY <1>2 DEF Inv, Types
  <2>5. ASSUME NEW q \in Procs \ {p}, Creating(procs[q]) PROVE vocabs'[procs[q].v] = "new"
    <3>1. vocabs[procs[q].v] = "new" /\ procs[q].v # procs[p].v /\ procs[q].v \in Ids
      BY <2>2, <2>5 DEF Inv, Known, CallKnows, Creating, Types
    <3> QED BY <1>2, <3>1 DEF Inv, Types
  <2> QED BY <1>2, <2>3, <2>4, <2>5, EndsInv
<1> QED BY <1>1, <1>2 DEF CommitCreation

LEMMA DeleteVocabInv ==
  ASSUME Inv, DeleteVocab
  PROVE  Inv'
<1> PICK v \in Stored :
      /\ ops < MaxOps /\ ops' = ops + 1
      /\ vocabs' = [vocabs EXCEPT ![v] = "deleted"]
      /\ rows' = {r \in rows : r.of # v /\ ~(r.linked /\ r.to = v)}
      /\ UNCHANGED <<locks, procs, raced>>
  BY DEF DeleteVocab
<1>1. v \in Ids /\ vocabs[v] = "stored"
  BY DEF Stored
<1>2. \A i \in Ids : vocabs'[i] = IF i = v THEN "deleted" ELSE vocabs[i]
  BY <1>1 DEF Inv, Types
<1>3. Types'
  BY <1>1 DEF Inv, Types
<1>4. LockOrder'
  BY DEF Inv, LockOrder
<1>5. RowsStored' /\ OneRowPerPair'
  <2>1. \A i \in Stored : i # v => i \in Stored'
    BY <1>2 DEF Stored
  <2>2. \A r \in rows' : r.of \in Stored' /\ (r.linked => r.to \in Stored')
    BY <2>1 DEF Inv, RowsStored
  <2> QED BY <2>2, FewerRows DEF Inv
<1>6. ASSUME NEW p \in Procs, Creating(procs[p]) PROVE vocabs'[procs[p].v] = "new"
  <2>1. procs[p].v \in Ids /\ vocabs[procs[p].v] = "new"
    BY <1>6 DEF Inv, Types, Known, CallKnows, Creating
  <2> QED BY <1>1, <1>2, <2>1
<1>7. Known'
  BY <1>6 DEF Inv, Known, CallKnows, Creating
<1> QED BY <1>3, <1>4, <1>5, <1>7 DEF Inv

LEMMA NextInv == Inv /\ [Next]_vars => Inv'
<1> SUFFICES ASSUME Inv, [Next]_vars PROVE Inv'
  OBVIOUS
<1>1. ASSUME NEW p \in Procs, Upsert(p) \/ CsvRelated(p) PROVE Inv'
  BY <1>1, UpsertInv
<1>2. ASSUME NEW p \in Procs, FindPair(p) PROVE Inv'
  BY <1>2, FindPairInv
<1>3. ASSUME NEW p \in Procs, Create(p) PROVE Inv'
  BY <1>3, CreateInv
<1>4. ASSUME NEW p \in Procs, TimedOut(p) \/ Victim(p) PROVE Inv'
  BY <1>4, RollbackInv DEF TimedOut, Victim
<1>5. ASSUME NEW p \in Procs, Lock(p) PROVE Inv'
  BY <1>5, LockInv
<1>6. ASSUME NEW p \in Procs, ReadNeighbours(p) PROVE Inv'
  BY <1>6, ReadNeighboursInv
<1>7. ASSUME NEW p \in Procs, Write(p) PROVE Inv'
  BY <1>7, WriteInv
<1>8. ASSUME NEW p \in Procs, DeletePair(p) PROVE Inv'
  BY <1>8, DeletePairInv
<1>9. ASSUME NEW p \in Procs, ReadMatching(p) PROVE Inv'
  BY <1>9, ReadMatchingInv
<1>10. ASSUME NEW p \in Procs, CommitCreation(p) PROVE Inv'
  BY <1>10, CommitCreationInv
<1>11. CASE DeleteVocab
  BY <1>11, DeleteVocabInv
<1>12. CASE UNCHANGED vars
  BY <1>12 DEF vars, Inv, Types, LockOrder, RowsStored, Stored, Known, CallKnows, OneRowPerPair
<1> QED BY <1>1, <1>2, <1>3, <1>4, <1>5, <1>6, <1>7, <1>8, <1>9, <1>10, <1>11, <1>12
        DEF Next, Serve

LEMMA InvAlways == Spec => []Inv
<1> QED BY InitInv, NextInv, PTL DEF Spec

-----------------------------------------------------------------------------
(* What is promised.                                                       *)

\* Whatever requests interleave, two entries are linked by one row in each
\* direction and an entry lists a text once: the upgrade of free texts, which
\* takes no lock, touches only texts that name an entry nobody links yet.
THEOREM OneRowPerPairCorrect == Spec => []OneRowPerPair
<1> QED BY InvAlways, PTL DEF Inv

\* Requests that only take the sorted first batch of locks never wait for each
\* other in a cycle, however many they are.
THEOREM DeadlockNeedsSecondBatchCorrect == Spec => []DeadlockNeedsSecondBatch
<1>1. Inv => DeadlockNeedsSecondBatch
  BY OrderNoCycle DEF Inv, DeadlockNeedsSecondBatch
<1> QED BY <1>1, InvAlways, PTL

-----------------------------------------------------------------------------
(* Why links are mirrored.  A request that goes on to write knows all the   *)
(* rows of its entry, or an upgrade has been recorded; the locks keep       *)
(* everybody else from adding to them, but for the upgrades.                *)

\* m is the free text r after its upgrade.
Twin(m, r) == m.linked /\ m.of = r.of /\ m.to = r.to /\ m.rel = r.rel /\ m.by = r.by
NoTwins == \A r, m \in rows : ~r.linked => ~Twin(m, r)

\* The number of a request is in no row before the request writes its own.
Fresh(p) == /\ procs[p].n # 0 /\ procs[p].n <= ops
            /\ \A r \in rows : r.by # procs[p].n
            /\ \A q \in Procs : \A r \in procs[q].seen : r.by # procs[p].n
            /\ \A q \in Procs \ {p} : procs[q].pc # "idle" => procs[q].n # procs[p].n
Numbers == /\ \A r \in rows : r.by <= ops /\ (~r.linked => r.by # 0)
           /\ \A q \in Procs : \A r \in procs[q].seen : r.by <= ops /\ (~r.linked => r.by # 0)
           /\ \A p \in Procs : procs[p].pc # "idle" => Fresh(p)

\* What the call c of p waits for or holds, where the locks are held as in L.
HasLocks(c, p, L) ==
  /\ c.pc = "lock2" => \A a \in {c.v} \cup Links(c.words) : L[a] = p
  /\ c.pc = "lock" \/ (Creating(c) /\ c.words # {}) =>
       \A a \in {c.v} \cup Links(c.words) : a \in c.want \/ L[a] = p
  /\ c.pc = "upgrade" => c.want = {}
\* The entry of a call that writes has been stored, in the vocabularies V.
Begun(c, V) == c.pc \in {"lock", "lock2", "pair"} => V[c.v] # "new"
\* With the neighbours read, c has seen every row of its entry in R that no
\* creation linked meanwhile; the pairs of those are in X.
SeesAll(c, R, X) ==
  c.pc = "lock2" => \A r \in R : r.of = c.v =>
    IF r.linked THEN r.to \in Links(c.seen) \/ {r.of, r.to} \in X ELSE r \in c.seen
\* A free text that c is about to delete has not become a link unnoticed.
Noticed(c, R, X) ==
  c.pc = "pair" => \A r \in c.seen :
    /\ r.of = c.v
    /\ ~r.linked => \A m \in R : Twin(m, r) => {r.of, r.to} \in X
CallFits(c, p) == /\ HasLocks(c, p, locks) /\ Begun(c, vocabs)
                  /\ SeesAll(c, rows, raced) /\ Noticed(c, rows, raced)

MirrorInv == /\ LinksMirrored /\ NoTwins /\ Numbers
             /\ \A p \in Procs : CallFits(procs[p], p)

LEMMA SameRelation ==
  ASSUME NEW r \in Relation, NEW s \in Relation,
         r.of = s.of, r.to = s.to, r.linked = s.linked, r.rel = s.rel, r.by = s.by
  PROVE  r = s
BY DEF Relation

LEMMA InitMirror == Init => MirrorInv
<1> SUFFICES ASSUME Init PROVE MirrorInv
  OBVIOUS
<1>1. \A p \in Procs : procs[p] = NoCall
  BY DEF Init
<1>2. NoCall.pc = "idle" /\ NoCall.seen = {}
  BY DEF NoCall
<1>3. Numbers
  BY <1>1, <1>2 DEF Init, Numbers
<1>4. LinksMirrored /\ NoTwins
  BY DEF Init, LinksMirrored, NoTwins
<1>5. \A p \in Procs : CallFits(procs[p], p)
  BY <1>1, <1>2 DEF CallFits, HasLocks, Begun, SeesAll, Noticed, Creating
<1> QED BY <1>3, <1>4, <1>5 DEF MirrorInv

\* A call goes on, begins with the next number, or ends; a row that is new to the
\* table has the number of the call that ends, or was a free text, or is the back of one.
LEMMA NumbersStep ==
  ASSUME Types, Types', Numbers, NEW p \in Procs, NEW c \in CallType, Becomes(p, c),
         \/ ops' = ops /\ (c.pc # "idle" => procs[p].pc # "idle" /\ c.n = procs[p].n)
         \/ ops' = ops + 1 /\ c.n = ops + 1,
         \A r \in c.seen : r \in rows \/ r \in procs[p].seen,
         \A r \in rows' : \/ \E s \in rows : r.by = s.by /\ (~r.linked => ~s.linked)
                          \/ r.by = 0 /\ r.linked
                          \/ procs[p].pc # "idle" /\ c.pc = "idle" /\ r.by = procs[p].n
  PROVE  Numbers'
<1>1. /\ procs'[p] = c /\ \A q \in Procs \ {p} : procs'[q] = procs[q]
      /\ ops \in Nat /\ ops' \in Nat /\ ops <= ops'
  BY DEF Becomes, Types
<1>2. /\ \A r \in rows : r.by \in Nat
      /\ \A q \in Procs : procs[q] \in CallType /\ procs[q].n \in Nat /\ \A r \in procs[q].seen : r.by \in Nat
      /\ c.n \in Nat
  BY DEF Types, CallType, Relation
<1>3. ASSUME NEW r \in rows' PROVE r.by \in Nat /\ r.by <= ops' /\ (~r.linked => r.by # 0)
  BY <1>1, <1>2 DEF Numbers, Fresh
<1>4. ASSUME NEW q \in Procs, NEW r \in procs'[q].seen
      PROVE  r.by \in Nat /\ r.by <= ops' /\ (~r.linked => r.by # 0)
  <2>1. CASE q = p
    BY <1>1, <1>2, <1>4, <2>1 DEF Numbers
  <2>2. CASE q # p
    BY <1>1, <1>2, <1>4, <2>2 DEF Numbers
  <2> QED BY <2>1, <2>2
<1>5. ASSUME NEW q \in Procs, procs'[q].pc # "idle" PROVE Fresh(q)'
  <2>1. CASE procs[q].pc # "idle" /\ procs'[q].n = procs[q].n
    <3>1. procs'[q].n # 0 /\ procs'[q].n <= ops'
      BY <1>1, <1>2, <2>1 DEF Numbers, Fresh
    <3>2. \A r \in rows' : r.by # procs'[q].n
      BY <1>1, <1>2, <1>5, <2>1 DEF Numbers, Fresh
    <3>3. \A o \in Procs : \A r \in procs'[o].seen : r.by # procs'[q].n
      BY <1>1, <1>2, <2>1 DEF Numbers, Fresh
    <3>4. \A o \in Procs \ {q} : procs'[o].pc # "idle" => procs'[o].n # procs'[q].n
      BY <1>1, <1>2, <2>1 DEF Numbers, Fresh
    <3> QED BY <3>1, <3>2, <3>3, <3>4 DEF Fresh
  <2>2. CASE q = p /\ ops' = ops + 1 /\ c.n = ops + 1
    <3>1. \A r \in rows' : r.by <= ops
      BY <1>1, <1>2, <1>5, <2>2 DEF Numbers
    <3>2. \A o \in Procs : \A r \in procs'[o].seen : r.by <= ops
      BY <1>1, <1>2, <2>2 DEF Numbers
    <3>3. \A o \in Procs \ {p} : procs'[o].pc # "idle" => procs'[o].n <= ops
      BY <1>1, <1>2 DEF Numbers, Fresh
    <3>4. \A r \in rows' : r.by \in Nat
      BY <1>3
    <3>5. \A o \in Procs : \A r \in procs'[o].seen : r.by \in Nat
      BY <1>4
    <3>6. \A o \in Procs : procs'[o].n \in Nat
      BY <1>1, <1>2
    <3> QED BY <1>1, <1>2, <2>2, <3>1, <3>2, <3>3, <3>4, <3>5, <3>6 DEF Fresh
  <2> QED BY <1>1, <1>5, <2>1, <2>2
<1> QED BY <1>3, <1>4, <1>5 DEF Numbers

\* What the others know of rows, locks and entries, where a step only adds to the
\* rows of an entry that is being written by upgrades it records.
LEMMA OthersFit ==
  ASSUME Types, NEW p \in Procs, NEW c \in CallType, Becomes(p, c),
         \A q \in Procs : CallFits(procs[q], q),
         \A q \in Procs \ {p}, a \in Ids : locks[a] = q => locks'[a] = q,
         \A i \in Ids : vocabs'[i] = "new" => vocabs[i] = "new",
         raced \subseteq raced',
         \A q \in Procs \ {p} : procs[q].pc = "lock2" =>
           \A r \in rows' : r.of = procs[q].v => r \in rows \/ (r.linked /\ {r.of, r.to} \in raced'),
         \A q \in Procs \ {p} : procs[q].pc = "pair" =>
           \A r \in procs[q].seen, m \in rows' : ~r.linked /\ Twin(m, r) => m \in rows \/ {r.of, r.to} \in raced'
  PROVE  \A q \in Procs \ {p} : CallFits(procs[q], q)'
<1> SUFFICES ASSUME NEW q \in Procs \ {p} PROVE CallFits(procs[q], q)'
  OBVIOUS
<1>1. procs'[q] = procs[q] /\ procs[q] \in CallType
  BY DEF Becomes, Types
<1>2. procs[q].pc # "idle" => procs[q].v \in Ids
  BY DEF Types
<1>3. Links(procs[q].words) \subseteq Ids
  BY <1>1 DEF Links, CallType, Word
<1>4. HasLocks(procs[q], q, locks)'
  <2>1. HasLocks(procs[q], q, locks)
    BY DEF CallFits
  <2> QED BY <1>1, <1>2, <1>3, <2>1 DEF HasLocks, Creating
<1>5. Begun(procs[q], vocabs)'
  BY <1>1, <1>2 DEF CallFits, Begun
<1>6. SeesAll(procs[q], rows, raced)'
  BY <1>1 DEF CallFits, SeesAll
<1>7. Noticed(procs[q], rows, raced)'
  BY <1>1 DEF CallFits, Noticed
<1> QED BY <1>4, <1>5, <1>6, <1>7 DEF CallFits

-----------------------------------------------------------------------------
(* The rows a step leaves are mirrored.                                     *)

LinkedBack(r, R) == \E m \in R : m.of = r.to /\ m.to = r.of /\ m.linked /\ m.rel = r.rel

LEMMA BothMirrored ==
  ASSUME NEW c \in CallType, c.v \notin Links(c.words), NEW r \in Both(c.v, c.words, c.n)
  PROVE  r.by = c.n /\ (r.linked => r.of # r.to /\ LinkedBack(r, Both(c.v, c.words, c.n)))
<1>1. CASE Lists(r, c)
  <2> PICK w \in c.words : r = [of |-> c.v, to |-> w.to, linked |-> w.linked, rel |-> w.rel, by |-> c.n]
    BY <1>1 DEF Lists
  <2> DEFINE m == [of |-> w.to, to |-> c.v, linked |-> TRUE, rel |-> w.rel, by |-> c.n]
  <2>1. w.linked => w.to \in Links(c.words) /\ m \in Both(c.v, c.words, c.n)
    BY Zenon DEF Both, Links
  <2>2. m.of = w.to /\ m.to = c.v /\ m.linked /\ m.rel = w.rel
    OBVIOUS
  <2> QED BY <2>1, <2>2 DEF LinkedBack
<1>2. CASE Mirrors(r, c)
  <2> PICK w \in c.words :
        w.linked /\ r = [of |-> w.to, to |-> c.v, linked |-> TRUE, rel |-> w.rel, by |-> c.n]
    BY <1>2 DEF Mirrors
  <2> DEFINE m == [of |-> c.v, to |-> w.to, linked |-> w.linked, rel |-> w.rel, by |-> c.n]
  <2>1. w.to \in Links(c.words) /\ m \in Both(c.v, c.words, c.n)
    BY Zenon DEF Both, Links
  <2>2. m.of = c.v /\ m.to = w.to /\ m.linked /\ m.rel = w.rel
    OBVIOUS
  <2> QED BY <2>1, <2>2 DEF LinkedBack
<1> QED BY <1>1, <1>2, Zenon DEF Both, Lists, Mirrors

LEMMA BothNoTwins ==
  ASSUME NEW c \in CallType, c.v \notin Links(c.words), \A w, x \in c.words : w.to = x.to => w = x,
         NEW r \in Both(c.v, c.words, c.n), NEW m \in Both(c.v, c.words, c.n), ~r.linked
  PROVE  ~Twin(m, r)
<1> SUFFICES ASSUME Twin(m, r) PROVE FALSE
  OBVIOUS
<1>1. (Lists(r, c) \/ Mirrors(r, c)) /\ (Lists(m, c) \/ Mirrors(m, c))
  BY Zenon DEF Both, Lists, Mirrors
<1>2. PICK w \in c.words : r.of = c.v /\ r.to = w.to /\ ~w.linked
  <2>1. ~Mirrors(r, c)
    BY MirrorsKey
  <2>2. PICK w \in c.words : r.of = c.v /\ r.to = w.to /\ r.linked = w.linked
    BY <1>1, <2>1, ListsKey
  <2> QED BY <2>2
<1>3. CASE Lists(m, c)
  <2> PICK x \in c.words : m.to = x.to /\ m.linked = x.linked
    BY <1>3, ListsKey
  <2>1. x = w
    BY <1>2 DEF Twin
  <2> QED BY <1>2, <2>1 DEF Twin
<1>4. CASE Mirrors(m, c)
  <2> PICK x \in c.words : x.linked /\ m.of = x.to
    BY <1>4, MirrorsKey
  <2> QED BY <1>2 DEF Twin, Links
<1> QED BY <1>1, <1>3, <1>4

\* Rows that had no twin get none from rows with a new number, nor these from them.
LEMMA NoTwinsAdded ==
  ASSUME Types, NoTwins, NEW c \in CallType, c.v \notin Links(c.words),
         \A w, x \in c.words : w.to = x.to => w = x,
         c.n # 0, \A r \in rows : r.by # c.n,
         \A r \in rows : ~r.linked => r.by # 0,
         NEW Old,
         \A r \in Old : r \in rows \/ (r.linked /\ r.by # c.n),
         \A r \in Old, m \in Old : ~r.linked => ~Twin(m, r),
         rows' = Old \cup Both(c.v, c.words, c.n)
  PROVE  NoTwins'
<1> SUFFICES ASSUME NEW r \in rows', NEW m \in rows', ~r.linked PROVE ~Twin(m, r)
  BY DEF NoTwins
<1>1. CASE r \in Old /\ m \in Old
  BY <1>1
<1>2. CASE r \in Old /\ m \in Both(c.v, c.words, c.n)
  BY <1>2, BothMirrored DEF Twin
<1>3. CASE r \in Both(c.v, c.words, c.n) /\ m \in Old
  BY <1>3, BothMirrored DEF Twin
<1>4. CASE r \in Both(c.v, c.words, c.n) /\ m \in Both(c.v, c.words, c.n)
  BY <1>4, BothNoTwins
<1> QED BY <1>1, <1>2, <1>3, <1>4

\* An upsert takes away the links of its entry with their mirrors: it has seen
\* every link of the entry, or an upgrade has been recorded.
LEMMA WrittenMirrored ==
  ASSUME Types, LinksMirrored, NEW c \in CallType, c.v \notin Links(c.words),
         c.pc = "lock2", SeesAll(c, rows, raced), rows' = Written(c), UNCHANGED raced
  PROVE  LinksMirrored'
<1> DEFINE B == Both(c.v, c.words, c.n)
           G == Links(c.seen) \cup Links(c.words)
           Kept == rows \ (RowsOf(c.v) \cup UNION {Pair(c.v, b) : b \in G})
<1>1. rows' = Kept \cup B
  BY DEF Written
<1>2. \A r \in Kept : r \in rows /\ r.of # c.v /\ (r.linked => \A b \in G : {r.of, r.to} # {c.v, b})
  BY DEF RowsOf, Pair
<1>3. \A r \in rows : r.of # c.v /\ (r.linked => \A b \in G : {r.of, r.to} # {c.v, b}) => r \in Kept
  BY DEF RowsOf, Pair
<1>4. ASSUME NEW r \in B, r.linked PROVE r.of # r.to /\ LinkedBack(r, B)
  BY <1>4, BothMirrored
<1>5. ASSUME NEW r \in Kept, r.linked
      PROVE  r.of # r.to /\ ({r.of, r.to} \in raced \/ LinkedBack(r, Kept))
  <2>1. r \in rows /\ r.of # r.to
    BY <1>2, <1>5 DEF LinksMirrored
  <2>2. SUFFICES ASSUME {r.of, r.to} \notin raced PROVE LinkedBack(r, Kept)
    BY <2>1
  <2>3. PICK m \in rows : m.of = r.to /\ m.to = r.of /\ m.linked /\ m.rel = r.rel
    BY <1>5, <2>1, <2>2 DEF LinksMirrored
  <2>4. {m.of, m.to} = {r.of, r.to}
    BY <2>3
  <2>5. m.of # c.v
    <3> SUFFICES ASSUME m.of = c.v PROVE FALSE
      OBVIOUS
    <3>1. m.to \in Links(c.seen)
      BY <2>2, <2>3, <2>4 DEF SeesAll
    <3>2. {r.of, r.to} = {c.v, m.to}
      BY <2>4
    <3> QED BY <1>2, <1>5, <3>1, <3>2
  <2>6. \A b \in G : {m.of, m.to} # {c.v, b}
    BY <1>2, <1>5, <2>4
  <2>7. m \in Kept
    BY <1>3, <2>5, <2>6
  <2> QED BY <2>3, <2>7 DEF LinkedBack
<1> HIDE DEF Kept, B
<1>6. ASSUME NEW r \in rows', r.linked
      PROVE  r.of # r.to /\ ({r.of, r.to} \in raced \/ LinkedBack(r, rows'))
  BY <1>1, <1>4, <1>5, <1>6 DEF LinkedBack
<1> QED BY <1>6 DEF LinksMirrored, LinkedBack

LEMMA UpgradedPair ==
  ASSUME NEW c \in CallType, NEW old \in c.seen
  PROVE  \E link, back \in Upgraded(c) :
           /\ link = [of |-> old.of, to |-> old.to, linked |-> TRUE, rel |-> old.rel, by |-> old.by]
           /\ back = [of |-> c.v, to |-> old.of, linked |-> TRUE, rel |-> old.rel, by |-> 0]
<1>1. old \in Relation
  BY DEF CallType
<1> PICK link : link = [old EXCEPT !.linked = TRUE]
  OBVIOUS
<1> PICK back : back = [old EXCEPT !.of = c.v, !.to = old.of, !.linked = TRUE, !.by = 0]
  OBVIOUS
<1>2. link \in Upgraded(c) /\ back \in Upgraded(c)
  BY Zenon DEF Upgraded
<1>3. /\ link = [of |-> old.of, to |-> old.to, linked |-> TRUE, rel |-> old.rel, by |-> old.by]
      /\ back = [of |-> c.v, to |-> old.of, linked |-> TRUE, rel |-> old.rel, by |-> 0]
  BY <1>1, Relinked
<1> QED BY <1>2, <1>3

\* The commit of a creation adds each link with its mirror.
LEMMA CreatedMirrored ==
  ASSUME Types, LinksMirrored, RowsStored, NEW c \in CallType, c.v \in Ids, c.v \notin Links(c.words),
         vocabs[c.v] = "new", c.seen \subseteq rows, \A r \in c.seen : ~r.linked /\ r.to = c.v,
         rows' = (rows \ c.seen) \cup Upgraded(c) \cup Both(c.v, c.words, c.n), raced \subseteq raced'
  PROVE  LinksMirrored'
<1> DEFINE B == Both(c.v, c.words, c.n)
           U == Upgraded(c)
           Kept == rows \ c.seen
<1>1. ASSUME NEW r \in B, r.linked PROVE r.of # r.to /\ LinkedBack(r, B)
  BY <1>1, BothMirrored
<1>2. ASSUME NEW old \in c.seen
      PROVE  /\ old.of # c.v
             /\ \E link, back \in U :
                  /\ link = [of |-> old.of, to |-> old.to, linked |-> TRUE, rel |-> old.rel, by |-> old.by]
                  /\ back = [of |-> c.v, to |-> old.of, linked |-> TRUE, rel |-> old.rel, by |-> 0]
  <2>1. old \in rows /\ old \in Relation /\ old.of \in Stored
    BY <1>2 DEF Types, RowsStored
  <2>2. old.of # c.v
    BY <2>1 DEF Stored
  <2> QED BY <2>2, UpgradedPair DEF U
<1>3. \A r \in U : BecomesLink(r, c) \/ LinksBack(r, c)
  BY UpgradedRows DEF U
<1> HIDE DEF B, U
<1>4. ASSUME NEW r \in U PROVE r.linked /\ r.of # r.to /\ LinkedBack(r, U)
  <2>1. CASE BecomesLink(r, c)
    <3> PICK old \in c.seen : r = [of |-> old.of, to |-> old.to, linked |-> TRUE, rel |-> old.rel, by |-> old.by]
      BY <2>1 DEF BecomesLink
    <3>1. PICK m \in U : m = [of |-> c.v, to |-> old.of, linked |-> TRUE, rel |-> old.rel, by |-> 0]
      BY <1>2
    <3>2. m.of = c.v /\ m.to = old.of /\ m.linked /\ m.rel = old.rel
      BY <3>1
    <3> QED BY <1>2, <3>2 DEF LinkedBack
  <2>2. CASE LinksBack(r, c)
    <3> PICK old \in c.seen : r = [of |-> c.v, to |-> old.of, linked |-> TRUE, rel |-> old.rel, by |-> 0]
      BY <2>2 DEF LinksBack
    <3>1. PICK m \in U : m = [of |-> old.of, to |-> old.to, linked |-> TRUE, rel |-> old.rel, by |-> old.by]
      BY <1>2
    <3>2. m.of = old.of /\ m.to = c.v /\ m.linked /\ m.rel = old.rel
      BY <3>1
    <3> QED BY <1>2, <3>2 DEF LinkedBack
  <2> QED BY <1>3, <2>1, <2>2
<1>5. ASSUME NEW r \in Kept, r.linked
      PROVE  r.of # r.to /\ ({r.of, r.to} \in raced \/ LinkedBack(r, Kept))
  <2>1. r \in rows /\ r.of # r.to
    BY <1>5 DEF LinksMirrored
  <2>2. SUFFICES ASSUME {r.of, r.to} \notin raced PROVE LinkedBack(r, Kept)
    BY <2>1
  <2>3. PICK m \in rows : m.of = r.to /\ m.to = r.of /\ m.linked /\ m.rel = r.rel
    BY <1>5, <2>1, <2>2 DEF LinksMirrored
  <2>4. m \in Kept
    BY <2>3
  <2> QED BY <2>3, <2>4 DEF LinkedBack
<1>6. rows' = Kept \cup U \cup B
  BY DEF U, B
<1> HIDE DEF Kept
<1>7. ASSUME NEW r \in rows', r.linked
      PROVE  r.of # r.to /\ ({r.of, r.to} \in raced' \/ LinkedBack(r, rows'))
  BY <1>1, <1>4, <1>5, <1>6, <1>7 DEF LinkedBack
<1> QED BY <1>7 DEF LinksMirrored, LinkedBack

-----------------------------------------------------------------------------
(* The steps, once more.                                                    *)

LEMMA MirrorStep ==
  ASSUME Inv, Inv', MirrorInv, NEW p \in Procs, NEW c \in CallType, Becomes(p, c),
         \/ ops' = ops /\ (c.pc # "idle" => procs[p].pc # "idle" /\ c.n = procs[p].n)
         \/ ops' = ops + 1 /\ c.n = ops + 1,
         \A r \in c.seen : r \in rows \/ r \in procs[p].seen,
         \A r \in rows' : \/ \E s \in rows : r.by = s.by /\ (~r.linked => ~s.linked)
                          \/ r.by = 0 /\ r.linked
                          \/ procs[p].pc # "idle" /\ c.pc = "idle" /\ r.by = procs[p].n,
         LinksMirrored', NoTwins',
         \A q \in Procs \ {p}, a \in Ids : locks[a] = q => locks'[a] = q,
         \A i \in Ids : vocabs'[i] = "new" => vocabs[i] = "new",
         raced \subseteq raced',
         \A q \in Procs \ {p} : procs[q].pc = "lock2" =>
           \A r \in rows' : r.of = procs[q].v => r \in rows \/ (r.linked /\ {r.of, r.to} \in raced'),
         \A q \in Procs \ {p} : procs[q].pc = "pair" =>
           \A r \in procs[q].seen, m \in rows' : ~r.linked /\ Twin(m, r) => m \in rows \/ {r.of, r.to} \in raced',
         HasLocks(c, p, locks'), Begun(c, vocabs'), SeesAll(c, rows', raced'), Noticed(c, rows', raced')
  PROVE  MirrorInv'
<1>1. Types /\ Types' /\ Numbers /\ \A q \in Procs : CallFits(procs[q], q)
  BY DEF Inv, MirrorInv
<1>2. Numbers'
  BY <1>1, NumbersStep
<1>3. \A q \in Procs \ {p} : CallFits(procs[q], q)'
  BY <1>1, OthersFit
<1>4. procs'[p] = c
  BY DEF Becomes
<1>5. CallFits(procs[p], p)'
  BY <1>4 DEF CallFits
<1>6. \A q \in Procs : CallFits(procs[q], q)'
  BY <1>3, <1>5
<1> QED BY <1>2, <1>6 DEF MirrorInv

\* Nothing is written: a request starts, reads, or takes a lock.
LEMMA MirrorQuiet ==
  ASSUME Inv, Inv', MirrorInv, NEW p \in Procs, NEW c \in CallType, Becomes(p, c),
         UNCHANGED <<vocabs, rows, raced>>,
         \/ ops' = ops /\ (c.pc # "idle" => procs[p].pc # "idle" /\ c.n = procs[p].n)
         \/ ops' = ops + 1 /\ c.n = ops + 1,
         \A r \in c.seen : r \in rows \/ r \in procs[p].seen,
         \A q \in Procs \ {p}, a \in Ids : locks[a] = q => locks'[a] = q,
         HasLocks(c, p, locks'), Begun(c, vocabs), SeesAll(c, rows, raced), Noticed(c, rows, raced)
  PROVE  MirrorInv'
<1>1. LinksMirrored' /\ NoTwins'
  BY DEF MirrorInv, LinksMirrored, NoTwins
<1>2. Begun(c, vocabs') /\ SeesAll(c, rows', raced') /\ Noticed(c, rows', raced')
  BY DEF Begun, SeesAll, Noticed
<1>3. \A r \in rows' : \E s \in rows : r.by = s.by /\ (~r.linked => ~s.linked)
  OBVIOUS
<1> QED BY <1>1, <1>2, <1>3, MirrorStep

LEMMA MirrorEnds ==
  ASSUME Inv, Inv', MirrorInv, NEW p \in Procs, End(p), UNCHANGED ops,
         \A r \in rows' : \/ \E s \in rows : r.by = s.by /\ (~r.linked => ~s.linked)
                          \/ r.by = 0 /\ r.linked
                          \/ procs[p].pc # "idle" /\ r.by = procs[p].n,
         LinksMirrored', NoTwins',
         \A i \in Ids : vocabs'[i] = "new" => vocabs[i] = "new",
         raced \subseteq raced',
         \A q \in Procs \ {p} : procs[q].pc = "lock2" =>
           \A r \in rows' : r.of = procs[q].v => r \in rows \/ (r.linked /\ {r.of, r.to} \in raced'),
         \A q \in Procs \ {p} : procs[q].pc = "pair" =>
           \A r \in procs[q].seen, m \in rows' : ~r.linked /\ Twin(m, r) => m \in rows \/ {r.of, r.to} \in raced'
  PROVE  MirrorInv'
<1>1. NoCall \in CallType /\ NoCall.pc = "idle" /\ NoCall.seen = {}
  BY DEF NoCall, CallType
<1>2. Becomes(p, NoCall)
  BY <1>1, BecomesCall DEF Inv, End
<1>3. \A q \in Procs \ {p}, a \in Ids : locks[a] = q => locks'[a] = q
  BY DEF End, Release
<1>4. /\ HasLocks(NoCall, p, locks') /\ Begun(NoCall, vocabs')
      /\ SeesAll(NoCall, rows', raced') /\ Noticed(NoCall, rows', raced')
  BY <1>1 DEF HasLocks, Begun, SeesAll, Noticed, Creating
<1> HIDE DEF NoCall
<1> QED BY <1>1, <1>2, <1>3, <1>4, MirrorStep

LEMMA RollbackMirror ==
  ASSUME Inv, Inv', MirrorInv, NEW p \in Procs, Rollback(p)
  PROVE  MirrorInv'
<1>1. End(p) /\ UNCHANGED <<vocabs, rows, ops, raced>>
  BY DEF Rollback
<1>2. LinksMirrored' /\ NoTwins'
  BY <1>1 DEF MirrorInv, LinksMirrored, NoTwins
<1>3. \A r \in rows' : \E s \in rows : r.by = s.by /\ (~r.linked => ~s.linked)
  BY <1>1
<1> QED BY <1>1, <1>2, <1>3, MirrorEnds

LEMMA StartFacts ==
  ASSUME Inv, NEW p \in Procs, NEW pc \in {"lock", "pair", "new"}, NEW v \in Ids, NEW words \in SUBSET Word,
         NEW want \in SUBSET Ids, NEW seen \in SUBSET Relation, Start(p, Call(pc, v, words, want, seen))
  PROVE  \E c \in CallType : /\ Becomes(p, c) /\ c.pc = pc /\ c.v = v /\ c.words = words
                             /\ c.want = want /\ c.seen = seen /\ c.n = ops + 1 /\ ops' = ops + 1
<1> DEFINE c == Call(pc, v, words, want, seen)
<1>1. ops \in Nat
  BY DEF Inv, Types
<1>2. /\ c \in CallType /\ c.pc = pc /\ c.v = v /\ c.words = words
      /\ c.want = want /\ c.seen = seen /\ c.n = ops + 1
  BY <1>1, RelatedAssumption DEF Call, CallType
<1>3. Become(p, c) /\ ops' = ops + 1
  BY DEF Start
<1> HIDE DEF c
<1>4. Becomes(p, c)
  BY <1>2, <1>3, BecomesCall DEF Inv
<1> QED BY <1>2, <1>3, <1>4

LEMMA UpsertMirror ==
  ASSUME Inv, Inv', MirrorInv, NEW p \in Procs, Upsert(p) \/ CsvRelated(p)
  PROVE  MirrorInv'
<1>1. PICK v \in Stored, ws \in WordSets, want \in SUBSET Ids :
        /\ Start(p, Call("lock", v, ws, want, {}))
        /\ {v} \cup Links(ws) \subseteq want
        /\ UNCHANGED <<vocabs, rows, locks, raced>>
  <2>1. CASE Upsert(p)
    <3> PICK v \in Stored, ws \in WordSets :
          /\ ValidWords(v, ws) /\ LinkedInFolder(ws)
          /\ Start(p, Call("lock", v, ws, {v} \cup Links(ws), {}))
          /\ UNCHANGED <<vocabs, rows, locks, raced>>
      BY <2>1 DEF Upsert
    <3>1. {v} \cup Links(ws) \in SUBSET Ids
      BY DEF LinkedInFolder, Stored
    <3> QED BY <3>1
  <2>2. CASE CsvRelated(p)
    <3> PICK v \in Stored, ws \in WordSets :
          /\ ws # {} /\ Links(ws) = {}
          /\ Start(p, Call("lock", v, ws, {v}, {}))
          /\ UNCHANGED <<vocabs, rows, locks, raced>>
      BY <2>2 DEF CsvRelated
    <3>1. {v} \in SUBSET Ids
      BY DEF Stored
    <3> QED BY <3>1
  <2> QED BY <2>1, <2>2
<1>2. v \in Ids /\ vocabs[v] = "stored" /\ ws \in SUBSET Word
  BY WordSetsWords DEF Stored
<1>3. PICK c \in CallType : /\ Becomes(p, c) /\ c.pc = "lock" /\ c.v = v /\ c.words = ws
                            /\ c.want = want /\ c.seen = {} /\ c.n = ops + 1 /\ ops' = ops + 1
  BY <1>1, <1>2, StartFacts
<1>4. HasLocks(c, p, locks') /\ Begun(c, vocabs) /\ SeesAll(c, rows, raced) /\ Noticed(c, rows, raced)
  BY <1>1, <1>2, <1>3 DEF HasLocks, Begun, SeesAll, Noticed, Creating
<1>5. locks' = locks /\ UNCHANGED <<vocabs, rows, raced>>
  BY <1>1
<1> QED BY <1>3, <1>4, <1>5, MirrorQuiet

LEMMA FindPairMirror ==
  ASSUME Inv, Inv', MirrorInv, NEW p \in Procs, FindPair(p)
  PROVE  MirrorInv'
<1> PICK r \in rows :
      /\ Start(p, Call("pair", r.of, {}, IF r.linked THEN {r.of, r.to} ELSE {r.of}, {r}))
      /\ UNCHANGED <<vocabs, rows, locks, raced>>
  BY DEF FindPair
<1>1. r \in Relation /\ r.of \in Stored
  BY DEF Inv, Types, RowsStored
<1>2. r.of \in Ids /\ r.to \in Ids /\ vocabs[r.of] = "stored"
  BY <1>1 DEF Relation, Stored
<1>3. PICK c \in CallType : /\ Becomes(p, c) /\ c.pc = "pair" /\ c.v = r.of /\ c.words = {}
                            /\ c.seen = {r} /\ c.n = ops + 1 /\ ops' = ops + 1
  BY <1>1, <1>2, StartFacts
<1>4. Noticed(c, rows, raced)
  BY <1>3 DEF Noticed, MirrorInv, NoTwins
<1>5. HasLocks(c, p, locks') /\ Begun(c, vocabs) /\ SeesAll(c, rows, raced)
  BY <1>2, <1>3 DEF HasLocks, Begun, SeesAll, Creating
<1> QED BY <1>3, <1>4, <1>5, MirrorQuiet

LEMMA CreateMirror ==
  ASSUME Inv, Inv', MirrorInv, NEW p \in Procs, Create(p)
  PROVE  MirrorInv'
<1> PICK v \in Ids, ws \in WordSets :
      /\ LinkedInFolder(ws)
      /\ Start(p, Call("new", v, ws, IF ws = {} THEN {} ELSE {v} \cup Links(ws), {}))
      /\ UNCHANGED <<vocabs, rows, locks, raced>>
  BY DEF Create
<1> PICK want : want = IF ws = {} THEN {} ELSE {v} \cup Links(ws)
  OBVIOUS
<1>1. want \in SUBSET Ids /\ ws \in SUBSET Word
  BY WordSetsWords DEF LinkedInFolder, Stored
<1>2. PICK c \in CallType : /\ Becomes(p, c) /\ c.pc = "new" /\ c.v = v /\ c.words = ws
                            /\ c.want = want /\ c.seen = {} /\ c.n = ops + 1 /\ ops' = ops + 1
  BY <1>1, StartFacts
<1>3. HasLocks(c, p, locks') /\ Begun(c, vocabs) /\ SeesAll(c, rows, raced) /\ Noticed(c, rows, raced)
  BY <1>2 DEF HasLocks, Begun, SeesAll, Noticed, Creating
<1> QED BY <1>2, <1>3, MirrorQuiet

LEMMA LockMirror ==
  ASSUME Inv, Inv', MirrorInv, NEW p \in Procs, Lock(p)
  PROVE  MirrorInv'
<1> PICK a \in NextLock(procs[p].want) :
      /\ locks[a] = NoProc
      /\ locks' = [locks EXCEPT ![a] = p]
      /\ Become(p, [procs[p] EXCEPT !.want = @ \ {a}])
      /\ UNCHANGED <<vocabs, rows, ops, raced>>
  BY DEF Lock
<1> PICK c : c = [procs[p] EXCEPT !.want = @ \ {a}]
  OBVIOUS
<1>1. procs[p] \in CallType /\ a \in procs[p].want /\ a \in Ids
  BY DEF Inv, Types, NextLock, CallType
<1>2. /\ c \in CallType /\ c.pc = procs[p].pc /\ c.v = procs[p].v /\ c.n = procs[p].n
      /\ c.words = procs[p].words /\ c.seen = procs[p].seen /\ c.want = procs[p].want \ {a}
  BY <1>1 DEF CallType
<1>3. Becomes(p, c)
  BY <1>2, BecomesCall DEF Inv
<1>4. procs[p].pc # "idle" /\ locks \in [Ids -> Procs \cup {NoProc}]
  BY <1>1 DEF Inv, Types
<1>5. \A i \in Ids : locks'[i] = IF i = a THEN p ELSE locks[i]
  BY <1>4
<1>6. CallFits(procs[p], p)
  BY DEF MirrorInv
<1>7. /\ Begun(c, vocabs) /\ SeesAll(c, rows, raced) /\ Noticed(c, rows, raced)
  BY <1>2, <1>6 DEF CallFits, Begun, SeesAll, Noticed
<1>8. HasLocks(c, p, locks')
  <2>1. HasLocks(procs[p], p, locks)
    BY <1>6 DEF CallFits
  <2>2. {c.v} \cup Links(c.words) \subseteq Ids
    BY <1>1, <1>2, <1>4 DEF Links, CallType, Word, Inv, Types
  <2> QED BY <1>1, <1>2, <1>5, <2>1, <2>2, RelatedAssumption DEF HasLocks, Creating
<1>9. \A q \in Procs \ {p}, i \in Ids : locks[i] = q => locks'[i] = q
  BY <1>5, RelatedAssumption
<1> QED BY <1>2, <1>3, <1>4, <1>7, <1>8, <1>9, MirrorQuiet

LEMMA ReadNeighboursMirror ==
  ASSUME Inv, Inv', MirrorInv, NEW p \in Procs, ReadNeighbours(p)
  PROVE  MirrorInv'
<1> PICK c : c = [procs[p] EXCEPT !.pc = "lock2", !.seen = RowsOf(procs[p].v),
                   !.want = Links(RowsOf(procs[p].v)) \ ({procs[p].v} \cup Links(procs[p].words))]
  OBVIOUS
<1>1. procs[p] \in CallType /\ procs[p].pc = "lock" /\ procs[p].want = {}
  BY DEF Inv, Types, ReadNeighbours
<1>2. Become(p, c) /\ UNCHANGED <<vocabs, rows, locks, ops, raced>>
  BY DEF ReadNeighbours
<1>3. RowsOf(procs[p].v) \in SUBSET Relation /\ Links(RowsOf(procs[p].v)) \in SUBSET Ids
  BY DEF RowsOf, Inv, Types, Links, Relation
<1>4. /\ c \in CallType /\ c.pc = "lock2" /\ c.v = procs[p].v /\ c.words = procs[p].words
      /\ c.seen = RowsOf(procs[p].v) /\ c.n = procs[p].n
  BY <1>1, <1>3 DEF CallType
<1>5. Becomes(p, c)
  BY <1>2, <1>4, BecomesCall DEF Inv
<1>6. HasLocks(procs[p], p, locks) /\ Begun(procs[p], vocabs)
  BY DEF MirrorInv, CallFits
<1>7. HasLocks(c, p, locks') /\ Begun(c, vocabs) /\ Noticed(c, rows, raced)
  BY <1>1, <1>2, <1>4, <1>6 DEF HasLocks, Begun, Noticed, Creating
<1>8. SeesAll(c, rows, raced)
  BY <1>4 DEF SeesAll, RowsOf, Links
<1>9. \A r \in c.seen : r \in rows
  BY <1>4 DEF RowsOf
<1> QED BY <1>1, <1>2, <1>4, <1>5, <1>7, <1>8, <1>9, MirrorQuiet

LEMMA ReadMatchingMirror ==
  ASSUME Inv, Inv', MirrorInv, NEW p \in Procs, ReadMatching(p)
  PROVE  MirrorInv'
<1> PICK seen : seen = {r \in rows : ~r.linked /\ r.to = procs[p].v}
  OBVIOUS
<1> PICK c : c = [procs[p] EXCEPT !.pc = "upgrade", !.seen = seen]
  OBVIOUS
<1>1. procs[p] \in CallType /\ procs[p].pc = "new" /\ procs[p].want = {}
  BY DEF Inv, Types, ReadMatching
<1>2. Become(p, c) /\ UNCHANGED <<vocabs, rows, locks, ops, raced>>
  BY DEF ReadMatching
<1>3. seen \in SUBSET Relation /\ seen \subseteq rows
  BY DEF Inv, Types
<1>4. /\ c \in CallType /\ c.pc = "upgrade" /\ c.v = procs[p].v /\ c.words = procs[p].words
      /\ c.want = {} /\ c.seen = seen /\ c.n = procs[p].n
  BY <1>1, <1>3 DEF CallType
<1>5. Becomes(p, c)
  BY <1>2, <1>4, BecomesCall DEF Inv
<1>6. HasLocks(procs[p], p, locks)
  BY DEF MirrorInv, CallFits
<1>7. HasLocks(c, p, locks') /\ Begun(c, vocabs) /\ Noticed(c, rows, raced) /\ SeesAll(c, rows, raced)
  BY <1>1, <1>2, <1>4, <1>6 DEF HasLocks, Begun, Noticed, SeesAll, Creating
<1>8. \A r \in c.seen : r \in rows
  BY <1>3, <1>4
<1> QED BY <1>1, <1>2, <1>4, <1>5, <1>7, <1>8, MirrorQuiet

\* Whoever has read the neighbours of an entry holds its lock.
LEMMA ReaderHolds ==
  ASSUME Inv, MirrorInv, NEW q \in Procs, procs[q].pc = "lock2"
  PROVE  locks[procs[q].v] = q
BY DEF MirrorInv, CallFits, HasLocks

LEMMA WriteMirror ==
  ASSUME Inv, Inv', MirrorInv, NEW p \in Procs, Write(p)
  PROVE  MirrorInv'
<1>1. CASE Rollback(p)
  BY <1>1, RollbackMirror
<1>2. CASE /\ procs[p].pc = "lock2" /\ ~Refused(procs[p]) /\ rows' = Written(procs[p])
           /\ End(p) /\ UNCHANGED <<vocabs, ops, raced>>
  <2> PICK c : c = procs[p]
    OBVIOUS
  <2>1. /\ c \in CallType /\ c.v \in Ids /\ c.v \notin Links(c.words)
        /\ \A w, x \in c.words : w.to = x.to => w = x
    BY <1>2 DEF Inv, Types, Known, CallKnows, Refused
  <2>2. Fresh(p) /\ CallFits(c, p) /\ NoTwins /\ LinksMirrored /\ Types /\ Numbers
    BY <1>2 DEF MirrorInv, Numbers, Inv
  <2>3. LinksMirrored'
    BY <1>2, <2>1, <2>2, WrittenMirrored DEF CallFits
  <2>4. PICK Kept : rows' = Kept \cup Both(c.v, c.words, c.n) /\ Kept \subseteq rows
    BY <1>2 DEF Written
  <2>5. NoTwins'
    <3>1. c.n # 0 /\ \A r \in rows : r.by # c.n
      BY <2>2 DEF Fresh
    <3>2. \A r \in rows : ~r.linked => r.by # 0
      BY <2>2 DEF Numbers
    <3>3. \A r, m \in Kept : ~r.linked => ~Twin(m, r)
      BY <2>2, <2>4 DEF NoTwins
    <3> QED BY <2>1, <2>2, <2>4, <3>1, <3>2, <3>3, NoTwinsAdded
  <2>6. \A r \in Both(c.v, c.words, c.n) : r.by = c.n
    BY <2>1, BothMirrored
  <2>7. \A r \in rows' : (\E s \in rows : r.by = s.by /\ (~r.linked => ~s.linked)) \/ r.by = c.n
    BY <2>4, <2>6
  <2>8. ASSUME NEW q \in Procs \ {p}, procs[q].pc = "lock2", NEW r \in rows', r.of = procs[q].v
        PROVE  r \in rows
    <3>1. locks[procs[q].v] = q
      BY <2>8, ReaderHolds
    <3>2. locks[c.v] = p /\ \A a \in Links(c.words) : locks[a] = p
      BY <1>2, <2>2 DEF CallFits, HasLocks
    <3>3. r.of # c.v /\ r.of \notin Links(c.words)
      BY <2>8, <3>1, <3>2
    <3>4. ~Lists(r, c) /\ ~Mirrors(r, c)
      <4>1. ~Lists(r, c)
        BY <2>1, <3>3, ListsKey
      <4>2. SUFFICES ASSUME Mirrors(r, c) PROVE FALSE
        BY <4>1
      <4>3. PICK w \in c.words : w.linked /\ r.of = w.to
        BY <2>1, <4>2, MirrorsKey
      <4> QED BY <3>3, <4>3 DEF Links
    <3> QED BY <2>1, <2>4, <3>4, BothRows
  <2>9. ASSUME NEW q \in Procs \ {p}, NEW r \in procs[q].seen, NEW m \in rows', Twin(m, r)
        PROVE  m \in rows
    <3>1. m.by # c.n
      BY <2>2, <2>9 DEF Fresh, Twin
    <3> QED BY <2>4, <2>6, <2>9, <3>1
  <2> QED BY <1>2, <2>3, <2>5, <2>7, <2>8, <2>9, MirrorEnds
<1> QED BY <1>1, <1>2 DEF Write

LEMMA DeletePairMirror ==
  ASSUME Inv, Inv', MirrorInv, NEW p \in Procs, DeletePair(p)
  PROVE  MirrorInv'
<1> PICK c : c = procs[p]
  OBVIOUS
<1>1. /\ c.pc = "pair" /\ rows' = rows \ UNION {Deleted(r) : r \in c.seen}
      /\ End(p) /\ UNCHANGED <<vocabs, ops, raced>>
  BY DEF DeletePair
<1>2. rows' \subseteq rows /\ c \in CallType /\ Noticed(c, rows, raced) /\ LinksMirrored
  BY <1>1 DEF MirrorInv, CallFits, Inv, Types
\* A link goes with its mirror.
<1>3. ASSUME NEW r \in c.seen, NEW m \in Deleted(r), m \in rows, m.linked, {m.of, m.to} \notin raced,
             NEW k \in rows, k.linked, k.of = m.to, k.to = m.of
      PROVE  k \in Deleted(r)
  <2>1. r \in Relation
    BY <1>2 DEF CallType
  <2>2. CASE r.linked
    <3>1. {k.of, k.to} = {m.of, m.to}
      BY <1>3
    <3> QED BY <1>3, <2>2, <3>1 DEF Deleted, Pair
  <2>3. CASE ~r.linked
    <3>1. m \in Now(r)
      BY <1>3, <2>3 DEF Deleted
    <3>2. CASE r \in rows
      BY <1>3, <2>3, <3>1, <3>2 DEF Now
    <3>3. CASE r \notin rows
      <4> PICK link : link = [r EXCEPT !.linked = TRUE]
        OBVIOUS
      <4>1. Twin(link, r)
        BY <2>1 DEF Twin, Relation
      <4>2. m = link
        BY <3>1, <3>3, Zenon DEF Now
      <4>3. {r.of, r.to} \in raced /\ m.of = r.of /\ m.to = r.to
        BY <1>1, <1>2, <1>3, <2>3, <4>1, <4>2 DEF Noticed, Twin
      <4> QED BY <1>3, <4>3
    <3> QED BY <3>2, <3>3
  <2> QED BY <2>2, <2>3
<1>4. ASSUME NEW k \in rows', k.linked
      PROVE  k.of # k.to /\ ({k.of, k.to} \in raced \/ LinkedBack(k, rows'))
  <2>1. k \in rows /\ k.of # k.to
    BY <1>2, <1>4 DEF LinksMirrored
  <2>2. SUFFICES ASSUME {k.of, k.to} \notin raced PROVE LinkedBack(k, rows')
    BY <2>1
  <2>3. PICK m \in rows : m.of = k.to /\ m.to = k.of /\ m.linked /\ m.rel = k.rel
    BY <1>2, <1>4, <2>1, <2>2 DEF LinksMirrored
  <2>4. {m.of, m.to} = {k.of, k.to}
    BY <2>3
  <2>5. \A r \in c.seen : m \notin Deleted(r)
    BY <1>1, <1>3, <1>4, <2>1, <2>2, <2>3, <2>4
  <2>6. m \in rows'
    BY <1>1, <2>5
  <2> QED BY <2>3, <2>6 DEF LinkedBack
<1>5. LinksMirrored'
  BY <1>1, <1>4 DEF LinksMirrored, LinkedBack
<1>6. NoTwins'
  BY <1>2 DEF MirrorInv, NoTwins
<1>7. \A r \in rows' : \E s \in rows : r.by = s.by /\ (~r.linked => ~s.linked)
  BY <1>2
<1> QED BY <1>1, <1>2, <1>5, <1>6, <1>7, MirrorEnds

\* The upgrades touch the rows of others without a lock; what those have read is
\* then recorded in raced.
LEMMA CommitCreationMirror ==
  ASSUME Inv, Inv', MirrorInv, NEW p \in Procs, CommitCreation(p)
  PROVE  MirrorInv'
<1>1. CASE Rollback(p)
  BY <1>1, RollbackMirror
<1>2. CASE /\ procs[p].pc = "upgrade" /\ ~CreationFails(procs[p])
           /\ vocabs' = [vocabs EXCEPT ![procs[p].v] = "stored"]
           /\ rows' = (rows \ procs[p].seen) \cup Upgraded(procs[p])
                      \cup Both(procs[p].v, procs[p].words, procs[p].n)
           /\ raced' = raced \cup Overlapped(procs[p])
           /\ End(p) /\ UNCHANGED ops
  <2> PICK c : c = procs[p]
    OBVIOUS
  <2>1. /\ c \in CallType /\ c.v \in Ids /\ c.v \notin Links(c.words) /\ vocabs[c.v] = "new"
        /\ \A w, x \in c.words : w.to = x.to => w = x
        /\ \A r \in c.seen : r \in rows /\ ~r.linked /\ r.to = c.v
    BY <1>2 DEF Inv, Types, Known, CallKnows, CreationFails, Links
  <2>2. /\ Fresh(p) /\ CallFits(c, p) /\ NoTwins /\ LinksMirrored /\ Types /\ Numbers /\ RowsStored
        /\ c.n # 0 /\ \A r \in rows : r.by # c.n
    BY <1>2 DEF MirrorInv, Numbers, Inv, Fresh
  <2>3. LinksMirrored'
    BY <1>2, <2>1, <2>2, CreatedMirrored
  <2>4. PICK Old : Old = (rows \ c.seen) \cup Upgraded(c)
    OBVIOUS
  <2>5. rows' = Old \cup Both(c.v, c.words, c.n)
    BY <1>2, <2>4
  <2>6. ASSUME NEW r \in Upgraded(c)
        PROVE  /\ r.linked
               /\ r.by = 0 \/ \E s \in c.seen : r.by = s.by
               /\ \/ r.by = 0 /\ r.of = c.v
                  \/ \E s \in c.seen : r.of = s.of /\ r.to = s.to /\ r.rel = s.rel /\ r.by = s.by
    <3>1. BecomesLink(r, c) \/ LinksBack(r, c)
      BY <2>1, UpgradedRows
    <3>2. CASE BecomesLink(r, c)
      BY <3>2 DEF BecomesLink
    <3>3. CASE LinksBack(r, c)
      BY <3>3 DEF LinksBack
    <3> QED BY <3>1, <3>2, <3>3
  <2>7. \A r \in Old : r \in rows \/ (r.linked /\ r.by # c.n)
    BY <2>1, <2>2, <2>4, <2>6
  <2>8. \A r \in rows : ~r.linked => r.by # 0
    BY <2>2 DEF Numbers
  \* A link that an upgrade makes of s is the twin of s alone, which is gone.
  <2>9. ASSUME NEW r \in Relation, ~r.linked, NEW s \in c.seen, NEW m,
               m.of = s.of, m.to = s.to, m.rel = s.rel, m.by = s.by, Twin(m, r)
        PROVE  r = s
    <3>1. s \in Relation /\ ~s.linked
      BY <2>1 DEF CallType
    <3>2. r.linked = s.linked
      BY <2>9, <3>1 DEF Relation
    <3>3. r.of = s.of /\ r.to = s.to /\ r.rel = s.rel /\ r.by = s.by
      BY <2>9 DEF Twin
    <3> QED BY <2>9, <3>1, <3>2, <3>3, SameRelation
  <2>10. ASSUME NEW r \in Old, NEW m \in Old, ~r.linked PROVE ~Twin(m, r)
    <3>1. r \in rows /\ r \in Relation /\ r \notin c.seen
      BY <2>2, <2>4, <2>6, <2>10 DEF Types
    <3>2. CASE m \in rows
      BY <2>2, <2>10, <3>1, <3>2 DEF NoTwins
    <3>3. CASE m \in Upgraded(c)
      BY <2>6, <2>8, <2>9, <2>10, <3>1, <3>3 DEF Twin
    <3> QED BY <2>4, <3>2, <3>3
  <2>11. NoTwins'
    BY <2>1, <2>2, <2>5, <2>7, <2>8, <2>10, NoTwinsAdded
  <2>12. \A r \in Both(c.v, c.words, c.n) : r.by = c.n
    BY <2>1, BothMirrored
  <2>13. \A r \in rows' : \/ \E s \in rows : r.by = s.by /\ (~r.linked => ~s.linked)
                          \/ r.by = 0 /\ r.linked
                          \/ procs[p].pc # "idle" /\ r.by = procs[p].n
    BY <1>2, <2>1, <2>4, <2>5, <2>6, <2>12
  <2>14. \A i \in Ids : vocabs'[i] = "new" => vocabs[i] = "new"
    BY <1>2, <2>2 DEF Types
  <2>15. ASSUME NEW q \in Procs \ {p}, procs[q].pc = "lock2", NEW r \in rows', r.of = procs[q].v
         PROVE  r \in rows \/ (r.linked /\ {r.of, r.to} \in raced')
    <3>1. locks[procs[q].v] = q /\ vocabs[procs[q].v] # "new" /\ SeesAll(procs[q], rows, raced)
      BY <2>15, ReaderHolds DEF MirrorInv, CallFits, Begun
    <3>2. \A a \in Links(c.words) : locks[a] = p
      BY <1>2, <2>2 DEF CallFits, HasLocks, Creating, Links
    <3>3. r.of # c.v /\ r.of \notin Links(c.words)
      BY <2>1, <2>15, <3>1, <3>2
    <3>4. ~Lists(r, c) /\ ~Mirrors(r, c)
      <4>1. ~Lists(r, c)
        BY <2>1, <3>3, ListsKey
      <4>2. SUFFICES ASSUME Mirrors(r, c) PROVE FALSE
        BY <4>1
      <4>3. PICK w \in c.words : w.linked /\ r.of = w.to
        BY <2>1, <4>2, MirrorsKey
      <4> QED BY <3>3, <4>3 DEF Links
    <3>5. r \in Old
      BY <2>1, <2>5, <2>15, <3>4, BothRows
    <3>6. CASE r \in Upgraded(c)
      <4>1. PICK s \in c.seen : r.of = s.of /\ r.to = s.to
        BY <2>6, <3>3, <3>6
      <4>2. s \in procs[q].seen
        BY <2>1, <2>15, <3>1, <4>1 DEF SeesAll
      <4>3. {c.v, procs[q].v} \in Overlapped(c)
        BY <2>15, <4>2 DEF Overlapped
      <4>4. {r.of, r.to} = {c.v, procs[q].v}
        BY <2>1, <2>15, <4>1
      <4> QED BY <1>2, <2>6, <3>6, <4>3, <4>4
    <3> QED BY <2>4, <3>5, <3>6
  <2>16. ASSUME NEW q \in Procs \ {p}, procs[q].pc = "pair", NEW r \in procs[q].seen, NEW m \in rows',
                ~r.linked, Twin(m, r)
         PROVE  m \in rows \/ {r.of, r.to} \in raced'
    <3>1. m.by # c.n /\ r \in Relation /\ r.of = procs[q].v
      BY <2>2, <2>16 DEF Fresh, Twin, Types, CallType, MirrorInv, CallFits, Noticed
    <3>2. m \in Old
      BY <2>5, <2>12, <2>16, <3>1
    <3>3. CASE m \in Upgraded(c) /\ m.by # 0
      <4>1. PICK s \in c.seen : m.of = s.of /\ m.to = s.to /\ m.rel = s.rel /\ m.by = s.by
        BY <2>6, <3>3
      <4>2. r = s
        BY <2>9, <2>16, <3>1, <4>1
      <4>3. {c.v, procs[q].v} \in Overlapped(c)
        BY <2>16, <4>1, <4>2 DEF Overlapped
      <4>4. {r.of, r.to} = {c.v, procs[q].v}
        BY <2>1, <3>1, <4>1, <4>2
      <4> QED BY <1>2, <4>3, <4>4
    <3>4. CASE m \in Upgraded(c) /\ m.by = 0
      <4>1. r.by = 0
        BY <2>16, <3>4 DEF Twin
      <4>2. r.by # 0
        BY <2>2, <2>16 DEF Numbers
      <4> QED BY <4>1, <4>2
    <3> QED BY <2>4, <3>2, <3>3, <3>4
  <2> QED BY <1>2, <2>3, <2>11, <2>13, <2>14, <2>15, <2>16, MirrorEnds
<1> QED BY <1>1, <1>2 DEF CommitCreation

LEMMA DeleteVocabMirror ==
  ASSUME Inv, Inv', MirrorInv, DeleteVocab
  PROVE  MirrorInv'
<1> PICK v \in Stored :
      /\ ops < MaxOps /\ ops' = ops + 1
      /\ vocabs' = [vocabs EXCEPT ![v] = "deleted"]
      /\ rows' = {r \in rows : r.of # v /\ ~(r.linked /\ r.to = v)}
      /\ UNCHANGED <<locks, procs, raced>>
  BY DEF DeleteVocab
<1>1. /\ rows' \subseteq rows /\ ops \in Nat
      /\ \A r \in rows : r.by \in Nat
      /\ \A q \in Procs : procs[q].n \in Nat /\ \A r \in procs[q].seen : r.by \in Nat
  BY DEF Inv, Types, Relation, CallType
<1>2. \A i \in Ids : vocabs'[i] = IF i = v THEN "deleted" ELSE vocabs[i]
  BY DEF Inv, Types
<1>3. LinksMirrored'
  BY DEF MirrorInv, LinksMirrored
<1>4. NoTwins'
  BY <1>1 DEF MirrorInv, NoTwins
<1>5. Numbers'
  BY <1>1 DEF MirrorInv, Numbers, Fresh
<1>6. ASSUME NEW q \in Procs PROVE CallFits(procs[q], q)'
  <2>1. HasLocks(procs[q], q, locks)'
    BY DEF MirrorInv, CallFits, HasLocks, Creating
  <2>2. Begun(procs[q], vocabs)'
    BY <1>2 DEF MirrorInv, CallFits, Begun, Inv, Types
  <2>3. SeesAll(procs[q], rows, raced)'
    BY <1>1 DEF MirrorInv, CallFits, SeesAll
  <2>4. Noticed(procs[q], rows, raced)'
    BY <1>1 DEF MirrorInv, CallFits, Noticed
  <2> QED BY <2>1, <2>2, <2>3, <2>4 DEF CallFits
<1> QED BY <1>3, <1>4, <1>5, <1>6 DEF MirrorInv

LEMMA NextMirror == Inv /\ Inv' /\ MirrorInv /\ [Next]_vars => MirrorInv'
<1> SUFFICES ASSUME Inv, Inv', MirrorInv, [Next]_vars PROVE MirrorInv'
  OBVIOUS
<1>1. ASSUME NEW p \in Procs, Upsert(p) \/ CsvRelated(p) PROVE MirrorInv'
  BY <1>1, UpsertMirror
<1>2. ASSUME NEW p \in Procs, FindPair(p) PROVE MirrorInv'
  BY <1>2, FindPairMirror
<1>3. ASSUME NEW p \in Procs, Create(p) PROVE MirrorInv'
  BY <1>3, CreateMirror
<1>4. ASSUME NEW p \in Procs, TimedOut(p) \/ Victim(p) PROVE MirrorInv'
  BY <1>4, RollbackMirror DEF TimedOut, Victim
<1>5. ASSUME NEW p \in Procs, Lock(p) PROVE MirrorInv'
  BY <1>5, LockMirror
<1>6. ASSUME NEW p \in Procs, ReadNeighbours(p) PROVE MirrorInv'
  BY <1>6, ReadNeighboursMirror
<1>7. ASSUME NEW p \in Procs, Write(p) PROVE MirrorInv'
  BY <1>7, WriteMirror
<1>8. ASSUME NEW p \in Procs, DeletePair(p) PROVE MirrorInv'
  BY <1>8, DeletePairMirror
<1>9. ASSUME NEW p \in Procs, ReadMatching(p) PROVE MirrorInv'
  BY <1>9, ReadMatchingMirror
<1>10. ASSUME NEW p \in Procs, CommitCreation(p) PROVE MirrorInv'
  BY <1>10, CommitCreationMirror
<1>11. CASE DeleteVocab
  BY <1>11, DeleteVocabMirror
<1>12. CASE UNCHANGED vars
  <2>1. UNCHANGED <<vocabs, rows, locks, procs, ops, raced>>
    BY <1>12 DEF vars
  <2>2. LinksMirrored' /\ NoTwins' /\ Numbers'
    BY <2>1 DEF MirrorInv, LinksMirrored, NoTwins, Numbers, Fresh
  <2>3. \A p \in Procs : CallFits(procs[p], p)'
    BY <2>1 DEF MirrorInv, CallFits, HasLocks, Begun, SeesAll, Noticed, Creating
  <2> QED BY <2>2, <2>3 DEF MirrorInv
<1> QED BY <1>1, <1>2, <1>3, <1>4, <1>5, <1>6, <1>7, <1>8, <1>9, <1>10, <1>11, <1>12
        DEF Next, Serve

LEMMA MirrorAlways == Spec => []MirrorInv
<1> QED BY InvAlways, InitMirror, NextMirror, PTL DEF Spec

\* A link has its mirror, of the same kind, whatever requests, creations and
\* deletions interleave; unless a creation linked a text while a request that had
\* read it was under way.
THEOREM LinksMirroredCorrect == Spec => []LinksMirrored
<1> QED BY MirrorAlways, PTL DEF MirrorInv
(* The scripts. *)

Deeds == {"write", "put", "putNew", "drop", "find", "dropFound", "get", "query"}
Aspects ==
  {"vocab", "newVocab", "target", "targetRemoval", "related", "mastery", "cascade", "subject",
   "newSubject", "subjectName", "unnoticedSubject", "folder", "newFolder", "wordType", "newWordType",
   "language", "newLanguage", "account"}
StepType == [do : Deeds, keys : SUBSET Keys, aspects : SUBSET Aspects]
Asks == {"write", "get", "query"}   \* what the database, or an entry that is there, may end

\* Step i of the script s refreshes or drops the entry k, or looks for it to drop it.
Mends(s, i, k) == s[i].do \in {"put", "drop", "find"} /\ k \in s[i].keys
\* A search is followed by its deletion.
Paired(s) == \A i \in 1..Len(s) : s[i].do = "find" => i + 1 \in 1..Len(s) /\ s[i + 1].do = "dropFound"
Silent(s, i) == s[i].do \notin Asks /\ s[i].aspects = {}
Reaches(s, M) == \A k \in M : \E i \in 1..Len(s) : Mends(s, i, k)

\* A script that only sees to entries, to those of M among them.
Clears(s, M) == /\ s \in Seq(StepType) /\ Len(s) \in Nat /\ Paired(s) /\ Reaches(s, M)
                /\ \A i \in 1..Len(s) : Silent(s, i)
\* One that starts with a commit of A, and then does that.
Leads(s, A, M) == /\ s \in Seq(StepType) /\ Len(s) \in Nat \ {0} /\ Paired(s) /\ Reaches(s, M)
                  /\ s[1].do = "write" /\ s[1].aspects = A
                  /\ \A i \in 2..Len(s) : Silent(s, i)

LEMMA Joined ==
  ASSUME NEW s \in Seq(StepType), NEW t \in Seq(StepType)
  PROVE  /\ s \o t \in Seq(StepType) /\ Len(s) \in Nat /\ Len(t) \in Nat
         /\ Len(s \o t) = Len(s) + Len(t)
         /\ \A i \in 1..Len(s) : (s \o t)[i] = s[i]
         /\ \A i \in 1..Len(t) : (s \o t)[Len(s) + i] = t[i]
         /\ \A i \in 1..Len(s \o t) : i \notin 1..Len(s) => i - Len(s) \in 1..Len(t)
                                                            /\ (s \o t)[i] = t[i - Len(s)]
<1>1. Len(s) \in Nat /\ Len(t) \in Nat
  OBVIOUS
<1>2. s \o t \in Seq(StepType) /\ Len(s \o t) = Len(s) + Len(t)
  BY ConcatProperties
<1>3. \A i \in 1..(Len(s) + Len(t)) : (s \o t)[i] = IF i <= Len(s) THEN s[i] ELSE t[i - Len(s)]
  BY ConcatProperties
<1>4. \A i \in 1..Len(s) : (s \o t)[i] = s[i]
  BY <1>1, <1>3
<1>5. \A i \in 1..Len(t) : (s \o t)[Len(s) + i] = t[i]
  <2> TAKE i \in 1..Len(t)
  <2>1. Len(s) + i \in 1..(Len(s) + Len(t)) /\ ~(Len(s) + i <= Len(s)) /\ (Len(s) + i) - Len(s) = i
    BY <1>1
  <2> QED BY <1>3, <2>1
<1>6. \A i \in 1..Len(s \o t) : i \notin 1..Len(s) => i - Len(s) \in 1..Len(t)
                                                     /\ (s \o t)[i] = t[i - Len(s)]
  BY <1>1, <1>2, <1>3
<1> QED BY <1>1, <1>2, <1>4, <1>5, <1>6

LEMMA PairedJoin ==
  ASSUME NEW s \in Seq(StepType), NEW t \in Seq(StepType), Paired(s), Paired(t)
  PROVE  Paired(s \o t)
<1> DEFINE u == s \o t
<1>1. Len(s) \in Nat /\ Len(t) \in Nat /\ Len(u) = Len(s) + Len(t)
  BY Joined
<1>2. ASSUME NEW i \in 1..Len(u), u[i].do = "find"
      PROVE  i + 1 \in 1..Len(u) /\ u[i + 1].do = "dropFound"
  <2>1. CASE i \in 1..Len(s)
    <3>1. s[i].do = "find"
      BY <1>2, <2>1, Joined
    <3>2. i + 1 \in 1..Len(s) /\ s[i + 1].do = "dropFound"
      BY <2>1, <3>1 DEF Paired
    <3>3. u[i + 1] = s[i + 1]
      BY <3>2, Joined
    <3> QED BY <1>1, <3>2, <3>3
  <2>2. CASE i \notin 1..Len(s)
    <3>1. i - Len(s) \in 1..Len(t) /\ u[i] = t[i - Len(s)]
      BY <2>2, Joined
    <3>2. (i - Len(s)) + 1 \in 1..Len(t) /\ t[(i - Len(s)) + 1].do = "dropFound"
      BY <1>2, <3>1 DEF Paired
    <3>3. u[Len(s) + ((i - Len(s)) + 1)] = t[(i - Len(s)) + 1]
      BY <3>2, Joined
    <3>4. Len(s) + ((i - Len(s)) + 1) = i + 1
      BY <1>1
    <3> QED BY <1>1, <3>2, <3>3, <3>4
  <2> QED BY <2>1, <2>2
<1> QED BY <1>2 DEF Paired

LEMMA ReachesJoin ==
  ASSUME NEW s \in Seq(StepType), NEW t \in Seq(StepType), NEW M, NEW N, Reaches(s, M), Reaches(t, N)
  PROVE  Reaches(s \o t, M \cup N)
<1> DEFINE u == s \o t
<1>1. Len(s) \in Nat /\ Len(t) \in Nat /\ Len(u) = Len(s) + Len(t)
  BY Joined
<1>2. ASSUME NEW k \in M PROVE \E i \in 1..Len(u) : Mends(u, i, k)
  <2>1. PICK i \in 1..Len(s) : Mends(s, i, k)
    BY <1>2 DEF Reaches
  <2>2. u[i] = s[i] /\ i \in 1..Len(u)
    BY <1>1, Joined
  <2> QED BY <2>1, <2>2 DEF Mends
<1>3. ASSUME NEW k \in N PROVE \E i \in 1..Len(u) : Mends(u, i, k)
  <2>1. PICK i \in 1..Len(t) : Mends(t, i, k)
    BY <1>3 DEF Reaches
  <2>2. u[Len(s) + i] = t[i] /\ Len(s) + i \in 1..Len(u)
    BY <1>1, Joined
  <2> QED BY <2>1, <2>2 DEF Mends
<1> QED BY <1>2, <1>3 DEF Reaches

LEMMA ClearsJoin ==
  \A s, t, M, N : Clears(s, M) /\ Clears(t, N) => Clears(s \o t, M \cup N)
<1> SUFFICES ASSUME NEW s, NEW t, NEW M, NEW N, Clears(s, M), Clears(t, N) PROVE Clears(s \o t, M \cup N)
  OBVIOUS
<1>1. s \in Seq(StepType) /\ t \in Seq(StepType)
  BY DEF Clears
<1>2. Paired(s \o t) /\ Reaches(s \o t, M \cup N)
  BY <1>1, PairedJoin, ReachesJoin DEF Clears
<1>3. s \o t \in Seq(StepType) /\ Len(s \o t) \in Nat
  BY <1>1, Joined
<1>4. \A i \in 1..Len(s \o t) : Silent(s \o t, i)
  BY <1>1, Joined DEF Clears, Silent
<1> QED BY <1>2, <1>3, <1>4 DEF Clears

LEMMA LeadsJoin ==
  \A s, t, A, M, N : Leads(s, A, M) /\ Clears(t, N) => Leads(s \o t, A, M \cup N)
<1> SUFFICES ASSUME NEW s, NEW t, NEW A, NEW M, NEW N, Leads(s, A, M), Clears(t, N)
             PROVE  Leads(s \o t, A, M \cup N)
  OBVIOUS
<1>1. s \in Seq(StepType) /\ t \in Seq(StepType) /\ 1 \in 1..Len(s)
  BY DEF Clears, Leads
<1>2. Paired(s \o t) /\ Reaches(s \o t, M \cup N)
  BY <1>1, PairedJoin, ReachesJoin DEF Clears, Leads
<1>3. s \o t \in Seq(StepType) /\ Len(s \o t) \in Nat \ {0} /\ (s \o t)[1] = s[1]
  BY <1>1, Joined
<1>4. ASSUME NEW i \in 2..Len(s \o t) PROVE Silent(s \o t, i)
  <2>1. CASE i \in 1..Len(s)
    BY <1>1, <1>4, <2>1, Joined DEF Leads, Silent
  <2>2. CASE i \notin 1..Len(s)
    BY <1>1, <1>4, <2>2, Joined DEF Clears, Silent
  <2> QED BY <2>1, <2>2
<1> QED BY <1>2, <1>3, <1>4 DEF Leads

LEMMA OneStep ==
  ASSUME NEW d \in Deeds, NEW K \in SUBSET Keys, NEW A \in SUBSET Aspects
  PROVE  LET s == <<Step(d, K, A)>> IN
         s \in Seq(StepType) /\ Len(s) = 1 /\ s[1].do = d /\ s[1].keys = K /\ s[1].aspects = A
BY DEF Step, StepType

LEMMA ClearsOne ==
  \A k \in Keys : Clears(Put(k), {k}) /\ Clears(PutNew(k), {}) /\ Clears(Drop(k), {k})
<1> SUFFICES ASSUME NEW k \in Keys PROVE Clears(Put(k), {k}) /\ Clears(PutNew(k), {}) /\ Clears(Drop(k), {k})
  OBVIOUS
<1>1. ASSUME NEW d \in {"put", "putNew", "drop"}, NEW M \in SUBSET {k}, d = "putNew" => M = {}
      PROVE  Clears(<<Step(d, {k}, {})>>, M)
  <2> DEFINE s == <<Step(d, {k}, {})>>
  <2>1. s \in Seq(StepType) /\ Len(s) = 1 /\ s[1].do = d /\ s[1].keys = {k} /\ s[1].aspects = {}
    <3>1. d \in Deeds /\ {k} \in SUBSET Keys /\ {} \in SUBSET Aspects
      BY DEF Deeds
    <3> QED BY <3>1, OneStep
  <2> HIDE DEF s
  <2>2. \A i \in 1..Len(s) : i = 1
    BY <2>1
  <2>3. Paired(s) /\ (\A i \in 1..Len(s) : Silent(s, i))
    BY <2>1, <2>2 DEF Paired, Silent, Asks
  <2>4. Reaches(s, M)
    BY <1>1, <2>1 DEF Reaches, Mends
  <2>5. Clears(s, M)
    BY <2>1, <2>3, <2>4 DEF Clears
  <2> QED BY <2>5 DEF s
<1> QED BY <1>1 DEF Put, PutNew, Drop

LEMMA ClearsFound ==
  \A K \in SUBSET Keys : Clears(DropFound(K), K)
<1> SUFFICES ASSUME NEW K \in SUBSET Keys PROVE Clears(DropFound(K), K)
  OBVIOUS
<1> DEFINE s == DropFound(K)
<1>1. /\ s \in Seq(StepType) /\ Len(s) = 2 /\ s[1].do = "find" /\ s[1].keys = K /\ s[1].aspects = {}
      /\ s[2].do = "dropFound" /\ s[2].aspects = {}
  BY DEF DropFound, Step, StepType, Deeds
<1> HIDE DEF s
<1>2. \A i \in 1..Len(s) : i = 1 \/ i = 2
  BY <1>1
<1>3. Paired(s) /\ (\A i \in 1..Len(s) : Silent(s, i))
  BY <1>1, <1>2 DEF Paired, Silent, Asks
<1>4. Reaches(s, K)
  BY <1>1 DEF Reaches, Mends
<1>5. Clears(s, K)
  BY <1>1, <1>3, <1>4 DEF Clears
<1> QED BY <1>5 DEF s

LEMMA LeadsOne ==
  \A A \in SUBSET Aspects : Leads(Store(A), A, {})
<1> SUFFICES ASSUME NEW A \in SUBSET Aspects PROVE Leads(Store(A), A, {})
  OBVIOUS
<1> DEFINE s == <<Step("write", {}, A)>>
<1>1. s \in Seq(StepType) /\ Len(s) = 1 /\ s[1].do = "write" /\ s[1].keys = {} /\ s[1].aspects = A
  <2>1. "write" \in Deeds /\ {} \in SUBSET Keys
    BY DEF Deeds
  <2> QED BY <2>1, OneStep
<1> HIDE DEF s
<1>2. Paired(s) /\ Reaches(s, {}) /\ \A i \in 2..Len(s) : Silent(s, i)
  BY <1>1 DEF Paired, Reaches
<1>3. Leads(s, A, {})
  BY <1>1, <1>2 DEF Leads
<1> QED BY <1>3 DEF s, Store
LEMMA KeysAre == 
  Keys = {"vocabId", "vocabList", "relatedId", "subjectId", "subjectList", "folderId", "folderList",
          "wordTypeId", "wordTypeAll", "languageId", "languageAll"}
BY DEF Keys, Sees

LEMMA ClearsLists ==
  /\ Clears(ClearListCaches, {"vocabList"})
  /\ Clears(ClearVocabCache, {"vocabId", "vocabList"})
  /\ Clears(ClearUserCache, {"subjectList", "subjectId"})
<1>1. {"vocabList"} \in SUBSET Keys /\ {"vocabId", "vocabList"} \in SUBSET Keys
      /\ "subjectList" \in Keys /\ "subjectId" \in Keys
  BY KeysAre
<1>2. Clears(Drop("subjectList"), {"subjectList"}) /\ Clears(Drop("subjectId"), {"subjectId"})
  BY <1>1, ClearsOne
<1>3. Clears(Drop("subjectList") \o Drop("subjectId"), {"subjectList"} \cup {"subjectId"})
  BY <1>2, ClearsJoin
<1>4. {"subjectList"} \cup {"subjectId"} = {"subjectList", "subjectId"}
  OBVIOUS
<1> QED BY <1>1, <1>3, <1>4, ClearsFound DEF ClearListCaches, ClearVocabCache, ClearUserCache

LEMMA LeadsTwo ==
  \A A \in SUBSET Aspects : \A t, M : Clears(t, M) => Leads(Store(A) \o t, A, M)
<1> SUFFICES ASSUME NEW A \in SUBSET Aspects, NEW t, NEW M, Clears(t, M)
             PROVE  Leads(Store(A) \o t, A, M)
  OBVIOUS
<1>1. Leads(Store(A) \o t, A, {} \cup M)
  BY LeadsOne, LeadsJoin
<1>2. {} \cup M = M
  OBVIOUS
<1> QED BY <1>1, <1>2

LEMMA LeadsThree ==
  \A A \in SUBSET Aspects : \A t, u, M, N :
    Clears(t, M) /\ Clears(u, N) => Leads(Store(A) \o t \o u, A, M \cup N)
BY LeadsTwo, LeadsJoin

LEMMA LeadsFour ==
  \A A \in SUBSET Aspects : \A t, u, v, M, N, P :
    Clears(t, M) /\ Clears(u, N) /\ Clears(v, P) => Leads(Store(A) \o t \o u \o v, A, M \cup N \cup P)
BY LeadsThree, LeadsJoin

\* What each operation changes, and the entries it sees to afterwards.
LEMMA WordScripts ==
  /\ Leads(CreateVocab, {"newVocab"}, {} \cup {"vocabList"})
  /\ Leads(CreateVocabLinked, {"newVocab", "related"}, {} \cup {"relatedId"} \cup {"vocabList"})
  /\ Leads(UpdateVocab, {"vocab", "target"}, {"vocabId"} \cup {"vocabList"})
  /\ Leads(UpdateVocabLinked, {"vocab", "target", "related"},
           {"vocabId"} \cup {"relatedId"} \cup {"vocabList"})
  /\ Leads(RemoveVocab, {"vocab", "related"}, {"vocabId"} \cup {"relatedId"} \cup {"vocabList"})
  /\ Leads(CreateTextTarget, {"target"}, {"vocabId"} \cup {"vocabList"})
  /\ Leads(UpdateTextTarget, {"target"}, {"vocabId"} \cup {"vocabList"})
  /\ Leads(RemoveTextTarget, {"targetRemoval"}, {})
  /\ Leads(UpsertRelated, {"related"}, {"relatedId"})
  /\ Leads(DeleteRelated, {"related"}, {"relatedId"})
  /\ Leads(UpdateMastery, {"mastery"}, {})
<1>1. "vocabId" \in Keys /\ "relatedId" \in Keys
  BY KeysAre
<1>2. /\ Clears(PutNew("vocabId"), {}) /\ Clears(Put("vocabId"), {"vocabId"})
      /\ Clears(Drop("vocabId"), {"vocabId"}) /\ Clears(Drop("relatedId"), {"relatedId"})
  BY <1>1, ClearsOne
<1>3. /\ {"newVocab"} \in SUBSET Aspects /\ {"newVocab", "related"} \in SUBSET Aspects
      /\ {"vocab", "target"} \in SUBSET Aspects /\ {"vocab", "target", "related"} \in SUBSET Aspects
      /\ {"vocab", "related"} \in SUBSET Aspects /\ {"target"} \in SUBSET Aspects
      /\ {"targetRemoval"} \in SUBSET Aspects /\ {"related"} \in SUBSET Aspects
      /\ {"mastery"} \in SUBSET Aspects
  BY DEF Aspects
<1>4. Leads(CreateVocab, {"newVocab"}, {} \cup {"vocabList"})
  BY <1>2, <1>3, ClearsLists, LeadsThree DEF CreateVocab
<1>5. Leads(CreateVocabLinked, {"newVocab", "related"}, {} \cup {"relatedId"} \cup {"vocabList"})
  BY <1>2, <1>3, ClearsLists, LeadsFour DEF CreateVocabLinked
<1>6. Leads(UpdateVocab, {"vocab", "target"}, {"vocabId"} \cup {"vocabList"})
  BY <1>2, <1>3, ClearsLists, LeadsThree DEF UpdateVocab
<1>7. Leads(UpdateVocabLinked, {"vocab", "target", "related"},
            {"vocabId"} \cup {"relatedId"} \cup {"vocabList"})
  BY <1>2, <1>3, ClearsLists, LeadsFour DEF UpdateVocabLinked
<1>8. Leads(RemoveVocab, {"vocab", "related"}, {"vocabId"} \cup {"relatedId"} \cup {"vocabList"})
  BY <1>2, <1>3, ClearsLists, LeadsFour DEF RemoveVocab
<1>9. /\ Leads(CreateTextTarget, {"target"}, {"vocabId"} \cup {"vocabList"})
      /\ Leads(UpdateTextTarget, {"target"}, {"vocabId"} \cup {"vocabList"})
  BY <1>2, <1>3, ClearsLists, LeadsThree DEF CreateTextTarget, UpdateTextTarget
<1>10. /\ Leads(RemoveTextTarget, {"targetRemoval"}, {}) /\ Leads(UpdateMastery, {"mastery"}, {})
  BY <1>3, LeadsOne DEF RemoveTextTarget, UpdateMastery
<1>11. /\ Leads(UpsertRelated, {"related"}, {"relatedId"}) /\ Leads(DeleteRelated, {"related"}, {"relatedId"})
  BY <1>2, <1>3, LeadsTwo DEF UpsertRelated, DeleteRelated
<1> QED BY <1>4, <1>5, <1>6, <1>7, <1>8, <1>9, <1>10, <1>11

LEMMA BulkScripts ==
  /\ Leads(CreateBulk, {"newVocab"}, {} \cup {"vocabList"} \cup {"vocabId", "vocabList"} \cup {"vocabList"})
  /\ Leads(UpdateBulk, {"vocab", "target"},
           {"vocabId"} \cup {"vocabList"} \cup {"vocabId", "vocabList"} \cup {"vocabList"})
  /\ Leads(DeleteBulk, {"vocab", "related"},
           {"vocabId"} \cup {"relatedId"} \cup {"vocabList"} \cup {"vocabId", "vocabList"} \cup {"vocabList"})
<1>1. Leads(CreateBulk, {"newVocab"}, {} \cup {"vocabList"} \cup {"vocabId", "vocabList"} \cup {"vocabList"})
  BY WordScripts, ClearsLists, LeadsJoin DEF CreateBulk
<1>2. Leads(UpdateBulk, {"vocab", "target"},
            {"vocabId"} \cup {"vocabList"} \cup {"vocabId", "vocabList"} \cup {"vocabList"})
  BY WordScripts, ClearsLists, LeadsJoin DEF UpdateBulk
<1>3. Leads(DeleteBulk, {"vocab", "related"},
            {"vocabId"} \cup {"relatedId"} \cup {"vocabList"} \cup {"vocabId", "vocabList"} \cup {"vocabList"})
  BY WordScripts, ClearsLists, LeadsJoin DEF DeleteBulk
<1> QED BY <1>1, <1>2, <1>3

LEMMA SubjectScripts ==
  /\ Leads(CreateSubject, {"newSubject"}, {} \cup {"subjectList"})
  /\ Leads(UpsertSubject, {"newSubject"}, {"subjectList"})
  /\ Leads(UpdateSubject, {"subject", "subjectName"}, {"subjectId"} \cup {"subjectList"} \cup {"vocabList"})
  /\ Leads(UpdateSubjectUnnoticed, {"subject", "unnoticedSubject"}, {"subjectId"} \cup {"subjectList"})
  /\ Leads(ReorderSubjects, {"subject", "unnoticedSubject"}, {"subjectList", "subjectId"})
<1>1. "subjectId" \in Keys /\ "subjectList" \in Keys
  BY KeysAre
<1>2. /\ Clears(PutNew("subjectId"), {}) /\ Clears(Put("subjectId"), {"subjectId"})
      /\ Clears(Drop("subjectList"), {"subjectList"})
  BY <1>1, ClearsOne
<1>3. /\ {"newSubject"} \in SUBSET Aspects /\ {"subject", "subjectName"} \in SUBSET Aspects
      /\ {"subject", "unnoticedSubject"} \in SUBSET Aspects
  BY DEF Aspects
<1>4. Leads(CreateSubject, {"newSubject"}, {} \cup {"subjectList"})
  BY <1>2, <1>3, LeadsThree DEF CreateSubject
<1>5. Leads(UpsertSubject, {"newSubject"}, {"subjectList"})
  BY <1>2, <1>3, LeadsTwo DEF UpsertSubject
<1>6. Leads(UpdateSubject, {"subject", "subjectName"}, {"subjectId"} \cup {"subjectList"} \cup {"vocabList"})
  BY <1>2, <1>3, ClearsLists, LeadsFour DEF UpdateSubject
<1>7. Leads(UpdateSubjectUnnoticed, {"subject", "unnoticedSubject"}, {"subjectId"} \cup {"subjectList"})
  BY <1>2, <1>3, LeadsThree DEF UpdateSubjectUnnoticed
<1>8. Leads(ReorderSubjects, {"subject", "unnoticedSubject"}, {"subjectList", "subjectId"})
  BY <1>3, ClearsLists, LeadsTwo DEF ReorderSubjects
<1> QED BY <1>4, <1>5, <1>6, <1>7, <1>8

LEMMA CatalogScripts ==
  /\ Leads(CreateFolder, {"newFolder"}, {} \cup {"folderList"})
  /\ Leads(UpdateFolder, {"folder"}, {"folderId"} \cup {"folderList"})
  /\ Leads(DeleteFolder, {"folder", "cascade"}, {"folderId"} \cup {"folderList"})
  /\ Leads(CreateWordType, {"newWordType"}, {"wordTypeAll"})
  /\ Leads(UpdateWordType, {"wordType"}, {"wordTypeAll"} \cup {"wordTypeId"})
  /\ Leads(DeleteWordType, {"wordType"}, {"wordTypeAll"} \cup {"wordTypeId"})
  /\ Leads(CreateLanguage, {"newLanguage"}, {"languageAll"})
  /\ Leads(UpdateLanguage, {"language"}, {"languageAll"} \cup {"languageId"})
  /\ Leads(DeleteLanguage, {"language", "cascade"}, {"languageAll"} \cup {"languageId"})
  /\ Leads(DeleteUser, {"account"}, {})
<1>1. /\ "folderId" \in Keys /\ "folderList" \in Keys /\ "wordTypeId" \in Keys /\ "wordTypeAll" \in Keys
      /\ "languageId" \in Keys /\ "languageAll" \in Keys
  BY KeysAre
<1>2. /\ Clears(PutNew("folderId"), {}) /\ Clears(Put("folderId"), {"folderId"})
      /\ Clears(Drop("folderId"), {"folderId"}) /\ Clears(Drop("folderList"), {"folderList"})
  BY <1>1, ClearsOne
<1>3. /\ Clears(Drop("wordTypeAll"), {"wordTypeAll"}) /\ Clears(Drop("wordTypeId"), {"wordTypeId"})
      /\ Clears(Drop("languageAll"), {"languageAll"}) /\ Clears(Drop("languageId"), {"languageId"})
  BY <1>1, ClearsOne
<1>4. /\ {"newFolder"} \in SUBSET Aspects /\ {"folder"} \in SUBSET Aspects
      /\ {"folder", "cascade"} \in SUBSET Aspects /\ {"newWordType"} \in SUBSET Aspects
      /\ {"wordType"} \in SUBSET Aspects /\ {"newLanguage"} \in SUBSET Aspects
      /\ {"language"} \in SUBSET Aspects /\ {"language", "cascade"} \in SUBSET Aspects
      /\ {"account"} \in SUBSET Aspects
  BY DEF Aspects
<1>5. Leads(CreateFolder, {"newFolder"}, {} \cup {"folderList"})
  BY <1>2, <1>4, LeadsThree DEF CreateFolder
<1>6. Leads(UpdateFolder, {"folder"}, {"folderId"} \cup {"folderList"})
  BY <1>2, <1>4, LeadsThree DEF UpdateFolder
<1>7. Leads(DeleteFolder, {"folder", "cascade"}, {"folderId"} \cup {"folderList"})
  BY <1>2, <1>4, LeadsThree DEF DeleteFolder
<1>8. Leads(CreateWordType, {"newWordType"}, {"wordTypeAll"}) /\ Leads(CreateLanguage, {"newLanguage"}, {"languageAll"})
  BY <1>3, <1>4, LeadsTwo DEF CreateWordType, CreateLanguage
<1>9. /\ Leads(UpdateWordType, {"wordType"}, {"wordTypeAll"} \cup {"wordTypeId"})
      /\ Leads(DeleteWordType, {"wordType"}, {"wordTypeAll"} \cup {"wordTypeId"})
  BY <1>3, <1>4, LeadsThree DEF UpdateWordType, DeleteWordType
<1>10. /\ Leads(UpdateLanguage, {"language"}, {"languageAll"} \cup {"languageId"})
       /\ Leads(DeleteLanguage, {"language", "cascade"}, {"languageAll"} \cup {"languageId"})
  BY <1>3, <1>4, LeadsThree DEF UpdateLanguage, DeleteLanguage
<1>11. Leads(DeleteUser, {"account"}, {})
  BY <1>4, LeadsOne DEF DeleteUser
<1> QED BY <1>5, <1>6, <1>7, <1>8, <1>9, <1>10, <1>11

LEMMA ClearAllScript == \E M : Clears(ClearAllCaches, M) /\ M # {}
<1>1. /\ {"subjectId", "subjectList"} \in SUBSET Keys /\ {"wordTypeId", "wordTypeAll"} \in SUBSET Keys
      /\ {"languageId", "languageAll"} \in SUBSET Keys /\ {"folderId", "folderList"} \in SUBSET Keys
      /\ {"relatedId"} \in SUBSET Keys
  BY KeysAre
<1>2. \A s, M : \A K \in SUBSET Keys : Clears(s, M) => Clears(s \o DropFound(K), M \cup K)
  BY ClearsFound, ClearsJoin
<1> DEFINE s1 == ClearVocabCache \o DropFound({"subjectId", "subjectList"})
           s2 == s1 \o DropFound({"wordTypeId", "wordTypeAll"})
           s3 == s2 \o DropFound({"languageId", "languageAll"})
           s4 == s3 \o DropFound({"folderId", "folderList"})
           s5 == s4 \o DropFound({"relatedId"})
<1>3. \E M : Clears(s1, M)
  BY <1>1, <1>2, ClearsLists
<1>4. \E M : Clears(s2, M)
  <2> HIDE DEF s1
  <2> QED BY <1>1, <1>2, <1>3
<1>5. \E M : Clears(s3, M)
  <2> HIDE DEF s2
  <2> QED BY <1>1, <1>2, <1>4
<1>6. \E M : Clears(s4, M)
  <2> HIDE DEF s3
  <2> QED BY <1>1, <1>2, <1>5
<1>7. \E M : Clears(s5, M) /\ M # {}
  <2> HIDE DEF s4
  <2>1. PICK M : Clears(s4, M)
    BY <1>6
  <2>2. Clears(s5, M \cup {"relatedId"})
    BY <1>1, <1>2, <2>1
  <2>3. M \cup {"relatedId"} # {}
    OBVIOUS
  <2> QED BY <2>2, <2>3
<1> QED BY <1>7 DEF ClearAllCaches

-----------------------------------------------------------------------------
(* What the scripts do to the entry and the aspect that are followed. *)

Followed == key \in Keys /\ aspect \in Sees[key] \ Gaps[key]
Changes(s, i) == aspect \in s[i].aspects
\* An entry dropped before the change, by an operation that makes none.
Cleared(s, i) == /\ \E j \in 1..(i - 1) : s[j].do = "drop" /\ key \in s[j].keys
                 /\ \A j \in 1..Len(s) : s[j].do \in {"put", "putNew"} => key \notin s[j].keys
\* A change is seen to afterwards, or the entry was dropped before.
Healed(s) == \A i \in 1..Len(s) : Changes(s, i) =>
               (\E j \in (i + 1)..Len(s) : Mends(s, j, key)) \/ Cleared(s, i)
Formed(s) == Len(s) \in Nat \ {0} /\ DOMAIN s = 1..Len(s) /\ Paired(s) /\ Healed(s)
\* Nothing ends an operation between its change and what sees to it.
Alone(s) == \A i \in 1..Len(s) : \A j \in 1..(i - 1) : Changes(s, j) => s[i].do \notin Asks
\* An import that the database refuses goes on with its fourth step.
Resumes(s) == /\ 4 \in 1..Len(s) /\ (Changes(s, 1) => Mends(s, 4, key))
              /\ s[1].do = "write" /\ s[2].do = "write"
              /\ \A i \in 3..Len(s) : ~Changes(s, i) /\ s[i].do \notin Asks
Fits(op) == Formed(Script[op]) /\ IF op = "importCsv" THEN Resumes(Script[op]) ELSE Alone(Script[op])

LEMMA Seen ==
  ASSUME Followed
  PROVE  /\ aspect \notin {"targetRemoval", "mastery", "cascade", "unnoticedSubject", "account"}
         /\ aspect = "newVocab" => key = "vocabList"
         /\ aspect \in {"vocab", "target"} => key \in {"vocabId", "vocabList"}
         /\ aspect = "related" => key = "relatedId"
         /\ aspect = "subjectName" => key = "vocabList"
         /\ aspect = "subject" => key \in {"subjectId", "subjectList"}
         /\ aspect = "newSubject" => key = "subjectList"
         /\ aspect = "folder" => key \in {"folderId", "folderList"}
         /\ aspect = "newFolder" => key = "folderList"
         /\ aspect = "wordType" => key \in {"wordTypeId", "wordTypeAll"}
         /\ aspect = "newWordType" => key = "wordTypeAll"
         /\ aspect = "language" => key \in {"languageId", "languageAll"}
         /\ aspect = "newLanguage" => key = "languageAll"
<1>1. /\ key = "vocabId" => aspect \in {"vocab", "target"}
      /\ key = "vocabList" => aspect \in {"vocab", "target", "subjectName", "newVocab"}
      /\ key = "relatedId" => aspect = "related"
  BY DEF Followed, Sees, Gaps, Keys, VocabById, VocabList, RelatedById
<1>2. /\ key = "subjectId" => aspect = "subject"
      /\ key = "subjectList" => aspect \in {"subject", "newSubject"}
      /\ key = "folderId" => aspect = "folder"
      /\ key = "folderList" => aspect \in {"folder", "newFolder"}
  BY DEF Followed, Sees, Gaps, Keys, SubjectById, SubjectsOfUser, FolderById, FoldersOfUser
<1>3. /\ key = "wordTypeId" => aspect = "wordType"
      /\ key = "wordTypeAll" => aspect \in {"wordType", "newWordType"}
      /\ key = "languageId" => aspect = "language"
      /\ key = "languageAll" => aspect \in {"language", "newLanguage"}
  BY DEF Followed, Sees, Gaps, Keys, WordTypeById, WordTypes, LanguageById, Languages
<1> QED BY <1>1, <1>2, <1>3, KeysAre DEF Followed

LEMMA LeadsFits ==
  \A s, A, M : Leads(s, A, M) /\ (aspect \in A => key \in M) => Formed(s) /\ Alone(s)
<1> SUFFICES ASSUME NEW s, NEW A, NEW M, Leads(s, A, M), aspect \in A => key \in M
             PROVE  Formed(s) /\ Alone(s)
  OBVIOUS
<1>1. /\ Len(s) \in Nat \ {0} /\ DOMAIN s = 1..Len(s) /\ Paired(s) /\ s[1].do = "write" /\ s[1].aspects = A
      /\ \A i \in 1..Len(s) : i # 1 => ~Changes(s, i) /\ s[i].do \notin Asks
  BY DEF Leads, Silent, Changes
<1>2. Changes(s, 1) => \E j \in 2..Len(s) : Mends(s, j, key)
  <2> HAVE Changes(s, 1)
  <2>1. PICK j \in 1..Len(s) : Mends(s, j, key)
    BY <1>1 DEF Leads, Reaches, Changes
  <2>2. j # 1
    BY <1>1, <2>1 DEF Mends
  <2> QED BY <1>1, <2>1, <2>2
<1>3. Healed(s)
  BY <1>1, <1>2 DEF Healed
<1>4. Alone(s)
  BY <1>1 DEF Alone
<1> QED BY <1>1, <1>3, <1>4 DEF Formed

LEMMA ClearsFits ==
  ASSUME NEW s, NEW M, Clears(s, M), M # {}
  PROVE  Formed(s) /\ Alone(s)
<1>1. /\ Len(s) \in Nat \ {0} /\ DOMAIN s = 1..Len(s) /\ Paired(s)
      /\ \A i \in 1..Len(s) : ~Changes(s, i) /\ s[i].do \notin Asks
  BY DEF Clears, Reaches, Silent, Changes
<1> QED BY <1>1 DEF Formed, Alone, Healed

LEMMA ReadFits == Formed(Read) /\ Alone(Read)
<1>1. /\ Len(Read) = 3 /\ DOMAIN Read = 1..3 /\ Read[1].do = "get" /\ Read[2].do = "query" /\ Read[3].do = "put"
      /\ Read[1].aspects = {} /\ Read[2].aspects = {} /\ Read[3].aspects = {}
  BY DEF Read, Step
<1>2. \A i \in 1..Len(Read) : i \in {1, 2, 3}
  BY <1>1
<1>3. \A i \in 1..Len(Read) : ~Changes(Read, i) /\ Read[i].do # "find"
  BY <1>1, <1>2 DEF Changes
<1> QED BY <1>1, <1>3 DEF Formed, Alone, Healed, Paired

LEMMA TranslateFits ==
  ASSUME Followed PROVE Formed(Translate) /\ Alone(Translate)
<1> DEFINE s == Store({"targetRemoval"})
           t == UpdateVocab
           u == s \o t
<1>1. /\ Leads(s, {"targetRemoval"}, {})
      /\ Leads(t, {"vocab", "target"}, {"vocabId"} \cup {"vocabList"})
  BY WordScripts, LeadsOne DEF Aspects
<1>2. Len(s) = 1
  BY DEF Store
<1>3. t \in Seq(StepType) /\ s \in Seq(StepType) /\ Len(t) \in Nat \ {0}
  BY <1>1 DEF Leads
<1>4. Formed(t) /\ Alone(t)
  BY <1>1, LeadsFits, Seen
<1>5. s[1].aspects = {"targetRemoval"} /\ s[1].do = "write"
  BY <1>1 DEF Leads
<1> HIDE DEF s, t
<1>6. /\ Len(u) = Len(t) + 1 /\ DOMAIN u = 1..Len(u) /\ u[1] = s[1]
      /\ \A i \in 1..Len(t) : u[i + 1] = t[i]
      /\ \A i \in 1..Len(u) : i # 1 => i - 1 \in 1..Len(t) /\ u[i] = t[i - 1]
  <2>1. /\ Len(u) = 1 + Len(t) /\ u \in Seq(StepType) /\ u[1] = s[1]
        /\ \A i \in 1..Len(t) : u[1 + i] = t[i]
        /\ \A i \in 1..Len(u) : i \notin 1..1 => i - 1 \in 1..Len(t) /\ u[i] = t[i - 1]
    <3>1. /\ Len(s \o t) = Len(s) + Len(t) /\ s \o t \in Seq(StepType)
          /\ \A i \in 1..Len(s) : (s \o t)[i] = s[i]
          /\ \A i \in 1..Len(t) : (s \o t)[Len(s) + i] = t[i]
          /\ \A i \in 1..Len(s \o t) : i \notin 1..Len(s) => i - Len(s) \in 1..Len(t)
                                                             /\ (s \o t)[i] = t[i - Len(s)]
      BY <1>3, Joined
    <3> QED BY <1>2, <1>3, <3>1
  <2> QED BY <1>3, <2>1
<1>7. ~Changes(u, 1)
  BY <1>5, <1>6, Seen DEF Changes
<1>8. Paired(u)
  BY <1>1, <1>2, <1>3, PairedJoin DEF Leads
<1>9. ASSUME NEW i \in 1..Len(u), Changes(u, i)
      PROVE  (\E j \in (i + 1)..Len(u) : Mends(u, j, key)) \/ Cleared(u, i)
  <2>1. i - 1 \in 1..Len(t) /\ Changes(t, i - 1)
    BY <1>6, <1>7, <1>9 DEF Changes
  <2>2. i - 1 = 1
    BY <1>1, <2>1 DEF Leads, Silent, Changes
  <2>3. PICK j \in 1..Len(t) : Mends(t, j, key)
    BY <1>1, <1>9, <2>1, <2>2, Seen DEF Leads, Reaches, Changes
  <2>4. j # 1
    BY <1>1, <2>3 DEF Leads, Mends
  <2>5. j + 1 \in (i + 1)..Len(u) /\ Mends(u, j + 1, key)
    BY <1>3, <1>6, <2>2, <2>3, <2>4 DEF Mends
  <2> QED BY <2>5
<1>10. ASSUME NEW i \in 1..Len(u), NEW j \in 1..(i - 1), Changes(u, j) PROVE u[i].do \notin Asks
  <2>1. j # 1 /\ j \in 1..Len(u) /\ i # 1
    BY <1>3, <1>6, <1>7, <1>10
  <2>2. /\ i - 1 \in 1..Len(t) /\ j - 1 \in 1..(i - 1 - 1) /\ u[i] = t[i - 1] /\ Changes(t, j - 1)
    BY <1>3, <1>6, <1>10, <2>1 DEF Changes
  <2> QED BY <1>4, <2>2 DEF Alone
<1> QED BY <1>3, <1>6, <1>8, <1>9, <1>10 DEF Formed, Alone, Healed, Translate, s, t

LEMMA TwoJoined ==
  ASSUME NEW s \in Seq(StepType), NEW t \in Seq(StepType), NEW m \in Nat, NEW n \in Nat,
         Len(s) = m, Len(t) = n
  PROVE  /\ s \o t \in Seq(StepType) /\ Len(s \o t) = m + n
         /\ \A i \in 1..m : (s \o t)[i] = s[i]
         /\ \A i \in 1..n : (s \o t)[m + i] = t[i]
<1>1. /\ s \o t \in Seq(StepType) /\ Len(s \o t) = Len(s) + Len(t)
      /\ \A i \in 1..Len(s) : (s \o t)[i] = s[i]
      /\ \A i \in 1..Len(t) : (s \o t)[Len(s) + i] = t[i]
  BY Joined
<1> QED BY <1>1

LEMMA DeleteSubjectFits ==
  ASSUME Followed PROVE Formed(DeleteSubject) /\ Alone(DeleteSubject)
<1> DEFINE a == Drop("subjectId")
           b == Drop("subjectList")
           c == Store({"subject", "unnoticedSubject"})
           s == (a \o b) \o c
<1>1. /\ "subjectId" \in Keys /\ "subjectList" \in Keys /\ {"subject", "unnoticedSubject"} \in SUBSET Aspects
      /\ "drop" \in Deeds /\ "write" \in Deeds /\ {} \in SUBSET Aspects /\ {} \in SUBSET Keys
  BY KeysAre DEF Aspects, Deeds
<1>2. /\ a \in Seq(StepType) /\ Len(a) = 1 /\ a[1].do = "drop" /\ a[1].keys = {"subjectId"} /\ a[1].aspects = {}
      /\ b \in Seq(StepType) /\ Len(b) = 1 /\ b[1].do = "drop" /\ b[1].keys = {"subjectList"} /\ b[1].aspects = {}
      /\ c \in Seq(StepType) /\ Len(c) = 1 /\ c[1].do = "write"
      /\ c[1].aspects = {"subject", "unnoticedSubject"}
  BY <1>1, OneStep DEF Drop, Store
<1> HIDE DEF a, b, c
<1>3. a \o b \in Seq(StepType) /\ Len(a \o b) = 2 /\ (a \o b)[1] = a[1] /\ (a \o b)[2] = b[1]
  <2>1. /\ a \o b \in Seq(StepType) /\ Len(a \o b) = 1 + 1
        /\ \A i \in 1..1 : (a \o b)[i] = a[i]
        /\ \A i \in 1..1 : (a \o b)[1 + i] = b[i]
    BY <1>2, TwoJoined
  <2> QED BY <2>1
<1>4. Len(s) = 3 /\ DOMAIN s = 1..3 /\ s[1] = a[1] /\ s[2] = b[1] /\ s[3] = c[1]
  <2>1. /\ s \in Seq(StepType) /\ Len(s) = 2 + 1
        /\ \A i \in 1..2 : s[i] = (a \o b)[i]
        /\ \A i \in 1..1 : s[2 + i] = c[i]
    BY <1>2, <1>3, TwoJoined
  <2> QED BY <1>3, <2>1
<1> HIDE DEF s
<1>5. \A i \in 1..Len(s) : i \in {1, 2, 3} /\ s[i].do \notin {"find", "put", "putNew"}
  BY <1>2, <1>4
<1>6. \A i \in 1..Len(s) : Changes(s, i) => i = 3 /\ aspect = "subject"
  BY <1>2, <1>4, <1>5, Seen DEF Changes
<1>7. aspect = "subject" => Cleared(s, 3)
  <2> HAVE aspect = "subject"
  <2>1. key \in {"subjectId", "subjectList"}
    BY Seen
  <2>2. \E j \in 1..(3 - 1) : s[j].do = "drop" /\ key \in s[j].keys
    BY <1>2, <1>4, <2>1
  <2> QED BY <1>5, <2>2 DEF Cleared
<1>8. Paired(s) /\ Healed(s) /\ Len(s) \in Nat \ {0} /\ DOMAIN s = 1..Len(s)
  BY <1>4, <1>5, <1>6, <1>7 DEF Paired, Healed
<1>9. Alone(s)
  BY <1>4, <1>5, <1>6 DEF Alone
<1> QED BY <1>8, <1>9 DEF Formed, DeleteSubject, s, a, b, c

LEMMA ImportFits ==
  ASSUME Followed PROVE Formed(ImportCsv) /\ Resumes(ImportCsv)
<1> DEFINE a == Store({"newVocab", "vocab", "target"})
           b == Store({"related"})
           c == Drop("relatedId")
           d == ClearVocabCache
           e == ClearListCaches
           s == ((((a \o b) \o c) \o d) \o e)
<1>1. /\ "relatedId" \in Keys /\ {"newVocab", "vocab", "target"} \in SUBSET Aspects
      /\ {"related"} \in SUBSET Aspects /\ {"relatedId"} \in SUBSET Keys
      /\ "drop" \in Deeds /\ "write" \in Deeds /\ {} \in SUBSET Aspects /\ {} \in SUBSET Keys
  BY KeysAre DEF Aspects, Deeds
<1>2. /\ a \in Seq(StepType) /\ Len(a) = 1 /\ a[1].do = "write" /\ a[1].aspects = {"newVocab", "vocab", "target"}
      /\ b \in Seq(StepType) /\ Len(b) = 1 /\ b[1].do = "write" /\ b[1].aspects = {"related"}
      /\ c \in Seq(StepType) /\ Len(c) = 1 /\ c[1].do = "drop" /\ c[1].keys = {"relatedId"} /\ c[1].aspects = {}
  BY <1>1, OneStep DEF Drop, Store
<1>3. /\ d \in Seq(StepType) /\ Len(d) = 2 /\ d[1].do = "find" /\ d[1].keys = {"vocabId", "vocabList"}
      /\ d[1].aspects = {} /\ d[2].do = "dropFound" /\ d[2].aspects = {}
  BY ClearsLists DEF ClearVocabCache, DropFound, Step, Clears
<1>4. /\ e \in Seq(StepType) /\ Len(e) = 2 /\ e[1].do = "find" /\ e[1].aspects = {}
      /\ e[2].do = "dropFound" /\ e[2].aspects = {}
  BY ClearsLists DEF ClearListCaches, DropFound, Step, Clears
<1> HIDE DEF a, b, c, d, e
<1>5. a \o b \in Seq(StepType) /\ Len(a \o b) = 2 /\ (a \o b)[1] = a[1] /\ (a \o b)[2] = b[1]
  <2>1. /\ a \o b \in Seq(StepType) /\ Len(a \o b) = 1 + 1
        /\ \A i \in 1..1 : (a \o b)[i] = a[i]
        /\ \A i \in 1..1 : (a \o b)[1 + i] = b[i]
    BY <1>2, TwoJoined
  <2> QED BY <2>1
<1> DEFINE f == (a \o b) \o c
<1>6. f \in Seq(StepType) /\ Len(f) = 3 /\ f[1] = a[1] /\ f[2] = b[1] /\ f[3] = c[1]
  <2>1. /\ f \in Seq(StepType) /\ Len(f) = 2 + 1
        /\ \A i \in 1..2 : f[i] = (a \o b)[i]
        /\ \A i \in 1..1 : f[2 + i] = c[i]
    BY <1>2, <1>5, TwoJoined
  <2> QED BY <1>5, <2>1
<1> HIDE DEF f
<1> DEFINE g == f \o d
<1>7. /\ g \in Seq(StepType) /\ Len(g) = 5 /\ g[1] = a[1] /\ g[2] = b[1] /\ g[3] = c[1]
      /\ g[4] = d[1] /\ g[5] = d[2]
  <2>1. /\ g \in Seq(StepType) /\ Len(g) = 3 + 2
        /\ \A i \in 1..3 : g[i] = f[i]
        /\ \A i \in 1..2 : g[3 + i] = d[i]
    <3>1. f \in Seq(StepType) /\ Len(f) = 3 /\ d \in Seq(StepType) /\ Len(d) = 2
      BY <1>3, <1>6
    <3>2. /\ f \o d \in Seq(StepType) /\ Len(f \o d) = Len(f) + Len(d)
          /\ \A i \in 1..Len(f) : (f \o d)[i] = f[i]
          /\ \A i \in 1..Len(d) : (f \o d)[Len(f) + i] = d[i]
      BY <3>1, Joined
    <3> QED BY <3>1, <3>2
  <2> QED BY <1>6, <2>1
<1> HIDE DEF g
<1> DEFINE h == g \o e
<1>8. /\ Len(h) = 7 /\ DOMAIN h = 1..7 /\ h[1] = a[1] /\ h[2] = b[1] /\ h[3] = c[1]
      /\ h[4] = d[1] /\ h[5] = d[2] /\ h[6] = e[1] /\ h[7] = e[2]
  <2>1. /\ h \in Seq(StepType) /\ Len(h) = 5 + 2
        /\ \A i \in 1..5 : h[i] = g[i]
        /\ \A i \in 1..2 : h[5 + i] = e[i]
    <3>1. g \in Seq(StepType) /\ Len(g) = 5 /\ e \in Seq(StepType) /\ Len(e) = 2
      BY <1>4, <1>7
    <3>2. /\ g \o e \in Seq(StepType) /\ Len(g \o e) = Len(g) + Len(e)
          /\ \A i \in 1..Len(g) : (g \o e)[i] = g[i]
          /\ \A i \in 1..Len(e) : (g \o e)[Len(g) + i] = e[i]
      BY <3>1, Joined
    <3> QED BY <3>1, <3>2
  <2> QED BY <1>7, <2>1
<1> HIDE DEF h
<1>9. \A i \in 1..Len(h) : i \in {1, 2, 3, 4, 5, 6, 7}
  BY <1>8
<1>10. Paired(h)
  BY <1>2, <1>3, <1>4, <1>8, <1>9 DEF Paired
<1>11. \A i \in 3..Len(h) : ~Changes(h, i) /\ h[i].do \notin Asks
  BY <1>2, <1>3, <1>4, <1>8, <1>9 DEF Changes, Asks
<1>12. Changes(h, 1) => Mends(h, 4, key)
  BY <1>2, <1>3, <1>8, Seen DEF Changes, Mends
<1>13. Changes(h, 2) => Mends(h, 3, key)
  BY <1>2, <1>8, Seen DEF Changes, Mends
<1>14. Healed(h)
  BY <1>8, <1>9, <1>11, <1>12, <1>13 DEF Healed
<1>15. Formed(h) /\ Resumes(h)
  BY <1>2, <1>8, <1>10, <1>11, <1>12, <1>14 DEF Formed, Resumes
<1> QED BY <1>15 DEF ImportCsv, h, g, f, a, b, c, d, e

LEMMA ScriptsFit ==
  ASSUME Followed PROVE \A op \in Ops : Fits(op) /\ (op = "idle" => FALSE)
<1>1. \A op \in Ops : op \in
        {"createVocab", "createVocabLinked", "updateVocab", "updateVocabLinked", "deleteVocab", "createBulk",
         "updateBulk", "deleteBulk", "importCsv", "translate", "createTextTarget", "updateTextTarget",
         "removeTextTarget", "upsertRelated", "deleteRelated", "updateMastery", "createSubject", "upsertSubject",
         "updateSubject", "updateSubjectUnnoticed", "reorderSubjects", "deleteSubject", "createFolder",
         "updateFolder", "deleteFolder", "createWordType", "updateWordType", "deleteWordType", "createLanguage",
         "updateLanguage", "deleteLanguage", "deleteUser", "clearAllCaches", "read"}
  BY DEF Ops, Script
<1>2. /\ Script["createVocab"] = CreateVocab /\ Script["createVocabLinked"] = CreateVocabLinked
      /\ Script["updateVocab"] = UpdateVocab /\ Script["updateVocabLinked"] = UpdateVocabLinked
      /\ Script["deleteVocab"] = RemoveVocab /\ Script["createBulk"] = CreateBulk
      /\ Script["updateBulk"] = UpdateBulk /\ Script["deleteBulk"] = DeleteBulk
      /\ Script["importCsv"] = ImportCsv /\ Script["translate"] = Translate
      /\ Script["createTextTarget"] = CreateTextTarget /\ Script["updateTextTarget"] = UpdateTextTarget
      /\ Script["removeTextTarget"] = RemoveTextTarget /\ Script["upsertRelated"] = UpsertRelated
      /\ Script["deleteRelated"] = DeleteRelated /\ Script["updateMastery"] = UpdateMastery
  BY DEF Script
<1>3. /\ Script["createSubject"] = CreateSubject /\ Script["upsertSubject"] = UpsertSubject
      /\ Script["updateSubject"] = UpdateSubject /\ Script["updateSubjectUnnoticed"] = UpdateSubjectUnnoticed
      /\ Script["reorderSubjects"] = ReorderSubjects /\ Script["deleteSubject"] = DeleteSubject
      /\ Script["createFolder"] = CreateFolder /\ Script["updateFolder"] = UpdateFolder
      /\ Script["deleteFolder"] = DeleteFolder /\ Script["createWordType"] = CreateWordType
      /\ Script["updateWordType"] = UpdateWordType /\ Script["deleteWordType"] = DeleteWordType
      /\ Script["createLanguage"] = CreateLanguage /\ Script["updateLanguage"] = UpdateLanguage
      /\ Script["deleteLanguage"] = DeleteLanguage /\ Script["clearAllCaches"] = ClearAllCaches
      /\ Script["read"] = Read /\ Script["deleteUser"] = DeleteUser
  BY DEF Script
<1>4. /\ Formed(CreateVocab) /\ Alone(CreateVocab)
      /\ Formed(CreateVocabLinked) /\ Alone(CreateVocabLinked)
  BY WordScripts, LeadsFits, Seen
<1>5. /\ Formed(UpdateVocab) /\ Alone(UpdateVocab)
      /\ Formed(UpdateVocabLinked) /\ Alone(UpdateVocabLinked)
      /\ Formed(RemoveVocab) /\ Alone(RemoveVocab)
  BY WordScripts, LeadsFits, Seen
<1>6. /\ Formed(CreateTextTarget) /\ Alone(CreateTextTarget)
      /\ Formed(UpdateTextTarget) /\ Alone(UpdateTextTarget)
      /\ Formed(RemoveTextTarget) /\ Alone(RemoveTextTarget)
  BY WordScripts, LeadsFits, Seen
<1>7. /\ Formed(UpsertRelated) /\ Alone(UpsertRelated)
      /\ Formed(DeleteRelated) /\ Alone(DeleteRelated)
      /\ Formed(UpdateMastery) /\ Alone(UpdateMastery)
  BY WordScripts, LeadsFits, Seen
<1>8. /\ Formed(CreateBulk) /\ Alone(CreateBulk)
      /\ Formed(UpdateBulk) /\ Alone(UpdateBulk)
      /\ Formed(DeleteBulk) /\ Alone(DeleteBulk)
  BY BulkScripts, LeadsFits, Seen
<1>9. /\ Formed(CreateSubject) /\ Alone(CreateSubject)
      /\ Formed(UpsertSubject) /\ Alone(UpsertSubject)
      /\ Formed(UpdateSubject) /\ Alone(UpdateSubject)
      /\ Formed(UpdateSubjectUnnoticed) /\ Alone(UpdateSubjectUnnoticed)
      /\ Formed(ReorderSubjects) /\ Alone(ReorderSubjects)
  BY SubjectScripts, LeadsFits, Seen
<1>10. /\ Formed(CreateFolder) /\ Alone(CreateFolder)
       /\ Formed(UpdateFolder) /\ Alone(UpdateFolder)
       /\ Formed(DeleteFolder) /\ Alone(DeleteFolder)
  BY CatalogScripts, LeadsFits, Seen
<1>11. /\ Formed(CreateWordType) /\ Alone(CreateWordType)
       /\ Formed(UpdateWordType) /\ Alone(UpdateWordType)
       /\ Formed(DeleteWordType) /\ Alone(DeleteWordType)
  BY CatalogScripts, LeadsFits, Seen
<1>12. /\ Formed(CreateLanguage) /\ Alone(CreateLanguage)
       /\ Formed(UpdateLanguage) /\ Alone(UpdateLanguage)
       /\ Formed(DeleteLanguage) /\ Alone(DeleteLanguage)
       /\ Formed(DeleteUser) /\ Alone(DeleteUser)
  BY CatalogScripts, LeadsFits, Seen
<1>13. Formed(ClearAllCaches) /\ Alone(ClearAllCaches)
  BY ClearAllScript, ClearsFits
<1>14. ASSUME NEW op \in Ops PROVE Fits(op)
  BY <1>1, <1>2, <1>3, <1>4, <1>5, <1>6, <1>7, <1>8, <1>9, <1>10, <1>11, <1>12, <1>13,
     ReadFits, TranslateFits, DeleteSubjectFits, ImportFits DEF Fits
<1> QED BY <1>1, <1>14

-----------------------------------------------------------------------------
(* The invariant, of the scripts S, the entry k and the aspect a followed, *)
(* the copy e in Redis, the operations f under way, and x, whether one was *)
(* cut short.                                                              *)

EntryType == [here : BOOLEAN, stale : BOOLEAN, late : BOOLEAN]
OpType(S) == [op : DOMAIN S, at : Nat, stale : BOOLEAN, found : BOOLEAN]
IsCall(S, r) == r = Idle \/ (r \in OpType(S) /\ r # Idle /\ r.at \in 1..Len(S[r.op]))

Writer(s, a) == \E i \in 1..Len(s) : a \in s[i].aspects
\* An operation that has changed the aspect and has the entry still to see to.
Wrote(s, n, a) == \E i \in 1..(n - 1) : a \in s[i].aspects
Ahead(s, r, k) == \/ \E i \in r.at..Len(s) : Mends(s, i, k)
                  \/ r.found /\ s[r.at].do = "dropFound"
Heals(s, r, k, a) == Wrote(s, r.at, a) /\ Ahead(s, r, k)
\* One that has dropped the entry, makes none, and has the aspect still to change.
Emptied(s, n, k, a) == /\ \E j \in 1..(n - 1) : s[j].do = "drop" /\ k \in s[j].keys
                       /\ \E i \in n..Len(s) : a \in s[i].aspects
                       /\ \A j \in 1..Len(s) : s[j].do \in {"put", "putNew"} => k \notin s[j].keys

HealOK(S, k, a, e, f, x) ==
  e.stale /\ ~e.late /\ ~x => \E c \in Calls : f[c] # Idle /\ Heals(S[f[c].op], f[c], k, a)
EmptyOK(S, k, a, e, f) ==
  \A c \in Calls : f[c] # Idle /\ Emptied(S[f[c].op], f[c].at, k, a) /\ e.here => e.late
Good(S, k, a, e, f, x) ==
  /\ e \in EntryType /\ (e.stale => e.here) /\ x \in BOOLEAN
  /\ f = [c \in Calls |-> f[c]] /\ \A c \in Calls : IsCall(S, f[c])
  /\ HealOK(S, k, a, e, f, x) /\ EmptyOK(S, k, a, e, f)

CacheInv == Followed /\ Good(Script, key, aspect, entry, calls, cut)

\* A step of one operation, which leaves the copy e2.
LEMMA StepKeeps ==
  ASSUME NEW S, NEW k, NEW a, NEW e, NEW f, NEW x, Good(S, k, a, e, f, x),
         NEW c \in Calls, f[c] # Idle, NEW q, IsCall(S, q), q # Idle => q.op = f[c].op,
         NEW e2 \in EntryType, e2.stale => e2.here, NEW y \in BOOLEAN,
         e2.stale /\ ~e2.late /\ ~y =>
           e.stale /\ ~e.late /\ ~x /\ (Heals(S[f[c].op], f[c], k, a) => q # Idle /\ Heals(S[f[c].op], q, k, a)),
         e2.here /\ ~e2.late => \/ e.here /\ ~e.late
                                \/ \A d \in Calls : f[d] # Idle => ~Emptied(S[f[d].op], f[d].at, k, a),
         q # Idle /\ Emptied(S[f[c].op], q.at, k, a) /\ e2.here => e2.late
  PROVE  Good(S, k, a, e2, [f EXCEPT ![c] = q], y)
<1> DEFINE g == [f EXCEPT ![c] = q]
<1>1. g = [d \in Calls |-> g[d]] /\ g[c] = q /\ \A d \in Calls : d # c => g[d] = f[d]
  BY DEF Good
<1> HIDE DEF g
<1>2. \A d \in Calls : IsCall(S, g[d])
  BY <1>1 DEF Good
<1>3. HealOK(S, k, a, e2, g, y)
  <2> SUFFICES ASSUME e2.stale, ~e2.late, ~y
               PROVE  \E d \in Calls : g[d] # Idle /\ Heals(S[g[d].op], g[d], k, a)
    BY DEF HealOK
  <2>1. PICK d \in Calls : f[d] # Idle /\ Heals(S[f[d].op], f[d], k, a)
    BY DEF Good, HealOK
  <2>2. CASE d = c
    BY <1>1, <2>1, <2>2
  <2>3. CASE d # c
    BY <1>1, <2>1, <2>3
  <2> QED BY <2>2, <2>3
<1>4. EmptyOK(S, k, a, e2, g)
  <2> SUFFICES ASSUME NEW d \in Calls, g[d] # Idle, Emptied(S[g[d].op], g[d].at, k, a), e2.here
               PROVE  e2.late
    BY DEF EmptyOK
  <2>1. CASE d = c
    BY <1>1, <2>1
  <2>2. CASE d # c
    <3>1. f[d] # Idle /\ Emptied(S[f[d].op], f[d].at, k, a)
      BY <1>1, <2>2
    <3>2. e.here => e.late
      BY <3>1 DEF Good, EmptyOK
    <3>3. e2.late \in BOOLEAN
      BY DEF EntryType
    <3> QED BY <3>1, <3>2, <3>3
  <2> QED BY <2>1, <2>2
<1>5. Good(S, k, a, e2, g, y)
  BY <1>1, <1>2, <1>3, <1>4 DEF Good
<1> QED BY <1>5 DEF g

LEMMA AtWork ==
  ASSUME CacheInv, NEW c \in Calls, calls[c] # Idle
  PROVE  LET r == calls[c]
             s == Script[r.op]
         IN  /\ r \in OpType(Script) /\ r.op \in Ops /\ r.op # "idle" /\ r.at \in 1..Len(s)
             /\ Fits(r.op) /\ Len(s) \in Nat \ {0} /\ DOMAIN s = 1..Len(s)
             /\ calls = [d \in Calls |-> calls[d]]
<1>1. IsCall(Script, calls[c]) /\ calls = [d \in Calls |-> calls[d]]
  BY DEF CacheInv, Good
<1>2. calls[c] \in OpType(Script) /\ calls[c].op \in Ops /\ calls[c].at \in 1..Len(Script[calls[c].op])
  BY <1>1 DEF IsCall, OpType, Ops
<1>3. Fits(calls[c].op) /\ calls[c].op # "idle"
  BY <1>2, ScriptsFit DEF CacheInv
<1> QED BY <1>1, <1>2, <1>3 DEF Fits, Formed

\* The next step of a call, or its end.
LEMMA MovedIs ==
  ASSUME NEW q \in OpType(Script), q.op # "idle", Len(Script[q.op]) \in Nat, q.at \in 1..Len(Script[q.op])
  PROVE  LET p == Moved(q) IN
         /\ IsCall(Script, p) /\ (p = Idle <=> q.at = Len(Script[q.op]))
         /\ p # Idle => p.op = q.op /\ p.at = q.at + 1 /\ p.stale = q.stale /\ p.found = q.found
         /\ p.stale => q.stale
<1> DEFINE n == [q EXCEPT !.at = @ + 1]
<1>1. CASE q.at = Len(Script[q.op])
  BY <1>1 DEF Moved, IsCall, Idle
<1>2. CASE q.at # Len(Script[q.op])
  <2>1. Moved(q) = n
    BY <1>2 DEF Moved
  <2>2. /\ n \in OpType(Script) /\ n.op = q.op /\ n.at = q.at + 1 /\ n.stale = q.stale
        /\ n.found = q.found
    BY DEF OpType
  <2>3. n # Idle
    BY <2>2 DEF Idle
  <2>4. n.at \in 1..Len(Script[n.op])
    BY <1>2, <2>2
  <2> HIDE DEF n
  <2> QED BY <1>2, <2>1, <2>2, <2>3, <2>4 DEF IsCall
<1> QED BY <1>1, <1>2

\* A step that sees to nothing leaves what is ahead ahead.
LEMMA HealsOn ==
  ASSUME NEW s, NEW k, NEW a, NEW r, NEW p, Len(s) \in Nat, r.at \in 1..Len(s), Heals(s, r, k, a),
         ~Mends(s, r.at, k), ~(r.found /\ s[r.at].do = "dropFound"), p.at = r.at + 1
  PROVE  r.at # Len(s) /\ Heals(s, p, k, a)
<1>1. PICK i \in r.at..Len(s) : Mends(s, i, k)
  BY DEF Heals, Ahead
<1>2. i # r.at
  BY <1>1
<1>3. i \in p.at..Len(s) /\ r.at # Len(s)
  BY <1>1, <1>2
<1>4. Wrote(s, p.at, a)
  BY DEF Heals, Wrote
<1> QED BY <1>1, <1>3, <1>4 DEF Heals, Ahead

LEMMA EmptiedBack ==
  ASSUME NEW s, NEW k, NEW a, NEW n \in Nat, Emptied(s, n + 1, k, a), ~(s[n].do = "drop" /\ k \in s[n].keys)
  PROVE  Emptied(s, n, k, a)
<1>1. PICK j \in 1..((n + 1) - 1) : s[j].do = "drop" /\ k \in s[j].keys
  BY DEF Emptied
<1>2. j \in 1..(n - 1)
  BY <1>1
<1>3. PICK i \in (n + 1)..Len(s) : a \in s[i].aspects
  BY DEF Emptied
<1>4. i \in n..Len(s)
  BY <1>3
<1> QED BY <1>1, <1>2, <1>3, <1>4 DEF Emptied

\* A call that moves on, past a step that sees to nothing and leaves the copy as it is.
LEMMA PassKeeps ==
  ASSUME CacheInv, NEW c \in Calls, calls[c] # Idle, NEW q \in OpType(Script),
         q.op = calls[c].op, q.at = calls[c].at,
         This(c).do \notin {"put", "drop", "find"} \/ key \notin This(c).keys,
         q.found = calls[c].found, ~(q.found /\ This(c).do = "dropFound")
  PROVE  Good(Script, key, aspect, entry, [calls EXCEPT ![c] = Moved(q)], cut)
<1> DEFINE r == calls[c]
           s == Script[r.op]
           p == Moved(q)
<1>1. /\ r \in OpType(Script) /\ r.op # "idle" /\ r.at \in 1..Len(s) /\ Len(s) \in Nat \ {0}
  BY AtWork
<1>2. /\ IsCall(Script, p) /\ (p = Idle <=> q.at = Len(s))
      /\ p # Idle => p.op = r.op /\ p.at = r.at + 1 /\ p.stale = q.stale /\ p.found = q.found
      /\ p.stale => q.stale
  BY <1>1, MovedIs
<1> HIDE DEF p
<1>3. Heals(s, r, key, aspect) => p # Idle /\ Heals(s, p, key, aspect)
  <2> HAVE Heals(s, r, key, aspect)
  <2>1. ~Mends(s, r.at, key) /\ ~(r.found /\ s[r.at].do = "dropFound")
    BY DEF Mends, This
  <2>2. CASE p = Idle
    <3> DEFINE z == [at |-> r.at + 1]
    <3>1. z.at = r.at + 1
      OBVIOUS
    <3>2. r.at # Len(s)
      <4> HIDE DEF z
      <4> QED BY <1>1, <2>1, <3>1, HealsOn
    <3> QED BY <1>2, <2>2, <3>2
  <2>3. CASE p # Idle
    BY <1>1, <1>2, <2>1, <2>3, HealsOn
  <2> QED BY <2>2, <2>3
<1>4. p # Idle /\ Emptied(s, p.at, key, aspect) /\ entry.here => entry.late
  <2> HAVE p # Idle /\ Emptied(s, p.at, key, aspect) /\ entry.here
  <2>1. Emptied(s, r.at, key, aspect)
    <3>1. r.at \in Nat /\ p.at = r.at + 1
      BY <1>1, <1>2
    <3>2. ~(s[r.at].do = "drop" /\ key \in s[r.at].keys)
      BY DEF This
    <3> QED BY <3>1, <3>2, EmptiedBack
  <2> QED BY <2>1 DEF CacheInv, Good, EmptyOK
<1>5. Good(Script, key, aspect, entry, calls, cut) /\ entry \in EntryType /\ (entry.stale => entry.here)
      /\ cut \in BOOLEAN
  BY DEF CacheInv, Good
<1>6. Good(Script, key, aspect, entry, [calls EXCEPT ![c] = p], cut)
  BY <1>2, <1>3, <1>4, <1>5, StepKeeps
<1> QED BY <1>6 DEF p

\* A call that ends, having nothing to see to, or after it was counted as cut short.
LEMMA EndKeeps ==
  ASSUME CacheInv, NEW c \in Calls, calls[c] # Idle, NEW y \in BOOLEAN, cut => y,
         ~y => ~Heals(Script[calls[c].op], calls[c], key, aspect)
  PROVE  Good(Script, key, aspect, entry, [calls EXCEPT ![c] = Idle], y)
<1>1. Good(Script, key, aspect, entry, calls, cut) /\ entry \in EntryType /\ (entry.stale => entry.here)
      /\ cut \in BOOLEAN
  BY DEF CacheInv, Good
<1>2. IsCall(Script, Idle) /\ ~Idle.stale
  BY DEF IsCall, Idle
<1> QED BY <1>1, <1>2, StepKeeps

\* A call that asks the database or Redis, unless it is an import, has changed nothing yet.
LEMMA AskerHealsNothing ==
  ASSUME CacheInv, NEW c \in Calls, calls[c] # Idle, This(c).do \in Asks, calls[c].op # "importCsv"
  PROVE  ~Heals(Script[calls[c].op], calls[c], key, aspect)
<1>1. calls[c].at \in 1..Len(Script[calls[c].op]) /\ Alone(Script[calls[c].op])
  BY AtWork DEF Fits
<1> QED BY <1>1 DEF Heals, Wrote, Alone, Changes, This

LEMMA RefuseKeeps ==
  ASSUME CacheInv, NEW c \in Calls, Refuse(c)
  PROVE  Good(Script, key, aspect, entry', calls', cut')
<1> DEFINE r == calls[c]
           s == Script[r.op]
           q == [r EXCEPT !.at = 4]
<1>1. /\ r # Idle /\ This(c).do \in {"write", "query"} /\ entry' = entry /\ cut' = cut
      /\ calls' = [calls EXCEPT ![c] = AfterRefusal(r)]
  <2>1. calls[c] # Idle /\ This(c).do \in {"write", "query"} /\ entry' = entry /\ cut' = cut
    BY DEF Refuse, Does
  <2>2. calls' = [calls EXCEPT ![c] = AfterRefusal(r)]
    BY AtWork, <2>1 DEF Refuse
  <2> QED BY <2>1, <2>2
<1>2. /\ r \in OpType(Script) /\ r.op # "idle" /\ r.at \in 1..Len(s) /\ Len(s) \in Nat \ {0}
      /\ Fits(r.op)
  BY <1>1, AtWork
<1>3. cut \in BOOLEAN /\ Good(Script, key, aspect, entry, calls, cut) /\ entry \in EntryType
      /\ (entry.stale => entry.here)
  BY DEF CacheInv, Good
<1>4. CASE r.op # "importCsv"
  BY <1>1, <1>3, <1>4, AskerHealsNothing, EndKeeps DEF AfterRefusal, Asks
<1>5. CASE r.op = "importCsv"
  <2>1. Resumes(s)
    BY <1>2, <1>5 DEF Fits
  <2>2. /\ q \in OpType(Script) /\ q.op = r.op /\ q.at = 4 /\ q.stale = r.stale
        /\ q.found = r.found /\ q # Idle /\ AfterRefusal(r) = q
    BY <1>2, <1>5 DEF OpType, Idle, AfterRefusal
  <2> HIDE DEF q
  <2>3. IsCall(Script, q)
    BY <2>1, <2>2 DEF IsCall, Resumes
  <2>4. Heals(s, r, key, aspect) => Heals(s, q, key, aspect)
    <3> HAVE Heals(s, r, key, aspect)
    <3>1. r.at \in {1, 2}
      BY <1>1, <1>2, <2>1 DEF Resumes, This, Asks
    <3>2. Changes(s, 1)
      BY <3>1 DEF Heals, Wrote, Changes
    <3>3. 4 \in 4..Len(s) /\ 1 \in 1..(4 - 1)
      BY <1>2, <2>1 DEF Resumes
    <3> QED BY <2>1, <2>2, <3>2, <3>3 DEF Resumes, Heals, Wrote, Ahead, Changes
  <2>5. ~Emptied(s, q.at, key, aspect)
    BY <1>2, <2>1, <2>2 DEF Emptied, Resumes, Changes
  <2>6. Good(Script, key, aspect, entry, [calls EXCEPT ![c] = q], cut)
    <3>1. /\ q # Idle => q.op = calls[c].op
          /\ Heals(Script[calls[c].op], calls[c], key, aspect)
               => q # Idle /\ Heals(Script[calls[c].op], q, key, aspect)
          /\ ~Emptied(Script[calls[c].op], q.at, key, aspect)
      BY <1>2, <2>2, <2>4, <2>5
    <3>2. calls[c] # Idle
      BY <1>1
    <3> HIDE DEF r, s
    <3> QED BY <1>3, <2>3, <3>1, <3>2, StepKeeps
  <2> QED BY <1>1, <2>2, <2>6
<1> QED BY <1>4, <1>5

LEMMA GetKeeps ==
  ASSUME CacheInv, NEW c \in Calls, Get(c)
  PROVE  Good(Script, key, aspect, entry', calls', cut')
<1> DEFINE r == calls[c]
<1>1. /\ r # Idle /\ This(c).do = "get" /\ entry' = entry /\ cut' = cut
      /\ calls' = [calls EXCEPT ![c] = IF entry.here THEN Idle ELSE Moved(r)]
  <2>1. calls[c] # Idle /\ This(c).do = "get" /\ entry' = entry /\ cut' = cut
    BY DEF Get, Does
  <2> QED BY AtWork, <2>1 DEF Get
<1>2. r \in OpType(Script) /\ Fits(r.op) /\ r.at \in 1..Len(Script[r.op]) /\ cut \in BOOLEAN
  BY <1>1, AtWork DEF CacheInv, Good
<1>3. r.op # "importCsv"
  <2> SUFFICES ASSUME r.op = "importCsv" PROVE FALSE
    OBVIOUS
  <2>1. Resumes(Script[r.op])
    BY <1>2 DEF Fits
  <2> QED BY <1>1, <1>2, <2>1 DEF Resumes, Asks, This
<1>4. CASE entry.here
  <2>1. calls' = [calls EXCEPT ![c] = Idle]
    BY <1>1, <1>4
  <2> QED BY <1>1, <1>2, <1>3, <2>1, AskerHealsNothing, EndKeeps DEF Asks
<1>5. CASE ~entry.here
  <2>1. calls' = [calls EXCEPT ![c] = Moved(r)]
    BY <1>1, <1>5
  <2> QED BY <1>1, <1>2, <2>1, PassKeeps
<1> QED BY <1>4, <1>5

LEMMA QueryKeeps ==
  ASSUME CacheInv, NEW c \in Calls, Query(c)
  PROVE  Good(Script, key, aspect, entry', calls', cut')
<1> DEFINE r == calls[c]
           q == [r EXCEPT !.stale = FALSE]
<1>1. /\ r # Idle /\ This(c).do = "query" /\ entry' = entry /\ cut' = cut
      /\ calls' = [calls EXCEPT ![c] = Moved(q)]
  <2>1. calls[c] # Idle /\ This(c).do = "query" /\ entry' = entry /\ cut' = cut
    BY DEF Query, Does
  <2> QED BY AtWork, <2>1 DEF Query
<1>2. r \in OpType(Script)
  BY <1>1, AtWork
<1>3. q \in OpType(Script) /\ q.op = r.op /\ q.at = r.at /\ ~q.stale /\ q.found = r.found
  BY <1>2 DEF OpType
<1> HIDE DEF q
<1> QED BY <1>1, <1>3, PassKeeps

\* An entry the call has seen to: the copy it leaves is new, or there is none.
LEMMA SeenToKeeps ==
  ASSUME CacheInv, NEW c \in Calls, calls[c] # Idle, NEW q, q = Moved(calls[c]), NEW e2 \in EntryType,
         e2 = NoEntry \/ (/\ e2 = Copy(c) /\ This(c).do \in {"put", "putNew"} /\ key \in This(c).keys)
  PROVE  Good(Script, key, aspect, e2, [calls EXCEPT ![c] = q], cut)
<1> DEFINE r == calls[c]
           s == Script[r.op]
<1>1. /\ r \in OpType(Script) /\ r.op # "idle" /\ r.at \in 1..Len(s) /\ Len(s) \in Nat \ {0}
  BY AtWork
<1>2. /\ IsCall(Script, q) /\ (q.stale => r.stale)
      /\ q # Idle => q.op = r.op /\ q.at = r.at + 1 /\ q.stale = r.stale
  BY <1>1, MovedIs
<1>3. /\ e2.stale => e2.here
      /\ ~(e2.stale /\ ~e2.late)
      /\ e2.here /\ ~e2.late => \A d \in Calls : ~DroppedFirst(d)
  <2>1. CASE e2 = NoEntry
    <3>1. ~e2.here /\ ~e2.stale
      BY <2>1 DEF NoEntry
    <3> QED BY <3>1
  <2>2. CASE e2 = Copy(c)
    <3> DEFINE w == \E k \in Calls : DroppedFirst(k)
    <3>1. e2.here /\ e2.stale = r.stale /\ e2.late = (r.stale \/ w)
      BY <2>2 DEF Copy
    <3> HIDE DEF w
    <3>2. (e2.stale => e2.here) /\ ~(e2.stale /\ ~e2.late) /\ (~e2.late => ~w)
      BY <3>1
    <3> QED BY <3>2 DEF w
  <2> QED BY <2>1, <2>2
<1>4. \A d \in Calls : calls[d] # Idle /\ Emptied(Script[calls[d].op], calls[d].at, key, aspect) => DroppedFirst(d)
  BY DEF Emptied, DroppedFirst
<1>5. q # Idle /\ Emptied(s, q.at, key, aspect) /\ e2.here => e2.late
  <2> SUFFICES ASSUME e2.here, Emptied(s, q.at, key, aspect) PROVE FALSE
    OBVIOUS
  <2>1. s[r.at].do \in {"put", "putNew"} /\ key \in s[r.at].keys
    BY DEF NoEntry, This
  <2> QED BY <1>1, <2>1 DEF Emptied
<1>6. cut \in BOOLEAN /\ Good(Script, key, aspect, entry, calls, cut)
  BY DEF CacheInv, Good
<1> QED BY <1>2, <1>3, <1>5, <1>6, <1>4, StepKeeps

LEMMA CopyIs ==
  ASSUME CacheInv, NEW c \in Calls, calls[c] # Idle
  PROVE  Copy(c) \in EntryType /\ NoEntry \in EntryType
<1>1. calls[c] \in OpType(Script)
  BY AtWork
<1> QED BY <1>1 DEF Copy, NoEntry, EntryType, OpType

LEMMA JsonSetKeeps ==
  ASSUME CacheInv, NEW c \in Calls, JsonSet(c)
  PROVE  Good(Script, key, aspect, entry', calls', cut')
<1> DEFINE r == calls[c]
<1>1. r # Idle /\ This(c).do = "put" /\ cut' = cut
  BY DEF JsonSet, Does
<1>2. /\ r \in OpType(Script) /\ calls = [d \in Calls |-> calls[d]]
  BY <1>1, AtWork
<1>3. calls' = [calls EXCEPT ![c] = Moved(r)]
  BY <1>2 DEF JsonSet, Move
<1>4. CASE key \in This(c).keys
  <2>1. entry' = Copy(c)
    BY <1>4 DEF JsonSet
  <2> QED BY <1>1, <1>3, <1>4, <2>1, SeenToKeeps, CopyIs
<1>5. CASE key \notin This(c).keys
  <2>1. entry' = entry
    BY <1>5 DEF JsonSet
  <2> QED BY <1>1, <1>2, <1>3, <1>5, <2>1, PassKeeps
<1> QED BY <1>4, <1>5

LEMMA JsonSetNewKeeps ==
  ASSUME CacheInv, NEW c \in Calls, JsonSetNew(c)
  PROVE  Good(Script, key, aspect, entry', calls', cut')
<1> DEFINE r == calls[c]
<1>1. r # Idle /\ This(c).do = "putNew" /\ cut' = cut
  BY DEF JsonSetNew, Does
<1>2. /\ r \in OpType(Script) /\ calls = [d \in Calls |-> calls[d]]
  BY <1>1, AtWork
<1>3. calls' = [calls EXCEPT ![c] = Moved(r)]
  BY <1>2 DEF JsonSetNew, Move
<1>4. CASE key \in This(c).keys /\ entry' = Copy(c)
  BY <1>1, <1>3, <1>4, SeenToKeeps, CopyIs
<1>5. CASE entry' = entry
  BY <1>1, <1>2, <1>3, <1>5, PassKeeps
<1> QED BY <1>4, <1>5 DEF JsonSetNew

LEMMA DelKeeps ==
  ASSUME CacheInv, NEW c \in Calls, Del(c)
  PROVE  Good(Script, key, aspect, entry', calls', cut')
<1> DEFINE r == calls[c]
<1>1. r # Idle /\ This(c).do = "drop" /\ cut' = cut
  BY DEF Del, Does
<1>2. /\ r \in OpType(Script) /\ calls = [d \in Calls |-> calls[d]]
  BY <1>1, AtWork
<1>3. calls' = [calls EXCEPT ![c] = Moved(r)]
  BY <1>2 DEF Del, Move
<1>4. CASE key \in This(c).keys
  <2>1. entry' = NoEntry
    BY <1>4 DEF Del
  <2> QED BY <1>1, <1>3, <1>4, <2>1, SeenToKeeps, CopyIs
<1>5. CASE key \notin This(c).keys
  <2>1. entry' = entry
    BY <1>5 DEF Del
  <2> QED BY <1>1, <1>2, <1>3, <1>5, <2>1, PassKeeps
<1> QED BY <1>4, <1>5

LEMMA DelFoundKeeps ==
  ASSUME CacheInv, NEW c \in Calls, DelFound(c)
  PROVE  Good(Script, key, aspect, entry', calls', cut')
<1> DEFINE r == calls[c]
<1>1. r # Idle /\ This(c).do = "dropFound" /\ cut' = cut
  BY DEF DelFound, Does
<1>2. /\ r \in OpType(Script) /\ calls = [d \in Calls |-> calls[d]]
  BY <1>1, AtWork
<1>3. calls' = [calls EXCEPT ![c] = Moved(r)]
  BY <1>2 DEF DelFound, Move
<1>4. CASE r.found
  <2>1. entry' = NoEntry
    BY <1>4 DEF DelFound
  <2> QED BY <1>1, <1>3, <1>4, <2>1, SeenToKeeps, CopyIs
<1>5. CASE ~r.found
  <2>1. entry' = entry
    BY <1>5 DEF DelFound
  <2> QED BY <1>1, <1>2, <1>3, <1>5, <2>1, PassKeeps
<1> QED BY <1>4, <1>5

LEMMA FindKeysKeeps ==
  ASSUME CacheInv, NEW c \in Calls, FindKeys(c)
  PROVE  Good(Script, key, aspect, entry', calls', cut')
<1> DEFINE r == calls[c]
           s == Script[r.op]
           q == [r EXCEPT !.found = entry.here /\ key \in This(c).keys]
           p == Moved(q)
<1>1. /\ r # Idle /\ s[r.at].do = "find" /\ entry' = entry /\ cut' = cut
      /\ calls' = [calls EXCEPT ![c] = Moved(q)]
  <2>1. calls[c] # Idle /\ This(c).do = "find" /\ entry' = entry /\ cut' = cut
    BY DEF FindKeys, Does
  <2> QED BY AtWork, <2>1 DEF FindKeys, This
<1>2. /\ r \in OpType(Script) /\ r.op # "idle" /\ r.at \in 1..Len(s) /\ Len(s) \in Nat \ {0}
      /\ Fits(r.op)
  BY <1>1, AtWork
<1>3. cut \in BOOLEAN /\ Good(Script, key, aspect, entry, calls, cut) /\ entry \in EntryType
      /\ (entry.stale => entry.here)
  BY DEF CacheInv, Good
<1>4. /\ q \in OpType(Script) /\ q.op = r.op /\ q.at = r.at /\ q.stale = r.stale
      /\ q.found = (entry.here /\ key \in s[r.at].keys)
  BY <1>2, <1>3 DEF OpType, EntryType, This
<1> HIDE DEF q
<1>5. r.at + 1 \in 1..Len(s) /\ s[r.at + 1].do = "dropFound"
  BY <1>1, <1>2 DEF Fits, Formed, Paired
<1>6. /\ IsCall(Script, p) /\ p # Idle /\ p.op = r.op /\ p.at = r.at + 1 /\ p.stale = r.stale
      /\ p.found = q.found
  <2>1. r.at # Len(s)
    BY <1>2, <1>5
  <2> QED BY <1>2, <1>4, <2>1, MovedIs
<1> HIDE DEF p
<1>7. ASSUME entry.stale, Heals(s, r, key, aspect) PROVE Heals(s, p, key, aspect)
  <2>1. Wrote(s, p.at, aspect)
    BY <1>2, <1>6, <1>7 DEF Heals, Wrote
  <2>2. CASE key \in s[r.at].keys
    BY <1>3, <1>4, <1>5, <1>6, <1>7, <2>1, <2>2 DEF Heals, Ahead
  <2>3. CASE key \notin s[r.at].keys
    BY <1>1, <1>2, <1>6, <1>7, <2>3, HealsOn DEF Mends
  <2> QED BY <2>2, <2>3
<1>8. Emptied(s, p.at, key, aspect) /\ entry.here => entry.late
  <2> HAVE Emptied(s, p.at, key, aspect) /\ entry.here
  <2>1. Emptied(s, r.at, key, aspect)
    <3>1. r.at \in Nat /\ p.at = r.at + 1 /\ ~(s[r.at].do = "drop" /\ key \in s[r.at].keys)
      BY <1>1, <1>2, <1>6
    <3> QED BY <3>1, EmptiedBack
  <2> QED BY <1>1, <2>1 DEF CacheInv, Good, EmptyOK
<1>9. Good(Script, key, aspect, entry, [calls EXCEPT ![c] = p], cut)
  <2>1. /\ calls[c] # Idle /\ (p # Idle => p.op = calls[c].op)
        /\ entry.stale => (Heals(Script[calls[c].op], calls[c], key, aspect)
                             => p # Idle /\ Heals(Script[calls[c].op], p, key, aspect))
        /\ p # Idle /\ Emptied(Script[calls[c].op], p.at, key, aspect) /\ entry.here => entry.late
    BY <1>1, <1>2, <1>6, <1>7, <1>8
  <2> HIDE DEF r, s
  <2> QED BY <1>3, <1>6, <2>1, StepKeeps
<1> QED BY <1>1, <1>9 DEF p

LEMMA CutKeeps ==
  ASSUME CacheInv, NEW c \in Calls, Cut(c)
  PROVE  Good(Script, key, aspect, entry', calls', cut')
<1>1. /\ calls[c] # Idle /\ entry' = entry /\ calls' = [calls EXCEPT ![c] = Idle]
      /\ cut' = (cut \/ Wrote(Script[calls[c].op], calls[c].at, aspect))
  BY DEF Cut, Upset, HasWritten, Wrote
<1>2. cut \in BOOLEAN
  BY DEF CacheInv, Good
<1>3. cut' \in BOOLEAN /\ (cut => cut') /\ (~cut' => ~Heals(Script[calls[c].op], calls[c], key, aspect))
  BY <1>1, <1>2 DEF Heals, Wrote
<1> QED BY <1>1, <1>3, EndKeeps

LEMMA LostSetKeeps ==
  ASSUME CacheInv, NEW c \in Calls, LostSet(c)
  PROVE  Good(Script, key, aspect, entry', calls', cut')
<1> DEFINE r == calls[c]
           s == Script[r.op]
           p == Moved(r)
<1>1. /\ r # Idle /\ s[r.at].do \in {"put", "putNew"} /\ entry' = entry
      /\ cut' = (cut \/ Wrote(s, r.at, aspect))
  BY DEF LostSet, Upset, HasWritten, Wrote, This
<1>2. /\ r \in OpType(Script) /\ r.op # "idle" /\ r.at \in 1..Len(s) /\ Len(s) \in Nat \ {0}
      /\ calls = [d \in Calls |-> calls[d]]
  BY <1>1, AtWork
<1>3. cut \in BOOLEAN /\ Good(Script, key, aspect, entry, calls, cut) /\ entry \in EntryType
      /\ (entry.stale => entry.here)
  BY DEF CacheInv, Good
<1>4. calls' = [calls EXCEPT ![c] = p]
  BY <1>2 DEF LostSet, Move
<1>5. /\ IsCall(Script, p) /\ (p.stale => r.stale)
      /\ p # Idle => p.op = r.op /\ p.at = r.at + 1 /\ p.stale = r.stale
  BY <1>2, MovedIs
<1> HIDE DEF p
<1>6. cut' \in BOOLEAN /\ (~cut' => ~cut /\ ~Heals(s, r, key, aspect))
  BY <1>1, <1>3 DEF Heals, Wrote
<1>7. p # Idle /\ Emptied(s, p.at, key, aspect) /\ entry.here => entry.late
  <2> HAVE p # Idle /\ Emptied(s, p.at, key, aspect) /\ entry.here
  <2>1. Emptied(s, r.at, key, aspect)
    <3>1. r.at \in Nat /\ p.at = r.at + 1 /\ ~(s[r.at].do = "drop" /\ key \in s[r.at].keys)
      BY <1>1, <1>2, <1>5
    <3> QED BY <3>1, EmptiedBack
  <2> QED BY <1>1, <2>1 DEF CacheInv, Good, EmptyOK
<1>8. Good(Script, key, aspect, entry, [calls EXCEPT ![c] = p], cut')
  <2>1. /\ calls[c] # Idle /\ (p # Idle => p.op = calls[c].op)
        /\ ~cut' => ~cut /\ ~Heals(Script[calls[c].op], calls[c], key, aspect)
        /\ p # Idle /\ Emptied(Script[calls[c].op], p.at, key, aspect) /\ entry.here => entry.late
    BY <1>1, <1>5, <1>6, <1>7
  <2> HIDE DEF r, s
  <2> QED BY <1>3, <1>5, <1>6, <2>1, StepKeeps
<1> QED BY <1>1, <1>4, <1>8

LEMMA BeginKeeps ==
  ASSUME CacheInv, NEW c \in Calls, NEW op \in Ops, Begin(c, op)
  PROVE  Good(Script, key, aspect, entry', calls', cut')
<1> DEFINE n == [Idle EXCEPT !.op = op]
           f == [calls EXCEPT ![c] = n]
<1>1. calls[c] = Idle /\ calls' = f /\ entry' = entry /\ cut' = cut
  BY DEF Begin
<1>2. /\ entry \in EntryType /\ (entry.stale => entry.here) /\ cut \in BOOLEAN
      /\ calls = [d \in Calls |-> calls[d]] /\ \A d \in Calls : IsCall(Script, calls[d])
      /\ HealOK(Script, key, aspect, entry, calls, cut)
      /\ EmptyOK(Script, key, aspect, entry, calls) /\ Followed
  BY DEF CacheInv, Good
<1>3. n \in OpType(Script) /\ n # Idle /\ n.op = op /\ n.at = 1 /\ Len(Script[op]) \in Nat \ {0}
  <2>1. op # "idle" /\ Len(Script[op]) \in Nat \ {0}
    BY <1>2, ScriptsFit DEF Fits, Formed
  <2>2. ASSUME NEW o \in DOMAIN Script
        PROVE  LET z == [Idle EXCEPT !.op = o] IN z \in OpType(Script) /\ z.op = o /\ z.at = 1
    BY DEF Idle, OpType
  <2>3. n \in OpType(Script) /\ n.op = op /\ n.at = 1
    <3> HIDE DEF n
    <3> QED BY <2>2 DEF Ops, n
  <2> HIDE DEF n
  <2> QED BY <2>1, <2>3 DEF Idle
<1> HIDE DEF n
<1>4. f[c] = n /\ f = [d \in Calls |-> f[d]] /\ \A d \in Calls : d # c => f[d] = calls[d]
  BY <1>2
<1> HIDE DEF f
<1>5. \A d \in Calls : IsCall(Script, f[d])
  <2>1. IsCall(Script, n)
    BY <1>3 DEF IsCall
  <2> QED BY <1>2, <1>4, <2>1
<1>6. HealOK(Script, key, aspect, entry, f, cut)
  <2> SUFFICES ASSUME entry.stale, ~entry.late, ~cut
               PROVE  \E d \in Calls : f[d] # Idle /\ Heals(Script[f[d].op], f[d], key, aspect)
    BY DEF HealOK
  <2>1. PICK d \in Calls : calls[d] # Idle /\ Heals(Script[calls[d].op], calls[d], key, aspect)
    BY <1>2 DEF HealOK
  <2>2. f[d] = calls[d]
    BY <1>1, <1>4, <2>1
  <2> QED BY <2>1, <2>2
<1>7. EmptyOK(Script, key, aspect, entry, f)
  <2> SUFFICES ASSUME NEW d \in Calls, f[d] # Idle, Emptied(Script[f[d].op], f[d].at, key, aspect), entry.here
               PROVE  entry.late
    BY DEF EmptyOK
  <2>1. d # c
    BY <1>3, <1>4 DEF Emptied
  <2>2. f[d] = calls[d]
    BY <1>4, <2>1
  <2> QED BY <1>2, <2>2 DEF EmptyOK
<1>8. Good(Script, key, aspect, entry, f, cut)
  BY <1>2, <1>4, <1>5, <1>6, <1>7 DEF Good
<1> QED BY <1>1, <1>8

LEMMA ExpireKeeps ==
  ASSUME CacheInv, Expire
  PROVE  Good(Script, key, aspect, entry', calls', cut')
<1>1. entry' = NoEntry /\ calls' = calls /\ cut' = cut
  BY DEF Expire
<1>2. Good(Script, key, aspect, NoEntry, calls, cut)
  BY DEF CacheInv, Good, NoEntry, EntryType, HealOK, EmptyOK
<1> QED BY <1>1, <1>2

LEMMA CommitKeeps ==
  ASSUME CacheInv, NEW c \in Calls, Commit(c)
  PROVE  Good(Script, key, aspect, entry', calls', cut')
<1> DEFINE r == calls[c]
           s == Script[r.op]
           changed == aspect \in s[r.at].aspects
           q == [r EXCEPT !.stale = FALSE]
           p == Moved(q)
           e == [entry EXCEPT !.stale = @ \/ (entry.here /\ changed)]
           f == [d \in Calls |-> IF d = c THEN p
                                 ELSE IF calls[d] = Idle THEN Idle
                                 ELSE [calls[d] EXCEPT !.stale = @ \/ changed]]
<1>1. r # Idle /\ s[r.at].do = "write" /\ cut' = cut /\ entry' = e
  BY DEF Commit, Does, This
<1>2. calls' = f
  BY <1>1 DEF Commit, This
<1>3. /\ entry \in EntryType /\ (entry.stale => entry.here) /\ cut \in BOOLEAN /\ changed \in BOOLEAN
      /\ \A d \in Calls : IsCall(Script, calls[d])
      /\ HealOK(Script, key, aspect, entry, calls, cut)
      /\ EmptyOK(Script, key, aspect, entry, calls) /\ Followed
  BY DEF CacheInv, Good
<1>4. /\ r \in OpType(Script) /\ r.op # "idle" /\ r.op \in Ops /\ r.at \in 1..Len(s)
      /\ Len(s) \in Nat \ {0} /\ Formed(s)
  BY <1>1, AtWork DEF Fits
<1>5. q \in OpType(Script) /\ q.op = r.op /\ q.at = r.at /\ ~q.stale /\ q.found = r.found
  BY <1>4 DEF OpType
<1> HIDE DEF q
<1>6. /\ IsCall(Script, p) /\ (p = Idle <=> r.at = Len(s)) /\ ~p.stale
      /\ p # Idle => p.op = r.op /\ p.at = r.at + 1 /\ p.found = r.found
  BY <1>4, <1>5, MovedIs
<1> HIDE DEF p
<1>7. /\ e \in EntryType /\ e.here = entry.here /\ e.late = entry.late
      /\ e.stale = (entry.stale \/ (entry.here /\ changed))
  BY <1>3 DEF EntryType
<1>8. ASSUME NEW d \in Calls, d # c, calls[d] # Idle
      PROVE  /\ f[d] \in OpType(Script) /\ f[d] # Idle /\ f[d].op = calls[d].op /\ f[d].at = calls[d].at
             /\ f[d].stale = (calls[d].stale \/ changed) /\ f[d].found = calls[d].found
             /\ calls[d].at \in 1..Len(Script[calls[d].op])
  <2>1. calls[d] \in OpType(Script) /\ calls[d].op # "idle" /\ calls[d].at \in 1..Len(Script[calls[d].op])
    BY <1>8, AtWork
  <2>2. f[d] = [calls[d] EXCEPT !.stale = @ \/ changed]
    BY <1>8
  <2> HIDE DEF f, changed
  <2> QED BY <1>3, <2>1, <2>2 DEF OpType, Idle
<1>9. f[c] = p /\ f = [d \in Calls |-> f[d]] /\ \A d \in Calls : d # c /\ calls[d] = Idle => f[d] = Idle
  OBVIOUS
<1>10. changed => Writer(s, aspect)
  BY <1>4 DEF Writer
<1> HIDE DEF f, e
<1>11. \A d \in Calls : IsCall(Script, f[d])
  <2> TAKE d \in Calls
  <2>1. CASE d = c
    BY <1>6, <1>9, <2>1
  <2>2. CASE d # c
    BY <1>8, <1>9, <2>2 DEF IsCall
  <2> QED BY <2>1, <2>2
<1>12. HealOK(Script, key, aspect, e, f, cut)
  <2> SUFFICES ASSUME e.stale, ~e.late, ~cut
               PROVE  \E d \in Calls : f[d] # Idle /\ Heals(Script[f[d].op], f[d], key, aspect)
    BY DEF HealOK
  <2>1. CASE changed
    <3>1. ~Cleared(s, r.at)
      <4> SUFFICES ASSUME Cleared(s, r.at) PROVE FALSE
        OBVIOUS
      <4>1. Emptied(s, r.at, key, aspect)
        BY <1>4, <2>1 DEF Cleared, Emptied
      <4>2. entry.here
        BY <1>3, <1>7
      <4> QED BY <1>1, <1>3, <1>7, <4>1, <4>2 DEF EmptyOK
    <3>2. PICK j \in (r.at + 1)..Len(s) : Mends(s, j, key)
      BY <1>4, <2>1, <3>1 DEF Formed, Healed, Changes
    <3>3. p # Idle /\ r.at \in 1..((r.at + 1) - 1)
      BY <1>4, <1>6, <3>2
    <3>4. Heals(s, p, key, aspect)
      BY <1>6, <2>1, <3>2, <3>3 DEF Heals, Wrote, Ahead
    <3> QED BY <1>6, <1>9, <3>3, <3>4
  <2>2. CASE ~changed
    <3>1. PICK d \in Calls : calls[d] # Idle /\ Heals(Script[calls[d].op], calls[d], key, aspect)
      BY <1>3, <1>7, <2>2 DEF HealOK
    <3>2. CASE d = c
      <4>1. Heals(s, r, key, aspect) /\ ~Mends(s, r.at, key) /\ s[r.at].do # "dropFound"
        BY <1>1, <3>1, <3>2 DEF Mends
      <4>2. r.at # Len(s)
        <5> DEFINE z == [at |-> r.at + 1]
        <5>1. z.at = r.at + 1
          OBVIOUS
        <5> HIDE DEF z
        <5> QED BY <1>4, <4>1, <5>1, HealsOn
      <4>3. p # Idle
        BY <1>6, <4>2
      <4>4. Heals(s, p, key, aspect)
        BY <1>4, <1>6, <4>1, <4>3, HealsOn
      <4> QED BY <1>6, <1>9, <4>3, <4>4
    <3>3. CASE d # c
      <4>1. Heals(Script[f[d].op], f[d], key, aspect)
        <5>1. f[d].op = calls[d].op /\ f[d].at = calls[d].at /\ f[d].found = calls[d].found
          BY <1>8, <3>1, <3>3
        <5> QED BY <3>1, <5>1 DEF Heals, Ahead
      <4> QED BY <1>8, <3>1, <3>3, <4>1
    <3> QED BY <3>2, <3>3
  <2> QED BY <2>1, <2>2
<1>13. EmptyOK(Script, key, aspect, e, f)
  <2> SUFFICES ASSUME NEW d \in Calls, f[d] # Idle, Emptied(Script[f[d].op], f[d].at, key, aspect), e.here
               PROVE  e.late
    BY DEF EmptyOK
  <2>1. calls[d] # Idle /\ Emptied(Script[calls[d].op], calls[d].at, key, aspect)
    <3>1. CASE d = c
      <4>1. Emptied(s, r.at + 1, key, aspect) /\ r.at \in Nat
        BY <1>4, <1>6, <1>9, <3>1
      <4>2. ~(s[r.at].do = "drop" /\ key \in s[r.at].keys)
        BY <1>1
      <4>3. Emptied(s, r.at, key, aspect)
        BY <4>1, <4>2, EmptiedBack
      <4> QED BY <1>1, <3>1, <4>3
    <3>2. CASE d # c
      BY <1>8, <1>9, <3>2
    <3> QED BY <3>1, <3>2
  <2> QED BY <1>3, <1>7, <2>1 DEF EmptyOK
<1>14. Good(Script, key, aspect, e, f, cut)
  <2>1. e.stale => e.here
    BY <1>3, <1>7
  <2> QED BY <1>3, <1>7, <1>9, <1>11, <1>12, <1>13, <2>1 DEF Good
<1> QED BY <1>1, <1>2, <1>14

-----------------------------------------------------------------------------
(* What the readers of an entry may count on. *)

LEMMA FollowedStays ==
  ASSUME [CacheNext]_cacheVars
  PROVE  key' = key /\ aspect' = aspect
BY DEF CacheNext, cacheVars, Expire, Begin, Commit, Refuse, Get, Query, JsonSet, JsonSetNew, Del,
       FindKeys, DelFound, Cut, LostSet, Upset, Does

LEMMA StepKeepsCacheInv ==
  ASSUME CacheInv, [CacheNext]_cacheVars
  PROVE  CacheInv'
<1>1. key' = key /\ aspect' = aspect
  BY FollowedStays
<1>2. Script' = Script /\ Followed'
  <2>1. Followed
    BY DEF CacheInv
  <2> QED BY <1>1, <2>1 DEF Script, Read, Followed
<1>3. Good(Script, key, aspect, entry', calls', cut')
  <2>1. CASE Expire
    BY <2>1, ExpireKeeps
  <2>2. ASSUME NEW c \in Calls, NEW op \in Ops, Begin(c, op)
        PROVE  Good(Script, key, aspect, entry', calls', cut')
    BY <2>2, BeginKeeps
  <2>3. ASSUME NEW c \in Calls,
               \/ Commit(c) \/ Refuse(c) \/ Get(c) \/ Query(c) \/ JsonSet(c) \/ JsonSetNew(c)
               \/ Del(c) \/ FindKeys(c) \/ DelFound(c) \/ Cut(c) \/ LostSet(c)
        PROVE  Good(Script, key, aspect, entry', calls', cut')
    BY <2>3, CommitKeeps, RefuseKeeps, GetKeeps, QueryKeeps, JsonSetKeeps, JsonSetNewKeeps, DelKeeps,
       FindKeysKeeps, DelFoundKeeps, CutKeeps, LostSetKeeps
  <2>4. CASE UNCHANGED cacheVars
    BY <2>4 DEF CacheInv, cacheVars
  <2> QED BY <2>1, <2>2, <2>3, <2>4 DEF CacheNext
<1>4. Good(Script', key', aspect', entry', calls', cut')
  BY <1>1, <1>2, <1>3
<1> QED BY <1>2, <1>4 DEF CacheInv

LEMMA CacheInvExplains ==
  ASSUME CacheInv
  PROVE  StaleOnlyIfOverlapped
<1> SUFFICES ASSUME entry.stale, ~entry.late, ~cut PROVE \E c \in Calls : HasWritten(c)
  BY DEF StaleOnlyIfOverlapped
<1>1. PICK c \in Calls : calls[c] # Idle /\ Heals(Script[calls[c].op], calls[c], key, aspect)
  BY DEF CacheInv, Good, HealOK
<1> QED BY <1>1 DEF Heals, Wrote, HasWritten

\* A copy in Redis differs from the database only in a gap, in what an operation
\* wrote that has not ended yet or was cut short, or because it was put too
\* late, after the commit or the drop that should have replaced it: of every
\* entry and every aspect of it, for any number of operations at once, in any
\* order, and any number of cuts.
THEOREM StaleOnlyIfOverlappedCorrect == CacheSpec => []StaleOnlyIfOverlapped
<1> DEFINE Held == CacheInv \/ aspect \in Gaps[key]
<1>1. CacheInit => Held
  <2> SUFFICES ASSUME CacheInit, aspect \notin Gaps[key] PROVE CacheInv
    OBVIOUS
  <2>1. Followed /\ entry = NoEntry /\ calls = [c \in Calls |-> Idle] /\ cut = FALSE
    BY DEF CacheInit, Followed
  <2>2. NoEntry \in EntryType /\ ~NoEntry.stale /\ ~NoEntry.here
    BY DEF NoEntry, EntryType
  <2> QED BY <2>1, <2>2 DEF CacheInv, Good, IsCall, HealOK, EmptyOK
<1>2. Held /\ [CacheNext]_cacheVars => Held'
  <2> SUFFICES ASSUME Held, [CacheNext]_cacheVars PROVE Held'
    OBVIOUS
  <2>1. CASE CacheInv
    BY <2>1, StepKeepsCacheInv
  <2>2. CASE aspect \in Gaps[key]
    BY <2>2, FollowedStays
  <2> QED BY <2>1, <2>2
<1>3. Held => StaleOnlyIfOverlapped
  BY CacheInvExplains DEF StaleOnlyIfOverlapped
<1> QED BY <1>1, <1>2, <1>3, PTL DEF CacheSpec
=============================================================================
