---------------------------- MODULE Requests_proofs ----------------------------
(***************************************************************************)
(* What a request may count on, proved for any number of requests and of   *)
(* users.  HttpPipeline and Accounts: the guards count and lock out the    *)
(* right callers, on accounts whose two sides agree, and the routes of the *)
(* tables do not take each other's requests.  ExamQuestions: the           *)
(* request that opens an exam or submits it is answered with a job whose   *)
(* end is announced, and an open exam has questions or a reason for having *)
(* none.                                                                   *)
(***************************************************************************)
EXTENDS HttpPipeline, ExamQuestions, SequenceTheorems, FiniteSetTheorems, TLAPS

---------------------------------------------------------------------------
(* The two sides of an account                                             *)

AccountType == [st : {"none", "live", "gone", "obfuscated"}, email : Emails \cup {"none"},
                confirmed : BOOLEAN, origin : {"signup", "oauth"}, session : BOOLEAN,
                moved : BOOLEAN]
CallType == [pc : {"idle", "signUp", "create", "compensate", "syncCreate", "syncUpdate",
                   "supabaseEmail", "rowEmail", "supabaseDelete", "rowDelete"},
             s : Sups \cup {0}, email : Emails \cup {"none"}, by : {"none", "user", "admin"}]

IsCall(r) ==
  /\ r \in CallType /\ (r.pc \in {"idle", "signUp"} <=> r.s = 0)
  /\ r.pc # "idle" => r.by \in {"user", "admin"}
  /\ r.pc \notin {"idle", "supabaseDelete", "rowDelete"} => r.email \in Emails

\* What a call that nothing has disturbed knows of its account s.
Stage(call, s) ==
  /\ call.pc \in {"rowEmail", "syncCreate"} => Live(s) /\ Address(s, call.email)
  /\ call.pc = "create" => Obscured(s) \/ (Live(s) /\ Address(s, call.email))
  /\ call.pc = "create" => (Live(s) /\ rows[s] # NoRow => Address(s, rows[s].email))
  /\ call.pc \in {"syncCreate", "syncUpdate", "supabaseEmail"} => Agree(s)
  /\ call.pc = "rowDelete" => ~Live(s)

\* An account nothing has disturbed has one call, or its two sides agree.
Settled(s) ==
  /\ \A c, d \in Calls : calls[c].s = s /\ calls[d].s = s => c = d
  /\ \A c \in Calls : calls[c].s = s => Stage(calls[c], s)
  /\ ~Busy(s) => Agree(s)
\* An account that does not exist yet is nobody's.
Unborn(s) == sup[s].st = "none" => rows[s] = NoRow /\ s \notin disturbed /\ ~Busy(s)
SideInv(s) ==
  /\ Unborn(s) /\ (sup[s].origin = "oauth" => sup[s].confirmed)
  /\ Live(s) => sup[s].email \in Emails
  /\ s \notin disturbed => Settled(s)
AccountTypes ==
  /\ sup \in [Sups -> AccountType] /\ rows \in [Sups -> UserRows \cup {NoRow}]
  /\ calls = [c \in Calls |-> calls[c]] /\ \A c \in Calls : IsCall(calls[c])
SidesInv == AccountTypes /\ \A s \in Sups : SideInv(s)

\* An account that was switched off, and not on again, has an odd count.
Odd(n) == n % 2 = 1
OffsInv ==
  /\ offs \in [Sups -> Nat]
  /\ \A s \in Sups : IF rows[s] = NoRow THEN ~Odd(offs[s]) ELSE rows[s].active <=> ~Odd(offs[s])

\* A request that has been let in was not of an account that is still off.
ReqStages == {"idle", "authenticate", "throttle", "authorize", "handle", "answered"}
ReqCodes == {0, 200, 401, 403, 429}
Handlers == {0, route.reached}
ReqTokens == Tokens \cup {NoToken}
ReqTrackers == Trackers \cup {<<>>}
ReqRoles == SUBSET {"GUEST", "MEMBER", "ADMIN"}
ReqIps == Ips \cup {"none"}
ReqType == [pc : ReqStages, code : ReqCodes, handler : Handlers, ip : ReqIps,
            token : ReqTokens, tracker : ReqTrackers, role : ReqRoles, ver : Nat]
Closed(r) == r.pc \in {"throttle", "authorize", "handle"} /\ ~Routes[r.handler].open
IsRequest(r) ==
  /\ r \in ReqType /\ (r.pc # "idle" => r.ip \in Ips)
  /\ r.token.s \in Sups => r.ver <= offs[r.token.s]
  /\ Closed(r) => r.token.s \in Sups /\ (Odd(r.ver) => r.ver < offs[r.token.s])
  /\ r.tracker # <<>> => /\ r.token.s \in Sups
                         /\ r.tracker \in {<<"user", r.token.s>>, <<"supabase", r.token.s>>}
  /\ r.pc = "authenticate" => r.tracker = <<>>
  /\ r.pc = "throttle" => (Routes[r.handler].open <=> r.tracker = <<>>)
ReqInv == req = [p \in Slots |-> req[p]] /\ \A p \in Slots : IsRequest(req[p])

\* A window counts under a tracker only requests of the address or the account it names.
Senders == [s : Sups \cup {0}, ip : Ips]
Names(t, x) == IF t[1] = "ip" THEN x.ip = t[2] ELSE x.s = t[2]
HitsInv ==
  /\ hits \in [Trackers -> Seq(Senders)]
  /\ \A t \in Trackers : \A i \in DOMAIN hits[t] : Names(t, hits[t][i])
PipelineInv == SidesInv /\ OffsInv /\ ReqInv /\ HitsInv

LEMMA NoCallIs == NoCall.pc = "idle" /\ NoCall.s = 0 /\ IsCall(NoCall) /\ 0 \notin Sups
BY AccountsAssumption DEF NoCall, CallType, IsCall

---------------------------------------------------------------------------
(* How one step touches the accounts                                       *)

\* The two sides of an account are those they were, but for what no other
\* account and no call looks at.
Same(s) ==
  /\ sup'[s].st = sup[s].st /\ sup'[s].origin = sup[s].origin
  /\ \/ sup'[s].email = sup[s].email /\ sup'[s].moved = sup[s].moved
     \/ sup'[s].email \in Emails /\ sup'[s].moved
  /\ sup[s].confirmed => sup'[s].confirmed
  /\ rows[s] = NoRow <=> rows'[s] = NoRow
  /\ rows[s] # NoRow => rows'[s].email = rows[s].email
\* Disturbed accounts stay so, and no account is disturbed before it exists.
Disturbs(S) == disturbed \subseteq disturbed' /\ disturbed' \subseteq disturbed \cup S

LEMMA Elsewhere ==
  ASSUME NEW s \in Sups, SideInv(s), Same(s), NEW S, Disturbs(S), s \in S => sup[s].st # "none",
         \A c \in Calls : calls[c].s = s \/ calls'[c].s = s => calls'[c] = calls[c]
  PROVE  SideInv(s)'
<1>1. /\ Live(s)' <=> Live(s)
      /\ Agree(s) => Agree(s)'
      /\ Busy(s)' <=> Busy(s)
  BY DEF Live, Agree, Busy, Same, Address, Obscured
<1>2. \A c \in Calls : calls[c].s = s /\ Stage(calls[c], s) => Stage(calls[c], s)'
  BY <1>1 DEF Stage, Same, Address, Obscured
<1> QED
  BY <1>1, <1>2 DEF SideInv, Unborn, Settled, Same, Disturbs

\* Call c goes on as r; other accounts than its own do not notice.
Calls1(c, r) == calls' = [calls EXCEPT ![c] = r]

LEMMA OneCall ==
  ASSUME AccountTypes, NEW c \in Calls, NEW r, Calls1(c, r)
  PROVE  calls'[c] = r /\ \A d \in Calls \ {c} : calls'[d] = calls[d]
BY DEF AccountTypes, Calls1

LEMMA OthersStay ==
  ASSUME SidesInv, NEW c \in Calls, NEW r, Calls1(c, r), NEW s \in Sups,
         calls[c].s # s, r.s # s, Same(s), NEW S, Disturbs(S), s \in S => sup[s].st # "none"
  PROVE  SideInv(s)'
BY OneCall, Elsewhere DEF SidesInv

\* What call c leaves of its own account.
LEMMA OwnAccount ==
  ASSUME SidesInv, NEW c \in Calls, NEW r, Calls1(c, r), NEW s \in Sups,
         calls[c].s = s \/ (calls[c].s = 0 /\ (~Busy(s) \/ s \in disturbed')),
         r.s \in {s, 0}, disturbed \subseteq disturbed',
         sup'[s].st # "none", sup'[s].origin = "oauth" => sup'[s].confirmed,
         Live(s)' => sup'[s].email \in Emails,
         s \notin disturbed' /\ r.s = s => Stage(r, s)',
         s \notin disturbed' /\ r.s = 0 => Agree(s)'
  PROVE  SideInv(s)'
<1>1. calls'[c] = r /\ \A d \in Calls \ {c} : calls'[d] = calls[d]
  BY OneCall DEF SidesInv
<1>2. ASSUME s \notin disturbed' PROVE Settled(s)'
  <2>1. \A d \in Calls \ {c} : calls'[d].s # s
    BY <1>1, <1>2, NoCallIs DEF SidesInv, SideInv, Settled, Busy
  <2>2. calls'[c].s = s => Stage(calls[c], s)'
    BY <1>1, <1>2 DEF Stage, Address, Obscured
  <2>3. Busy(s)' <=> r.s = s
    BY <1>1, <2>1 DEF Busy
  <2>4. ~Busy(s)' => Agree(s)'
    BY <1>2, <2>3
  <2> QED
    BY <2>1, <2>2, <2>4 DEF Settled
<1> QED
  BY <1>2 DEF SideInv, Unborn

\* A step of call c, whose account is own, or 0 for none.
LEMMA CallStep ==
  ASSUME SidesInv, NEW c \in Calls, NEW r, Calls1(c, r), IsCall(r),
         sup' \in [Sups -> AccountType], rows' \in [Sups -> UserRows \cup {NoRow}],
         NEW own, calls[c].s \in {own, 0}, r.s \in {own, 0},
         \A s \in Sups \ {own} : Same(s), Disturbs({own}), own \in Sups => SideInv(own)'
  PROVE  SidesInv'
<1>1. AccountTypes'
  <2>1. calls'[c] = r /\ \A d \in Calls \ {c} : calls'[d] = calls[d]
    BY OneCall DEF SidesInv
  <2>2. calls' = [d \in Calls |-> calls'[d]]
    BY DEF Calls1, SidesInv, AccountTypes
  <2> QED
    BY <2>1, <2>2 DEF SidesInv, AccountTypes
<1>2. ASSUME NEW s \in Sups, s # own PROVE SideInv(s)'
  <2>1. calls[c].s # s /\ r.s # s
    BY <1>2, NoCallIs
  <2> QED
    BY <1>2, <2>1, OthersStay
<1> QED
  BY <1>1, <1>2 DEF SidesInv

LEMMA GoIs ==
  ASSUME AccountTypes, NEW c \in Calls, NEW pc, Go(c, pc)
  PROVE  \E r : /\ Calls1(c, r) /\ r.pc = pc /\ r.s = calls[c].s
                /\ r.email = calls[c].email /\ r.by = calls[c].by
                /\ r = [pc |-> pc, s |-> calls[c].s, email |-> calls[c].email, by |-> calls[c].by]
<1>1. PICK old, r : old = calls[c] /\ r = [old EXCEPT !.pc = pc]
  OBVIOUS
<1>2. old \in CallType
  BY <1>1 DEF AccountTypes, IsCall
<1>3. r = [pc |-> pc, s |-> old.s, email |-> old.email, by |-> old.by]
  BY <1>1, <1>2 DEF CallType
<1>4. Calls1(c, r)
  BY <1>1 DEF Go, Calls1, AccountTypes
<1> QED
  BY <1>1, <1>3, <1>4

\* Nothing happens to the accounts.
LEMMA SameAll ==
  ASSUME UNCHANGED <<sup, rows>> PROVE \A s : Same(s)
BY DEF Same

LEMMA StayAll ==
  ASSUME SidesInv, \A s \in Sups : Same(s), UNCHANGED <<calls, disturbed>>
  PROVE  \A s \in Sups : SideInv(s)'
<1>1. Disturbs({})
  BY DEF Disturbs
<1> QED
  BY <1>1, Elsewhere DEF SidesInv

---------------------------------------------------------------------------
(* The calls                                                               *)

LEMMA AskSides ==
  ASSUME SidesInv, NEW c \in Calls, NEW e \in Emails, FindByEmail(c, e) \/ CreateByAdmin(c, e)
  PROVE  SidesInv'
<1>1. UNCHANGED <<sup, rows, disturbed>>
  BY DEF FindByEmail, CreateByAdmin
<1>2. CASE UNCHANGED calls
  <2>1. \A s \in Sups : SideInv(s)'
    BY <1>1, <1>2, SameAll, StayAll
  <2> QED
    BY <1>1, <1>2, <2>1 DEF SidesInv, AccountTypes
<1>3. ASSUME NEW by \in {"user", "admin"}, calls[c] = NoCall,
             calls' = [calls EXCEPT ![c] = [pc |-> "signUp", s |-> 0, email |-> e, by |-> by]]
      PROVE  SidesInv'
  <2>1. PICK r : r = [pc |-> "signUp", s |-> 0, email |-> e, by |-> by]
    OBVIOUS
  <2>2. Calls1(c, r) /\ IsCall(r) /\ r.s = 0 /\ calls[c].s = 0
    BY <1>3, <2>1, NoCallIs DEF Calls1, IsCall, CallType
  <2>3. Disturbs({0})
    BY <1>1 DEF Disturbs
  <2> QED
    BY <1>1, <2>2, <2>3, SameAll, NoCallIs, CallStep DEF SidesInv, AccountTypes
<1> QED
  BY <1>2, <1>3 DEF FindByEmail, CreateByAdmin

\* A call ends with nothing changed but what is disturbed.
LEMMA EndSides ==
  ASSUME SidesInv, NEW c \in Calls, End(c), UNCHANGED <<sup, rows>>, Disturbs({calls[c].s}),
         calls[c].s \in Sups /\ calls[c].s \notin disturbed' => Agree(calls[c].s)
  PROVE  SidesInv'
<1> PICK s : s = calls[c].s
  OBVIOUS
<1>1. Calls1(c, NoCall)
  BY DEF End, Calls1
<1>2. ASSUME s \in Sups PROVE SideInv(s)'
  <2>1. sup[s].st # "none" /\ (sup[s].origin = "oauth" => sup[s].confirmed)
        /\ (Live(s) => sup[s].email \in Emails)
    BY <1>2 DEF SidesInv, SideInv, Unborn, Busy
  <2>2. Live(s)' <=> Live(s)
    BY DEF Live
  <2>3. Agree(s)' <=> Agree(s)
    BY DEF Agree, Live, Address, Obscured
  <2> QED
    BY <1>1, <1>2, <2>1, <2>2, <2>3, NoCallIs, OwnAccount DEF Disturbs
<1> QED
  BY <1>1, <1>2, SameAll, NoCallIs, CallStep DEF SidesInv, AccountTypes

LEMMA SignUpSides ==
  ASSUME SidesInv, NEW c \in Calls, SupabaseSignUp(c)
  PROVE  SidesInv'
<1> DEFINE e == calls[c].email
<1>1. calls[c].pc = "signUp" /\ calls[c].s = 0 /\ e \in Emails /\ UNCHANGED rows
      /\ calls[c].by \in {"user", "admin"}
  BY DEF SupabaseSignUp, SidesInv, AccountTypes, IsCall
<1>2. CASE End(c) /\ UNCHANGED <<sup, disturbed>>
  BY <1>1, <1>2, NoCallIs, EndSides DEF Disturbs
<1>3. ASSUME NEW s \in Sups,
             \/ s \in LiveWith(e) /\ ~sup[s].confirmed /\ sup' = sup
             \/ /\ s \in Fresh
                /\ \E acc \in {Account(e, "signup"), Obfuscated(e)} : sup' = [sup EXCEPT ![s] = acc],
             calls' = [calls EXCEPT ![c].s = s, ![c].pc = "create"], Meet(s)
      PROVE  SidesInv'
  <2>1. PICK old, r : old = calls[c] /\ r = [old EXCEPT !.s = s, !.pc = "create"]
    OBVIOUS
  <2>2. old \in CallType /\ old.pc = "signUp" /\ old.email = e /\ old.by \in {"user", "admin"}
    BY <1>1, <2>1 DEF SidesInv, AccountTypes, IsCall
  <2>3. Calls1(c, r)
    BY <1>3, <2>1 DEF Calls1, SidesInv, AccountTypes
  <2>4. r.pc = "create" /\ r.s = s /\ r.email = e /\ IsCall(r)
    BY <1>1, <2>1, <2>2, NoCallIs DEF CallType, IsCall
  <2>5. Disturbs({s})
    BY <1>3 DEF Meet, Disturbs
  <2>6. sup' \in [Sups -> AccountType] /\ rows' \in [Sups -> UserRows \cup {NoRow}]
    <3>1. Account(e, "signup") \in AccountType /\ Obfuscated(e) \in AccountType
      BY <1>1 DEF Account, Obfuscated, AccountType
    <3>2. sup \in [Sups -> AccountType] /\ rows \in [Sups -> UserRows \cup {NoRow}]
      BY DEF SidesInv, AccountTypes
    <3> QED
      BY <1>1, <1>3, <3>1, <3>2
  <2>7. \A t \in Sups \ {s} : Same(t)
    BY <1>1, <1>3 DEF Same, SidesInv, AccountTypes
  <2>8. SideInv(s)'
    <3>1. /\ sup'[s].st \in {"live", "obfuscated"} /\ sup'[s].email = e
          /\ sup'[s].origin = "signup"
          /\ s \notin disturbed' /\ sup'[s].st = "live" /\ rows[s] # NoRow =>
               sup'[s].email = rows[s].email \/ sup'[s].moved
      <4>1. CASE s \in LiveWith(e) /\ ~sup[s].confirmed /\ sup' = sup
        <5>1. Live(s) /\ sup[s].email = e /\ sup[s].origin = "signup"
          BY <4>1 DEF LiveWith, Live, SidesInv, SideInv, AccountTypes, AccountType
        <5>2. s \notin disturbed' => Agree(s)
          BY <1>3 DEF Meet, SidesInv, SideInv, Settled
        <5> QED
          BY <4>1, <5>1, <5>2 DEF Agree, Live, Address, Obscured
      <4>2. ASSUME s \in Fresh, NEW acc \in {Account(e, "signup"), Obfuscated(e)},
                   sup' = [sup EXCEPT ![s] = acc]
            PROVE  /\ sup'[s].st \in {"live", "obfuscated"} /\ sup'[s].email = e
                   /\ sup'[s].origin = "signup" /\ rows[s] = NoRow
        <5>1. rows[s] = NoRow
          BY <4>2 DEF Fresh, Unused, SidesInv, SideInv, Unborn
        <5>2. acc.st \in {"live", "obfuscated"} /\ acc.email = e /\ acc.origin = "signup"
          BY <4>2 DEF Account, Obfuscated
        <5>3. sup'[s] = acc
          BY <4>2 DEF SidesInv, AccountTypes
        <5> QED
          BY <5>1, <5>2, <5>3
      <4> QED
        BY <1>3, <4>1, <4>2
    <3>2. Live(s)' \/ Obscured(s)'
      BY <3>1 DEF Live, Obscured
    <3>3. s \notin disturbed' => Stage(r, s)'
      BY <1>1, <2>4, <3>1, <3>2 DEF Stage, Address, Obscured, Live
    <3>4. ~Busy(s) \/ s \in disturbed'
      BY <1>3 DEF Meet
    <3> QED
      BY <1>1, <2>3, <2>4, <2>5, <3>1, <3>2, <3>3, <3>4, NoCallIs, OwnAccount DEF Disturbs
  <2> QED
    BY <1>1, <2>3, <2>4, <2>5, <2>6, <2>7, <2>8, CallStep
<1> QED
  <2>1. LiveWith(e) \subseteq Sups /\ Fresh \subseteq Sups
    BY DEF LiveWith, Fresh, Unused
  <2>2. CASE \E s \in LiveWith(e) : ~sup[s].confirmed /\ SignedUp(c, s) /\ UNCHANGED sup
    BY <1>3, <2>1, <2>2 DEF SignedUp
  <2>3. CASE \E s \in Fresh : SignedUp(c, s) /\
               sup' = [sup EXCEPT ![s] = IF LiveWith(e) = {} THEN Account(e, "signup") ELSE Obfuscated(e)]
    BY <1>3, <2>1, <2>3 DEF SignedUp
  <2> QED
    BY <1>2, <2>2, <2>3 DEF SupabaseSignUp

\* The account of a call is there, and the call knows it.
LEMMA OwnFacts ==
  ASSUME SidesInv, NEW c \in Calls, NEW s, calls[c].s = s, calls[c].pc \notin {"idle", "signUp"}
  PROVE  /\ s \in Sups /\ IsCall(calls[c]) /\ sup[s] \in AccountType /\ sup[s].st \in {"live", "gone", "obfuscated"}
         /\ rows[s] \in UserRows \cup {NoRow}
         /\ sup[s].origin = "oauth" => sup[s].confirmed
         /\ sup[s].st = "live" => sup[s].email \in Emails
         /\ s \notin disturbed => Stage(calls[c], s)
         /\ sup = [sup EXCEPT ![s] = sup[s]] /\ rows = [rows EXCEPT ![s] = rows[s]]
<1>1. IsCall(calls[c]) /\ s \in Sups
  BY DEF SidesInv, AccountTypes, IsCall, CallType
<1>2. SideInv(s) /\ Busy(s)
  BY <1>1 DEF SidesInv, Busy
<1>3. sup[s] \in AccountType /\ rows[s] \in UserRows \cup {NoRow}
  BY <1>1 DEF SidesInv, AccountTypes
<1>4. sup[s].st \in {"live", "gone", "obfuscated"}
  BY <1>2, <1>3 DEF SideInv, Unborn, AccountType
<1>5. sup = [sup EXCEPT ![s] = sup[s]] /\ rows = [rows EXCEPT ![s] = rows[s]]
  BY DEF SidesInv, AccountTypes
<1> QED
  BY <1>1, <1>2, <1>3, <1>4, <1>5 DEF SideInv, Settled, Live

\* A call goes on as r, its account as acc and row.
LEMMA CallGoes ==
  ASSUME SidesInv, NEW c \in Calls, NEW s \in Sups, calls[c].s = s,
         NEW r, Calls1(c, r), IsCall(r), r.s \in {s, 0},
         NEW acc \in AccountType, sup' = [sup EXCEPT ![s] = acc], acc.st \in {"live", "gone", "obfuscated"},
         acc.origin = "oauth" => acc.confirmed, acc.st = "live" => acc.email \in Emails,
         NEW row \in UserRows \cup {NoRow}, rows' = [rows EXCEPT ![s] = row], Disturbs({s}),
         s \notin disturbed' /\ r.s = s => Stage(r, s)',
         s \notin disturbed' /\ r.s = 0 => Agree(s)'
  PROVE  SidesInv'
<1>1. sup' \in [Sups -> AccountType] /\ rows' \in [Sups -> UserRows \cup {NoRow}]
  BY DEF SidesInv, AccountTypes
<1>2. sup'[s] = acc /\ rows'[s] = row /\ \A t \in Sups \ {s} : Same(t)
  BY DEF Same, SidesInv, AccountTypes
<1>3. Live(s)' <=> acc.st = "live"
  BY <1>2 DEF Live
<1>4. SideInv(s)'
  BY <1>2, <1>3, OwnAccount DEF Disturbs
<1> QED
  BY <1>1, <1>2, <1>4, CallStep

LEMMA CreateSides ==
  ASSUME SidesInv, NEW c \in Calls, CreateRow(c)
  PROVE  SidesInv'
<1> PICK s, e : s = calls[c].s /\ e = calls[c].email
  OBVIOUS
<1>1. calls[c].pc = "create" /\ UNCHANGED sup /\ e \in Emails /\ s \in Sups
  BY OwnFacts DEF CreateRow, IsCall
<1>2. /\ s \notin disturbed => Obscured(s) \/ (Live(s) /\ Address(s, e))
      /\ s \notin disturbed /\ Live(s) /\ rows[s] # NoRow => Address(s, rows[s].email)
  BY <1>1, OwnFacts DEF Stage, Address, Obscured
<1>3. ASSUME NEW role \in {"GUEST", "MEMBER"}, rows' = [rows EXCEPT ![s] = Row(e, FALSE, role)],
             End(c), UNCHANGED disturbed
      PROVE  SidesInv'
  <2>1. PICK row : row = Row(e, FALSE, role)
    OBVIOUS
  <2>2. row \in UserRows /\ row.email = e /\ row # NoRow
    <3>1. row \in UserRows /\ row.email = e
      BY <1>1, <2>1 DEF Row, UserRows
    <3> QED
      BY <3>1, RowAssumption
  <2>3. rows'[s] = row /\ Calls1(c, NoCall)
    BY <1>1, <1>3, <2>1 DEF SidesInv, AccountTypes, End, Calls1
  <2>4. s \notin disturbed' => Agree(s)'
    BY <1>1, <1>2, <1>3, <2>2, <2>3 DEF Agree, Live, Address, Obscured
  <2>5. /\ sup[s] \in AccountType /\ sup' = [sup EXCEPT ![s] = sup[s]]
        /\ sup[s].st \in {"live", "gone", "obfuscated"} /\ (sup[s].origin = "oauth" => sup[s].confirmed)
        /\ sup[s].st = "live" => sup[s].email \in Emails
    BY <1>1, OwnFacts
  <2>6. Disturbs({s})
    BY <1>3 DEF Disturbs
  <2> QED
    BY <1>1, <1>3, <2>1, <2>2, <2>3, <2>4, <2>5, <2>6, NoCallIs, CallGoes
<1>4. CASE CreateFailed(c) /\ UNCHANGED rows
  <2>1. CASE Go(c, "compensate") /\ UNCHANGED disturbed
    <3>1. PICK r : Calls1(c, r) /\ r.pc = "compensate" /\ r.s = s
                   /\ r = [pc |-> "compensate", s |-> s, email |-> e, by |-> calls[c].by]
      BY <2>1, GoIs DEF SidesInv
    <3>2. IsCall(r)
      BY <1>1, <3>1, OwnFacts DEF IsCall, CallType
    <3>3. Stage(r, s)'
      BY <3>1 DEF Stage, Address, Obscured
    <3> QED
      BY <1>1, <1>4, <2>1, <3>1, <3>2, <3>3, NoCallIs, OwnFacts, CallGoes DEF Disturbs
  <2>2. CASE End(c) /\ disturbed' = IF rows[s] = NoRow THEN disturbed \cup {s} ELSE disturbed
    <3>1. Calls1(c, NoCall)
      BY <2>2 DEF End, Calls1
    <3>2. s \notin disturbed' => Agree(s)'
      BY <1>1, <1>2, <1>4, <2>2 DEF Agree, Live, Address, Obscured
    <3> QED
      BY <1>1, <1>4, <2>2, <3>1, <3>2, NoCallIs, OwnFacts, CallGoes DEF Disturbs
  <2> QED
    BY <1>4, <2>1, <2>2 DEF CreateFailed
<1> QED
  BY <1>3, <1>4 DEF CreateRow

LEMMA CompensateSides ==
  ASSUME SidesInv, NEW c \in Calls, Compensate(c)
  PROVE  SidesInv'
<1> PICK s : s = calls[c].s
  OBVIOUS
<1>1. calls[c].pc = "compensate" /\ UNCHANGED rows /\ s \in Sups /\ Calls1(c, NoCall)
  BY OwnFacts DEF Compensate, End, Calls1
<1>2. CASE disturbed' = disturbed \cup {s} /\ UNCHANGED sup
  BY <1>1, <1>2, NoCallIs, OwnFacts, CallGoes DEF Disturbs
<1>4. CASE /\ ~Live(s) /\ UNCHANGED sup
           /\ disturbed' = IF rows[s] # NoRow THEN disturbed \cup {s} ELSE disturbed
  <2>1. Disturbs({s}) /\ (s \notin disturbed' => Agree(s)')
    BY <1>1, <1>4 DEF Disturbs, Agree, Live
  <2> QED
    BY <1>1, <1>4, <2>1, NoCallIs, OwnFacts, CallGoes
<1>3. CASE /\ sup' = [sup EXCEPT ![s].st = "gone"]
           /\ disturbed' = IF rows[s] # NoRow THEN disturbed \cup {s} ELSE disturbed
  <2>1. PICK old, acc : old = sup[s] /\ acc = [old EXCEPT !.st = "gone"]
    OBVIOUS
  <2>2. acc \in AccountType /\ acc.st = "gone" /\ (acc.origin = "oauth" => acc.confirmed)
    BY <1>1, <2>1, OwnFacts DEF AccountType
  <2>3. sup' = [sup EXCEPT ![s] = acc] /\ sup'[s] = acc
    BY <1>1, <1>3, <2>1 DEF SidesInv, AccountTypes
  <2>4. s \notin disturbed' => Agree(s)'
    BY <1>1, <1>3, <2>2, <2>3 DEF Agree, Live, Address, Obscured
  <2>5. Disturbs({s})
    BY <1>3 DEF Disturbs
  <2>6. rows[s] \in UserRows \cup {NoRow} /\ rows' = [rows EXCEPT ![s] = rows[s]]
    BY <1>1, OwnFacts
  <2> QED
    BY <1>1, <2>2, <2>3, <2>4, <2>5, <2>6, NoCallIs, CallGoes
<1> QED
  BY <1>2, <1>3, <1>4 DEF Compensate

LEMMA SyncSides ==
  ASSUME SidesInv, NEW c \in Calls, SyncCreate(c) \/ SyncUpdate(c)
  PROVE  SidesInv'
<1> PICK s, e : s = calls[c].s /\ e = calls[c].email
  OBVIOUS
<1>1. /\ calls[c].pc \in {"syncCreate", "syncUpdate"} /\ UNCHANGED <<sup, disturbed>> /\ s \in Sups
      /\ Calls1(c, NoCall) /\ e \in Emails
  BY OwnFacts DEF SyncCreate, SyncUpdate, End, Calls1, IsCall
<1>2. s \notin disturbed => Agree(s)
  BY <1>1, OwnFacts DEF Stage, Address, Obscured
<1>3. ASSUME NEW row \in UserRows \cup {NoRow}, rows' = [rows EXCEPT ![s] = row],
             \/ (row = NoRow <=> rows[s] = NoRow) /\ (row # NoRow => row.email = rows[s].email)
             \/ row # NoRow /\ (s \notin disturbed => Address(s, row.email) /\ Live(s))
      PROVE  SidesInv'
  <2>1. rows'[s] = row
    BY <1>1, <1>3 DEF SidesInv, AccountTypes
  <2>2. s \notin disturbed' => Agree(s)'
    BY <1>1, <1>2, <1>3, <2>1 DEF Agree, Live, Address, Obscured
  <2>3. /\ sup[s] \in AccountType /\ sup' = [sup EXCEPT ![s] = sup[s]]
        /\ sup[s].st \in {"live", "gone", "obfuscated"} /\ (sup[s].origin = "oauth" => sup[s].confirmed)
        /\ sup[s].st = "live" => sup[s].email \in Emails
    BY <1>1, OwnFacts
  <2>4. Disturbs({s})
    BY <1>1 DEF Disturbs
  <2> QED
    BY <1>1, <1>3, <2>2, <2>3, <2>4, NoCallIs, CallGoes
<1>4. CASE UNCHANGED rows
  BY <1>1, <1>3, <1>4, OwnFacts
<1>5. CASE SyncCreate(c)
  <2>1. PICK row : row = Row(e, TRUE, "GUEST")
    OBVIOUS
  <2>2. row \in UserRows /\ row.email = e /\ row # NoRow
    <3>1. row \in UserRows /\ row.email = e
      BY <1>1, <2>1 DEF Row, UserRows
    <3> QED
      BY <3>1, RowAssumption
  <2>3. s \notin disturbed => Live(s) /\ Address(s, e)
    BY <1>5, OwnFacts DEF Stage, SyncCreate, Address, Obscured
  <2>4. UNCHANGED rows \/ rows' = [rows EXCEPT ![s] = row]
    BY <1>5, <2>1 DEF SyncCreate
  <2> QED
    BY <1>3, <1>4, <2>2, <2>3, <2>4
<1>6. CASE SyncUpdate(c)
  <2>1. PICK old, row : old = rows[s] /\ row = SyncedRow(old)
    OBVIOUS
  <2>2. CASE old = NoRow
    BY <1>4, <1>6, <2>1, <2>2 DEF SyncUpdate
  <2>3. CASE old # NoRow
    <3>1. old \in UserRows
      BY <1>1, <2>1, <2>3, OwnFacts
    <3>2. row \in UserRows /\ row.email = old.email /\ row # NoRow
      BY <2>1, <3>1, RowAssumption DEF SyncedRow, UserRows
    <3>3. rows' = [rows EXCEPT ![s] = row]
      BY <1>6, <2>1, <2>3 DEF SyncUpdate, SidesInv, AccountTypes
    <3> QED
      BY <1>3, <2>1, <2>3, <3>2, <3>3
  <2> QED
    BY <2>2, <2>3
<1> QED
  BY <1>5, <1>6

LEMMA EmailSides ==
  ASSUME SidesInv, NEW c \in Calls, SupabaseEmail(c) \/ RowEmail(c)
  PROVE  SidesInv'
<1> PICK s, e : s = calls[c].s /\ e = calls[c].email
  OBVIOUS
<1>1. calls[c].pc \in {"supabaseEmail", "rowEmail"} /\ s \in Sups /\ e \in Emails
  BY OwnFacts DEF SupabaseEmail, RowEmail, IsCall
<1>2. /\ sup[s] \in AccountType /\ sup = [sup EXCEPT ![s] = sup[s]]
      /\ sup[s].st \in {"live", "gone", "obfuscated"} /\ (sup[s].origin = "oauth" => sup[s].confirmed)
      /\ (sup[s].st = "live" => sup[s].email \in Emails)
      /\ rows[s] \in UserRows \cup {NoRow} /\ rows = [rows EXCEPT ![s] = rows[s]]
  BY <1>1, OwnFacts
<1>3. ASSUME End(c), UNCHANGED rows, UNCHANGED sup,
             \/ disturbed' = disturbed \cup {s}
             \/ UNCHANGED disturbed /\ (s \notin disturbed => Agree(s))
      PROVE  SidesInv'
  <2>1. Calls1(c, NoCall) /\ Disturbs({s})
    BY <1>3 DEF End, Calls1, Disturbs
  <2>2. s \notin disturbed' => Agree(s)'
    BY <1>3 DEF Agree, Live, Address, Obscured
  <2> QED
    BY <1>1, <1>2, <1>3, <2>1, <2>2, NoCallIs, CallGoes
<1>4. CASE SupabaseEmail(c)
  <2>1. CASE Live(s) /\ sup' = [sup EXCEPT ![s].email = e] /\ Go(c, "rowEmail")
    <3>1. PICK r : /\ Calls1(c, r) /\ r.pc = "rowEmail" /\ r.s = s /\ r.email = e
                   /\ r = [pc |-> "rowEmail", s |-> s, email |-> e, by |-> calls[c].by]
      BY <2>1, GoIs DEF SidesInv
    <3>2. IsCall(r)
      BY <1>1, <3>1, OwnFacts DEF IsCall, CallType
    <3>3. PICK old, acc : old = sup[s] /\ acc = [old EXCEPT !.email = e]
      OBVIOUS
    <3>4. acc \in AccountType /\ acc.st = old.st /\ acc.origin = old.origin
          /\ acc.confirmed = old.confirmed /\ acc.email = e
      BY <1>1, <1>2, <3>3 DEF AccountType
    <3>5. sup' = [sup EXCEPT ![s] = acc] /\ sup'[s] = acc
      BY <1>1, <2>1, <3>3 DEF SidesInv, AccountTypes
    <3>6. Stage(r, s)'
      BY <2>1, <3>1, <3>3, <3>4, <3>5 DEF Stage, Live, Address, Obscured
    <3>7. Disturbs({s}) /\ UNCHANGED rows
      BY <1>4 DEF SupabaseEmail, Disturbs
    <3>8. /\ acc \in AccountType /\ rows[s] \in UserRows \cup {NoRow} /\ calls[c].s = s
          /\ acc.st \in {"live", "gone", "obfuscated"} /\ (acc.origin = "oauth" => acc.confirmed)
          /\ acc.email \in Emails /\ rows' = [rows EXCEPT ![s] = rows[s]]
      BY <1>1, <1>2, <3>3, <3>4, <3>7
    <3>9. Calls1(c, r) /\ IsCall(r) /\ r.s = s /\ s # 0 /\ s \in Sups
      BY <1>1, <3>1, <3>2, NoCallIs
    <3> QED
      BY <3>5, <3>6, <3>7, <3>8, <3>9, CallGoes
  <2>2. CASE End(c) /\ UNCHANGED sup
    <3>1. UNCHANGED rows /\ UNCHANGED disturbed /\ (s \notin disturbed => Agree(s))
      BY <1>4, OwnFacts DEF SupabaseEmail, Stage, Address, Obscured
    <3> QED
      BY <1>3, <2>2, <3>1
  <2> QED
    BY <1>4, <2>1, <2>2 DEF SupabaseEmail
<1>5. CASE RowEmail(c)
  <2>1. CASE disturbed' = disturbed \cup {s} /\ UNCHANGED rows
    BY <1>3, <1>5, <2>1 DEF RowEmail
  <2>2. CASE rows[s] # NoRow /\ rows' = [rows EXCEPT ![s].email = e] /\ UNCHANGED disturbed
    <3>1. PICK old, row : old = rows[s] /\ row = [old EXCEPT !.email = e]
      OBVIOUS
    <3>2. old \in UserRows
      BY <1>2, <2>2, <3>1
    <3>3. row \in UserRows /\ row.email = e
      BY <1>1, <3>1, <3>2 DEF UserRows
    <3>4. row # NoRow
      BY <3>3, RowAssumption
    <3>5. rows' = [rows EXCEPT ![s] = row] /\ rows'[s] = row
      BY <1>1, <2>2, <3>1 DEF SidesInv, AccountTypes
    <3>6. Calls1(c, NoCall) /\ Disturbs({s}) /\ UNCHANGED sup
      BY <1>5, <2>2 DEF RowEmail, End, Calls1, Disturbs
    <3>7. s \notin disturbed => Live(s) /\ Address(s, e)
      BY <1>5, OwnFacts DEF RowEmail, Stage, Address, Obscured
    <3>8. s \notin disturbed' => Agree(s)'
      BY <2>2, <3>3, <3>4, <3>5, <3>6, <3>7 DEF Agree, Live, Address, Obscured
    <3> QED
      BY <1>1, <1>2, <3>3, <3>5, <3>6, <3>8, NoCallIs, CallGoes
  <2> QED
    BY <1>5, <2>1, <2>2 DEF RowEmail
<1> QED
  BY <1>4, <1>5

LEMMA DeleteSides ==
  ASSUME SidesInv, NEW c \in Calls, SupabaseDelete(c) \/ RowDelete(c)
  PROVE  SidesInv'
<1> PICK s : s = calls[c].s
  OBVIOUS
<1>1. calls[c].pc \in {"supabaseDelete", "rowDelete"} /\ s \in Sups
  BY OwnFacts DEF SupabaseDelete, RowDelete
<1>2. /\ sup[s] \in AccountType /\ sup = [sup EXCEPT ![s] = sup[s]]
      /\ sup[s].st \in {"live", "gone", "obfuscated"} /\ (sup[s].origin = "oauth" => sup[s].confirmed)
      /\ (sup[s].st = "live" => sup[s].email \in Emails)
      /\ rows[s] \in UserRows \cup {NoRow} /\ rows = [rows EXCEPT ![s] = rows[s]]
  BY <1>1, OwnFacts
<1>3. CASE SupabaseDelete(c)
  <2>1. PICK r : /\ Calls1(c, r) /\ r.pc = "rowDelete" /\ r.s = s
                 /\ r = [pc |-> "rowDelete", s |-> s, email |-> calls[c].email, by |-> calls[c].by]
    BY <1>3, GoIs DEF SidesInv, SupabaseDelete
  <2>2. IsCall(r)
    BY <1>1, <2>1, OwnFacts, NoCallIs DEF IsCall, CallType
  <2>3. UNCHANGED rows
    BY <1>3 DEF SupabaseDelete
  <2>4. PICK old, acc : old = sup[s] /\ acc = [old EXCEPT !.st = "gone"]
    OBVIOUS
  <2>5. acc \in AccountType /\ acc.st = "gone" /\ (acc.origin = "oauth" => acc.confirmed)
    BY <1>2, <2>4 DEF AccountType
  <2>6. CASE Live(s) /\ sup' = [sup EXCEPT ![s].st = "gone"] /\ UNCHANGED disturbed
    <3>1. sup' = [sup EXCEPT ![s] = acc] /\ sup'[s] = acc
      BY <1>1, <2>4, <2>6 DEF SidesInv, AccountTypes
    <3>2. Stage(r, s)' /\ Disturbs({s})
      BY <2>1, <2>5, <2>6, <3>1 DEF Stage, Live, Disturbs, Address, Obscured
    <3>3. rows' = [rows EXCEPT ![s] = rows[s]] /\ s # 0
      BY <1>1, <1>2, <2>3, NoCallIs
    <3> QED
      BY <1>1, <1>2, <2>1, <2>2, <2>5, <3>1, <3>2, <3>3, CallGoes
  <2>7. CASE UNCHANGED sup /\ (disturbed' = disturbed \cup {s} \/ (~Live(s) /\ UNCHANGED disturbed))
    <3>1. Disturbs({s}) /\ (s \notin disturbed' => Stage(r, s)')
      BY <2>1, <2>7 DEF Stage, Live, Disturbs, Address, Obscured
    <3> QED
      BY <1>1, <1>2, <2>1, <2>2, <2>3, <2>7, <3>1, NoCallIs, CallGoes
  <2> QED
    BY <1>3, <2>6, <2>7 DEF SupabaseDelete
<1>4. CASE RowDelete(c)
  <2>1. Calls1(c, NoCall) /\ UNCHANGED sup /\ Disturbs({s})
    BY <1>4 DEF RowDelete, End, Calls1, Disturbs
  <2>2. s \notin disturbed => ~Live(s)
    BY <1>4, OwnFacts DEF RowDelete, Stage, Address, Obscured
  <2>3. CASE rows' = [rows EXCEPT ![s] = NoRow]
    <3>1. rows'[s] = NoRow
      BY <1>1, <2>3 DEF SidesInv, AccountTypes
    <3>2. s \notin disturbed' => Agree(s)'
      BY <2>1, <2>2, <3>1 DEF Agree, Live, Disturbs, Address, Obscured
    <3> QED
      BY <1>1, <1>2, <2>1, <2>3, <3>2, NoCallIs, CallGoes
  <2>4. CASE disturbed' = disturbed \cup {s} /\ UNCHANGED rows
    BY <1>1, <1>2, <2>1, <2>4, NoCallIs, CallGoes
  <2> QED
    BY <1>4, <2>3, <2>4 DEF RowDelete
<1> QED
  BY <1>3, <1>4

LEMMA CrashSides ==
  ASSUME SidesInv, NEW c \in Calls, CallCrash(c)
  PROVE  SidesInv'
<1>1. End(c) /\ UNCHANGED <<sup, rows>> /\ disturbed' = disturbed \cup ({calls[c].s} \ {0})
  BY DEF CallCrash
<1>2. Disturbs({calls[c].s})
  BY <1>1 DEF Disturbs
<1>3. CASE calls[c].s \in Sups
  <2> PICK s : s = calls[c].s
    OBVIOUS
  <2>1. /\ sup[s] \in AccountType /\ sup = [sup EXCEPT ![s] = sup[s]] /\ s \in disturbed'
        /\ sup[s].st \in {"live", "gone", "obfuscated"} /\ (sup[s].origin = "oauth" => sup[s].confirmed)
        /\ (sup[s].st = "live" => sup[s].email \in Emails)
        /\ rows[s] \in UserRows \cup {NoRow} /\ rows = [rows EXCEPT ![s] = rows[s]]
    <3>1. calls[c].pc \notin {"idle", "signUp"}
      BY <1>3, NoCallIs DEF SidesInv, AccountTypes, IsCall
    <3> QED
      BY <1>1, <1>3, <3>1, NoCallIs, OwnFacts
  <2> QED
    BY <1>1, <1>2, <1>3, <2>1, NoCallIs, CallGoes DEF End, Calls1
<1>4. CASE calls[c].s \notin Sups
  BY <1>1, <1>2, <1>4, EndSides
<1> QED
  BY <1>3, <1>4

---------------------------------------------------------------------------
(* What begins a call, or is one step                                      *)

LEMMA BeginSides ==
  ASSUME SidesInv, NEW c \in Calls, NEW s \in Sups,
         Sync(c, s) \/ Delete(c, s) \/ \E e \in Emails : ChangeEmail(c, s, e)
  PROVE  SidesInv'
<1>1. UNCHANGED <<sup, rows>>
  BY DEF Sync, Delete, ChangeEmail
<1>2. CASE UNCHANGED <<calls, disturbed>>
  <2>1. \A t \in Sups : SideInv(t)'
    BY <1>1, <1>2, SameAll, StayAll
  <2> QED
    BY <1>1, <1>2, <2>1 DEF SidesInv, AccountTypes
<1>3. ASSUME NEW r, calls[c] = NoCall, calls' = [calls EXCEPT ![c] = r], Meet(s), IsCall(r), r.s = s,
             r.pc \in {"syncCreate", "syncUpdate", "supabaseEmail", "supabaseDelete"},
             r.pc = "syncCreate" => Live(s) /\ r.email = sup[s].email,
             rows[s] # NoRow \/ Live(s)
      PROVE  SidesInv'
  <2>1. SideInv(s)
    BY DEF SidesInv
  <2>2. /\ sup[s].st # "none" /\ (sup[s].origin = "oauth" => sup[s].confirmed)
        /\ (Live(s) => sup[s].email \in Emails)
    BY <1>3, <2>1 DEF SideInv, Unborn, Live
  <2>3. Live(s)' <=> Live(s)
    BY <1>1 DEF Live
  <2>4. s \notin disturbed' => Stage(r, s)'
    <3>1. ASSUME s \notin disturbed' PROVE Agree(s)
      BY <1>3, <2>1, <3>1 DEF Meet, SideInv, Settled
    <3>2. Agree(s)' <=> Agree(s)
      BY <1>1 DEF Agree, Live, Address, Obscured
    <3> QED
      BY <1>1, <1>3, <2>3, <3>1, <3>2 DEF Stage, Address, Obscured
  <2>5. Disturbs({s}) /\ (~Busy(s) \/ s \in disturbed')
    BY <1>3 DEF Meet, Disturbs
  <2>6. Calls1(c, r) /\ calls[c].s = 0 /\ s # 0
    BY <1>3, NoCallIs DEF Calls1
  <2>7. SideInv(s)'
    BY <1>1, <1>3, <2>2, <2>3, <2>4, <2>5, <2>6, OwnAccount DEF Disturbs
  <2>8. sup' \in [Sups -> AccountType] /\ rows' \in [Sups -> UserRows \cup {NoRow}]
    BY <1>1 DEF SidesInv, AccountTypes
  <2>9. \A t \in Sups \ {s} : Same(t)
    BY <1>1, SameAll
  <2> QED
    BY <1>3, <2>5, <2>6, <2>7, <2>8, <2>9, CallStep
<1>4. CASE Sync(c, s)
  <2>1. CASE rows[s] # NoRow /\ Synced(s)
    BY <1>2, <1>4, <2>1 DEF Sync
  <2>2. CASE ~(rows[s] # NoRow /\ Synced(s))
    <3>1. PICK r : r = [pc |-> IF rows[s] = NoRow THEN "syncCreate" ELSE "syncUpdate",
                        s |-> s, email |-> sup[s].email, by |-> "user"]
      OBVIOUS
    <3>2. Live(s) /\ sup[s].email \in Emails
      BY <1>4 DEF Sync, SidesInv, SideInv
    <3>3. IsCall(r) /\ r.s = s /\ r.pc \in {"syncCreate", "syncUpdate"} /\ r.email = sup[s].email
      BY <3>1, <3>2, NoCallIs DEF IsCall, CallType
    <3> QED
      BY <1>3, <1>4, <2>2, <3>1, <3>2, <3>3 DEF Sync
  <2> QED
    BY <2>1, <2>2
<1>5. ASSUME NEW e \in Emails, ChangeEmail(c, s, e) PROVE SidesInv'
  <2>1. PICK r : r = [pc |-> "supabaseEmail", s |-> s, email |-> e, by |-> "admin"]
    OBVIOUS
  <2>2. IsCall(r) /\ r.s = s /\ r.pc = "supabaseEmail"
    BY <2>1, NoCallIs DEF IsCall, CallType
  <2> QED
    BY <1>3, <1>5, <2>1, <2>2 DEF ChangeEmail
<1>6. CASE Delete(c, s)
  <2>1. PICK r : r = [NoCall EXCEPT !.pc = "supabaseDelete", !.s = s, !.by = "admin"]
    OBVIOUS
  <2>2. IsCall(r) /\ r.s = s /\ r.pc = "supabaseDelete"
    BY <2>1, NoCallIs DEF IsCall, CallType, NoCall
  <2> QED
    BY <1>3, <1>6, <2>1, <2>2 DEF Delete
<1> QED
  BY <1>4, <1>5, <1>6

\* Steps no call takes.
LEMMA StepSides ==
  ASSUME SidesInv, NEW s \in Sups,
         SignIn(s) \/ VerifyOtp(s) \/ ChangePassword(s) \/ UpdateRow(s) \/ DeleteSelf(s)
  PROVE  SidesInv'
<1>1. UNCHANGED <<calls, disturbed>>
  BY DEF SignIn, VerifyOtp, ChangePassword, UpdateRow, DeleteSelf
<1>2. ASSUME sup' \in [Sups -> AccountType], rows' \in [Sups -> UserRows \cup {NoRow}],
             \A t \in Sups : Same(t)
      PROVE  SidesInv'
  BY <1>1, <1>2, StayAll DEF SidesInv, AccountTypes
<1>3. CASE SignIn(s) \/ ChangePassword(s)
  <2>1. PICK old, on, confirmed, acc :
          /\ old = sup[s] /\ acc = [old EXCEPT !.confirmed = confirmed, !.session = on]
          /\ on \in BOOLEAN /\ confirmed \in BOOLEAN /\ (old.confirmed => confirmed)
          /\ sup' = [sup EXCEPT ![s] = acc] /\ UNCHANGED rows
    <3>1. PICK old : old = sup[s]
      OBVIOUS
    <3>2. old \in AccountType /\ sup = [t \in Sups |-> sup[t]]
      BY <3>1 DEF SidesInv, AccountTypes
    <3>3. ASSUME NEW on \in BOOLEAN, sup' = [sup EXCEPT ![s].session = on], UNCHANGED rows
          PROVE  \E confirmed, acc :
                   /\ acc = [old EXCEPT !.confirmed = confirmed, !.session = on]
                   /\ confirmed \in BOOLEAN /\ (old.confirmed => confirmed)
                   /\ sup' = [sup EXCEPT ![s] = acc] /\ UNCHANGED rows
      <4>1. PICK acc : acc = [old EXCEPT !.confirmed = old.confirmed, !.session = on]
        OBVIOUS
      <4>2. acc = [old EXCEPT !.session = on] /\ old.confirmed \in BOOLEAN
        BY <3>2, <4>1 DEF AccountType
      <4>3. sup' = [sup EXCEPT ![s] = acc]
        BY <3>1, <3>3, <4>2
      <4> QED
        BY <3>3, <4>1, <4>2, <4>3
    <3> QED
      BY <1>3, <3>1, <3>3 DEF SignIn, ChangePassword
  <2>2. acc \in AccountType /\ acc.st = old.st /\ acc.email = old.email /\ acc.origin = old.origin
        /\ acc.confirmed = confirmed /\ acc.moved = old.moved
    <3>1. old \in AccountType
      BY <2>1 DEF SidesInv, AccountTypes
    <3> QED
      BY <2>1, <3>1 DEF AccountType
  <2>3. sup' \in [Sups -> AccountType] /\ rows' \in [Sups -> UserRows \cup {NoRow}]
    BY <2>1, <2>2 DEF SidesInv, AccountTypes
  <2>4. \A t \in Sups : Same(t)
    BY <2>1, <2>2 DEF Same, SidesInv, AccountTypes
  <2> QED
    BY <1>2, <2>3, <2>4
<1>5. CASE VerifyOtp(s)
  <2>1. PICK old : old = sup[s]
    OBVIOUS
  <2>2. old \in AccountType /\ sup = [t \in Sups |-> sup[t]] /\ UNCHANGED rows
    BY <1>5, <2>1 DEF SidesInv, AccountTypes, VerifyOtp
  <2>3. PICK same : same = Confirmed(s)
    OBVIOUS
  <2>4. /\ same \in AccountType /\ same.st = old.st /\ same.email = old.email /\ same.confirmed
        /\ same.origin = old.origin /\ same.moved = old.moved
    BY <2>1, <2>2, <2>3 DEF Confirmed, AccountType
  <2>5. PICK acc : /\ acc \in AccountType /\ acc.st = old.st /\ acc.origin = old.origin /\ acc.confirmed
                   /\ \/ acc.email = old.email /\ acc.moved = old.moved
                      \/ acc.email \in Emails /\ acc.moved
                   /\ sup' = [sup EXCEPT ![s] = acc]
    <3>1. CASE sup' = [sup EXCEPT ![s] = Confirmed(s)]
      BY <2>3, <2>4, <3>1
    <3>2. ASSUME NEW e \in Emails, sup' = [sup EXCEPT ![s] = [Confirmed(s) EXCEPT !.email = e, !.moved = TRUE]]
          PROVE  \E acc : /\ acc \in AccountType /\ acc.st = old.st /\ acc.origin = old.origin
                          /\ acc.confirmed /\ acc.email \in Emails /\ acc.moved
                          /\ sup' = [sup EXCEPT ![s] = acc]
      <4>1. PICK acc : acc = [same EXCEPT !.email = e, !.moved = TRUE]
        OBVIOUS
      <4>2. /\ acc \in AccountType /\ acc.st = old.st /\ acc.origin = old.origin
            /\ acc.confirmed /\ acc.email \in Emails /\ acc.moved
        BY <2>4, <4>1 DEF AccountType
      <4> QED
        BY <2>3, <3>2, <4>1, <4>2
    <3> QED
      BY <1>5, <3>1, <3>2 DEF VerifyOtp
  <2>6. sup' \in [Sups -> AccountType] /\ rows' \in [Sups -> UserRows \cup {NoRow}]
    BY <2>2, <2>5 DEF SidesInv, AccountTypes
  <2>7. \A t \in Sups : Same(t)
    BY <2>1, <2>2, <2>5 DEF Same
  <2> QED
    BY <1>2, <2>6, <2>7
<1>4. CASE UpdateRow(s) \/ DeleteSelf(s)
  <2>1. PICK old, on, role, profile, row :
          /\ old = rows[s] /\ old # NoRow
          /\ row = [old EXCEPT !.active = on, !.role = role, !.profile = profile]
          /\ on \in BOOLEAN /\ role \in {old.role, "ADMIN"} /\ profile \in {old.profile, FALSE}
          /\ rows' = [rows EXCEPT ![s] = row] /\ UNCHANGED sup
    <3>1. PICK old : old = rows[s]
      OBVIOUS
    <3>2. old # NoRow /\ old \in UserRows /\ rows = [t \in Sups |-> rows[t]]
      BY <1>4, <3>1 DEF UpdateRow, DeleteSelf, SidesInv, AccountTypes
    <3>3. CASE UpdateRow(s)
      <4>1. PICK on \in BOOLEAN, role \in {old.role, "ADMIN"}, profile \in {old.profile, FALSE} :
              rows' = [rows EXCEPT ![s].active = on, ![s].role = role, ![s].profile = profile]
        BY <3>1, <3>3 DEF UpdateRow
      <4>2. PICK row : row = [old EXCEPT !.active = on, !.role = role, !.profile = profile]
        OBVIOUS
      <4>3. rows' = [rows EXCEPT ![s] = row]
        BY <3>1, <3>2, <4>1, <4>2
      <4> QED
        BY <3>1, <3>2, <3>3, <4>2, <4>3 DEF UpdateRow
    <3>4. CASE DeleteSelf(s)
      <4>1. PICK row : row = [old EXCEPT !.active = FALSE, !.role = old.role, !.profile = old.profile]
        OBVIOUS
      <4>2. row = [old EXCEPT !.active = FALSE]
        BY <3>2, <4>1 DEF UserRows
      <4>3. rows' = [rows EXCEPT ![s] = row] /\ UNCHANGED sup
        BY <3>1, <3>4, <4>2 DEF DeleteSelf
      <4> QED
        BY <3>1, <3>2, <4>1, <4>3
    <3> QED
      BY <1>4, <3>3, <3>4
  <2>2. row \in UserRows /\ row.email = old.email
    <3>1. old \in UserRows
      BY <2>1 DEF SidesInv, AccountTypes
    <3> QED
      BY <2>1, <3>1 DEF UserRows
  <2>3. sup' \in [Sups -> AccountType] /\ rows' \in [Sups -> UserRows \cup {NoRow}]
    BY <2>1, <2>2 DEF SidesInv, AccountTypes
  <2>4. row # NoRow
    BY <2>2, RowAssumption
  <2>5. \A t \in Sups : Same(t)
    BY <2>1, <2>2, <2>4 DEF Same, SidesInv, AccountTypes
  <2> QED
    BY <1>2, <2>3, <2>5
<1> QED
  BY <1>3, <1>4, <1>5

LEMMA OAuthSides ==
  ASSUME SidesInv, NEW e \in Emails, OAuth(e)
  PROVE  SidesInv'
<1>1. PICK s \in Fresh : sup' = [sup EXCEPT ![s] = [Account(e, "oauth") EXCEPT !.session = TRUE]]
  BY DEF OAuth
<1>2. UNCHANGED <<rows, calls, disturbed>> /\ s \in Sups /\ sup[s].st = "none"
  BY <1>1 DEF OAuth, Fresh, Unused
<1>3. PICK acc : acc = [Account(e, "oauth") EXCEPT !.session = TRUE]
  OBVIOUS
<1>4. /\ acc \in AccountType /\ acc.st = "live" /\ acc.origin = "oauth" /\ acc.confirmed
      /\ acc.email = e
  BY <1>3 DEF Account, AccountType
<1>5. sup' \in [Sups -> AccountType] /\ sup'[s] = acc /\ \A t \in Sups \ {s} : sup'[t] = sup[t]
  BY <1>1, <1>2, <1>3, <1>4 DEF SidesInv, AccountTypes
<1>6. AccountTypes'
  BY <1>2, <1>5 DEF SidesInv, AccountTypes
<1>7. SideInv(s)'
  <2>1. rows[s] = NoRow /\ ~Busy(s)
    BY <1>2 DEF SidesInv, SideInv, Unborn
  <2>2. Agree(s)'
    BY <1>2, <1>4, <1>5, <2>1 DEF Agree, Address, Obscured
  <2>3. ~Busy(s)'
    BY <1>2, <2>1 DEF Busy
  <2> QED
    BY <1>4, <1>5, <2>2, <2>3 DEF SideInv, Unborn, Settled, Busy
<1>8. ASSUME NEW t \in Sups, t # s PROVE SideInv(t)'
  <2>1. Same(t) /\ Disturbs({})
    BY <1>2, <1>5, <1>8 DEF Same, Disturbs
  <2> QED
    BY <1>2, <2>1, Elsewhere DEF SidesInv
<1> QED
  BY <1>6, <1>7, <1>8 DEF SidesInv

LEMMA InitSides == AccountsInit => SidesInv
<1> SUFFICES ASSUME AccountsInit PROVE SidesInv
  OBVIOUS
<1>1. PICK address \in [Existing -> Emails], role \in {"GUEST", "ADMIN"} :
        /\ sup = [s \in Sups |-> IF s \in Existing
                    THEN [Account(address[s], "signup") EXCEPT !.confirmed = TRUE, !.session = TRUE]
                    ELSE [Account("none", "signup") EXCEPT !.st = "none"]]
        /\ rows = [s \in Sups |-> IF s \in Existing THEN Row(address[s], FALSE, role) ELSE NoRow]
  BY DEF AccountsInit
<1>2. calls = [c \in Calls |-> NoCall] /\ disturbed = {}
  BY DEF AccountsInit
<1>3. ASSUME NEW s \in Sups
      PROVE  /\ sup[s] \in AccountType /\ sup[s].origin = "signup" /\ sup[s].st \in {"none", "live"}
             /\ rows[s] \in UserRows \cup {NoRow}
             /\ sup[s].st = "none" => rows[s] = NoRow
             /\ sup[s].st = "live" => /\ rows[s] # NoRow /\ rows[s].email = sup[s].email
                                      /\ sup[s].email \in Emails
  <2>1. CASE s \in Existing
    <3>1. PICK row : row = Row(address[s], FALSE, role)
      OBVIOUS
    <3>2. row \in UserRows /\ row.email = address[s]
      BY <1>1, <2>1, <3>1 DEF Row, UserRows
    <3>3. row # NoRow
      BY <3>2, RowAssumption
    <3>4. sup[s] \in AccountType /\ sup[s].st = "live" /\ sup[s].email = address[s] /\ sup[s].origin = "signup"
      BY <1>1, <2>1 DEF Account, AccountType
    <3> QED
      BY <1>1, <2>1, <3>1, <3>2, <3>3, <3>4
  <2>2. CASE s \notin Existing
    <3>1. sup[s] \in AccountType /\ sup[s].st = "none" /\ sup[s].origin = "signup"
      BY <1>1, <2>2 DEF Account, AccountType
    <3> QED
      BY <1>1, <2>2, <3>1
  <2> QED
    BY <2>1, <2>2
<1>4. AccountTypes
  <2>1. sup \in [Sups -> AccountType] /\ rows \in [Sups -> UserRows \cup {NoRow}]
    BY <1>1, <1>3
  <2> QED
    BY <1>2, <2>1, NoCallIs DEF AccountTypes
<1>5. ASSUME NEW s \in Sups PROVE SideInv(s)
  <2>1. ~Busy(s) /\ \A c \in Calls : calls[c].s # s
    BY <1>2, NoCallIs DEF Busy
  <2>2. Agree(s)
    BY <1>3 DEF Agree, Live, Address, Obscured
  <2> QED
    BY <1>2, <1>3, <2>1, <2>2 DEF SideInv, Unborn, Settled, Live
<1> QED
  BY <1>4, <1>5 DEF SidesInv

LEMMA AccountsStep == SidesInv /\ AccountsNext => SidesInv'
BY AskSides, SignUpSides, CreateSides, CompensateSides, SyncSides, EmailSides, DeleteSides,
   CrashSides, BeginSides, StepSides, OAuthSides DEF AccountsNext

---------------------------------------------------------------------------
(* Switched off and on                                                     *)

LEMMA OddNext == \A n \in Nat : n + 1 \in Nat /\ n <= n + 1 /\ (Odd(n + 1) <=> ~Odd(n))
BY DEF Odd

LEMMA OffsStep ==
  ASSUME SidesInv, OffsInv, AccountsNext
  PROVE  OffsInv' /\ \A s \in Sups : offs[s] <= offs'[s]
<1>1. rows = [s \in Sups |-> rows[s]] /\ offs = [s \in Sups |-> offs[s]]
  BY DEF SidesInv, AccountTypes, OffsInv
<1>2. ASSUME NEW s \in Sups, NEW row \in UserRows \cup {NoRow}, rows' = [rows EXCEPT ![s] = row],
             NEW n \in Nat, offs' = [offs EXCEPT ![s] = n], offs[s] <= n,
             IF row = NoRow THEN ~Odd(n) ELSE row.active <=> ~Odd(n)
      PROVE  OffsInv' /\ \A t \in Sups : offs[t] <= offs'[t]
  BY <1>1, <1>2 DEF OffsInv
<1>3. ASSUME UNCHANGED <<rows, offs>> PROVE OffsInv' /\ \A t \in Sups : offs[t] <= offs'[t]
  BY <1>3 DEF OffsInv
<1>4. ASSUME NEW s \in Sups, NEW row \in UserRows, rows' = [rows EXCEPT ![s] = row], UNCHANGED offs,
             row.active <=> (rows[s] = NoRow \/ rows[s].active)
      PROVE  OffsInv' /\ \A t \in Sups : offs[t] <= offs'[t]
  <2>1. row # NoRow
    BY RowAssumption
  <2>2. offs' = [offs EXCEPT ![s] = offs[s]] /\ offs[s] \in Nat
    BY <1>1, <1>4 DEF OffsInv
  <2>3. row.active <=> ~Odd(offs[s])
    BY <1>4 DEF OffsInv
  <2>4. PICK n \in Nat : n = offs[s]
    BY <2>2
  <2>5. offs' = [offs EXCEPT ![s] = n] /\ offs[s] <= n
    BY <2>2, <2>4
  <2>6. IF row = NoRow THEN ~Odd(n) ELSE row.active <=> ~Odd(n)
    BY <2>1, <2>3, <2>4
  <2> QED
    BY <1>2, <1>4, <2>5, <2>6
<1>5. ASSUME NEW c \in Calls, CreateRow(c) \/ SyncCreate(c) \/ SyncUpdate(c) \/ RowEmail(c)
      PROVE  OffsInv' /\ \A t \in Sups : offs[t] <= offs'[t]
  <2>1. PICK s, e : s = calls[c].s /\ e = calls[c].email
    OBVIOUS
  <2>2. s \in Sups /\ UNCHANGED offs
    BY <1>5, <2>1, OwnFacts DEF CreateRow, SyncCreate, SyncUpdate, RowEmail
  <2>3. e \in Emails
    BY <1>5, <2>1, OwnFacts DEF CreateRow, SyncCreate, SyncUpdate, RowEmail, IsCall
  <2>4. \A old \in UserRows : old.active \in BOOLEAN
    BY DEF UserRows
  <2>5. CASE UNCHANGED rows
    BY <1>3, <2>2, <2>5
  <2>6. ASSUME NEW role \in {"GUEST", "MEMBER"}, NEW confirmed \in BOOLEAN, rows[s] = NoRow,
               rows' = [rows EXCEPT ![s] = Row(e, confirmed, role)]
        PROVE  OffsInv' /\ \A t \in Sups : offs[t] <= offs'[t]
    <3>1. PICK row : row = Row(e, confirmed, role)
      OBVIOUS
    <3>2. row \in UserRows /\ row.active = TRUE
      BY <2>3, <3>1 DEF Row, UserRows
    <3> QED
      BY <1>4, <2>2, <2>6, <3>1, <3>2
  <2>7. ASSUME NEW old, old = rows[s], old # NoRow, NEW row, rows' = [rows EXCEPT ![s] = row],
               row = SyncedRow(old) \/ row = [old EXCEPT !.email = e]
        PROVE  OffsInv' /\ \A t \in Sups : offs[t] <= offs'[t]
    <3>1. old \in UserRows
      BY <2>2, <2>7 DEF SidesInv, AccountTypes
    <3>2. row \in UserRows /\ row.active = old.active
      BY <2>3, <2>7, <3>1 DEF SyncedRow, UserRows
    <3> QED
      BY <1>4, <2>2, <2>4, <2>7, <3>1, <3>2
  <2>8. CASE CreateRow(c)
    BY <2>1, <2>5, <2>6, <2>8 DEF CreateRow, Taken
  <2>9. CASE SyncCreate(c)
    BY <2>1, <2>5, <2>6, <2>9 DEF SyncCreate, Taken
  <2>10. CASE SyncUpdate(c)
    <3>1. PICK row : row = SyncedRow(rows[s])
      OBVIOUS
    <3>2. UNCHANGED rows \/ (rows[s] # NoRow /\ rows' = [rows EXCEPT ![s] = row])
      BY <1>1, <2>1, <2>10, <3>1 DEF SyncUpdate
    <3> QED
      BY <2>5, <2>7, <3>1, <3>2
  <2>11. CASE RowEmail(c)
    <3>1. PICK old, row : old = rows[s] /\ row = [old EXCEPT !.email = e]
      OBVIOUS
    <3>2. UNCHANGED rows \/ (old # NoRow /\ rows' = [rows EXCEPT ![s] = row])
      BY <1>1, <2>1, <2>11, <3>1 DEF RowEmail
    <3> QED
      BY <2>5, <2>7, <3>1, <3>2
  <2> QED
    BY <1>5, <2>8, <2>9, <2>10, <2>11
<1>6. ASSUME NEW c \in Calls, RowDelete(c) PROVE OffsInv' /\ \A t \in Sups : offs[t] <= offs'[t]
  <2>1. CASE UNCHANGED <<rows, offs>>
    BY <1>3, <2>1
  <2>2. CASE /\ rows' = [rows EXCEPT ![calls[c].s] = NoRow]
             /\ offs' = [offs EXCEPT ![calls[c].s] = IF @ % 2 = 1 THEN @ + 1 ELSE @]
    <3>1. PICK s, n : s = calls[c].s /\ n = IF offs[s] % 2 = 1 THEN offs[s] + 1 ELSE offs[s]
      OBVIOUS
    <3>2. s \in Sups /\ offs[s] \in Nat
      BY <1>6, <3>1, OwnFacts DEF RowDelete, OffsInv
    <3>3. n \in Nat /\ offs[s] <= n /\ ~Odd(n)
      BY <3>1, <3>2, OddNext DEF Odd
    <3>4. rows' = [rows EXCEPT ![s] = NoRow] /\ offs' = [offs EXCEPT ![s] = n]
      BY <1>1, <2>2, <3>1
    <3>5. PICK row \in UserRows \cup {NoRow} : row = NoRow
      OBVIOUS
    <3>6. IF row = NoRow THEN ~Odd(n) ELSE row.active <=> ~Odd(n)
      BY <3>3, <3>5
    <3> QED
      BY <1>2, <3>2, <3>3, <3>4, <3>5, <3>6
  <2> QED
    BY <1>6, <2>1, <2>2 DEF RowDelete
<1>7. ASSUME NEW s \in Sups, UpdateRow(s) \/ DeleteSelf(s)
      PROVE  OffsInv' /\ \A t \in Sups : offs[t] <= offs'[t]
  <2>1. PICK old : old = rows[s]
    OBVIOUS
  <2>2. old # NoRow /\ old \in UserRows /\ old.active \in BOOLEAN /\ (old.active <=> ~Odd(offs[s]))
    BY <1>7, <2>1 DEF UpdateRow, DeleteSelf, SidesInv, AccountTypes, UserRows, OffsInv
  <2>3. ASSUME NEW row \in UserRows, rows' = [rows EXCEPT ![s] = row], NEW n,
               n = IF row.active = old.active THEN offs[s] ELSE offs[s] + 1,
               offs' = [offs EXCEPT ![s] = n], row.active \in BOOLEAN
        PROVE  OffsInv' /\ \A t \in Sups : offs[t] <= offs'[t]
    <3>1. offs[s] \in Nat
      BY DEF OffsInv
    <3>2. n \in Nat /\ offs[s] <= n /\ (row.active <=> ~Odd(n))
      BY <2>2, <2>3, <3>1, OddNext
    <3>3. row # NoRow
      BY RowAssumption
    <3> QED
      BY <1>2, <2>3, <3>2, <3>3
  <2>4. CASE UpdateRow(s)
    <3>1. PICK on \in BOOLEAN, role \in {old.role, "ADMIN"}, profile \in {old.profile, FALSE} :
            /\ rows' = [rows EXCEPT ![s].active = on, ![s].role = role, ![s].profile = profile]
            /\ offs' = [offs EXCEPT ![s] = IF on = old.active THEN @ ELSE @ + 1]
      BY <2>1, <2>4 DEF UpdateRow
    <3>2. PICK row : row = [old EXCEPT !.active = on, !.role = role, !.profile = profile]
      OBVIOUS
    <3>3. rows' = [rows EXCEPT ![s] = row]
      BY <1>1, <2>1, <3>1, <3>2
    <3>4. row \in UserRows /\ row.active = on
      BY <2>2, <3>2 DEF UserRows
    <3> QED
      BY <2>3, <3>1, <3>3, <3>4
  <2>5. CASE DeleteSelf(s)
    <3>1. PICK row : row = [old EXCEPT !.active = FALSE]
      OBVIOUS
    <3>2. rows' = [rows EXCEPT ![s] = row] /\ offs' = [offs EXCEPT ![s] = offs[s] + 1] /\ old.active
      BY <1>1, <2>1, <2>5, <3>1 DEF DeleteSelf
    <3>3. row \in UserRows /\ row.active = FALSE
      BY <2>2, <3>1 DEF UserRows
    <3> QED
      BY <2>3, <3>2, <3>3
  <2> QED
    BY <1>7, <2>4, <2>5
<1>8. ASSUME NEW c \in Calls, SupabaseSignUp(c) \/ Compensate(c) \/ SupabaseEmail(c)
                              \/ SupabaseDelete(c) \/ CallCrash(c)
      PROVE  UNCHANGED <<rows, offs>>
  BY <1>8 DEF SupabaseSignUp, Compensate, SupabaseEmail, SupabaseDelete, CallCrash
<1>9. ASSUME NEW c \in Calls, NEW e \in Emails, FindByEmail(c, e) \/ CreateByAdmin(c, e)
      PROVE  UNCHANGED <<rows, offs>>
  BY <1>9 DEF FindByEmail, CreateByAdmin
<1>10. ASSUME NEW c \in Calls, NEW s \in Sups, Sync(c, s) \/ Delete(c, s) \/ \E e \in Emails : ChangeEmail(c, s, e)
       PROVE  UNCHANGED <<rows, offs>>
  BY <1>10 DEF Sync, Delete, ChangeEmail
<1>11. ASSUME NEW s \in Sups, SignIn(s) \/ VerifyOtp(s) \/ ChangePassword(s)
       PROVE  UNCHANGED <<rows, offs>>
  BY <1>11 DEF SignIn, VerifyOtp, ChangePassword
<1>12. ASSUME NEW e \in Emails, OAuth(e) PROVE UNCHANGED <<rows, offs>>
  BY <1>12 DEF OAuth
<1> QED
  BY <1>3, <1>5, <1>6, <1>7, <1>8, <1>9, <1>10, <1>11, <1>12 DEF AccountsNext

---------------------------------------------------------------------------
(* Requests                                                                *)

LEMMA TokensName ==
  \A t \in ReqTokens :
    t.s \in Sups \cup {0} /\ (t.kind \in {"jwt", "supabase"} => t.s \in Sups)
BY TokensAssumption DEF NoToken, ReqTokens

LEMMA TheirTracker ==
  ASSUME NEW r, IsRequest(r), r.pc # "idle"
  PROVE  Tracker(r) \in Trackers /\ Sender(r) \in Senders /\ Names(Tracker(r), Sender(r))
<1>3. Sender(r) \in Senders
  BY TokensName DEF IsRequest, ReqType, Sender, Senders
<1>1. CASE r.tracker = <<>>
  <2>1. Tracker(r) = <<"ip", r.ip>> /\ Sender(r).ip = r.ip /\ r.ip \in Ips
    BY <1>1 DEF IsRequest, Tracker, Sender
  <2>2. Names(<<"ip", r.ip>>, Sender(r)) /\ <<"ip", r.ip>> \in Trackers
    BY <2>1 DEF Names, Trackers
  <2> QED
    BY <1>3, <2>1, <2>2
<1>2. CASE r.tracker # <<>>
  <2>1. PICK s \in Sups : s = r.token.s
    BY <1>2 DEF IsRequest
  <2>2. r.tracker \in {<<"user", s>>, <<"supabase", s>>}
    BY <1>2, <2>1 DEF IsRequest
  <2>3. Tracker(r) = r.tracker /\ Sender(r).s = s
    BY <1>2, <2>1 DEF Tracker, Sender
  <2>4. /\ Names(<<"user", s>>, Sender(r)) /\ <<"user", s>> \in Trackers
        /\ Names(<<"supabase", s>>, Sender(r)) /\ <<"supabase", s>> \in Trackers
    BY <2>3 DEF Names, Trackers
  <2> QED
    BY <1>3, <2>2, <2>3, <2>4
<1> QED
  BY <1>1, <1>2, <1>3

LEMMA SameType == UNCHANGED route => ReqType' = ReqType
BY DEF ReqType, Handlers, ReqIps, ReqTokens, ReqTrackers, Trackers

\* A request that stays as it is survives every later switch of its account.
LEMMA RequestLasts ==
  ASSUME NEW r, IsRequest(r), OffsInv, OffsInv', \A s \in Sups : offs[s] <= offs'[s], UNCHANGED route
  PROVE  IsRequest(r)'
<1>1. \A s \in Sups : offs[s] \in Nat /\ offs'[s] \in Nat
  BY DEF OffsInv
<1>2. r.ver \in Nat
  BY DEF IsRequest, ReqType
<1> QED
  BY <1>1, <1>2, SameType DEF IsRequest, Closed

LEMMA OneRequest ==
  ASSUME ReqInv, NEW p \in Slots, NEW r, req' = [req EXCEPT ![p] = r], IsRequest(r)',
         UNCHANGED <<offs, route>>
  PROVE  ReqInv'
<1>1. req' = [q \in Slots |-> req'[q]] /\ req'[p] = r
  BY DEF ReqInv
<1>2. ASSUME NEW q \in Slots PROVE IsRequest(req[q])'
  <2>1. CASE q = p
    BY <1>1, <2>1 DEF IsRequest, Closed
  <2>2. CASE q # p
    <3>1. req'[q] = req[q]
      BY <2>2 DEF ReqInv
    <3>2. IsRequest(req[q])
      BY DEF ReqInv
    <3> QED
      BY <3>1, <3>2, SameType DEF IsRequest, Closed
  <2> QED
    BY <2>1, <2>2
<1> QED
  BY <1>1, <1>2 DEF ReqInv

LEMMA ArriveStep ==
  ASSUME ReqInv, OffsInv, NEW p \in Slots, NEW ip \in Ips, NEW token \in Tokens, Arrive(p, ip, token)
  PROVE  ReqInv'
<1>1. PICK r : r = [NoRequest EXCEPT !.pc = "authenticate", !.ip = ip, !.token = token,
                                     !.handler = route.reached,
                                     !.ver = IF token.s = 0 THEN 0 ELSE offs[token.s]]
  OBVIOUS
<1>2. /\ r.pc = "authenticate" /\ r.code = 0 /\ r.handler = route.reached /\ r.ip = ip
      /\ r.token = token /\ r.tracker = <<>> /\ r.role = {}
      /\ r.ver = IF token.s = 0 THEN 0 ELSE offs[token.s]
      /\ r = [pc |-> r.pc, code |-> r.code, handler |-> r.handler, ip |-> r.ip, token |-> r.token,
              tracker |-> r.tracker, role |-> r.role, ver |-> r.ver]
  BY <1>1 DEF NoRequest
<1>3. req' = [req EXCEPT ![p] = r] /\ UNCHANGED <<offs, route>>
  BY <1>1 DEF Arrive
<1>4. token.s \in Sups \cup {0} /\ 0 \notin Sups
  BY TokensName, AccountsAssumption DEF ReqTokens
<1>5. r.ver \in Nat /\ (token.s \in Sups => r.ver <= offs[token.s])
  BY <1>2, <1>4 DEF OffsInv
<1>6. r \in ReqType
  BY <1>2, <1>5 DEF ReqType, ReqStages, ReqCodes, Handlers, ReqIps, ReqTokens, ReqTrackers, ReqRoles
<1>7. IsRequest(r)
  BY <1>2, <1>5, <1>6 DEF IsRequest, Closed
<1>8. IsRequest(r)'
  BY <1>3, <1>7, SameType DEF IsRequest, Closed
<1> QED
  BY <1>3, <1>8, OneRequest

\* A request goes on to pc, or is answered; nothing of the rest of it changes.
LEMMA GoesOn ==
  ASSUME ReqInv, NEW p \in Slots, UNCHANGED <<offs, route>>,
         NEW old, old = req[p], old.pc # "idle",
         NEW pc \in ReqStages \ {"idle", "authenticate"}, NEW code \in ReqCodes,
         NEW r, r = [old EXCEPT !.pc = pc, !.code = code], req' = [req EXCEPT ![p] = r],
         pc # "answered" /\ ~Routes[old.handler].open => Closed(old),
         pc = "throttle" => Routes[old.handler].open /\ old.tracker = <<>>
  PROVE  ReqInv'
<1>1. IsRequest(old) /\ old \in ReqType /\ pc \in ReqStages
  BY DEF ReqInv, IsRequest
<1>2. /\ r \in ReqType /\ r.pc = pc /\ r.handler = old.handler /\ r.ip = old.ip
      /\ r.token = old.token /\ r.tracker = old.tracker /\ r.ver = old.ver
  BY <1>1 DEF ReqType
<1>3. Closed(r) => Closed(old)
  BY <1>2 DEF Closed
<1>4. IsRequest(r)
  BY <1>1, <1>2, <1>3 DEF IsRequest
<1>5. IsRequest(r)'
  BY <1>4, SameType DEF IsRequest, Closed
<1> QED
  BY <1>5, OneRequest

LEMMA StepOn ==
  ASSUME ReqInv, NEW p \in Slots, UNCHANGED <<offs, route>>, req[p].pc # "idle",
         NEW pc \in ReqStages \ {"idle", "authenticate", "answered"}, Step(p, pc),
         ~Routes[req[p].handler].open => Closed(req[p]),
         pc = "throttle" => Routes[req[p].handler].open /\ req[p].tracker = <<>>
  PROVE  ReqInv'
<1>1. PICK old : old = req[p]
  OBVIOUS
<1>2. old \in ReqType /\ old.code \in ReqCodes
  BY <1>1 DEF ReqInv, IsRequest, ReqType
<1>3. PICK r : r = [old EXCEPT !.pc = pc]
  OBVIOUS
<1>4. r = [old EXCEPT !.pc = pc, !.code = old.code]
  BY <1>2, <1>3 DEF ReqType
<1>5. req' = [req EXCEPT ![p] = r]
  BY <1>1, <1>3 DEF ReqInv, Step
<1>6. /\ old.pc # "idle" /\ (~Routes[old.handler].open => Closed(old))
      /\ pc = "throttle" => Routes[old.handler].open /\ old.tracker = <<>>
  BY <1>1
<1> QED
  BY <1>1, <1>2, <1>4, <1>5, <1>6, GoesOn

LEMMA AnswerOn ==
  ASSUME ReqInv, NEW p \in Slots, UNCHANGED <<offs, route>>, req[p].pc # "idle",
         NEW code \in ReqCodes, Answer(p, code)
  PROVE  ReqInv'
<1>1. PICK old : old = req[p]
  OBVIOUS
<1>2. PICK r : r = [old EXCEPT !.pc = "answered", !.code = code]
  OBVIOUS
<1>3. req' = [req EXCEPT ![p] = r]
  BY <1>1, <1>2 DEF ReqInv, Answer
<1>4. "answered" \in ReqStages \ {"idle", "authenticate"} /\ old.pc # "idle"
  BY <1>1 DEF ReqStages
<1> QED
  BY <1>1, <1>2, <1>3, <1>4, GoesOn

LEMMA IsStage == "throttle" \in ReqStages
BY DEF ReqStages

LEMMA BindsOn ==
  ASSUME OffsInv, NEW s \in Sups, Binds(s) PROVE ~Odd(offs[s])
BY DEF OffsInv, Binds

LEMMA AuthenticateStep ==
  ASSUME ReqInv, SidesInv, OffsInv, NEW p \in Slots, Authenticate(p)
  PROVE  ReqInv'
<1>1. PICK old : old = req[p]
  OBVIOUS
<1>2. IsRequest(old) /\ old \in ReqType /\ old.pc = "authenticate" /\ UNCHANGED <<offs, route>>
  BY <1>1 DEF ReqInv, IsRequest, Authenticate, accountVars
<1>3. req = [q \in Slots |-> req[q]]
  BY DEF ReqInv
<1>4. CASE Rt(p).open /\ Step(p, "throttle")
  <2>1. Routes[old.handler].open /\ old.tracker = <<>> /\ old.pc # "idle"
    BY <1>1, <1>2, <1>4 DEF IsRequest, Rt
  <2> QED
    BY <1>1, <1>2, <1>4, <2>1, StepOn DEF ReqStages
<1>5. CASE Answer(p, 401)
  BY <1>1, <1>2, <1>5, AnswerOn DEF ReqCodes
<1>6. CASE /\ ~Rt(p).open /\ Admitted(p, Rt(p).strategy)
           /\ req' = [req EXCEPT ![p] = [@ EXCEPT !.pc = "throttle", !.tracker = AuthUserId(req[p].token),
                                                  !.role = RowRole(req[p].token.s)]]
  <2>1. PICK s : s = old.token.s
    OBVIOUS
  <2>2. s \in Sups
    BY <1>1, <1>2, <1>6, <2>1, TokensName DEF Admitted, Verified, ReqType
  <2>3. ~Odd(offs[s])
    BY <1>1, <1>6, <2>1, <2>2, BindsOn DEF Admitted
  <2>4. PICK tracker : tracker = AuthUserId(old.token)
    OBVIOUS
  <2>5. tracker \in {<<"user", s>>, <<"supabase", s>>} /\ tracker \in ReqTrackers
    BY <2>1, <2>2, <2>4 DEF AuthUserId, Trackers, ReqTrackers
  <2>6. PICK role : role = RowRole(s)
    OBVIOUS
  <2>7. role \in ReqRoles
    BY <2>2, <2>6 DEF ReqRoles, RowRole, SidesInv, AccountTypes, UserRows
  <2>8. PICK r : r = [old EXCEPT !.pc = "throttle", !.tracker = tracker, !.role = role]
    OBVIOUS
  <2>9. /\ r \in ReqType /\ r.pc = "throttle" /\ r.ip = old.ip /\ r.token = old.token
        /\ r.tracker = tracker /\ r.ver = old.ver /\ r.handler = old.handler
    BY <1>2, <2>5, <2>7, <2>8, IsStage DEF ReqType
  <2>10. old.ver \in Nat /\ offs[s] \in Nat /\ old.ver <= offs[s]
    BY <1>2, <2>1, <2>2 DEF IsRequest, ReqType, OffsInv
  <2>11. Odd(old.ver) => old.ver < offs[s]
    BY <2>3, <2>10
  <2>15. ~Routes[r.handler].open /\ r.tracker # <<>>
    <3>1. r.tracker # <<>>
      BY <2>5, <2>9
    <3> QED
      BY <1>1, <1>6, <2>9, <3>1 DEF Rt
  <2>12. IsRequest(r)
    BY <1>2, <2>1, <2>2, <2>5, <2>9, <2>10, <2>11, <2>15 DEF IsRequest
  <2>13. IsRequest(r)'
    BY <1>2, <2>12, SameType DEF IsRequest, Closed
  <2>14. req' = [req EXCEPT ![p] = r]
    BY <1>1, <1>3, <1>6, <2>1, <2>4, <2>6, <2>8
  <2> QED
    BY <1>2, <2>13, <2>14, OneRequest
<1> QED
  BY <1>4, <1>5, <1>6 DEF Authenticate

LEMMA ThrottleStep ==
  ASSUME ReqInv, HitsInv, NEW p \in Slots, Throttle(p)
  PROVE  ReqInv' /\ HitsInv'
<1>1. PICK old : old = req[p]
  OBVIOUS
<1>2. IsRequest(old) /\ old \in ReqType /\ old.pc = "throttle" /\ UNCHANGED <<offs, route>>
  BY <1>1 DEF ReqInv, IsRequest, Throttle, accountVars
<1>3. req = [q \in Slots |-> req[q]]
  BY DEF ReqInv
<1>4. ReqInv'
  <2>1. ~Routes[old.handler].open => Closed(old)
    BY <1>2 DEF Closed
  <2>2. CASE Step(p, "authorize")
    BY <1>1, <1>2, <2>1, <2>2, StepOn DEF ReqStages
  <2>3. CASE Answer(p, 429)
    BY <1>1, <1>2, <2>3, AnswerOn DEF ReqCodes
  <2> QED
    BY <2>2, <2>3 DEF Throttle
<1>5. HitsInv'
  <2>1. PICK t, x : t = Tracker(old) /\ x = Sender(old)
    OBVIOUS
  <2>2. t \in Trackers /\ Names(t, x) /\ x \in Senders
    BY <1>2, <2>1, TheirTracker
  <2>3. hits' = [hits EXCEPT ![t] = Append(hits[t], x)]
    BY <1>1, <2>1, <2>2 DEF Throttle, HitsInv
  <2>4. PICK old_hits : old_hits = hits[t]
    OBVIOUS
  <2>5. old_hits \in Seq(Senders) /\ \A i \in DOMAIN old_hits : Names(t, old_hits[i])
    BY <2>2, <2>4 DEF HitsInv
  <2>6. Append(old_hits, x) \in Seq(Senders)
    BY <2>2, <2>5
  <2>7. \A i \in DOMAIN Append(old_hits, x) : Names(t, Append(old_hits, x)[i])
    BY <2>2, <2>5
  <2> QED
    BY <2>2, <2>3, <2>4, <2>6, <2>7 DEF HitsInv
<1> QED
  BY <1>4, <1>5

LEMMA HandlerStep ==
  ASSUME ReqInv, NEW p \in Slots, Authorize(p) \/ Handle(p)
  PROVE  ReqInv'
<1>1. PICK old : old = req[p]
  OBVIOUS
<1>2. /\ IsRequest(old) /\ old \in ReqType /\ old.pc \in {"authorize", "handle"}
      /\ UNCHANGED <<offs, route>>
  BY <1>1 DEF ReqInv, IsRequest, Authorize, Handle, accountVars
<1>3. req = [q \in Slots |-> req[q]]
  BY DEF ReqInv
<1>4. CASE Step(p, "handle")
  <2>1. ~Routes[old.handler].open => Closed(old)
    BY <1>2 DEF Closed
  <2> QED
    BY <1>1, <1>2, <1>4, <2>1, StepOn DEF ReqStages
<1>5. ASSUME NEW code \in ReqCodes, Answer(p, code) PROVE ReqInv'
  BY <1>1, <1>2, <1>5, AnswerOn
<1> QED
  BY <1>4, <1>5 DEF Authorize, Handle, ApiKeyAnswers, ReqCodes

LEMMA WindowStep ==
  ASSUME HitsInv, NEW t \in Trackers, WindowEnds(t)
  PROVE  HitsInv'
<1>1. hits' = [hits EXCEPT ![t] = <<>>]
  BY DEF WindowEnds
<1>2. <<>> \in Seq(Senders) /\ \A i \in DOMAIN <<>> : FALSE
  OBVIOUS
<1> QED
  BY <1>1, <1>2 DEF HitsInv

---------------------------------------------------------------------------
(* Every step of the pipeline                                              *)

LEMMA PipelineStart == PipelineInit => PipelineInv
<1> SUFFICES ASSUME PipelineInit PROVE PipelineInv
  OBVIOUS
<1>1. AccountsInit /\ SidesInv
  BY InitSides DEF PipelineInit
<1>2. \A s \in Sups : offs[s] = 0 /\ (rows[s] # NoRow => rows[s].active = TRUE)
  <2>1. PICK address \in [Existing -> Emails], role \in {"GUEST", "ADMIN"} :
          rows = [s \in Sups |-> IF s \in Existing THEN Row(address[s], FALSE, role) ELSE NoRow]
    BY <1>1 DEF AccountsInit
  <2>2. \A e : Row(e, FALSE, role).active = TRUE
    BY DEF Row
  <2> QED
    BY <1>1, <2>1, <2>2 DEF AccountsInit
<1>3. OffsInv
  <2>1. offs = [s \in Sups |-> 0]
    BY <1>1 DEF AccountsInit
  <2>2. 0 \in Nat /\ ~Odd(0)
    BY DEF Odd
  <2> QED
    BY <1>2, <2>1, <2>2 DEF OffsInv
<1>4. ReqInv
  <2>1. req = [p \in Slots |-> NoRequest]
    BY DEF PipelineInit
  <2>2. NoRequest \in ReqType
    BY DEF NoRequest, ReqType, ReqStages, ReqCodes, Handlers, ReqIps, ReqTokens, ReqTrackers, ReqRoles
  <2>3. NoRequest.pc = "idle" /\ NoRequest.token.s \notin Sups /\ NoRequest.tracker = <<>>
    BY AccountsAssumption DEF NoRequest, NoToken
  <2>4. IsRequest(NoRequest)
    BY <2>2, <2>3 DEF IsRequest, Closed
  <2> QED
    BY <2>1, <2>4 DEF ReqInv
<1>5. HitsInv
  <2>1. hits = [t \in Trackers |-> <<>>]
    BY DEF PipelineInit
  <2>2. <<>> \in Seq(Senders) /\ \A i \in DOMAIN <<>> : FALSE
    OBVIOUS
  <2> QED
    BY <2>1, <2>2 DEF HitsInv
<1> QED
  BY <1>1, <1>3, <1>4, <1>5 DEF PipelineInv

LEMMA AccountsMove ==
  ASSUME PipelineInv, AccountStep PROVE PipelineInv'
<1>1. SidesInv' /\ OffsInv' /\ \A s \in Sups : offs[s] <= offs'[s]
  BY AccountsStep, OffsStep DEF PipelineInv, AccountStep
<1>2. UNCHANGED <<route, req, hits>>
  BY DEF AccountStep, httpVars
<1>3. \A p \in Slots : IsRequest(req[p])'
  <2>1. SUFFICES ASSUME NEW p \in Slots PROVE IsRequest(req[p])'
    OBVIOUS
  <2>2. PICK r : r = req[p]
    OBVIOUS
  <2>3. IsRequest(r)
    BY <2>2 DEF PipelineInv, ReqInv
  <2>4. IsRequest(r)'
    BY <1>1, <1>2, <2>3, RequestLasts DEF PipelineInv
  <2> QED
    BY <1>2, <2>2, <2>4 DEF IsRequest, Closed
<1>4. ReqInv'
  BY <1>2, <1>3 DEF PipelineInv, ReqInv
<1>5. HitsInv'
  BY <1>2 DEF PipelineInv, HitsInv, Trackers
<1> QED
  BY <1>1, <1>4, <1>5 DEF PipelineInv

\* What the accounts' invariant reads is not touched by a request.
LEMMA AccountsRest ==
  ASSUME PipelineInv, UNCHANGED <<sup, rows, calls, disturbed, offs>>
  PROVE  SidesInv' /\ OffsInv'
<1>1. \A s \in Sups : SideInv(s)'
  BY SameAll, StayAll DEF PipelineInv
<1>2. AccountTypes'
  BY DEF PipelineInv, SidesInv, AccountTypes
<1> QED
  BY <1>1, <1>2 DEF PipelineInv, SidesInv, OffsInv

LEMMA RequestMoves ==
  ASSUME PipelineInv, NEW p \in Slots, RequestStep(p) PROVE PipelineInv'
<1>1. ASSUME NEW ip \in Ips, NEW token \in Tokens, Arrive(p, ip, token) PROVE PipelineInv'
  <2>1. UNCHANGED <<sup, rows, calls, disturbed, offs, hits>>
    BY <1>1 DEF Arrive
  <2>2. ReqInv'
    BY <1>1, ArriveStep DEF PipelineInv
  <2> QED
    BY <2>1, <2>2, AccountsRest DEF PipelineInv, HitsInv
<1>2. CASE Authenticate(p)
  <2>1. UNCHANGED <<sup, rows, calls, disturbed, offs, hits>>
    BY <1>2 DEF Authenticate, accountVars
  <2>2. ReqInv'
    BY <1>2, AuthenticateStep DEF PipelineInv
  <2> QED
    BY <2>1, <2>2, AccountsRest DEF PipelineInv, HitsInv
<1>3. CASE Throttle(p)
  <2>1. UNCHANGED <<sup, rows, calls, disturbed, offs>>
    BY <1>3 DEF Throttle, accountVars
  <2> QED
    BY <1>3, <2>1, ThrottleStep, AccountsRest DEF PipelineInv
<1>4. CASE Authorize(p) \/ Handle(p)
  <2>1. UNCHANGED <<sup, rows, calls, disturbed, offs, hits>>
    BY <1>4 DEF Authorize, Handle, accountVars
  <2>2. ReqInv'
    BY <1>4, HandlerStep DEF PipelineInv
  <2> QED
    BY <2>1, <2>2, AccountsRest DEF PipelineInv, HitsInv
<1> QED
  BY <1>1, <1>2, <1>3, <1>4 DEF RequestStep

LEMMA PipelineStep == PipelineInv /\ [PipelineNext]_pipelineVars => PipelineInv'
<1> SUFFICES ASSUME PipelineInv, [PipelineNext]_pipelineVars PROVE PipelineInv'
  OBVIOUS
<1>1. ASSUME NEW t \in Trackers, WindowEnds(t) PROVE PipelineInv'
  <2>1. UNCHANGED <<sup, rows, calls, disturbed, offs, route, req>>
    BY <1>1 DEF WindowEnds, accountVars
  <2> QED
    BY <1>1, <2>1, WindowStep, AccountsRest, SameType DEF PipelineInv, ReqInv, IsRequest, Closed
<1>2. CASE UNCHANGED pipelineVars
  <2>1. UNCHANGED <<sup, rows, calls, disturbed, offs, route, req, hits>>
    BY <1>2 DEF pipelineVars, accountVars
  <2> QED
    BY <2>1, AccountsRest, SameType DEF PipelineInv, ReqInv, IsRequest, Closed, HitsInv
<1> QED
  BY <1>1, <1>2, RequestMoves, AccountsMove DEF PipelineNext

\* The accounts and the requests keep the invariant that the properties follow
\* from, for any number of accounts, calls, requests, tokens and addresses.
LEMMA PipelineCorrect == PipelineSpec => []PipelineInv
<1> QED
  BY PipelineStart, PipelineStep, PTL DEF PipelineSpec

\* Supabase and the local table tell the same users with the same addresses
\* whenever no call is under way, except where two calls met, something failed that
\* nobody compensates (signUp undoes its own failures, auth.service.ts:83), the user
\* has moved its account with a code of email_change (auth.service.ts:260) or
\* Supabase has obfuscated the user of a sign-up (auth.service.ts:72), for any number
\* of accounts, calls and faults.
THEOREM BothSidesAgreeCorrect == PipelineSpec => []BothSidesAgree
<1>1. PipelineInv => BothSidesAgree
  BY DEF PipelineInv, SidesInv, SideInv, Settled, BothSidesAgree
<1> QED
  BY <1>1, PipelineCorrect, PTL

\* No request that an account sends while it is switched off reaches a handler
\* before an administrator has switched it on or deleted it, whatever calls change
\* the account meanwhile (bind-request-user.util.ts:14), for any number of them.
THEOREM DeactivatedLockedOutCorrect == PipelineSpec => []DeactivatedLockedOut
<1>1. PipelineInv => DeactivatedLockedOut
  <2> SUFFICES ASSUME PipelineInv, NEW p \in Slots, req[p].pc = "handle", ~Rt(p).open, req[p].ver % 2 = 1
               PROVE  offs[req[p].token.s] # req[p].ver
    BY DEF DeactivatedLockedOut
  <2>1. IsRequest(req[p]) /\ Closed(req[p]) /\ Odd(req[p].ver)
    BY DEF PipelineInv, ReqInv, Closed, Rt, Odd
  <2>2. req[p].ver \in Nat /\ req[p].token.s \in Sups
    BY <2>1 DEF IsRequest, ReqType
  <2>3. offs[req[p].token.s] \in Nat
    BY <2>2 DEF PipelineInv, OffsInv
  <2>4. req[p].ver < offs[req[p].token.s]
    BY <2>1 DEF IsRequest
  <2> QED
    BY <2>2, <2>3, <2>4
<1> QED
  BY <1>1, PipelineCorrect, PTL

\* A user that is refused for too many requests has sent more of them than the limit
\* under its own account, an address of a public route from that address: the guard
\* that binds the user comes before the one that counts (application.module.ts:96),
\* for any limits, tokens and addresses.
THEOREM ThrottledByOwnRequestsCorrect == PipelineSpec => ThrottledByOwnRequests
<1>1. ASSUME PipelineInv, PipelineInv', NEW p \in Slots, NEW t \in Trackers,
             Throttle(p), req'[p].pc = "answered", hits'[t] # hits[t]
      PROVE  Cardinality(OwnRequests(req[p], hits'[t])) > Budget(Rt(p).limit)
  <2>1. PICK r, own : r = req[p] /\ own = Tracker(r)
    OBVIOUS
  <2>2. IsRequest(r) /\ r.pc = "throttle"
    BY <1>1, <2>1 DEF PipelineInv, ReqInv, Throttle
  <2>3. PICK window, x : window = hits[own] /\ x = Sender(r)
    OBVIOUS
  <2>4. own \in Trackers /\ x \in Senders /\ HitsInv /\ window \in Seq(Senders)
    BY <1>1, <2>1, <2>2, <2>3, TheirTracker DEF PipelineInv, HitsInv
  <2>5. hits' = [hits EXCEPT ![own] = Append(window, x)]
    BY <1>1, <2>1, <2>3, <2>4 DEF Throttle, HitsInv
  <2>6. t = own /\ hits'[t] = Append(window, x)
    BY <1>1, <2>4, <2>5 DEF HitsInv
  <2>7. PICK n \in Nat : n = Len(window) + 1
    BY <2>4
  <2>8. DOMAIN hits'[t] = 1..n
    BY <2>4, <2>6, <2>7
  <2>9. n > Budget(Rt(p).limit)
    <3>1. ~(Len(window) + 1 > Budget(Rt(p).limit)) => Step(p, "authorize")
      BY <1>1, <2>1, <2>3 DEF Throttle
    <3>2. Step(p, "authorize") => req'[p].pc = "authorize"
      BY <1>1 DEF Step, PipelineInv, ReqInv, IsRequest, ReqType
    <3> QED
      BY <1>1, <2>7, <3>1, <3>2
  <2>10. \A i \in 1..n : Names(own, hits'[t][i])
    BY <1>1, <2>6, <2>8 DEF PipelineInv, HitsInv, Trackers
  <2>11. OwnRequests(r, hits'[t]) = 1..n
    <3>1. ASSUME NEW i \in 1..n
          PROVE  IF Routes[r.handler].open THEN hits'[t][i].ip = r.ip ELSE hits'[t][i].s = r.token.s
      <4>1. Names(own, hits'[t][i])
        BY <2>10, <3>1
      <4>2. CASE Routes[r.handler].open
        <5>1. own = <<"ip", r.ip>>
          BY <2>1, <2>2, <4>2 DEF IsRequest, Tracker
        <5> QED
          BY <4>1, <4>2, <5>1 DEF Names
      <4>3. CASE ~Routes[r.handler].open
        <5>1. own \in {<<"user", r.token.s>>, <<"supabase", r.token.s>>}
          BY <2>1, <2>2, <4>3 DEF IsRequest, Tracker
        <5> QED
          BY <4>1, <4>3, <5>1 DEF Names
      <4> QED
        BY <4>2, <4>3
    <3> QED
      BY <2>8, <3>1 DEF OwnRequests
  <2>12. Cardinality(1..n) = n
    BY <2>7, FS_Interval
  <2> QED
    BY <2>1, <2>9, <2>11, <2>12
<1>2. PipelineInv /\ PipelineInv' => [\A p \in Slots, t \in Trackers :
        Throttle(p) /\ req'[p].pc = "answered" /\ hits'[t] # hits[t] =>
          Cardinality(OwnRequests(req[p], hits'[t])) > Budget(Rt(p).limit)]_pipelineVars
  BY <1>1
<1> QED
  BY <1>2, PipelineCorrect, PTL DEF ThrottledByOwnRequests

---------------------------------------------------------------------------
(* The tables of routes: no route takes the requests of a later one        *)

\* A finite sequence, whatever its elements.
IsTuple(p) == Len(p) \in Nat /\ p = [k \in 1..Len(p) |-> p[k]]

\* Route r takes a request that is meant for route q.
Takes(r, q) == r.method = q.method /\ Matches(r.path, Url(q.path))
\* Path p has text at n where w has other text, or a parameter.
Text(p, w, n) == p[n] \notin {"*", "value", w[n]}
\* No request for path w can go to path p: the paths of the tables have three
\* words at most behind the path of their controller.
Clash(p, w) ==
  \/ Len(p) # Len(w)
  \/ Len(w) > 0 /\ Text(p, w, 1)
  \/ Len(w) > 1 /\ Text(p, w, 2)
  \/ Len(w) > 2 /\ Text(p, w, 3)
Differ(r, q) == r.method # q.method \/ Clash(r.path, q.path)
\* No route of a table takes what is meant for a later one, or for one of another table.
InOrder(s) == \A i, j \in DOMAIN s : j < i => ~Takes(s[j], s[i])
Apart(s, t) == \A j \in DOMAIN s, i \in DOMAIN t : ~Takes(s[j], t[i])
\* A table of routes; all of its paths begin with a word of H.
IsRoute(r) == IsTuple(r.path) /\ "path" \in DOMAIN r /\ "method" \in DOMAIN r
Table(s) == IsTuple(s) /\ \A i \in DOMAIN s : IsRoute(s[i])
Headed(s, H) == \A i \in DOMAIN s : Len(s[i].path) > 0 /\ s[i].path[1] \in H

\* What the tables say of a route.
Line(r, method, path) ==
  r.method = method /\ r.path = path /\ "method" \in DOMAIN r /\ "path" \in DOMAIN r

LEMMA Tuples ==
  IsTuple(<<>>) /\ \A a, b, c : IsTuple(<<a>>) /\ IsTuple(<<a, b>>) /\ IsTuple(<<a, b, c>>)
BY DEF IsTuple

\* The sequence functions on tuples, and the length of a URL.
LEMMA Concat ==
  ASSUME NEW p, IsTuple(p), NEW q, IsTuple(q)
  PROVE  /\ IsTuple(p \o q) /\ Len(p \o q) = Len(p) + Len(q)
         /\ DOMAIN (p \o q) = 1..(Len(p) + Len(q))
         /\ \A k \in 1..Len(p) : (p \o q)[k] = p[k]
         /\ \A k \in 1..Len(q) : (p \o q)[k + Len(p)] = q[k]
<1> DEFINE S == {p[k] : k \in 1..Len(p)} \cup {q[k] : k \in 1..Len(q)}
<1>1. p \in Seq(S) /\ q \in Seq(S)
  BY SeqDef DEF IsTuple
<1>2. Len(p) \in Nat /\ Len(q) \in Nat
  BY DEF IsTuple
<1> HIDE DEF S
<1>3. /\ p \o q \in Seq(S) /\ Len(p \o q) = Len(p) + Len(q)
      /\ \A i \in 1..(Len(p) + Len(q)) : (p \o q)[i] = IF i <= Len(p) THEN p[i] ELSE q[i - Len(p)]
  BY <1>1, ConcatProperties
<1>4. p \o q = [k \in 1..Len(p \o q) |-> (p \o q)[k]]
  BY <1>2, <1>3, LenProperties
<1>5. IsTuple(p \o q)
  BY <1>2, <1>3, <1>4 DEF IsTuple
<1> QED
  BY <1>2, <1>3, <1>4, <1>5

LEMMA UrlLength == ASSUME NEW p, IsTuple(p) PROVE Len(Url(p)) = Len(p) /\ DOMAIN Url(p) = 1..Len(p)
<1> DEFINE S == {Url(p)[n] : n \in 1..Len(p)}
<1>1. Url(p) \in [1..Len(p) -> S]
  BY DEF Url, IsTuple
<1>2. Url(p) \in Seq(S)
  BY <1>1, SeqDef DEF IsTuple
<1> QED
  BY <1>1, <1>2, LenProperties DEF IsTuple

\* Text where the other path has other text, or a parameter, keeps its requests away.
LEMMA TextDiffers ==
  ASSUME NEW r, NEW q, IsTuple(q.path), NEW k \in 1..Len(q.path), Text(r.path, q.path, k)
  PROVE  ~Takes(r, q)
BY DEF Takes, Matches, Url, Text, IsTuple

\* Routes that differ by their method or their path; a route takes its own requests.
LEMMA DifferApart == ASSUME NEW r, NEW q, IsTuple(q.path), Differ(r, q) PROVE ~Takes(r, q)
<1>1. CASE r.method # q.method
  BY <1>1 DEF Takes
<1>2. CASE Len(r.path) # Len(q.path)
  BY <1>2, UrlLength DEF Takes, Matches
<1>3. CASE Len(q.path) > 0 /\ Text(r.path, q.path, 1)
  BY <1>3, TextDiffers DEF IsTuple
<1>4. CASE Len(q.path) > 1 /\ Text(r.path, q.path, 2)
  BY <1>4, TextDiffers DEF IsTuple
<1>5. CASE Len(q.path) > 2 /\ Text(r.path, q.path, 3)
  BY <1>5, TextDiffers DEF IsTuple
<1> QED
  BY <1>1, <1>2, <1>3, <1>4, <1>5 DEF Differ, Clash

LEMMA TakesOwn == ASSUME NEW q, IsTuple(q.path) PROVE Takes(q, q)
BY UrlLength DEF Takes, Matches, Url, IsTuple

LEMMA TableInOrder ==
  ASSUME NEW s, NEW n \in Nat, Len(s) = n, DOMAIN s = 1..n, Table(s),
         \A i \in 1..n : \A j \in 1..(i - 1) : Differ(s[j], s[i])
  PROVE  InOrder(s)
BY DifferApart DEF InOrder, Table, IsRoute

\* A prefix changes a path and nothing else.
LEMMA UnderPath ==
  ASSUME NEW p, NEW s, Table(s), NEW i \in DOMAIN s
  PROVE  /\ Under(p, s)[i].method = s[i].method /\ Under(p, s)[i].path = p \o s[i].path
         /\ "path" \in DOMAIN Under(p, s)[i] /\ "method" \in DOMAIN Under(p, s)[i]
BY DEF Under, Table, IsRoute

\* A prefix in front of two paths changes nothing between them.
LEMMA UnderTakes ==
  ASSUME NEW p, IsTuple(p), NEW s, Table(s), NEW i \in DOMAIN s, NEW j \in DOMAIN s,
         Takes(Under(p, s)[j], Under(p, s)[i])
  PROVE  Takes(s[j], s[i])
<1> DEFINE u == Under(p, s)
          a == s[j].path
          b == s[i].path
<1>1. u[i].path = p \o b /\ u[j].path = p \o a
  BY UnderPath
<1>2. u[i].method = s[i].method /\ u[j].method = s[j].method
  BY UnderPath
<1>3. IsTuple(a) /\ IsTuple(b)
  BY DEF Table, IsRoute
<1>4. IsTuple(p \o b) /\ Len(p \o a) = Len(p) + Len(a) /\ Len(p \o b) = Len(p) + Len(b)
  BY <1>3, Concat
<1>5. Len(a) = Len(b)
  <2>1. Len(p \o a) = Len(p \o b)
    BY <1>1, <1>4, UrlLength DEF Takes, Matches
  <2> QED
    BY <1>3, <1>4, <2>1 DEF IsTuple
<1>6. ASSUME NEW k \in 1..Len(b) PROVE a[k] \in {"*", Url(b)[k]}
  <2>1. k + Len(p) \in 1..Len(p \o b) /\ (p \o a)[k + Len(p)] = a[k] /\ (p \o b)[k + Len(p)] = b[k]
    BY <1>3, <1>4, <1>5, Concat DEF IsTuple
  <2>2. (p \o a)[k + Len(p)] \in {"*", Url(p \o b)[k + Len(p)]}
    BY <1>1, <1>4, <2>1, UrlLength DEF Takes, Matches
  <2>3. Url(p \o b)[k + Len(p)] = Url(b)[k]
    BY <1>3, <1>4, <2>1 DEF Url, IsTuple
  <2> QED
    BY <2>1, <2>2, <2>3
<1> QED
  BY <1>1, <1>2, <1>3, <1>5, <1>6, UrlLength DEF Takes, Matches

LEMMA UnderTable ==
  ASSUME NEW p, IsTuple(p), NEW s, Table(s)
  PROVE  /\ Table(Under(p, s)) /\ DOMAIN Under(p, s) = DOMAIN s /\ Len(Under(p, s)) = Len(s)
         /\ \A i \in DOMAIN s : /\ Under(p, s)[i].method = s[i].method
                                /\ Under(p, s)[i].path = p \o s[i].path
<1> DEFINE u == Under(p, s)
          S == {u[n] : n \in 1..Len(s)}
<1>1. DOMAIN u = DOMAIN s /\ DOMAIN s = 1..Len(s) /\ Len(s) \in Nat
  BY DEF Under, Table, IsTuple
<1>2. \A i \in DOMAIN s : u[i].method = s[i].method /\ u[i].path = p \o s[i].path
  BY UnderPath
<1>3. u = [n \in 1..Len(s) |-> u[n]]
  BY <1>1 DEF Under
<1>4. u \in Seq(S)
  BY <1>1, <1>3, SeqDef
<1>5. Len(u) = Len(s)
  BY <1>1, <1>4, LenProperties
<1>6. \A i \in DOMAIN s : IsRoute(u[i])
  <2> SUFFICES ASSUME NEW i \in DOMAIN s PROVE IsRoute(u[i])
    OBVIOUS
  <2>1. u[i].path = p \o s[i].path /\ "path" \in DOMAIN u[i] /\ "method" \in DOMAIN u[i]
    BY UnderPath
  <2>2. IsTuple(p \o s[i].path)
    BY Concat DEF Table, IsRoute
  <2> QED
    BY <2>1, <2>2 DEF IsRoute
<1> QED
  BY <1>1, <1>2, <1>3, <1>5, <1>6 DEF Table, IsTuple

LEMMA UnderInOrder ==
  ASSUME NEW p, IsTuple(p), NEW s, Table(s), InOrder(s)
  PROVE  InOrder(Under(p, s))
BY UnderTable, UnderTakes DEF InOrder

LEMMA UnderOne ==
  ASSUME NEW h, NEW s, Table(s), InOrder(s)
  PROVE  Table(Under(<<h>>, s)) /\ InOrder(Under(<<h>>, s)) /\ Headed(Under(<<h>>, s), {h})
<1>1. IsTuple(<<h>>) /\ Len(<<h>>) = 1 /\ <<h>>[1] = h
  BY Tuples
<1>2. Table(Under(<<h>>, s)) /\ InOrder(Under(<<h>>, s))
  BY <1>1, UnderTable, UnderInOrder
<1>3. ASSUME NEW i \in DOMAIN s PROVE Len(<<h>> \o s[i].path) > 0 /\ (<<h>> \o s[i].path)[1] = h
  <2>1. IsTuple(s[i].path) /\ Len(s[i].path) \in Nat
    BY DEF Table, IsRoute, IsTuple
  <2> QED
    BY <1>1, <2>1, Concat
<1> QED
  BY <1>1, <1>2, <1>3, UnderTable DEF Headed

\* A join takes its elements from the two tables.
LEMMA JoinElements ==
  ASSUME NEW s, NEW t, Table(s), Table(t)
  PROVE  \A i \in DOMAIN (s \o t) :
           \/ i \in DOMAIN s /\ (s \o t)[i] = s[i]
           \/ i - Len(s) \in DOMAIN t /\ i > Len(s) /\ (s \o t)[i] = t[i - Len(s)]
<1>1. /\ DOMAIN (s \o t) = 1..(Len(s) + Len(t)) /\ Len(s) \in Nat /\ Len(t) \in Nat
      /\ DOMAIN s = 1..Len(s) /\ DOMAIN t = 1..Len(t)
  BY Concat DEF Table, IsTuple
<1> SUFFICES ASSUME NEW i \in DOMAIN (s \o t), i \notin DOMAIN s
             PROVE  i - Len(s) \in DOMAIN t /\ i > Len(s) /\ (s \o t)[i] = t[i - Len(s)]
  BY <1>1, Concat DEF Table
<1>2. i - Len(s) \in 1..Len(t) /\ i > Len(s) /\ (i - Len(s)) + Len(s) = i
  BY <1>1
<1> QED
  BY <1>1, <1>2, Concat DEF Table

LEMMA JoinInOrder ==
  ASSUME NEW s, NEW t, Table(s), Table(t), InOrder(s), InOrder(t), Apart(s, t)
  PROVE  Table(s \o t) /\ InOrder(s \o t)
<1> DEFINE u == s \o t
<1>1. /\ IsTuple(u) /\ DOMAIN u = 1..(Len(s) + Len(t)) /\ Len(s) \in Nat /\ Len(t) \in Nat
      /\ DOMAIN s = 1..Len(s) /\ DOMAIN t = 1..Len(t)
  BY Concat DEF Table, IsTuple
<1>2. \A i \in DOMAIN u : \/ i \in DOMAIN s /\ u[i] = s[i]
                          \/ i - Len(s) \in DOMAIN t /\ i > Len(s) /\ u[i] = t[i - Len(s)]
  BY JoinElements
<1> HIDE DEF u
<1>3. Table(u)
  BY <1>1, <1>2 DEF Table
<1>4. ASSUME NEW i \in DOMAIN u, NEW j \in DOMAIN u, j < i PROVE ~Takes(u[j], u[i])
  <2>1. CASE i \in DOMAIN s /\ u[i] = s[i]
    BY <1>1, <1>2, <1>4, <2>1 DEF InOrder
  <2>2. CASE i - Len(s) \in DOMAIN t /\ i > Len(s) /\ u[i] = t[i - Len(s)]
    <3>1. CASE j \in DOMAIN s /\ u[j] = s[j]
      BY <2>2, <3>1 DEF Apart
    <3>2. CASE j - Len(s) \in DOMAIN t /\ j > Len(s) /\ u[j] = t[j - Len(s)]
      <4>1. j - Len(s) < i - Len(s)
        BY <1>1, <1>4
      <4> QED
        BY <2>2, <3>2, <4>1 DEF InOrder
    <3> QED
      BY <1>2, <3>1, <3>2
  <2> QED
    BY <1>2, <2>1, <2>2
<1> QED
  BY <1>3, <1>4 DEF InOrder, u

\* Paths that begin with different text.
LEMMA JoinHeaded ==
  ASSUME NEW s, NEW t, Table(s), Table(t), InOrder(s), InOrder(t), NEW H, NEW K, Headed(s, H),
         Headed(t, K), H \cap K = {}, "*" \notin H, "value" \notin H
  PROVE  Table(s \o t) /\ InOrder(s \o t) /\ Headed(s \o t, H \cup K)
<1>1. ASSUME NEW j \in DOMAIN s, NEW i \in DOMAIN t PROVE ~Takes(s[j], t[i])
  <2>1. IsTuple(t[i].path) /\ Len(t[i].path) > 0 /\ t[i].path[1] \in K /\ s[j].path[1] \in H
    BY DEF Table, IsRoute, Headed
  <2>2. Text(s[j].path, t[i].path, 1)
    BY <2>1 DEF Text
  <2> QED
    BY <2>1, <2>2, DifferApart DEF Differ, Clash
<1>2. Table(s \o t) /\ InOrder(s \o t)
  BY <1>1, JoinInOrder DEF Apart
<1>3. Headed(s \o t, H \cup K)
  BY JoinElements DEF Headed
<1> QED
  BY <1>2, <1>3

LEMMA JoinApart ==
  ASSUME NEW s, NEW t, NEW u, Table(s), Table(t), Apart(s, u), Apart(t, u)
  PROVE  Apart(s \o t, u)
BY JoinElements DEF Apart

\* The tables, one by one: what their lines say is enough to tell their routes apart.
LEMMA HealthRoutesInOrder ==
  /\ Table(HealthRoutes) /\ InOrder(HealthRoutes)
  /\ Headed(HealthRoutes, {"health"})
<1> DEFINE g == HealthRoutes
<1>1. g = [k \in 1..1 |-> g[k]] /\ Len(g) = 1
  BY DEF HealthRoutes
<1>2. /\ Line(g[1], "GET", <<"health">>)
  BY DEF Line, HealthRoutes, R, Public, Limited, Guarded, Get, Id
<1> HIDE DEF g
<1>3. DOMAIN g = 1..1 /\ IsTuple(g)
  BY <1>1 DEF IsTuple
<1>4. \A i \in 1..1 : IsRoute(g[i])
  BY <1>2 DEF IsRoute, Line, IsTuple
<1>5. Table(g)
  BY <1>3, <1>4 DEF Table
<1>6. \A i \in 1..1 : \A j \in 1..(i - 1) : Differ(g[j], g[i])
  BY <1>2 DEF Differ, Clash, Text, Line
<1>7. InOrder(g)
  BY <1>1, <1>3, <1>5, <1>6, TableInOrder
<1>8. Headed(g, {"health"})
  BY <1>2, <1>3 DEF Headed, Line
<1> QED
  BY <1>1, <1>5, <1>7, <1>8 DEF g

LEMMA CacheRoutesInOrder == Table(CacheRoutes) /\ InOrder(CacheRoutes)
<1> DEFINE g == CacheRoutes
<1>1. g = [k \in 1..3 |-> g[k]] /\ Len(g) = 3
  BY DEF CacheRoutes
<1>2. /\ Line(g[1], "GET", <<"stats">>)
      /\ Line(g[2], "DELETE", <<"clear">>)
      /\ Line(g[3], "DELETE", <<"flush">>)
  BY DEF Line, CacheRoutes, R, Public, Limited, Guarded, Get, Id
<1> HIDE DEF g
<1>3. DOMAIN g = 1..3 /\ IsTuple(g)
  BY <1>1 DEF IsTuple
<1>4. \A i \in 1..3 : IsRoute(g[i])
  BY <1>2 DEF IsRoute, Line, IsTuple
<1>5. Table(g)
  BY <1>3, <1>4 DEF Table
<1>6. \A i \in 1..3 : \A j \in 1..(i - 1) : Differ(g[j], g[i])
  BY <1>2 DEF Differ, Clash, Text, Line
<1>7. InOrder(g)
  BY <1>1, <1>3, <1>5, <1>6, TableInOrder
<1> QED
  BY <1>1, <1>5, <1>7 DEF g

LEMMA ExampleRoutesInOrder == Table(ExampleRoutes) /\ InOrder(ExampleRoutes)
<1> DEFINE g == ExampleRoutes
<1>1. g = [k \in 1..8 |-> g[k]] /\ Len(g) = 8
  BY DEF ExampleRoutes
<1>2. /\ Line(g[1], "GET", <<"public">>)
      /\ Line(g[2], "GET", <<"combined-default">>)
      /\ Line(g[3], "GET", <<"jwt-only">>)
      /\ Line(g[4], "GET", <<"supabase-only">>)
      /\ Line(g[5], "GET", <<"roles">>)
      /\ Line(g[6], "GET", <<"explicit-jwt-guard">>)
      /\ Line(g[7], "GET", <<"throttled">>)
      /\ Line(g[8], "GET", <<"explicit-combined-guard">>)
  BY DEF Line, ExampleRoutes, R, Public, Limited, Guarded, Get, Id
<1> HIDE DEF g
<1>3. DOMAIN g = 1..8 /\ IsTuple(g)
  BY <1>1 DEF IsTuple
<1>4. \A i \in 1..8 : IsRoute(g[i])
  BY <1>2, SMTT(60) DEF IsRoute, Line, IsTuple
<1>5. Table(g)
  BY <1>3, <1>4 DEF Table
<1>6. ASSUME NEW i \in 1..8, NEW j \in 1..(i - 1) PROVE Differ(g[j], g[i])
  <2>1. CASE i = 1
    BY <2>1, <1>2 DEF Differ, Clash, Text, Line
  <2>2. CASE i = 2
    BY <2>2, <1>2 DEF Differ, Clash, Text, Line
  <2>3. CASE i = 3
    BY <2>3, <1>2 DEF Differ, Clash, Text, Line
  <2>4. CASE i = 4
    BY <2>4, <1>2 DEF Differ, Clash, Text, Line
  <2>5. CASE i = 5
    BY <2>5, <1>2 DEF Differ, Clash, Text, Line
  <2>6. CASE i = 6
    BY <2>6, <1>2 DEF Differ, Clash, Text, Line
  <2>7. CASE i = 7
    BY <2>7, <1>2 DEF Differ, Clash, Text, Line
  <2>8. CASE i = 8
    BY <2>8, <1>2 DEF Differ, Clash, Text, Line
  <2> QED
    BY <2>1, <2>2, <2>3, <2>4, <2>5, <2>6, <2>7, <2>8
<1>7. InOrder(g)
  BY <1>1, <1>3, <1>5, <1>6, TableInOrder
<1> QED
  BY <1>1, <1>5, <1>7 DEF g

LEMMA AuthRoutesInOrder ==
  /\ Table(AuthRoutes) /\ InOrder(AuthRoutes)
  /\ Headed(AuthRoutes, {"oauth", "signin", "signup", "verify"})
<1> DEFINE g == AuthRoutes
<1>1. g = [k \in 1..5 |-> g[k]] /\ Len(g) = 5
  BY DEF AuthRoutes
<1>2. /\ Line(g[1], "POST", <<"signup">>)
      /\ Line(g[2], "POST", <<"signin">>)
      /\ Line(g[3], "POST", <<"oauth">>)
      /\ Line(g[4], "POST", <<"oauth", "sync">>)
      /\ Line(g[5], "GET", <<"verify">>)
  BY DEF Line, AuthRoutes, R, Public, Limited, Guarded, Get, Id
<1> HIDE DEF g
<1>3. DOMAIN g = 1..5 /\ IsTuple(g)
  BY <1>1 DEF IsTuple
<1>4. \A i \in 1..5 : IsRoute(g[i])
  BY <1>2, SMTT(60) DEF IsRoute, Line, IsTuple
<1>5. Table(g)
  BY <1>3, <1>4 DEF Table
<1>6. \A i \in 1..5 : \A j \in 1..(i - 1) : Differ(g[j], g[i])
  BY <1>2, SMTT(60) DEF Differ, Clash, Text, Line
<1>7. InOrder(g)
  BY <1>1, <1>3, <1>5, <1>6, TableInOrder
<1>8. Headed(g, {"oauth", "signin", "signup", "verify"})
  BY <1>2, <1>3 DEF Headed, Line
<1> QED
  BY <1>1, <1>5, <1>7, <1>8 DEF g

LEMMA AuthSessionRoutesInOrder ==
  /\ Table(AuthSessionRoutes) /\ InOrder(AuthSessionRoutes)
  /\ Headed(AuthSessionRoutes,
       {"change-password", "refresh", "resend-confirmation", "reset-password", "signout",
        "verify-otp"})
<1> DEFINE g == AuthSessionRoutes
<1>1. g = [k \in 1..6 |-> g[k]] /\ Len(g) = 6
  BY DEF AuthSessionRoutes
<1>2. /\ Line(g[1], "POST", <<"refresh">>)
      /\ Line(g[2], "POST", <<"change-password">>)
      /\ Line(g[3], "POST", <<"signout">>)
      /\ Line(g[4], "POST", <<"reset-password">>)
      /\ Line(g[5], "POST", <<"verify-otp">>)
      /\ Line(g[6], "POST", <<"resend-confirmation">>)
  BY DEF Line, AuthSessionRoutes, R, Public, Limited, Guarded, Get, Id
<1> HIDE DEF g
<1>3. DOMAIN g = 1..6 /\ IsTuple(g)
  BY <1>1 DEF IsTuple
<1>4. \A i \in 1..6 : IsRoute(g[i])
  BY <1>2, SMTT(60) DEF IsRoute, Line, IsTuple
<1>5. Table(g)
  BY <1>3, <1>4 DEF Table
<1>6. \A i \in 1..6 : \A j \in 1..(i - 1) : Differ(g[j], g[i])
  BY <1>2, SMTT(60) DEF Differ, Clash, Text, Line
<1>7. InOrder(g)
  BY <1>1, <1>3, <1>5, <1>6, TableInOrder
<1>8. Headed(g, {"change-password", "refresh", "resend-confirmation", "reset-password", "signout",
        "verify-otp"})
  BY <1>2, <1>3 DEF Headed, Line
<1> QED
  BY <1>1, <1>5, <1>7, <1>8 DEF g

LEMMA ApiKeyRoutesInOrder == Table(ApiKeyRoutes) /\ InOrder(ApiKeyRoutes)
<1> DEFINE g == ApiKeyRoutes
<1>1. g = [k \in 1..3 |-> g[k]] /\ Len(g) = 3
  BY DEF ApiKeyRoutes
<1>2. /\ Line(g[1], "GET", <<>>)
      /\ Line(g[2], "POST", <<>>)
      /\ Line(g[3], "DELETE", <<"*">>)
  BY DEF Line, ApiKeyRoutes, R, Public, Limited, Guarded, Get, Id
<1> HIDE DEF g
<1>3. DOMAIN g = 1..3 /\ IsTuple(g)
  BY <1>1 DEF IsTuple
<1>4. \A i \in 1..3 : IsRoute(g[i])
  BY <1>2 DEF IsRoute, Line, IsTuple
<1>5. Table(g)
  BY <1>3, <1>4 DEF Table
<1>6. \A i \in 1..3 : \A j \in 1..(i - 1) : Differ(g[j], g[i])
  BY <1>2 DEF Differ, Clash, Text, Line
<1>7. InOrder(g)
  BY <1>1, <1>3, <1>5, <1>6, TableInOrder
<1> QED
  BY <1>1, <1>5, <1>7 DEF g

LEMMA ConfigRoutesInOrder == Table(ConfigRoutes) /\ InOrder(ConfigRoutes)
<1> DEFINE g == ConfigRoutes
<1>1. g = [k \in 1..6 |-> g[k]] /\ Len(g) = 6
  BY DEF ConfigRoutes
<1>2. /\ Line(g[1], "GET", <<"system", "*">>)
      /\ Line(g[2], "PUT", <<"system", "*">>)
      /\ Line(g[3], "DELETE", <<"system", "*">>)
      /\ Line(g[4], "GET", <<"user", "*">>)
      /\ Line(g[5], "PUT", <<"user", "*">>)
      /\ Line(g[6], "DELETE", <<"user", "*">>)
  BY DEF Line, ConfigRoutes, R, Public, Limited, Guarded, Get, Id
<1> HIDE DEF g
<1>3. DOMAIN g = 1..6 /\ IsTuple(g)
  BY <1>1 DEF IsTuple
<1>4. \A i \in 1..6 : IsRoute(g[i])
  BY <1>2, SMTT(60) DEF IsRoute, Line, IsTuple
<1>5. Table(g)
  BY <1>3, <1>4 DEF Table
<1>6. \A i \in 1..6 : \A j \in 1..(i - 1) : Differ(g[j], g[i])
  BY <1>2, SMTT(60) DEF Differ, Clash, Text, Line
<1>7. InOrder(g)
  BY <1>1, <1>3, <1>5, <1>6, TableInOrder
<1> QED
  BY <1>1, <1>5, <1>7 DEF g

LEMMA CloudinaryRoutesInOrder ==
  /\ Table(CloudinaryRoutes) /\ InOrder(CloudinaryRoutes)
  /\ Headed(CloudinaryRoutes, {"cloudinary"})
<1> DEFINE g == CloudinaryRoutes
<1>1. g = [k \in 1..1 |-> g[k]] /\ Len(g) = 1
  BY DEF CloudinaryRoutes
<1>2. /\ Line(g[1], "GET", <<"cloudinary", "upload-signature">>)
  BY DEF Line, CloudinaryRoutes, R, Public, Limited, Guarded, Get, Id
<1> HIDE DEF g
<1>3. DOMAIN g = 1..1 /\ IsTuple(g)
  BY <1>1 DEF IsTuple
<1>4. \A i \in 1..1 : IsRoute(g[i])
  BY <1>2 DEF IsRoute, Line, IsTuple
<1>5. Table(g)
  BY <1>3, <1>4 DEF Table
<1>6. \A i \in 1..1 : \A j \in 1..(i - 1) : Differ(g[j], g[i])
  BY <1>2 DEF Differ, Clash, Text, Line
<1>7. InOrder(g)
  BY <1>1, <1>3, <1>5, <1>6, TableInOrder
<1>8. Headed(g, {"cloudinary"})
  BY <1>2, <1>3 DEF Headed, Line
<1> QED
  BY <1>1, <1>5, <1>7, <1>8 DEF g

LEMMA ChatRoutesInOrder == Table(ChatRoutes) /\ InOrder(ChatRoutes)
<1> DEFINE g == ChatRoutes
<1>1. g = [k \in 1..4 |-> g[k]] /\ Len(g) = 4
  BY DEF ChatRoutes
<1>2. /\ Line(g[1], "GET", <<"messages">>)
      /\ Line(g[2], "GET", <<"unread-count">>)
      /\ Line(g[3], "PATCH", <<"read">>)
      /\ Line(g[4], "DELETE", <<"history">>)
  BY DEF Line, ChatRoutes, R, Public, Limited, Guarded, Get, Id
<1> HIDE DEF g
<1>3. DOMAIN g = 1..4 /\ IsTuple(g)
  BY <1>1 DEF IsTuple
<1>4. \A i \in 1..4 : IsRoute(g[i])
  BY <1>2, SMTT(60) DEF IsRoute, Line, IsTuple
<1>5. Table(g)
  BY <1>3, <1>4 DEF Table
<1>6. \A i \in 1..4 : \A j \in 1..(i - 1) : Differ(g[j], g[i])
  BY <1>2, SMTT(60) DEF Differ, Clash, Text, Line
<1>7. InOrder(g)
  BY <1>1, <1>3, <1>5, <1>6, TableInOrder
<1> QED
  BY <1>1, <1>5, <1>7 DEF g

LEMMA UserRoutesInOrder == Table(UserRoutes) /\ InOrder(UserRoutes)
<1> DEFINE g == UserRoutes
<1>1. g = [k \in 1..6 |-> g[k]] /\ Len(g) = 6
  BY DEF UserRoutes
<1>2. /\ Line(g[1], "GET", <<>>)
      /\ Line(g[2], "GET", <<"*">>)
      /\ Line(g[3], "POST", <<>>)
      /\ Line(g[4], "PUT", <<>>)
      /\ Line(g[5], "DELETE", <<"me">>)
      /\ Line(g[6], "DELETE", <<"*">>)
  BY DEF Line, UserRoutes, R, Public, Limited, Guarded, Get, Id
<1> HIDE DEF g
<1>3. DOMAIN g = 1..6 /\ IsTuple(g)
  BY <1>1 DEF IsTuple
<1>4. \A i \in 1..6 : IsRoute(g[i])
  BY <1>2, SMTT(60) DEF IsRoute, Line, IsTuple
<1>5. Table(g)
  BY <1>3, <1>4 DEF Table
<1>6. \A i \in 1..6 : \A j \in 1..(i - 1) : Differ(g[j], g[i])
  BY <1>2, SMTT(60) DEF Differ, Clash, Text, Line
<1>7. InOrder(g)
  BY <1>1, <1>3, <1>5, <1>6, TableInOrder
<1> QED
  BY <1>1, <1>5, <1>7 DEF g

LEMMA LanguageRoutesInOrder == Table(LanguageRoutes) /\ InOrder(LanguageRoutes)
<1> DEFINE g == LanguageRoutes
<1>1. g = [k \in 1..5 |-> g[k]] /\ Len(g) = 5
  BY DEF LanguageRoutes
<1>2. /\ Line(g[1], "GET", <<>>)
      /\ Line(g[2], "GET", <<"*">>)
      /\ Line(g[3], "POST", <<>>)
      /\ Line(g[4], "PUT", <<"*">>)
      /\ Line(g[5], "DELETE", <<"*">>)
  BY DEF Line, LanguageRoutes, R, Public, Limited, Guarded, Get, Id
<1> HIDE DEF g
<1>3. DOMAIN g = 1..5 /\ IsTuple(g)
  BY <1>1 DEF IsTuple
<1>4. \A i \in 1..5 : IsRoute(g[i])
  BY <1>2, SMTT(60) DEF IsRoute, Line, IsTuple
<1>5. Table(g)
  BY <1>3, <1>4 DEF Table
<1>6. ASSUME NEW i \in 1..5, NEW j \in 1..(i - 1) PROVE Differ(g[j], g[i])
  <2>1. CASE i = 1
    BY <2>1, <1>2 DEF Differ, Clash, Text, Line
  <2>2. CASE i = 2
    BY <2>2, <1>2 DEF Differ, Clash, Text, Line
  <2>3. CASE i = 3
    BY <2>3, <1>2 DEF Differ, Clash, Text, Line
  <2>4. CASE i = 4
    BY <2>4, <1>2 DEF Differ, Clash, Text, Line
  <2>5. CASE i = 5
    BY <2>5, <1>2 DEF Differ, Clash, Text, Line
  <2> QED
    BY <2>1, <2>2, <2>3, <2>4, <2>5
<1>7. InOrder(g)
  BY <1>1, <1>3, <1>5, <1>6, TableInOrder
<1> QED
  BY <1>1, <1>5, <1>7 DEF g

LEMMA LanguageFolderRoutesInOrder == Table(LanguageFolderRoutes) /\ InOrder(LanguageFolderRoutes)
<1> DEFINE g == LanguageFolderRoutes
<1>1. g = [k \in 1..6 |-> g[k]] /\ Len(g) = 6
  BY DEF LanguageFolderRoutes
<1>2. /\ Line(g[1], "GET", <<>>)
      /\ Line(g[2], "GET", <<"my">>)
      /\ Line(g[3], "GET", <<"*">>)
      /\ Line(g[4], "POST", <<>>)
      /\ Line(g[5], "PUT", <<"*">>)
      /\ Line(g[6], "DELETE", <<"*">>)
  BY DEF Line, LanguageFolderRoutes, R, Public, Limited, Guarded, Get, Id
<1> HIDE DEF g
<1>3. DOMAIN g = 1..6 /\ IsTuple(g)
  BY <1>1 DEF IsTuple
<1>4. \A i \in 1..6 : IsRoute(g[i])
  BY <1>2, SMTT(60) DEF IsRoute, Line, IsTuple
<1>5. Table(g)
  BY <1>3, <1>4 DEF Table
<1>6. \A i \in 1..6 : \A j \in 1..(i - 1) : Differ(g[j], g[i])
  BY <1>2, SMTT(60) DEF Differ, Clash, Text, Line
<1>7. InOrder(g)
  BY <1>1, <1>3, <1>5, <1>6, TableInOrder
<1> QED
  BY <1>1, <1>5, <1>7 DEF g

LEMMA PlanRoutesInOrder == Table(PlanRoutes) /\ InOrder(PlanRoutes)
<1> DEFINE g == PlanRoutes
<1>1. g = [k \in 1..4 |-> g[k]] /\ Len(g) = 4
  BY DEF PlanRoutes
<1>2. /\ Line(g[1], "GET", <<>>)
      /\ Line(g[2], "POST", <<>>)
      /\ Line(g[3], "PUT", <<"*">>)
      /\ Line(g[4], "DELETE", <<"*">>)
  BY DEF Line, PlanRoutes, R, Public, Limited, Guarded, Get, Id
<1> HIDE DEF g
<1>3. DOMAIN g = 1..4 /\ IsTuple(g)
  BY <1>1 DEF IsTuple
<1>4. \A i \in 1..4 : IsRoute(g[i])
  BY <1>2, SMTT(60) DEF IsRoute, Line, IsTuple
<1>5. Table(g)
  BY <1>3, <1>4 DEF Table
<1>6. \A i \in 1..4 : \A j \in 1..(i - 1) : Differ(g[j], g[i])
  BY <1>2, SMTT(60) DEF Differ, Clash, Text, Line
<1>7. InOrder(g)
  BY <1>1, <1>3, <1>5, <1>6, TableInOrder
<1> QED
  BY <1>1, <1>5, <1>7 DEF g

LEMMA SubjectRoutesInOrder == Table(SubjectRoutes) /\ InOrder(SubjectRoutes)
<1> DEFINE g == SubjectRoutes
<1>1. g = [k \in 1..7 |-> g[k]] /\ Len(g) = 7
  BY DEF SubjectRoutes
<1>2. /\ Line(g[1], "GET", <<>>)
      /\ Line(g[2], "GET", <<"*">>)
      /\ Line(g[3], "POST", <<"generate">>)
      /\ Line(g[4], "POST", <<>>)
      /\ Line(g[5], "PUT", <<"*">>)
      /\ Line(g[6], "PATCH", <<"reorder">>)
      /\ Line(g[7], "DELETE", <<"*">>)
  BY DEF Line, SubjectRoutes, R, Public, Limited, Guarded, Get, Id
<1> HIDE DEF g
<1>3. DOMAIN g = 1..7 /\ IsTuple(g)
  BY <1>1 DEF IsTuple
<1>4. \A i \in 1..7 : IsRoute(g[i])
  BY <1>2, SMTT(60) DEF IsRoute, Line, IsTuple
<1>5. Table(g)
  BY <1>3, <1>4 DEF Table
<1>6. \A i \in 1..7 : \A j \in 1..(i - 1) : Differ(g[j], g[i])
  BY <1>2, SMTT(60) DEF Differ, Clash, Text, Line
<1>7. InOrder(g)
  BY <1>1, <1>3, <1>5, <1>6, TableInOrder
<1> QED
  BY <1>1, <1>5, <1>7 DEF g

LEMMA WordTypeRoutesInOrder == Table(WordTypeRoutes) /\ InOrder(WordTypeRoutes)
<1> DEFINE g == WordTypeRoutes
<1>1. g = [k \in 1..5 |-> g[k]] /\ Len(g) = 5
  BY DEF WordTypeRoutes
<1>2. /\ Line(g[1], "GET", <<>>)
      /\ Line(g[2], "GET", <<"*">>)
      /\ Line(g[3], "POST", <<>>)
      /\ Line(g[4], "PUT", <<"*">>)
      /\ Line(g[5], "DELETE", <<"*">>)
  BY DEF Line, WordTypeRoutes, R, Public, Limited, Guarded, Get, Id
<1> HIDE DEF g
<1>3. DOMAIN g = 1..5 /\ IsTuple(g)
  BY <1>1 DEF IsTuple
<1>4. \A i \in 1..5 : IsRoute(g[i])
  BY <1>2, SMTT(60) DEF IsRoute, Line, IsTuple
<1>5. Table(g)
  BY <1>3, <1>4 DEF Table
<1>6. ASSUME NEW i \in 1..5, NEW j \in 1..(i - 1) PROVE Differ(g[j], g[i])
  <2>1. CASE i = 1
    BY <2>1, <1>2 DEF Differ, Clash, Text, Line
  <2>2. CASE i = 2
    BY <2>2, <1>2 DEF Differ, Clash, Text, Line
  <2>3. CASE i = 3
    BY <2>3, <1>2 DEF Differ, Clash, Text, Line
  <2>4. CASE i = 4
    BY <2>4, <1>2 DEF Differ, Clash, Text, Line
  <2>5. CASE i = 5
    BY <2>5, <1>2 DEF Differ, Clash, Text, Line
  <2> QED
    BY <2>1, <2>2, <2>3, <2>4, <2>5
<1>7. InOrder(g)
  BY <1>1, <1>3, <1>5, <1>6, TableInOrder
<1> QED
  BY <1>1, <1>5, <1>7 DEF g

LEMMA VocabReadRoutesLines ==
  /\ DOMAIN VocabReadRoutes = 1..6
  /\ Line(VocabReadRoutes[1], "GET", <<>>)
  /\ Line(VocabReadRoutes[2], "GET", <<"random">>)
  /\ Line(VocabReadRoutes[3], "GET", <<"*", "related-words">>)
  /\ Line(VocabReadRoutes[4], "GET", <<"*", "related-words", "autocomplete">>)
  /\ Line(VocabReadRoutes[5], "DELETE", <<"*", "related-words", "*">>)
  /\ Line(VocabReadRoutes[6], "GET", <<"*">>)
<1>1. DOMAIN VocabReadRoutes = 1..6
  BY DEF VocabReadRoutes
<1>2. /\ Line(VocabReadRoutes[1], "GET", <<>>)
      /\ Line(VocabReadRoutes[2], "GET", <<"random">>)
      /\ Line(VocabReadRoutes[3], "GET", <<"*", "related-words">>)
      /\ Line(VocabReadRoutes[4], "GET", <<"*", "related-words", "autocomplete">>)
      /\ Line(VocabReadRoutes[5], "DELETE", <<"*", "related-words", "*">>)
      /\ Line(VocabReadRoutes[6], "GET", <<"*">>)
  BY DEF Line, VocabReadRoutes, R, Public, Limited, Guarded, Get, Id
<1> QED
  BY <1>1, <1>2

LEMMA VocabReadRoutesInOrder == Table(VocabReadRoutes) /\ InOrder(VocabReadRoutes)
<1> DEFINE g == VocabReadRoutes
<1>1. g = [k \in 1..6 |-> g[k]] /\ Len(g) = 6
  BY DEF VocabReadRoutes
<1>2. /\ Line(g[1], "GET", <<>>)
      /\ Line(g[2], "GET", <<"random">>)
      /\ Line(g[3], "GET", <<"*", "related-words">>)
      /\ Line(g[4], "GET", <<"*", "related-words", "autocomplete">>)
      /\ Line(g[5], "DELETE", <<"*", "related-words", "*">>)
      /\ Line(g[6], "GET", <<"*">>)
  BY DEF Line, VocabReadRoutes, R, Public, Limited, Guarded, Get, Id
<1> HIDE DEF g
<1>3. DOMAIN g = 1..6 /\ IsTuple(g)
  BY <1>1 DEF IsTuple
<1>4. \A i \in 1..6 : IsRoute(g[i])
  BY <1>2, SMTT(60) DEF IsRoute, Line, IsTuple
<1>5. Table(g)
  BY <1>3, <1>4 DEF Table
<1>6. ASSUME NEW i \in 1..6, NEW j \in 1..(i - 1) PROVE Differ(g[j], g[i])
  <2>1. CASE i = 1
    BY <2>1, <1>2 DEF Differ, Clash, Text, Line
  <2>2. CASE i = 2
    BY <2>2, <1>2 DEF Differ, Clash, Text, Line
  <2>3. CASE i = 3
    BY <2>3, <1>2 DEF Differ, Clash, Text, Line
  <2>4. CASE i = 4
    BY <2>4, <1>2 DEF Differ, Clash, Text, Line
  <2>5. CASE i = 5
    BY <2>5, <1>2 DEF Differ, Clash, Text, Line
  <2>6. CASE i = 6
    BY <2>6, <1>2, SMTT(60) DEF Differ, Clash, Text, Line
  <2> QED
    BY <2>1, <2>2, <2>3, <2>4, <2>5, <2>6
<1>7. InOrder(g)
  BY <1>1, <1>3, <1>5, <1>6, TableInOrder
<1> QED
  BY <1>1, <1>5, <1>7 DEF g

LEMMA VocabBulkRoutesLines ==
  /\ DOMAIN VocabBulkRoutes = 1..8
  /\ Line(VocabBulkRoutes[1], "POST", <<>>)
  /\ Line(VocabBulkRoutes[2], "POST", <<"quick-add">>)
  /\ Line(VocabBulkRoutes[3], "POST", <<"bulk", "get">>)
  /\ Line(VocabBulkRoutes[4], "POST", <<"bulk", "create">>)
  /\ Line(VocabBulkRoutes[5], "POST", <<"bulk", "update">>)
  /\ Line(VocabBulkRoutes[6], "POST", <<"bulk", "delete">>)
  /\ Line(VocabBulkRoutes[7], "GET", <<"conflict", "by-subject">>)
  /\ Line(VocabBulkRoutes[8], "POST", <<"generate", "text-target">>)
<1>1. DOMAIN VocabBulkRoutes = 1..8
  BY DEF VocabBulkRoutes
<1>2. /\ Line(VocabBulkRoutes[1], "POST", <<>>)
      /\ Line(VocabBulkRoutes[2], "POST", <<"quick-add">>)
      /\ Line(VocabBulkRoutes[3], "POST", <<"bulk", "get">>)
      /\ Line(VocabBulkRoutes[4], "POST", <<"bulk", "create">>)
      /\ Line(VocabBulkRoutes[5], "POST", <<"bulk", "update">>)
      /\ Line(VocabBulkRoutes[6], "POST", <<"bulk", "delete">>)
      /\ Line(VocabBulkRoutes[7], "GET", <<"conflict", "by-subject">>)
      /\ Line(VocabBulkRoutes[8], "POST", <<"generate", "text-target">>)
  BY DEF Line, VocabBulkRoutes, R, Public, Limited, Guarded, Get, Id
<1> QED
  BY <1>1, <1>2

LEMMA VocabBulkRoutesInOrder == Table(VocabBulkRoutes) /\ InOrder(VocabBulkRoutes)
<1> DEFINE g == VocabBulkRoutes
<1>1. g = [k \in 1..8 |-> g[k]] /\ Len(g) = 8
  BY DEF VocabBulkRoutes
<1>2. /\ Line(g[1], "POST", <<>>)
      /\ Line(g[2], "POST", <<"quick-add">>)
      /\ Line(g[3], "POST", <<"bulk", "get">>)
      /\ Line(g[4], "POST", <<"bulk", "create">>)
      /\ Line(g[5], "POST", <<"bulk", "update">>)
      /\ Line(g[6], "POST", <<"bulk", "delete">>)
      /\ Line(g[7], "GET", <<"conflict", "by-subject">>)
      /\ Line(g[8], "POST", <<"generate", "text-target">>)
  BY DEF Line, VocabBulkRoutes, R, Public, Limited, Guarded, Get, Id
<1> HIDE DEF g
<1>3. DOMAIN g = 1..8 /\ IsTuple(g)
  BY <1>1 DEF IsTuple
<1>4. \A i \in 1..8 : IsRoute(g[i])
  BY <1>2, SMTT(60) DEF IsRoute, Line, IsTuple
<1>5. Table(g)
  BY <1>3, <1>4 DEF Table
<1>6. ASSUME NEW i \in 1..8, NEW j \in 1..(i - 1) PROVE Differ(g[j], g[i])
  <2>1. CASE i = 1
    BY <2>1, <1>2 DEF Differ, Clash, Text, Line
  <2>2. CASE i = 2
    BY <2>2, <1>2 DEF Differ, Clash, Text, Line
  <2>3. CASE i = 3
    BY <2>3, <1>2 DEF Differ, Clash, Text, Line
  <2>4. CASE i = 4
    BY <2>4, <1>2 DEF Differ, Clash, Text, Line
  <2>5. CASE i = 5
    BY <2>5, <1>2 DEF Differ, Clash, Text, Line
  <2>6. CASE i = 6
    BY <2>6, <1>2 DEF Differ, Clash, Text, Line
  <2>7. CASE i = 7
    BY <2>7, <1>2 DEF Differ, Clash, Text, Line
  <2>8. CASE i = 8
    BY <2>8, <1>2 DEF Differ, Clash, Text, Line
  <2> QED
    BY <2>1, <2>2, <2>3, <2>4, <2>5, <2>6, <2>7, <2>8
<1>7. InOrder(g)
  BY <1>1, <1>3, <1>5, <1>6, TableInOrder
<1> QED
  BY <1>1, <1>5, <1>7 DEF g

LEMMA VocabWriteRoutesLines ==
  /\ DOMAIN VocabWriteRoutes = 1..5
  /\ Line(VocabWriteRoutes[1], "PUT", <<"*">>)
  /\ Line(VocabWriteRoutes[2], "PUT", <<"*", "related-words">>)
  /\ Line(VocabWriteRoutes[3], "DELETE", <<"*">>)
  /\ Line(VocabWriteRoutes[4], "POST", <<"import", "csv">>)
  /\ Line(VocabWriteRoutes[5], "GET", <<"export", "csv">>)
<1>1. DOMAIN VocabWriteRoutes = 1..5
  BY DEF VocabWriteRoutes
<1>2. /\ Line(VocabWriteRoutes[1], "PUT", <<"*">>)
      /\ Line(VocabWriteRoutes[2], "PUT", <<"*", "related-words">>)
      /\ Line(VocabWriteRoutes[3], "DELETE", <<"*">>)
      /\ Line(VocabWriteRoutes[4], "POST", <<"import", "csv">>)
      /\ Line(VocabWriteRoutes[5], "GET", <<"export", "csv">>)
  BY DEF Line, VocabWriteRoutes, R, Public, Limited, Guarded, Get, Id
<1> QED
  BY <1>1, <1>2

LEMMA VocabWriteRoutesInOrder == Table(VocabWriteRoutes) /\ InOrder(VocabWriteRoutes)
<1> DEFINE g == VocabWriteRoutes
<1>1. g = [k \in 1..5 |-> g[k]] /\ Len(g) = 5
  BY DEF VocabWriteRoutes
<1>2. /\ Line(g[1], "PUT", <<"*">>)
      /\ Line(g[2], "PUT", <<"*", "related-words">>)
      /\ Line(g[3], "DELETE", <<"*">>)
      /\ Line(g[4], "POST", <<"import", "csv">>)
      /\ Line(g[5], "GET", <<"export", "csv">>)
  BY DEF Line, VocabWriteRoutes, R, Public, Limited, Guarded, Get, Id
<1> HIDE DEF g
<1>3. DOMAIN g = 1..5 /\ IsTuple(g)
  BY <1>1 DEF IsTuple
<1>4. \A i \in 1..5 : IsRoute(g[i])
  BY <1>2, SMTT(60) DEF IsRoute, Line, IsTuple
<1>5. Table(g)
  BY <1>3, <1>4 DEF Table
<1>6. \A i \in 1..5 : \A j \in 1..(i - 1) : Differ(g[j], g[i])
  BY <1>2, SMTT(60) DEF Differ, Clash, Text, Line
<1>7. InOrder(g)
  BY <1>1, <1>3, <1>5, <1>6, TableInOrder
<1> QED
  BY <1>1, <1>5, <1>7 DEF g

LEMMA VocabStatisticsRoutesInOrder ==
  /\ Table(VocabStatisticsRoutes) /\ InOrder(VocabStatisticsRoutes)
  /\ Headed(VocabStatisticsRoutes,
       {"by-subject", "dashboard", "distribution", "problematic", "progress", "summary"})
  /\ \A i \in DOMAIN VocabStatisticsRoutes : VocabStatisticsRoutes[i].method = "GET"
<1> DEFINE g == VocabStatisticsRoutes
<1>1. g = [k \in 1..7 |-> g[k]] /\ Len(g) = 7
  BY DEF VocabStatisticsRoutes
<1>2. /\ Line(g[1], "GET", <<"dashboard">>)
      /\ Line(g[2], "GET", <<"summary">>)
      /\ Line(g[3], "GET", <<"by-subject">>)
      /\ Line(g[4], "GET", <<"progress">>)
      /\ Line(g[5], "GET", <<"problematic">>)
      /\ Line(g[6], "GET", <<"problematic", "languages">>)
      /\ Line(g[7], "GET", <<"distribution">>)
  BY DEF Line, VocabStatisticsRoutes, R, Public, Limited, Guarded, Get, Id
<1> HIDE DEF g
<1>3. DOMAIN g = 1..7 /\ IsTuple(g)
  BY <1>1 DEF IsTuple
<1>4. \A i \in 1..7 : IsRoute(g[i])
  BY <1>2, SMTT(60) DEF IsRoute, Line, IsTuple
<1>5. Table(g)
  BY <1>3, <1>4 DEF Table
<1>6. \A i \in 1..7 : \A j \in 1..(i - 1) : Differ(g[j], g[i])
  BY <1>2, SMTT(60) DEF Differ, Clash, Text, Line
<1>7. InOrder(g)
  BY <1>1, <1>3, <1>5, <1>6, TableInOrder
<1>8. /\ Headed(g,
           {"by-subject", "dashboard", "distribution", "problematic", "progress", "summary"})
      /\ \A i \in DOMAIN g : g[i].method = "GET"
  BY <1>2, <1>3, SMTT(60) DEF Headed, Line
<1> QED
  BY <1>1, <1>5, <1>7, <1>8 DEF g

LEMMA TextTargetRoutesInOrder == Table(TextTargetRoutes) /\ InOrder(TextTargetRoutes)
<1> DEFINE g == TextTargetRoutes
<1>1. g = [k \in 1..5 |-> g[k]] /\ Len(g) = 5
  BY DEF TextTargetRoutes
<1>2. /\ Line(g[1], "GET", <<>>)
      /\ Line(g[2], "GET", <<"*">>)
      /\ Line(g[3], "POST", <<>>)
      /\ Line(g[4], "PUT", <<"*">>)
      /\ Line(g[5], "DELETE", <<"*">>)
  BY DEF Line, TextTargetRoutes, R, Public, Limited, Guarded, Get, Id
<1> HIDE DEF g
<1>3. DOMAIN g = 1..5 /\ IsTuple(g)
  BY <1>1 DEF IsTuple
<1>4. \A i \in 1..5 : IsRoute(g[i])
  BY <1>2, SMTT(60) DEF IsRoute, Line, IsTuple
<1>5. Table(g)
  BY <1>3, <1>4 DEF Table
<1>6. ASSUME NEW i \in 1..5, NEW j \in 1..(i - 1) PROVE Differ(g[j], g[i])
  <2>1. CASE i = 1
    BY <2>1, <1>2 DEF Differ, Clash, Text, Line
  <2>2. CASE i = 2
    BY <2>2, <1>2 DEF Differ, Clash, Text, Line
  <2>3. CASE i = 3
    BY <2>3, <1>2 DEF Differ, Clash, Text, Line
  <2>4. CASE i = 4
    BY <2>4, <1>2 DEF Differ, Clash, Text, Line
  <2>5. CASE i = 5
    BY <2>5, <1>2 DEF Differ, Clash, Text, Line
  <2> QED
    BY <2>1, <2>2, <2>3, <2>4, <2>5
<1>7. InOrder(g)
  BY <1>1, <1>3, <1>5, <1>6, TableInOrder
<1> QED
  BY <1>1, <1>5, <1>7 DEF g

LEMMA VocabTrainerRoutesInOrder == Table(VocabTrainerRoutes) /\ InOrder(VocabTrainerRoutes)
<1> DEFINE g == VocabTrainerRoutes
<1>1. g = [k \in 1..8 |-> g[k]] /\ Len(g) = 8
  BY DEF VocabTrainerRoutes
<1>2. /\ Line(g[1], "GET", <<>>)
      /\ Line(g[2], "GET", <<"*">>)
      /\ Line(g[3], "GET", <<"*", "exam">>)
      /\ Line(g[4], "PATCH", <<"*", "exam">>)
      /\ Line(g[5], "POST", <<>>)
      /\ Line(g[6], "PUT", <<"*">>)
      /\ Line(g[7], "DELETE", <<"*">>)
      /\ Line(g[8], "POST", <<"bulk", "delete">>)
  BY DEF Line, VocabTrainerRoutes, R, Public, Limited, Guarded, Get, Id
<1> HIDE DEF g
<1>3. DOMAIN g = 1..8 /\ IsTuple(g)
  BY <1>1 DEF IsTuple
<1>4. \A i \in 1..8 : IsRoute(g[i])
  BY <1>2, SMTT(60) DEF IsRoute, Line, IsTuple
<1>5. Table(g)
  BY <1>3, <1>4 DEF Table
<1>6. ASSUME NEW i \in 1..8, NEW j \in 1..(i - 1) PROVE Differ(g[j], g[i])
  <2>1. CASE i = 1
    BY <2>1, <1>2 DEF Differ, Clash, Text, Line
  <2>2. CASE i = 2
    BY <2>2, <1>2 DEF Differ, Clash, Text, Line
  <2>3. CASE i = 3
    BY <2>3, <1>2 DEF Differ, Clash, Text, Line
  <2>4. CASE i = 4
    BY <2>4, <1>2 DEF Differ, Clash, Text, Line
  <2>5. CASE i = 5
    BY <2>5, <1>2 DEF Differ, Clash, Text, Line
  <2>6. CASE i = 6
    BY <2>6, <1>2 DEF Differ, Clash, Text, Line
  <2>7. CASE i = 7
    BY <2>7, <1>2 DEF Differ, Clash, Text, Line
  <2>8. CASE i = 8
    BY <2>8, <1>2 DEF Differ, Clash, Text, Line
  <2> QED
    BY <2>1, <2>2, <2>3, <2>4, <2>5, <2>6, <2>7, <2>8
<1>7. InOrder(g)
  BY <1>1, <1>3, <1>5, <1>6, TableInOrder
<1> QED
  BY <1>1, <1>5, <1>7 DEF g

LEMMA NotificationRoutesInOrder == Table(NotificationRoutes) /\ InOrder(NotificationRoutes)
<1> DEFINE g == NotificationRoutes
<1>1. g = [k \in 1..13 |-> g[k]] /\ Len(g) = 13
  BY DEF NotificationRoutes
<1>2. /\ Line(g[1], "GET", <<>>)
      /\ Line(g[2], "GET", <<"my">>)
      /\ Line(g[3], "GET", <<"my", "unread">>)
      /\ Line(g[4], "GET", <<"my", "unread-count">>)
      /\ Line(g[5], "PATCH", <<"*", "my", "mark-as-read">>)
      /\ Line(g[6], "PATCH", <<"my", "mark-all-as-read">>)
      /\ Line(g[7], "GET", <<"*">>)
      /\ Line(g[8], "POST", <<>>)
      /\ Line(g[9], "PUT", <<"*">>)
      /\ Line(g[10], "PATCH", <<"*", "status">>)
      /\ Line(g[11], "DELETE", <<"*", "my">>)
      /\ Line(g[12], "DELETE", <<"*">>)
      /\ Line(g[13], "DELETE", <<"cleanup", "expired">>)
  BY DEF Line, NotificationRoutes, R, Public, Limited, Guarded, Get, Id
<1> HIDE DEF g
<1>3. DOMAIN g = 1..13 /\ IsTuple(g)
  BY <1>1 DEF IsTuple
<1>4. \A i \in 1..13 : IsRoute(g[i])
  BY <1>2, SMTT(60) DEF IsRoute, Line, IsTuple
<1>5. Table(g)
  BY <1>3, <1>4 DEF Table
<1>6. ASSUME NEW i \in 1..13, NEW j \in 1..(i - 1) PROVE Differ(g[j], g[i])
  <2>1. CASE i = 1
    BY <2>1, <1>2 DEF Differ, Clash, Text, Line
  <2>2. CASE i = 2
    BY <2>2, <1>2 DEF Differ, Clash, Text, Line
  <2>3. CASE i = 3
    BY <2>3, <1>2 DEF Differ, Clash, Text, Line
  <2>4. CASE i = 4
    BY <2>4, <1>2 DEF Differ, Clash, Text, Line
  <2>5. CASE i = 5
    BY <2>5, <1>2 DEF Differ, Clash, Text, Line
  <2>6. CASE i = 6
    BY <2>6, <1>2 DEF Differ, Clash, Text, Line
  <2>7. CASE i = 7
    BY <2>7, <1>2 DEF Differ, Clash, Text, Line
  <2>8. CASE i = 8
    BY <2>8, <1>2 DEF Differ, Clash, Text, Line
  <2>9. CASE i = 9
    BY <2>9, <1>2 DEF Differ, Clash, Text, Line
  <2>10. CASE i = 10
    BY <2>10, <1>2 DEF Differ, Clash, Text, Line
  <2>11. CASE i = 11
    BY <2>11, <1>2 DEF Differ, Clash, Text, Line
  <2>12. CASE i = 12
    BY <2>12, <1>2 DEF Differ, Clash, Text, Line
  <2>13. CASE i = 13
    BY <2>13, <1>2 DEF Differ, Clash, Text, Line
  <2> QED
    BY <2>1, <2>2, <2>3, <2>4, <2>5, <2>6, <2>7, <2>8, <2>9, <2>10, <2>11, <2>12, <2>13
<1>7. InOrder(g)
  BY <1>1, <1>3, <1>5, <1>6, TableInOrder
<1> QED
  BY <1>1, <1>5, <1>7 DEF g

LEMMA FcmRoutesInOrder == Table(FcmRoutes) /\ InOrder(FcmRoutes)
<1> DEFINE g == FcmRoutes
<1>1. g = [k \in 1..4 |-> g[k]] /\ Len(g) = 4
  BY DEF FcmRoutes
<1>2. /\ Line(g[1], "POST", <<"register">>)
      /\ Line(g[2], "POST", <<"unregister">>)
      /\ Line(g[3], "GET", <<"tokens">>)
      /\ Line(g[4], "POST", <<"test-notification">>)
  BY DEF Line, FcmRoutes, R, Public, Limited, Guarded, Get, Id
<1> HIDE DEF g
<1>3. DOMAIN g = 1..4 /\ IsTuple(g)
  BY <1>1 DEF IsTuple
<1>4. \A i \in 1..4 : IsRoute(g[i])
  BY <1>2, SMTT(60) DEF IsRoute, Line, IsTuple
<1>5. Table(g)
  BY <1>3, <1>4 DEF Table
<1>6. \A i \in 1..4 : \A j \in 1..(i - 1) : Differ(g[j], g[i])
  BY <1>2, SMTT(60) DEF Differ, Clash, Text, Line
<1>7. InOrder(g)
  BY <1>1, <1>3, <1>5, <1>6, TableInOrder
<1> QED
  BY <1>1, <1>5, <1>7 DEF g

LEMMA ReminderRoutesInOrder == Table(ReminderRoutes) /\ InOrder(ReminderRoutes)
<1> DEFINE g == ReminderRoutes
<1>1. g = [k \in 1..6 |-> g[k]] /\ Len(g) = 6
  BY DEF ReminderRoutes
<1>2. /\ Line(g[1], "POST", <<"immediate">>)
      /\ Line(g[2], "POST", <<"schedule">>)
      /\ Line(g[3], "POST", <<"recurring">>)
      /\ Line(g[4], "POST", <<"immediate", "create-notification">>)
      /\ Line(g[5], "POST", <<"schedule", "create-notification">>)
      /\ Line(g[6], "POST", <<"cancel">>)
  BY DEF Line, ReminderRoutes, R, Public, Limited, Guarded, Get, Id
<1> HIDE DEF g
<1>3. DOMAIN g = 1..6 /\ IsTuple(g)
  BY <1>1 DEF IsTuple
<1>4. \A i \in 1..6 : IsRoute(g[i])
  BY <1>2, SMTT(60) DEF IsRoute, Line, IsTuple
<1>5. Table(g)
  BY <1>3, <1>4 DEF Table
<1>6. \A i \in 1..6 : \A j \in 1..(i - 1) : Differ(g[j], g[i])
  BY <1>2, SMTT(60) DEF Differ, Clash, Text, Line
<1>7. InOrder(g)
  BY <1>1, <1>3, <1>5, <1>6, TableInOrder
<1> QED
  BY <1>1, <1>5, <1>7 DEF g

LEMMA SseRoutesInOrder ==
  /\ Table(SseRoutes) /\ InOrder(SseRoutes)
  /\ Headed(SseRoutes, {"sse"})
<1> DEFINE g == SseRoutes
<1>1. g = [k \in 1..1 |-> g[k]] /\ Len(g) = 1
  BY DEF SseRoutes
<1>2. /\ Line(g[1], "GET", <<"sse", "events">>)
  BY DEF Line, SseRoutes, R, Public, Limited, Guarded, Get, Id
<1> HIDE DEF g
<1>3. DOMAIN g = 1..1 /\ IsTuple(g)
  BY <1>1 DEF IsTuple
<1>4. \A i \in 1..1 : IsRoute(g[i])
  BY <1>2 DEF IsRoute, Line, IsTuple
<1>5. Table(g)
  BY <1>3, <1>4 DEF Table
<1>6. \A i \in 1..1 : \A j \in 1..(i - 1) : Differ(g[j], g[i])
  BY <1>2 DEF Differ, Clash, Text, Line
<1>7. InOrder(g)
  BY <1>1, <1>3, <1>5, <1>6, TableInOrder
<1>8. Headed(g, {"sse"})
  BY <1>2, <1>3 DEF Headed, Line
<1> QED
  BY <1>1, <1>5, <1>7, <1>8 DEF g

LEMMA WebhookRoutesInOrder ==
  /\ Table(WebhookRoutes) /\ InOrder(WebhookRoutes)
  /\ Headed(WebhookRoutes, {"webhook"})
<1> DEFINE g == WebhookRoutes
<1>1. g = [k \in 1..1 |-> g[k]] /\ Len(g) = 1
  BY DEF WebhookRoutes
<1>2. /\ Line(g[1], "GET", <<"webhook">>)
  BY DEF Line, WebhookRoutes, R, Public, Limited, Guarded, Get, Id
<1> HIDE DEF g
<1>3. DOMAIN g = 1..1 /\ IsTuple(g)
  BY <1>1 DEF IsTuple
<1>4. \A i \in 1..1 : IsRoute(g[i])
  BY <1>2 DEF IsRoute, Line, IsTuple
<1>5. Table(g)
  BY <1>3, <1>4 DEF Table
<1>6. \A i \in 1..1 : \A j \in 1..(i - 1) : Differ(g[j], g[i])
  BY <1>2 DEF Differ, Clash, Text, Line
<1>7. InOrder(g)
  BY <1>1, <1>3, <1>5, <1>6, TableInOrder
<1>8. Headed(g, {"webhook"})
  BY <1>2, <1>3 DEF Headed, Line
<1> QED
  BY <1>1, <1>5, <1>7, <1>8 DEF g

---------------------------------------------------------------------------
(* The tables put together                                                 *)

\* The three controllers of the vocabulary itself take nothing from each other.
LEMMA ReadBulkApart == Apart(VocabReadRoutes, VocabBulkRoutes)
<1> DEFINE s == VocabReadRoutes
           t == VocabBulkRoutes
<1> HIDE DEF s, t
<1>1. ASSUME NEW i \in 1..6, NEW j \in 1..8 PROVE Differ(s[i], t[j])
  <2>1. CASE j = 7
    BY <2>1, VocabReadRoutesLines, VocabBulkRoutesLines DEF s, t, Line, Differ, Clash, Text
  <2>2. CASE j # 7
    BY <2>2, VocabReadRoutesLines, VocabBulkRoutesLines DEF s, t, Line, Differ
  <2> QED
    BY <2>1, <2>2
<1> QED
  BY <1>1, DifferApart, VocabBulkRoutesInOrder, VocabReadRoutesLines, VocabBulkRoutesLines
  DEF s, t, Apart, Table, IsRoute

LEMMA ReadWriteApart == Apart(VocabReadRoutes, VocabWriteRoutes)
<1> DEFINE s == VocabReadRoutes
           t == VocabWriteRoutes
<1> HIDE DEF s, t
<1>1. ASSUME NEW i \in 1..6, NEW j \in 1..5 PROVE Differ(s[i], t[j])
  <2>1. CASE j = 5
    BY <2>1, VocabReadRoutesLines, VocabWriteRoutesLines DEF s, t, Line, Differ, Clash, Text
  <2>2. CASE j = 3
    BY <2>2, VocabReadRoutesLines, VocabWriteRoutesLines DEF s, t, Line, Differ, Clash, Text
  <2>3. CASE j \notin {3, 5}
    BY <2>3, VocabReadRoutesLines, VocabWriteRoutesLines DEF s, t, Line, Differ
  <2> QED
    BY <2>1, <2>2, <2>3
<1> QED
  BY <1>1, DifferApart, VocabWriteRoutesInOrder, VocabReadRoutesLines, VocabWriteRoutesLines
  DEF s, t, Apart, Table, IsRoute

LEMMA BulkWriteApart == Apart(VocabBulkRoutes, VocabWriteRoutes)
<1> DEFINE s == VocabBulkRoutes
           t == VocabWriteRoutes
<1> HIDE DEF s, t
<1>1. ASSUME NEW i \in 1..8, NEW j \in 1..5 PROVE Differ(s[i], t[j])
  BY VocabBulkRoutesLines, VocabWriteRoutesLines DEF s, t, Line, Differ, Clash, Text
<1> QED
  BY <1>1, DifferApart, VocabWriteRoutesInOrder, VocabBulkRoutesLines, VocabWriteRoutesLines
  DEF s, t, Apart, Table, IsRoute

\* What the second words of their paths tell them from the statistics and the text targets.
Vocab == VocabReadRoutes \o VocabBulkRoutes \o VocabWriteRoutes
NoStatistics(r) ==
  \/ r.method # "GET" \/ Len(r.path) < 2
  \/ r.path[2] \in {"related-words", "csv"} \/ r.path[1] = "conflict"
NoTarget(r) == Len(r.path) < 2 \/ r.path[2] \notin {"*", "value", "text-targets"}
Seconds(s) == \A i \in DOMAIN s : NoStatistics(s[i]) /\ NoTarget(s[i])

LEMMA VocabSeconds ==
  /\ Seconds(VocabReadRoutes)
  /\ Seconds(VocabBulkRoutes)
  /\ Seconds(VocabWriteRoutes)
<1>1. Seconds(VocabReadRoutes)
  BY VocabReadRoutesLines DEF Seconds, Line, NoStatistics, NoTarget
<1>2. Seconds(VocabBulkRoutes)
  BY VocabBulkRoutesLines DEF Seconds, Line, NoStatistics, NoTarget
<1>3. Seconds(VocabWriteRoutes)
  BY VocabWriteRoutesLines DEF Seconds, Line, NoStatistics, NoTarget
<1> QED
  BY <1>1, <1>2, <1>3

LEMMA VocabInOrder ==
  /\ Table(Vocab) /\ InOrder(Vocab)
  /\ Seconds(Vocab)
<1> DEFINE s == VocabReadRoutes \o VocabBulkRoutes
<1>1. /\ Table(VocabReadRoutes) /\ Table(VocabBulkRoutes) /\ Table(VocabWriteRoutes)
      /\ InOrder(VocabReadRoutes) /\ InOrder(VocabBulkRoutes) /\ InOrder(VocabWriteRoutes)
  BY VocabReadRoutesInOrder, VocabBulkRoutesInOrder, VocabWriteRoutesInOrder
<1>2. Table(s) /\ InOrder(s) /\ Apart(s, VocabWriteRoutes)
  BY <1>1, ReadBulkApart, ReadWriteApart, BulkWriteApart, JoinInOrder, JoinApart
<1>3. Seconds(s)
  BY <1>1, JoinElements, VocabSeconds DEF Seconds
<1> HIDE DEF s
<1>4. Table(s \o VocabWriteRoutes) /\ InOrder(s \o VocabWriteRoutes)
  BY <1>1, <1>2, JoinInOrder
<1>5. Seconds(s \o VocabWriteRoutes)
  BY <1>1, <1>2, <1>3, JoinElements, VocabSeconds DEF Seconds
<1>6. Vocab = s \o VocabWriteRoutes
  BY DEF Vocab, s
<1> QED
  BY <1>4, <1>5, <1>6

Statistics == Under(<<"statistics">>, VocabStatisticsRoutes)
Words == {"by-subject", "dashboard", "distribution", "problematic", "progress", "summary"}

LEMMA StatisticsInOrder ==
  /\ Table(Statistics) /\ InOrder(Statistics)
  /\ \A i \in DOMAIN Statistics : /\ Statistics[i].method = "GET"
                                  /\ Len(Statistics[i].path) > 1
                                  /\ Statistics[i].path[1] = "statistics"
                                  /\ Statistics[i].path[2] \in Words
<1> DEFINE s == VocabStatisticsRoutes
           p == <<"statistics">>
<1>1. Table(s) /\ InOrder(s) /\ Headed(s, Words) /\ \A i \in DOMAIN s : s[i].method = "GET"
  BY VocabStatisticsRoutesInOrder DEF Words
<1>2. IsTuple(p) /\ Len(p) = 1 /\ p[1] = "statistics"
  BY Tuples
<1> HIDE DEF s, p
<1>3. Table(Under(p, s)) /\ InOrder(Under(p, s)) /\ DOMAIN Under(p, s) = DOMAIN s
  BY <1>1, <1>2, UnderTable, UnderInOrder
<1>4. ASSUME NEW i \in DOMAIN s
      PROVE  /\ Len(Under(p, s)[i].path) > 1 /\ Under(p, s)[i].path[1] = "statistics"
             /\ Under(p, s)[i].path[2] \in Words
  <2>1. PICK q : q = s[i].path
    OBVIOUS
  <2>2. IsTuple(q) /\ Len(q) \in Nat /\ Len(q) > 0 /\ q[1] \in Words
    BY <1>1, <2>1 DEF Table, IsRoute, IsTuple, Headed
  <2>3. /\ Len(p \o q) = Len(p) + Len(q)
        /\ \A k \in 1..Len(p) : (p \o q)[k] = p[k]
        /\ \A k \in 1..Len(q) : (p \o q)[k + Len(p)] = q[k]
    <3>1. IsTuple(p) /\ IsTuple(q)
      BY <1>2, <2>2
    <3> QED
      BY <3>1, Concat
  <2>4. Len(p \o q) > 1 /\ (p \o q)[1] = "statistics" /\ (p \o q)[2] = q[1]
    BY <1>2, <2>2, <2>3
  <2>5. Under(p, s)[i].path = p \o q
    BY <1>1, <2>1, UnderPath
  <2> QED
    BY <2>2, <2>4, <2>5
<1> QED
  BY <1>1, <1>3, <1>4, UnderPath DEF Statistics, s, p

TextTargets == Under(<<"*", "text-targets">>, TextTargetRoutes)

LEMMA TextTargetsInOrder ==
  /\ Table(TextTargets) /\ InOrder(TextTargets)
  /\ \A i \in DOMAIN TextTargets : /\ Len(TextTargets[i].path) > 1
                                   /\ TextTargets[i].path[2] = "text-targets"
<1> DEFINE s == TextTargetRoutes
           p == <<"*", "text-targets">>
<1>1. Table(s) /\ InOrder(s)
  BY TextTargetRoutesInOrder
<1>2. IsTuple(p) /\ Len(p) = 2 /\ p[2] = "text-targets"
  BY Tuples
<1> HIDE DEF s, p
<1>3. Table(Under(p, s)) /\ InOrder(Under(p, s)) /\ DOMAIN Under(p, s) = DOMAIN s
  BY <1>1, <1>2, UnderTable, UnderInOrder
<1>4. ASSUME NEW i \in DOMAIN s
      PROVE  Len(Under(p, s)[i].path) > 1 /\ Under(p, s)[i].path[2] = "text-targets"
  <2>1. PICK q : q = s[i].path
    OBVIOUS
  <2>2. IsTuple(q) /\ Len(q) \in Nat
    BY <1>1, <2>1 DEF Table, IsRoute, IsTuple
  <2>3. /\ Len(p \o q) = Len(p) + Len(q)
        /\ \A k \in 1..Len(p) : (p \o q)[k] = p[k]
        /\ \A k \in 1..Len(q) : (p \o q)[k + Len(p)] = q[k]
    <3>1. IsTuple(p) /\ IsTuple(q)
      BY <1>2, <2>2
    <3> QED
      BY <3>1, Concat
  <2>4. Len(p \o q) > 1 /\ (p \o q)[2] = "text-targets"
    BY <1>2, <2>2, <2>3
  <2>5. Under(p, s)[i].path = p \o q
    BY <1>1, <2>1, UnderPath
  <2> QED
    BY <2>4, <2>5
<1> QED
  BY <1>3, <1>4 DEF TextTargets, s, p

\* Everything under "vocabs".
LEMMA VocabsInOrder ==
  Table(Vocab \o Statistics \o TextTargets) /\ InOrder(Vocab \o Statistics \o TextTargets)
<1>1. Apart(Vocab, Statistics)
  <2> SUFFICES ASSUME NEW j \in DOMAIN Vocab, NEW i \in DOMAIN Statistics
               PROVE  ~Takes(Vocab[j], Statistics[i])
    BY DEF Apart
  <2>1. /\ IsTuple(Statistics[i].path) /\ Len(Statistics[i].path) > 1
        /\ Statistics[i].path[1] = "statistics" /\ Statistics[i].path[2] \in Words
    BY StatisticsInOrder DEF Table, IsRoute
  <2>2. NoStatistics(Vocab[j])
    BY VocabInOrder DEF Seconds
  <2>3. Statistics[i].method = "GET"
    BY StatisticsInOrder
  <2> QED
    BY <2>1, <2>2, <2>3, DifferApart DEF NoStatistics, Words, Differ, Clash, Text
<1>2. Apart(Vocab \o Statistics, TextTargets)
  <2>1. ASSUME NEW r, NoTarget(r), NEW i \in DOMAIN TextTargets PROVE ~Takes(r, TextTargets[i])
    <3>1. /\ IsTuple(TextTargets[i].path) /\ Len(TextTargets[i].path) > 1
          /\ TextTargets[i].path[2] = "text-targets"
      BY TextTargetsInOrder DEF Table, IsRoute
    <3> QED
      BY <2>1, <3>1, DifferApart DEF NoTarget, Differ, Clash, Text
  <2>2. Apart(Vocab, TextTargets)
    BY <2>1, VocabInOrder DEF Apart, Seconds
  <2>3. \A i \in DOMAIN Statistics : NoTarget(Statistics[i])
    BY StatisticsInOrder DEF NoTarget, Words
  <2>4. Apart(Statistics, TextTargets)
    BY <2>1, <2>3 DEF Apart
  <2> QED
    BY <2>2, <2>4, VocabInOrder, StatisticsInOrder, JoinApart
<1>3. Table(Vocab \o Statistics) /\ InOrder(Vocab \o Statistics)
  BY <1>1, VocabInOrder, StatisticsInOrder, JoinInOrder
<1> QED
  BY <1>2, <1>3, TextTargetsInOrder, JoinInOrder

\* Everything under "auth".
Auth == Under(<<"examples">>, ExampleRoutes) \o AuthRoutes \o AuthSessionRoutes

LEMMA AuthInOrder == Table(Auth) /\ InOrder(Auth)
<1> DEFINE e == Under(<<"examples">>, ExampleRoutes)
           H == {"oauth", "signin", "signup", "verify"}
           K == {"change-password", "refresh", "resend-confirmation", "reset-password", "signout",
                 "verify-otp"}
<1>1. Table(e) /\ InOrder(e) /\ Headed(e, {"examples"})
  BY ExampleRoutesInOrder, UnderOne
<1>2. Table(AuthRoutes) /\ InOrder(AuthRoutes) /\ Headed(AuthRoutes, H)
  BY AuthRoutesInOrder
<1>3. Table(AuthSessionRoutes) /\ InOrder(AuthSessionRoutes) /\ Headed(AuthSessionRoutes, K)
  BY AuthSessionRoutesInOrder
<1>4. /\ {"examples"} \cap H = {} /\ ({"examples"} \cup H) \cap K = {}
      /\ {"*", "value"} \cap ({"examples"} \cup H) = {}
  OBVIOUS
<1> HIDE DEF e, H, K
<1>5. /\ Table(e \o AuthRoutes) /\ InOrder(e \o AuthRoutes)
      /\ Headed(e \o AuthRoutes, {"examples"} \cup H)
  BY <1>1, <1>2, <1>4, JoinHeaded
<1>6. Table(e \o AuthRoutes \o AuthSessionRoutes) /\ InOrder(e \o AuthRoutes \o AuthSessionRoutes)
  BY <1>3, <1>4, <1>5, JoinHeaded
<1> QED
  BY <1>6 DEF Auth, e

\* The first words of the paths, in the order of the controllers.
Firsts ==
  <<"health", "cache", "auth", "api-keys", "config", "cloudinary", "chat", "users",
    "languages", "language-folders", "plans", "subjects", "word-types", "vocabs",
    "vocab-trainers", "notifications", "fcm", "reminders", "sse", "webhook">>

LEMMA FirstsDiffer ==
  \A j, k \in 1..20 : j # k => Firsts[j] # Firsts[k] /\ Firsts[j] \notin {"*", "value"}
BY DEF Firsts

\* A table of the first n controllers.
Begins(s, n) == Table(s) /\ InOrder(s) /\ Headed(s, {Firsts[k] : k \in 1..n})

LEMMA NextController ==
  ASSUME NEW n \in 1..19, NEW s, Begins(s, n), NEW t, Table(t), InOrder(t), Headed(t, {Firsts[n + 1]})
  PROVE  Begins(s \o t, n + 1)
<1> DEFINE H == {Firsts[k] : k \in 1..n}
           K == {Firsts[n + 1]}
<1>1. H \cap K = {} /\ "*" \notin H /\ "value" \notin H
  BY FirstsDiffer
<1>2. H \cup K = {Firsts[k] : k \in 1..(n + 1)}
  <2>1. 1..(n + 1) = 1..n \cup {n + 1}
    OBVIOUS
  <2> QED
    BY <2>1
<1> HIDE DEF H, K
<1>3. Table(s \o t) /\ InOrder(s \o t) /\ Headed(s \o t, H \cup K)
  <2>1. Table(s) /\ InOrder(s) /\ Headed(s, H) /\ Headed(t, K)
    BY DEF Begins, H, K
  <2> QED
    BY <1>1, <2>1, JoinHeaded
<1> QED
  BY <1>2, <1>3 DEF Begins

LEMMA NextUnder ==
  ASSUME NEW n \in 1..19, NEW s, Begins(s, n), NEW t, Table(t), InOrder(t), NEW h, h = Firsts[n + 1]
  PROVE  Begins(s \o Under(<<h>>, t), n + 1)
BY UnderOne, NextController

\* The whole table, controller by controller.
LEMMA RoutesInOrder == Table(Routes) /\ InOrder(Routes)
<1> DEFINE r1 == HealthRoutes
           r2 == r1 \o Under(<<"cache">>, CacheRoutes)
           r3 == r2 \o Under(<<"auth">>, Auth)
           r4 == r3 \o Under(<<"api-keys">>, ApiKeyRoutes)
           r5 == r4 \o Under(<<"config">>, ConfigRoutes)
           r6 == r5 \o CloudinaryRoutes
           r7 == r6 \o Under(<<"chat">>, ChatRoutes)
           r8 == r7 \o Under(<<"users">>, UserRoutes)
           r9 == r8 \o Under(<<"languages">>, LanguageRoutes)
           r10 == r9 \o Under(<<"language-folders">>, LanguageFolderRoutes)
           r11 == r10 \o Under(<<"plans">>, PlanRoutes)
           r12 == r11 \o Under(<<"subjects">>, SubjectRoutes)
           r13 == r12 \o Under(<<"word-types">>, WordTypeRoutes)
           r14 == r13 \o Under(<<"vocabs">>, Vocab \o Statistics \o TextTargets)
           r15 == r14 \o Under(<<"vocab-trainers">>, VocabTrainerRoutes)
           r16 == r15 \o Under(<<"notifications">>, NotificationRoutes)
           r17 == r16 \o Under(<<"fcm">>, FcmRoutes)
           r18 == r17 \o Under(<<"reminders">>, ReminderRoutes)
           r19 == r18 \o SseRoutes
           r20 == r19 \o WebhookRoutes
<1>0. /\ Firsts[1] = "health"
      /\ Firsts[2] = "cache"
      /\ Firsts[3] = "auth"
      /\ Firsts[4] = "api-keys"
      /\ Firsts[5] = "config"
      /\ Firsts[6] = "cloudinary"
      /\ Firsts[7] = "chat"
      /\ Firsts[8] = "users"
      /\ Firsts[9] = "languages"
      /\ Firsts[10] = "language-folders"
      /\ Firsts[11] = "plans"
      /\ Firsts[12] = "subjects"
      /\ Firsts[13] = "word-types"
      /\ Firsts[14] = "vocabs"
      /\ Firsts[15] = "vocab-trainers"
      /\ Firsts[16] = "notifications"
      /\ Firsts[17] = "fcm"
      /\ Firsts[18] = "reminders"
      /\ Firsts[19] = "sse"
      /\ Firsts[20] = "webhook"
  BY DEF Firsts
<1> HIDE DEF r1, r2, r3, r4, r5, r6, r7, r8, r9, r10,
             r11, r12, r13, r14, r15, r16, r17, r18, r19, r20
<1>1. Begins(r1, 1)
  BY <1>0, HealthRoutesInOrder DEF Begins, Headed, r1
<1>2. Begins(r2, 2)
  BY <1>0, <1>1, CacheRoutesInOrder, NextUnder, 1 + 1 = 2 DEF r2
<1>3. Begins(r3, 3)
  BY <1>0, <1>2, AuthInOrder, NextUnder, 2 + 1 = 3 DEF r3
<1>4. Begins(r4, 4)
  BY <1>0, <1>3, ApiKeyRoutesInOrder, NextUnder, 3 + 1 = 4 DEF r4
<1>5. Begins(r5, 5)
  BY <1>0, <1>4, ConfigRoutesInOrder, NextUnder, 4 + 1 = 5 DEF r5
<1>6. Begins(r6, 6)
  BY <1>0, <1>5, CloudinaryRoutesInOrder, NextController, 5 + 1 = 6 DEF r6
<1>7. Begins(r7, 7)
  BY <1>0, <1>6, ChatRoutesInOrder, NextUnder, 6 + 1 = 7 DEF r7
<1>8. Begins(r8, 8)
  BY <1>0, <1>7, UserRoutesInOrder, NextUnder, 7 + 1 = 8 DEF r8
<1>9. Begins(r9, 9)
  BY <1>0, <1>8, LanguageRoutesInOrder, NextUnder, 8 + 1 = 9 DEF r9
<1>10. Begins(r10, 10)
  BY <1>0, <1>9, LanguageFolderRoutesInOrder, NextUnder, 9 + 1 = 10 DEF r10
<1>11. Begins(r11, 11)
  BY <1>0, <1>10, PlanRoutesInOrder, NextUnder, 10 + 1 = 11 DEF r11
<1>12. Begins(r12, 12)
  BY <1>0, <1>11, SubjectRoutesInOrder, NextUnder, 11 + 1 = 12 DEF r12
<1>13. Begins(r13, 13)
  BY <1>0, <1>12, WordTypeRoutesInOrder, NextUnder, 12 + 1 = 13 DEF r13
<1>14. Begins(r14, 14)
  BY <1>0, <1>13, VocabsInOrder, NextUnder, 13 + 1 = 14 DEF r14
<1>15. Begins(r15, 15)
  BY <1>0, <1>14, VocabTrainerRoutesInOrder, NextUnder, 14 + 1 = 15 DEF r15
<1>16. Begins(r16, 16)
  BY <1>0, <1>15, NotificationRoutesInOrder, NextUnder, 15 + 1 = 16 DEF r16
<1>17. Begins(r17, 17)
  BY <1>0, <1>16, FcmRoutesInOrder, NextUnder, 16 + 1 = 17 DEF r17
<1>18. Begins(r18, 18)
  BY <1>0, <1>17, ReminderRoutesInOrder, NextUnder, 17 + 1 = 18 DEF r18
<1>19. Begins(r19, 19)
  BY <1>0, <1>18, SseRoutesInOrder, NextController, 18 + 1 = 19 DEF r19
<1>20. Begins(r20, 20)
  BY <1>0, <1>19, WebhookRoutesInOrder, NextController, 19 + 1 = 20 DEF r20
<1>21. Routes = r20
  BY DEF Routes, Vocab, Statistics, TextTargets, Auth,
         r1, r2, r3, r4, r5, r6, r7, r8, r9, r10, r11, r12, r13, r14, r15, r16, r17, r18, r19, r20
<1> QED
  BY <1>20, <1>21 DEF Begins

\* What is meant for a route goes to it: no route before it takes it.
LEMMA DispatchExact == \A i \in DOMAIN Routes : Dispatch(i) = i
<1> SUFFICES ASSUME NEW i \in DOMAIN Routes PROVE Dispatch(i) = i
  OBVIOUS
<1> DEFINE S == {j \in DOMAIN Routes : Takes(Routes[j], Routes[i])}
<1>1. DOMAIN Routes \subseteq Nat /\ IsTuple(Routes[i].path)
  BY RoutesInOrder DEF Table, IsRoute, IsTuple
<1>2. i \in S
  BY <1>1, TakesOwn
<1>3. \A j \in S : i <= j
  BY <1>1, RoutesInOrder DEF InOrder
<1>4. \A j \in S : j \in Nat
  BY <1>1
<1>5. Dispatch(i) = CHOOSE j \in S : \A k \in S : j =< k
  BY DEF Dispatch, Min, Takes
<1> HIDE DEF S
<1> QED
  BY <1>1, <1>2, <1>3, <1>4, <1>5

\* A request for a declared path reaches the handler declared for it: of the 134
\* routes none comes before one whose requests it would take, as ':id' would take
\* 'my', 'random', 'reorder' or 'me' (language-folder.controller.ts:30,
\* user.controller.ts:66), for any number of requests.
THEOREM DispatchedAsDeclaredCorrect == PipelineSpec => []DispatchedAsDeclared
<1> DEFINE Meant == route.declared \in DOMAIN Routes /\ route.reached = Dispatch(route.declared)
<1>1. PipelineInit => Meant
  BY DEF PipelineInit
<1>2. Meant /\ [PipelineNext]_pipelineVars => Meant'
  <2>1. ASSUME NEW p \in Slots, RequestStep(p) PROVE UNCHANGED route
    <3>1. ASSUME NEW ip \in Ips, NEW token \in Tokens, Arrive(p, ip, token) PROVE UNCHANGED route
      BY <3>1 DEF Arrive
    <3>2. CASE Authenticate(p)
      BY <3>2 DEF Authenticate
    <3>3. CASE Throttle(p)
      BY <3>3 DEF Throttle
    <3>4. CASE Authorize(p)
      BY <3>4 DEF Authorize
    <3>5. CASE Handle(p)
      BY <3>5 DEF Handle
    <3> QED
      BY <2>1, <3>1, <3>2, <3>3, <3>4, <3>5 DEF RequestStep
  <2>2. [PipelineNext]_pipelineVars => UNCHANGED route
    BY <2>1 DEF PipelineNext, WindowEnds, AccountStep, httpVars, pipelineVars
  <2> QED
    BY <2>2
<1>3. PipelineSpec => []Meant
  BY <1>1, <1>2, PTL DEF PipelineSpec
<1>4. Meant /\ PipelineInv => DispatchedAsDeclared
  BY DispatchExact DEF PipelineInv, ReqInv, IsRequest, ReqType, Handlers, DispatchedAsDeclared
<1> QED
  BY <1>3, <1>4, PipelineCorrect, PTL

---------------------------------------------------------------------------
(* The jobs an exam waits for                                              *)

RequestType == [pc : {"new", "wipe", "dialogue", "lock", "enqueue", "answered", "error"},
                op : {"exam", "submit"},
                trainer : Trainers \cup {None},
                told : Requests \cup {None}]
JobType == {"none", "waiting", "skipped", "failed", "ended", "endedNone"} \cup InHand

QuestionsTypes ==
  /\ trainers \in [Trainers -> [questions : Requests \cup {None}, submitted : BOOLEAN]]
  /\ lock \in Requests \cup {None}
  /\ requests \in [Requests -> RequestType]
  /\ jobs \in [Requests -> JobType]
  /\ hit \subseteq Requests
\* A job is queued in the step that answers its request.
Queued == \A r \in Requests : jobs[r] # "none" => requests[r].pc = "answered"

\* Somebody will say how the job ended, has said so, or is excused.
Awaited(j) == jobs[j] \in ToCome \cup Announced \/ requests[j].pc = "enqueue" \/ j \in hit

\* A job that is not over has the lock, unless it was hit; whoever has the lock
\* is past asking for it, and so may be waited for.
Owns(r) == (requests[r].pc = "enqueue" \/ jobs[r] \in {"waiting"} \cup InHand) => lock = r \/ r \in hit
LockInv ==
  /\ \A r \in Requests : Owns(r)
  /\ lock # None => requests[lock].pc \in {"enqueue", "answered", "error"} /\ Awaited(lock)
  /\ \A r \in Requests : requests[r].told # None => Awaited(requests[r].told)

\* What an opened exam without questions can point to; a job that has saved
\* questions is no such thing, they are gone again.
Explains(r) ==
  \/ requests[r].pc \in {"lock", "enqueue"}
  \/ requests[r].told \notin {None, r}
  \/ jobs[r] \in {"waiting", "running", "savedNone", "completedNone", "endedNone", "failed"}
  \/ r \in hit
OpenedBy(r, t) == requests[r].trainer = t /\ requests[r].op = "exam"
ExamInv ==
  /\ \A r \in Requests : requests[r].pc = "wipe" => requests[r].op = "exam"
  /\ \A t \in Trainers :
       Choice(t) /\ (\E r \in Requests : OpenedBy(r, t)) /\ trainers[t].questions = None =>
         \E r \in Requests : OpenedBy(r, t) /\ Explains(r)

QuestionsInv == QuestionsTypes /\ Queued /\ LockInv /\ ExamInv

LEMMA QuestionsStart == Init => QuestionsInv
<1> SUFFICES ASSUME Init PROVE QuestionsInv
  OBVIOUS
<1>1. QuestionsTypes
  BY DEF Init, QuestionsTypes, NewRequest, RequestType, JobType
<1>2. Queued
  BY DEF Init, Queued
<1>3. LockInv
  BY DEF Init, LockInv, NewRequest, Owns, InHand
<1>4. ExamInv
  BY NoneAssumption DEF Init, ExamInv, NewRequest, OpenedBy
<1> QED BY <1>1, <1>2, <1>3, <1>4 DEF QuestionsInv

-----------------------------------------------------------------------------
(* Steps of a request.                                                     *)

\* The requests but one stay as they are, and no job moves.
LEMMA BeginStep ==
  ASSUME QuestionsInv, NEW r \in Requests, NEW t \in Trainers, NEW op \in {"exam", "submit"},
         NEW pc \in {"wipe", "dialogue", "lock", "answered"}, Begin(r, op, t, pc),
         pc = "wipe" => op = "exam",
         UNCHANGED <<lock, jobs, hit>>,
         \A u \in Trainers : trainers'[u].questions = trainers[u].questions,
         trainers' \in [Trainers -> [questions : Requests \cup {None}, submitted : BOOLEAN]],
         op = "exam" /\ Choice(t) /\ trainers[t].questions = None => pc = "lock"
  PROVE  QuestionsInv'
<1> PICK old : old = NewRequest
  OBVIOUS
<1> PICK new : new = [old EXCEPT !.pc = pc, !.op = op, !.trainer = t]
  OBVIOUS
<1>1. /\ requests[r] = NewRequest /\ requests' = [requests EXCEPT ![r] = new]
      /\ new = [pc |-> pc, op |-> op, trainer |-> t, told |-> None]
  <2>1. requests[r] = NewRequest /\ requests' = [requests EXCEPT ![r] = new]
    BY DEF Begin
  <2>2. old = [pc |-> old.pc, op |-> old.op, trainer |-> old.trainer, told |-> old.told] /\ old.told = None
    BY DEF NewRequest
  <2>3. new = [pc |-> pc, op |-> op, trainer |-> t, told |-> None]
    BY <2>2
  <2> QED BY <2>1, <2>3
<1>2. requests[r].told = None /\ requests[r].pc = "new" /\ requests[r].trainer \notin Trainers
  BY <1>1, NoneAssumption DEF NewRequest
<1>3. new \in RequestType
  BY <1>1 DEF RequestType
<1>4. QuestionsTypes'
  BY <1>1, <1>3 DEF QuestionsInv, QuestionsTypes
<1>5. /\ requests'[r] = new /\ new.pc = pc /\ new.op = op /\ new.trainer = t /\ new.told = None
      /\ \A q \in Requests : q # r => requests'[q] = requests[q]
  <2>1. requests'[r] = new /\ \A q \in Requests : q # r => requests'[q] = requests[q]
    BY <1>1 DEF QuestionsInv, QuestionsTypes
  <2>2. new.pc = pc /\ new.op = op /\ new.trainer = t /\ new.told = None
    <3>1. new = [pc |-> pc, op |-> op, trainer |-> t, told |-> None]
      BY <1>1
    <3> QED BY ONLY <3>1
  <2> QED BY <2>1, <2>2
<1>6. Queued'
  BY <1>2, <1>5 DEF QuestionsInv, Queued
<1>7. \A j \in Requests : Awaited(j) => Awaited(j)'
  BY <1>2, <1>5 DEF Awaited
<1>8. LockInv'
  <2>1. \A q \in Requests : Owns(q)'
    BY <1>5 DEF QuestionsInv, LockInv, Owns
  <2>2. (lock # None => requests[lock].pc \in {"enqueue", "answered", "error"} /\ Awaited(lock))'
    BY <1>2, <1>5, <1>7 DEF QuestionsInv, LockInv, QuestionsTypes
  <2>3. (\A q \in Requests : requests[q].told # None => Awaited(requests[q].told))'
    BY <1>5, <1>7 DEF QuestionsInv, LockInv, QuestionsTypes, RequestType
  <2> QED BY <2>1, <2>2, <2>3 DEF LockInv
<1>9. \A q \in Requests : q # r => Explains(q)' = Explains(q)
  BY <1>5 DEF Explains
<1>10. ExamInv'
  <2>1. (\A q \in Requests : requests[q].pc = "wipe" => requests[q].op = "exam")'
    BY <1>5 DEF QuestionsInv, ExamInv
  <2>2. ASSUME NEW u \in Trainers, Choice(u), (\E q \in Requests : OpenedBy(q, u))',
               trainers'[u].questions = None
        PROVE  \E q \in Requests : (OpenedBy(q, u) /\ Explains(q))'
    <3>1. CASE op = "exam" /\ u = t
      BY <1>5, <2>2, <3>1 DEF OpenedBy, Explains
    <3>2. CASE ~(op = "exam" /\ u = t)
      <4>1. PICK q \in Requests : OpenedBy(q, u)'
        BY <2>2
      <4>2. q # r /\ OpenedBy(q, u)
        BY <1>5, <3>2, <4>1 DEF OpenedBy
      <4>3. PICK k \in Requests : OpenedBy(k, u) /\ Explains(k)
        BY <2>2, <4>2 DEF QuestionsInv, ExamInv
      <4>4. k # r
        BY <1>2, <2>2, <4>3 DEF OpenedBy
      <4> QED BY <1>5, <1>9, <4>3, <4>4 DEF OpenedBy
    <3> QED BY <3>1, <3>2
  <2> QED BY <2>1, <2>2 DEF ExamInv, Choice
<1> QED BY <1>4, <1>8, <1>10, <1>6 DEF QuestionsInv

\* What the other steps have in common: nobody who is waited for is lost, the
\* lock goes to a request about to queue, and a client is told the job of the
\* lock or its own.
LEMMA LockStep ==
  ASSUME QuestionsTypes, LockInv,
         \A j \in Requests : Awaited(j) => Awaited(j)',
         \A q \in Requests : Owns(q)',
         lock' # None => \/ lock' = lock /\ requests'[lock].pc \in {requests[lock].pc, "answered", "error"}
                         \/ lock' \in Requests /\ requests'[lock'].pc = "enqueue",
         \A q \in Requests : \/ requests'[q].told \in {None, requests[q].told}
                             \/ requests'[q].told = lock /\ lock # None
                             \/ requests'[q].told = q /\ Awaited(q)'
  PROVE  LockInv'
<1>1. ASSUME lock' # None
      PROVE  requests'[lock'].pc \in {"enqueue", "answered", "error"} /\ Awaited(lock)'
  <2>1. CASE lock' = lock
    <3>1. lock \in Requests /\ Awaited(lock) /\ requests[lock].pc \in {"enqueue", "answered", "error"}
      BY <1>1, <2>1 DEF QuestionsTypes, LockInv
    <3>2. requests'[lock].pc \in {"enqueue", "answered", "error"}
      BY <1>1, <2>1, <3>1
    <3> QED BY <2>1, <3>1, <3>2 DEF Awaited
  <2>2. CASE lock' \in Requests /\ requests'[lock'].pc = "enqueue"
    BY <2>2 DEF Awaited
  <2> QED BY <1>1, <2>1, <2>2
<1>2. ASSUME NEW q \in Requests, requests'[q].told # None
      PROVE  Awaited(requests[q].told)'
  <2>1. CASE requests'[q].told = requests[q].told
    <3>1. requests[q].told \in Requests /\ Awaited(requests[q].told)
      BY <1>2, <2>1 DEF QuestionsTypes, LockInv, RequestType
    <3> QED BY <2>1, <3>1 DEF Awaited
  <2>2. CASE requests'[q].told = lock /\ lock # None
    <3>1. lock \in Requests /\ Awaited(lock)
      BY <2>2 DEF QuestionsTypes, LockInv
    <3> QED BY <2>2, <3>1 DEF Awaited
  <2>3. CASE requests'[q].told = q /\ Awaited(q)'
    BY <2>3 DEF Awaited
  <2> QED BY <1>2, <2>1, <2>2, <2>3
<1> QED BY <1>1, <1>2 DEF LockInv

\* An exam that loses its questions has a request that accounts for them, and
\* a request goes on accounting for as long as there are none.
LEMMA ExamStep ==
  ASSUME QuestionsTypes, ExamInv,
         \A q \in Requests : /\ requests'[q].trainer = requests[q].trainer
                             /\ requests'[q].op = requests[q].op
                             /\ requests'[q].pc = "wipe" => requests[q].pc = "wipe",
         \A t \in Trainers : trainers'[t].questions = None =>
           \/ trainers[t].questions = None
           \/ \E r \in Requests : OpenedBy(r, t) /\ Explains(r)',
         \A t \in Trainers, q \in Requests : OpenedBy(q, t) /\ Explains(q) =>
           Explains(q)' \/ trainers'[t].questions # None
  PROVE  ExamInv'
<1>1. \A q \in Requests, t \in Trainers : OpenedBy(q, t)' <=> OpenedBy(q, t)
  BY DEF OpenedBy
<1>2. ASSUME NEW t \in Trainers, Choice(t), (\E q \in Requests : OpenedBy(q, t))',
             trainers'[t].questions = None
      PROVE  \E q \in Requests : (OpenedBy(q, t) /\ Explains(q))'
  <2>1. CASE trainers[t].questions = None
    <3>1. PICK k \in Requests : OpenedBy(k, t) /\ Explains(k)
      BY <1>1, <1>2, <2>1 DEF ExamInv
    <3> QED BY <1>1, <1>2, <3>1
  <2>2. CASE \E r \in Requests : OpenedBy(r, t) /\ Explains(r)'
    BY <1>1, <2>2
  <2> QED BY <1>2, <2>1, <2>2
<1>3. (\A q \in Requests : requests[q].pc = "wipe" => requests[q].op = "exam")'
  BY DEF ExamInv
<1> QED BY <1>2, <1>3 DEF ExamInv, Choice

\* A request goes on, and a request is answered.
LEMMA Goes ==
  ASSUME QuestionsTypes, NEW r \in Requests, NEW pc \in {"lock", "enqueue", "answered", "error"}, Goto(r, pc)
  PROVE  /\ requests' \in [Requests -> RequestType]
         /\ \A q \in Requests : /\ requests'[q].op = requests[q].op
                                /\ requests'[q].trainer = requests[q].trainer
                                /\ requests'[q].told = requests[q].told
                                /\ q # r => requests'[q].pc = requests[q].pc
         /\ requests'[r].pc = pc
<1>1. requests \in [Requests -> RequestType]
  BY DEF QuestionsTypes
<1> QED BY <1>1 DEF Goto, RequestType

LEMMA Answers ==
  ASSUME QuestionsTypes, NEW r \in Requests, NEW job \in Requests, AnswerWith(r, job)
  PROVE  /\ requests' \in [Requests -> RequestType]
         /\ \A q \in Requests : /\ requests'[q].op = requests[q].op
                                /\ requests'[q].trainer = requests[q].trainer
                                /\ q # r => /\ requests'[q].pc = requests[q].pc
                                            /\ requests'[q].told = requests[q].told
         /\ requests'[r].pc = "answered" /\ requests'[r].told = job
<1>1. requests \in [Requests -> RequestType]
  BY DEF QuestionsTypes
<1> QED BY <1>1 DEF AnswerWith, RequestType

\* Questions are stored or taken away.
LEMMA Stores ==
  ASSUME QuestionsTypes, NEW t, NEW questions \in Requests \cup {None}, Store(t, questions)
  PROVE  /\ trainers' \in [Trainers -> [questions : Requests \cup {None}, submitted : BOOLEAN]]
         /\ \A u \in Trainers : trainers'[u].questions = IF u = t THEN questions ELSE trainers[u].questions
<1>1. trainers \in [Trainers -> [questions : Requests \cup {None}, submitted : BOOLEAN]]
  BY DEF QuestionsTypes
<1> QED BY <1>1 DEF Store

\* One job moves.
LEMMA JobGoes ==
  ASSUME QuestionsTypes, NEW r \in Requests, NEW from, NEW to \in JobType, JobGoto(r, from, to)
  PROVE  /\ jobs' \in [Requests -> JobType]
         /\ jobs[r] = from /\ jobs'[r] = to
         /\ \A q \in Requests : q # r => jobs'[q] = jobs[q]
BY DEF QuestionsTypes, JobGoto

LEMMA WipeStep ==
  ASSUME QuestionsInv, NEW r \in Requests, WipeQuestions(r)
  PROVE  QuestionsInv'
<1> DEFINE t == requests[r].trainer
<1>1. QuestionsTypes /\ LockInv /\ ExamInv /\ UNCHANGED <<lock, jobs, hit>>
  BY DEF QuestionsInv, WipeQuestions, Calm
<1>2. requests[r].pc = "wipe" /\ Goto(r, "lock") /\ Store(t, None)
  BY DEF WipeQuestions
<1>3. /\ requests' \in [Requests -> RequestType]
      /\ \A q \in Requests : /\ requests'[q].op = requests[q].op
                             /\ requests'[q].trainer = requests[q].trainer
                             /\ requests'[q].told = requests[q].told
                             /\ q # r => requests'[q].pc = requests[q].pc
      /\ requests'[r].pc = "lock"
  BY <1>1, <1>2, Goes
<1>4. /\ trainers' \in [Trainers -> [questions : Requests \cup {None}, submitted : BOOLEAN]]
      /\ \A u \in Trainers : u # t => trainers'[u].questions = trainers[u].questions
  BY <1>1, <1>2, Stores
<1>5. QuestionsTypes' /\ Queued'
  BY <1>1, <1>2, <1>3, <1>4 DEF QuestionsTypes, QuestionsInv, Queued
<1>6. LockInv'
  <2>1. lock # r
    BY <1>1, <1>2, NoneAssumption DEF LockInv, QuestionsTypes
  <2>2. \A j \in Requests : Awaited(j) => Awaited(j)'
    BY <1>1, <1>2, <1>3 DEF Awaited
  <2>3. \A q \in Requests : Owns(q)'
    BY <1>1, <1>3 DEF LockInv, Owns
  <2>4. lock' # None => \/ lock' = lock /\ requests'[lock].pc \in {requests[lock].pc, "answered", "error"}
                        \/ lock' \in Requests /\ requests'[lock'].pc = "enqueue"
    <3>1. lock' # None => lock' = lock /\ requests'[lock].pc \in {requests[lock].pc, "answered", "error"}
      BY <1>1, <1>3, <2>1 DEF QuestionsTypes
    <3> QED BY <3>1
  <2>5. \A q \in Requests : \/ requests'[q].told \in {None, requests[q].told}
                            \/ requests'[q].told = lock /\ lock # None
                            \/ requests'[q].told = q /\ Awaited(q)'
    <3>1. \A q \in Requests : requests'[q].told \in {None, requests[q].told}
      BY <1>3
    <3> QED BY <3>1
  <2> QED BY <1>1, <2>2, <2>3, <2>4, <2>5, LockStep
<1>7. ExamInv'
  <2>1. OpenedBy(r, t)
    BY <1>1, <1>2 DEF ExamInv, OpenedBy
  <2>2. Explains(r)'
    BY <1>3 DEF Explains
  <2>3. \A q \in Requests : Explains(q) => Explains(q)'
    BY <1>1, <1>3, <2>2 DEF Explains
  <2>4. ASSUME NEW u \in Trainers, trainers'[u].questions = None
        PROVE  trainers[u].questions = None \/ \E q \in Requests : OpenedBy(q, u) /\ Explains(q)'
    BY <1>4, <2>1, <2>2, <2>4
  <2> HIDE DEF t
  <2> QED BY <1>1, <1>2, <1>3, <2>3, <2>4, ExamStep
<1> QED BY <1>5, <1>6, <1>7 DEF QuestionsInv

\* A request that ends or goes on, with questions stored or none touched.
LEMMA GoneStep ==
  ASSUME QuestionsInv, NEW r \in Requests, requests[r].pc \in {"wipe", "dialogue", "lock", "enqueue"},
         NEW pc \in {"answered", "error"}, Goto(r, pc), UNCHANGED jobs,
         requests[r].pc \in {"lock", "enqueue"} => r \in hit',
         hit \subseteq hit', hit' \subseteq Requests, lock' \in {lock, Released(r)},
         \/ UNCHANGED trainers
         \/ Store(requests[r].trainer, r)
  PROVE  QuestionsInv'
<1>1. QuestionsTypes /\ LockInv /\ ExamInv
  BY DEF QuestionsInv
<1>2. /\ requests' \in [Requests -> RequestType]
      /\ \A q \in Requests : /\ requests'[q].op = requests[q].op
                             /\ requests'[q].trainer = requests[q].trainer
                             /\ requests'[q].told = requests[q].told
                             /\ q # r => requests'[q].pc = requests[q].pc
      /\ requests'[r].pc = pc
  BY <1>1, Goes
<1>3. /\ trainers' \in [Trainers -> [questions : Requests \cup {None}, submitted : BOOLEAN]]
      /\ \A u \in Trainers : trainers'[u].questions = None => trainers[u].questions = None
  <2>1. CASE UNCHANGED trainers
    BY <1>1, <2>1 DEF QuestionsTypes
  <2>2. CASE Store(requests[r].trainer, r)
    BY <1>1, <2>2, Stores, NoneAssumption
  <2> QED BY <2>1, <2>2
<1>4. lock' = lock \/ (lock = r /\ lock' = None)
  BY DEF Released
<1>5. QuestionsTypes' /\ Queued'
  BY <1>1, <1>2, <1>3, <1>4 DEF QuestionsTypes, QuestionsInv, Queued
<1>6. LockInv'
  <2>1. \A j \in Requests : Awaited(j) => Awaited(j)'
    BY <1>2 DEF Awaited
  <2>2. ASSUME NEW q \in Requests PROVE Owns(q)'
    <3>1. Owns(q)
      BY <1>1 DEF LockInv
    <3>2. CASE q = r
      <4>1. requests'[r].pc # "enqueue"
        BY <1>2
      <4>2. lock = r => r \in hit'
        BY <1>1, NoneAssumption DEF LockInv, QuestionsTypes
      <4> QED BY <1>4, <3>1, <3>2, <4>1, <4>2 DEF Owns
    <3>3. CASE q # r
      BY <1>2, <1>4, <3>1, <3>3 DEF Owns
    <3> QED BY <3>2, <3>3
  <2>3. lock' # None => \/ lock' = lock /\ requests'[lock].pc \in {requests[lock].pc, "answered", "error"}
                        \/ lock' \in Requests /\ requests'[lock'].pc = "enqueue"
    <3>1. lock' # None => lock' = lock /\ requests'[lock].pc \in {requests[lock].pc, "answered", "error"}
      BY <1>1, <1>2, <1>4 DEF QuestionsTypes
    <3> QED BY <3>1
  <2>4. \A q \in Requests : \/ requests'[q].told \in {None, requests[q].told}
                            \/ requests'[q].told = lock /\ lock # None
                            \/ requests'[q].told = q /\ Awaited(q)'
    <3>1. \A q \in Requests : requests'[q].told \in {None, requests[q].told}
      BY <1>2
    <3> QED BY <3>1
  <2> QED BY <1>1, <2>1, <2>2, <2>3, <2>4, LockStep
<1>7. ExamInv'
  <2>1. \A q \in Requests : Explains(q) => Explains(q)'
    BY <1>2 DEF Explains
  <2> QED BY <1>1, <1>2, <1>3, <2>1, ExamStep
<1> QED BY <1>5, <1>6, <1>7 DEF QuestionsInv

LEMMA LockedStep ==
  ASSUME QuestionsInv, NEW r \in Requests, AcquireOrGetActive(r)
  PROVE  QuestionsInv'
<1>1. QuestionsTypes /\ Queued /\ LockInv /\ ExamInv /\ UNCHANGED <<trainers, jobs, hit>> /\ requests[r].pc = "lock"
  BY DEF QuestionsInv, AcquireOrGetActive, Calm
<1>2. CASE lock = None /\ lock' = r /\ Goto(r, "enqueue")
  <2>1. /\ requests' \in [Requests -> RequestType]
        /\ \A q \in Requests : /\ requests'[q].op = requests[q].op
                               /\ requests'[q].trainer = requests[q].trainer
                               /\ requests'[q].told = requests[q].told
                               /\ q # r => requests'[q].pc = requests[q].pc
        /\ requests'[r].pc = "enqueue"
    BY <1>1, <1>2, Goes
  <2>2. QuestionsTypes' /\ Queued'
    BY <1>1, <1>2, <2>1 DEF QuestionsTypes, Queued
  <2>3. LockInv'
    <3>1. \A j \in Requests : Awaited(j) => Awaited(j)'
      BY <1>1, <2>1 DEF Awaited
    <3>2. \A q \in Requests : Owns(q)'
      BY <1>1, <1>2, <2>1, NoneAssumption DEF LockInv, Owns
    <3>3. lock' # None => \/ lock' = lock /\ requests'[lock].pc \in {requests[lock].pc, "answered", "error"}
                          \/ lock' \in Requests /\ requests'[lock'].pc = "enqueue"
      <4>1. lock' \in Requests /\ requests'[lock'].pc = "enqueue"
        BY <1>2, <2>1
      <4> QED BY <4>1
    <3>4. \A q \in Requests : \/ requests'[q].told \in {None, requests[q].told}
                              \/ requests'[q].told = lock /\ lock # None
                              \/ requests'[q].told = q /\ Awaited(q)'
      <4>1. \A q \in Requests : requests'[q].told \in {None, requests[q].told}
        BY <2>1
      <4> QED BY <4>1
    <3> QED BY <1>1, <3>1, <3>2, <3>3, <3>4, LockStep
  <2>4. ExamInv'
    <3>1. \A q \in Requests : Explains(q) => Explains(q)'
      BY <1>1, <2>1 DEF Explains
    <3> QED BY <1>1, <2>1, <3>1, ExamStep
  <2> QED BY <2>2, <2>3, <2>4 DEF QuestionsInv
<1>3. CASE lock # None /\ AnswerWith(r, lock) /\ UNCHANGED lock
  <2>0. lock \in Requests /\ lock # r
    BY <1>1, <1>3 DEF QuestionsTypes, LockInv
  <2>1. /\ requests' \in [Requests -> RequestType]
        /\ \A q \in Requests : /\ requests'[q].op = requests[q].op
                               /\ requests'[q].trainer = requests[q].trainer
                               /\ q # r => /\ requests'[q].pc = requests[q].pc
                                           /\ requests'[q].told = requests[q].told
        /\ requests'[r].pc = "answered" /\ requests'[r].told = lock
    BY <1>1, <1>3, <2>0, Answers
  <2>2. QuestionsTypes' /\ Queued'
    BY <1>1, <1>3, <2>1 DEF QuestionsTypes, Queued
  <2>3. LockInv'
    <3>1. \A j \in Requests : Awaited(j) => Awaited(j)'
      BY <1>1, <2>1 DEF Awaited
    <3>2. \A q \in Requests : Owns(q)'
      BY <1>1, <1>3, <2>1 DEF LockInv, Owns
    <3>3. lock' # None => \/ lock' = lock /\ requests'[lock].pc \in {requests[lock].pc, "answered", "error"}
                          \/ lock' \in Requests /\ requests'[lock'].pc = "enqueue"
      <4>1. lock' = lock /\ requests'[lock].pc \in {requests[lock].pc, "answered", "error"}
        BY <1>3, <2>0, <2>1
      <4> QED BY <4>1
    <3>4. \A q \in Requests : \/ requests'[q].told \in {None, requests[q].told}
                              \/ requests'[q].told = lock /\ lock # None
                              \/ requests'[q].told = q /\ Awaited(q)'
      <4>1. \A q \in Requests : requests'[q].told = requests[q].told \/ (requests'[q].told = lock /\ lock # None)
        BY <1>3, <2>1
      <4> QED BY <4>1
    <3> QED BY <1>1, <3>1, <3>2, <3>3, <3>4, LockStep
  <2>4. ExamInv'
    <3>1. \A q \in Requests : Explains(q) => Explains(q)'
      BY <1>1, <1>3, <2>0, <2>1 DEF Explains
    <3> QED BY <1>1, <2>1, <3>1, ExamStep
  <2> QED BY <2>2, <2>3, <2>4 DEF QuestionsInv
<1> QED BY <1>2, <1>3 DEF AcquireOrGetActive

LEMMA EnqueueStep ==
  ASSUME QuestionsInv, NEW r \in Requests, Enqueue(r)
  PROVE  QuestionsInv'
<1>1. QuestionsTypes /\ Queued /\ LockInv /\ ExamInv /\ UNCHANGED <<trainers, lock, hit>> /\ requests[r].pc = "enqueue"
  BY DEF QuestionsInv, Enqueue, Calm
<1>2. jobs' \in [Requests -> JobType] /\ jobs'[r] = "waiting" /\ \A q \in Requests : q # r => jobs'[q] = jobs[q]
  BY <1>1 DEF QuestionsTypes, Enqueue, JobType
<1>3. /\ requests' \in [Requests -> RequestType]
      /\ \A q \in Requests : /\ requests'[q].op = requests[q].op
                             /\ requests'[q].trainer = requests[q].trainer
                             /\ q # r => /\ requests'[q].pc = requests[q].pc
                                         /\ requests'[q].told = requests[q].told
      /\ requests'[r].pc = "answered" /\ requests'[r].told = r
  BY <1>1, Answers DEF Enqueue
<1>4. QuestionsTypes' /\ Queued'
  BY <1>1, <1>2, <1>3 DEF QuestionsTypes, Queued
<1>5. LockInv'
  <2>1. Awaited(r)' /\ \A j \in Requests : Awaited(j) => Awaited(j)'
    BY <1>1, <1>2, <1>3 DEF Awaited, ToCome
  <2>2. \A q \in Requests : Owns(q)'
    BY <1>1, <1>2, <1>3 DEF LockInv, Owns
  <2>3. lock' # None => \/ lock' = lock /\ requests'[lock].pc \in {requests[lock].pc, "answered", "error"}
                        \/ lock' \in Requests /\ requests'[lock'].pc = "enqueue"
    <3>1. lock' # None => lock' = lock /\ requests'[lock].pc \in {requests[lock].pc, "answered", "error"}
      BY <1>1, <1>3 DEF QuestionsTypes
    <3> QED BY <3>1
  <2>4. \A q \in Requests : \/ requests'[q].told \in {None, requests[q].told}
                            \/ requests'[q].told = lock /\ lock # None
                            \/ requests'[q].told = q /\ Awaited(q)'
    <3>1. \A q \in Requests : requests'[q].told = requests[q].told \/ (requests'[q].told = q /\ Awaited(q)')
      BY <1>3, <2>1
    <3> QED BY <3>1
  <2> QED BY <1>1, <2>1, <2>2, <2>3, <2>4, LockStep
<1>6. ExamInv'
  <2>1. \A q \in Requests : Explains(q) => Explains(q)'
    BY <1>1, <1>2, <1>3 DEF Explains
  <2> QED BY <1>1, <1>3, <2>1, ExamStep
<1> QED BY <1>4, <1>5, <1>6 DEF QuestionsInv

-----------------------------------------------------------------------------
(* Steps of a job.                                                         *)

\* A job goes on to be awaited or its request is hit; it does not come back to
\* life without its lock; and when it stops accounting for an exam, the exam has
\* questions, or the job was no generation or had stopped before.
LEMMA JobStep ==
  ASSUME QuestionsInv, NEW r \in Requests, NEW from \in JobType \ {"none"}, NEW to \in JobType \ {"none"},
         JobGoto(r, from, to), UNCHANGED requests,
         hit \subseteq hit', hit' \subseteq Requests, lock' \in {lock, Released(r)},
         to \in ToCome \cup Announced \/ r \in hit',
         to \in {"waiting"} \cup InHand => r \in hit' \/ (lock' = lock /\ from \in {"waiting"} \cup InHand),
         trainers' \in [Trainers -> [questions : Requests \cup {None}, submitted : BOOLEAN]],
         \A t \in Trainers : trainers'[t].questions = None =>
           trainers[t].questions = None \/ (OpenedBy(r, t) /\ to = "savedNone"),
         \/ to \in {"waiting", "running", "savedNone", "completedNone", "endedNone", "failed"}
         \/ r \in hit' \/ from \in {"saved", "completed"}
         \/ \A t \in Trainers : OpenedBy(r, t) => trainers'[t].questions # None
  PROVE  QuestionsInv'
<1>1. QuestionsTypes /\ Queued /\ LockInv /\ ExamInv
  BY DEF QuestionsInv
<1>2. /\ jobs' \in [Requests -> JobType] /\ jobs[r] = from /\ jobs'[r] = to
      /\ \A q \in Requests : q # r => jobs'[q] = jobs[q]
  BY <1>1, JobGoes
<1>3. lock' = lock \/ (lock = r /\ lock' = None)
  BY DEF Released
<1>4. QuestionsTypes' /\ Queued' /\ requests[r].pc = "answered"
  BY <1>1, <1>2, <1>3 DEF QuestionsTypes, Queued
<1>5. LockInv'
  <2>1. \A j \in Requests : Awaited(j) => Awaited(j)'
    BY <1>2 DEF Awaited
  <2>2. ASSUME NEW q \in Requests PROVE Owns(q)'
    <3>1. Owns(q)
      BY <1>1 DEF LockInv
    <3>2. CASE q = r
      BY <1>2, <1>4, <3>1, <3>2 DEF Owns
    <3>3. CASE q # r
      BY <1>2, <1>3, <3>1, <3>3 DEF Owns
    <3> QED BY <3>2, <3>3
  <2>3. lock' # None => \/ lock' = lock /\ requests'[lock].pc \in {requests[lock].pc, "answered", "error"}
                        \/ lock' \in Requests /\ requests'[lock'].pc = "enqueue"
    <3>1. lock' # None => lock' = lock /\ requests'[lock].pc \in {requests[lock].pc, "answered", "error"}
      BY <1>3
    <3> QED BY <3>1
  <2>4. \A q \in Requests : \/ requests'[q].told \in {None, requests[q].told}
                            \/ requests'[q].told = lock /\ lock # None
                            \/ requests'[q].told = q /\ Awaited(q)'
    <3>1. \A q \in Requests : requests'[q].told \in {None, requests[q].told}
      OBVIOUS
    <3> QED BY <3>1
  <2> QED BY <1>1, <2>1, <2>2, <2>3, <2>4, LockStep
<1>6. ExamInv'
  <2>1. ASSUME NEW t \in Trainers, NEW q \in Requests, OpenedBy(q, t), Explains(q)
        PROVE  Explains(q)' \/ trainers'[t].questions # None
    <3>1. CASE q = r
      BY <1>2, <2>1, <3>1 DEF Explains
    <3>2. CASE q # r
      BY <1>2, <2>1, <3>2 DEF Explains
    <3> QED BY <3>1, <3>2
  <2>2. ASSUME NEW t \in Trainers, trainers'[t].questions = None
        PROVE  trainers[t].questions = None \/ \E q \in Requests : OpenedBy(q, t) /\ Explains(q)'
    BY <1>2, <2>2 DEF Explains
  <2> QED BY <1>1, <2>1, <2>2, ExamStep
<1> QED BY <1>4, <1>5, <1>6 DEF QuestionsInv

LEMMA ExpireStep ==
  ASSUME QuestionsInv, Expire
  PROVE  QuestionsInv'
<1>1. /\ QuestionsTypes /\ Queued /\ LockInv /\ ExamInv /\ UNCHANGED <<trainers, requests, jobs>>
      /\ lock # None /\ lock' = None /\ hit' = hit \cup {lock}
  BY DEF QuestionsInv, Expire, Hit
<1>2. QuestionsTypes' /\ Queued'
  BY <1>1 DEF QuestionsTypes, Queued
<1>3. LockInv'
  BY <1>1 DEF LockInv, Owns, Awaited
<1>4. ExamInv'
  <2>1. \A q \in Requests : Explains(q) => Explains(q)'
    BY <1>1 DEF Explains
  <2> QED BY <1>1, <2>1, ExamStep
<1> QED BY <1>2, <1>3, <1>4 DEF QuestionsInv

\* Every step of a job is such a step.
LEMMA ProcessorStep ==
  ASSUME QuestionsInv, NEW r \in Requests,
         \/ Start(r) \/ SaveQuestions(r) \/ SaveResults(r) \/ EmitCompleted(r) \/ Release(r)
         \/ Fail(r) \/ Stall(r)
  PROVE  QuestionsInv'
<1>1. QuestionsTypes /\ LockInv
  BY DEF QuestionsInv
<1>2. CASE Start(r)
  <2> PICK to \in {"running", "skipped"} : to = IF lock = r THEN "running" ELSE "skipped"
    OBVIOUS
  <2>1. JobGoto(r, "waiting", to) /\ UNCHANGED <<trainers, lock, requests, hit>>
    BY <1>2 DEF Start, Calm
  <2>2. to = "running" \/ r \in hit
    BY <1>1, <2>1 DEF LockInv, Owns, JobGoto
  <2> QED BY <1>1, <2>1, <2>2, JobStep DEF QuestionsTypes, JobType, InHand, ToCome, Announced
<1>3. CASE SaveQuestions(r)
  <2> DEFINE t == requests[r].trainer
  <2>1. UNCHANGED <<lock, requests, hit>> /\ requests[r].op = "exam"
    BY <1>3 DEF SaveQuestions, Calm
  <2>2. PICK questions \in {r, None} :
          /\ JobGoto(r, "running", IF questions = None THEN "savedNone" ELSE "saved")
          /\ Store(t, questions)
    BY <1>3 DEF SaveQuestions
  <2> PICK to \in {"saved", "savedNone"} : to = IF questions = None THEN "savedNone" ELSE "saved"
    OBVIOUS
  <2>3. /\ trainers' \in [Trainers -> [questions : Requests \cup {None}, submitted : BOOLEAN]]
        /\ \A u \in Trainers : trainers'[u].questions = IF u = t THEN questions ELSE trainers[u].questions
    BY <1>1, <2>2, Stores
  <2>4. ASSUME NEW u \in Trainers, trainers'[u].questions = None
        PROVE  trainers[u].questions = None \/ (OpenedBy(r, u) /\ to = "savedNone")
    BY <2>1, <2>3, <2>4 DEF OpenedBy
  <2>5. to = "savedNone" \/ \A u \in Trainers : OpenedBy(r, u) => trainers'[u].questions # None
    BY <2>3, NoneAssumption DEF OpenedBy
  <2>6. JobGoto(r, "running", to)
    BY <2>2
  <2> HIDE DEF t
  <2> QED BY <1>1, <2>1, <2>3, <2>4, <2>5, <2>6, JobStep DEF QuestionsTypes, JobType, InHand, ToCome, Announced
<1>4. CASE SaveResults(r)
  <2>1. JobGoto(r, "running", "saved") /\ UNCHANGED <<lock, requests, hit>> /\ requests[r].op = "submit"
    BY <1>4 DEF SaveResults, Calm
  <2>2. /\ trainers' \in [Trainers -> [questions : Requests \cup {None}, submitted : BOOLEAN]]
        /\ \A t \in Trainers : trainers'[t].questions = trainers[t].questions
    <3> PICK t : t = requests[r].trainer
      OBVIOUS
    <3>1. UNCHANGED trainers \/ Submitted(t)
      BY <1>4 DEF SaveResults
    <3>2. CASE UNCHANGED trainers
      BY <1>1, <3>2 DEF QuestionsTypes
    <3>3. CASE Submitted(t)
      BY <1>1, <3>3 DEF Submitted, QuestionsTypes
    <3> QED BY <3>1, <3>2, <3>3
  <2>3. \A t \in Trainers : ~OpenedBy(r, t)
    BY <2>1 DEF OpenedBy
  <2> QED BY <1>1, <2>1, <2>2, <2>3, JobStep DEF QuestionsTypes, JobType, InHand, ToCome, Announced
<1>5. CASE EmitCompleted(r)
  <2>1. UNCHANGED <<trainers, lock, requests, hit>>
    BY <1>5 DEF EmitCompleted, Calm
  <2>2. CASE JobGoto(r, "saved", "completed")
    BY <1>1, <2>1, <2>2, JobStep DEF QuestionsTypes, JobType, InHand, ToCome, Announced
  <2>3. CASE JobGoto(r, "savedNone", "completedNone")
    BY <1>1, <2>1, <2>3, JobStep DEF QuestionsTypes, JobType, InHand, ToCome, Announced
  <2> QED BY <1>5, <2>2, <2>3 DEF EmitCompleted
<1>6. CASE Release(r)
  <2>1. UNCHANGED <<trainers, requests, hit>> /\ lock' = Released(r)
    BY <1>6 DEF Release, Calm
  <2>2. CASE JobGoto(r, "completed", "ended")
    BY <1>1, <2>1, <2>2, JobStep DEF QuestionsTypes, JobType, InHand, ToCome, Announced
  <2>3. CASE JobGoto(r, "completedNone", "endedNone")
    BY <1>1, <2>1, <2>3, JobStep DEF QuestionsTypes, JobType, InHand, ToCome, Announced
  <2> QED BY <1>6, <2>2, <2>3 DEF Release
<1>7. CASE Fail(r)
  <2>1. UNCHANGED <<trainers, requests, hit>> /\ jobs[r] \in InHand
    BY <1>7 DEF Fail
  <2> PICK from \in InHand : from = jobs[r]
    BY <2>1
  <2>2. CASE JobGoto(r, from, "waiting") /\ UNCHANGED lock
    BY <1>1, <2>1, <2>2, JobStep DEF QuestionsTypes, JobType, InHand, ToCome, Announced
  <2>3. CASE JobGoto(r, from, "failed") /\ lock' = Released(r)
    BY <1>1, <2>1, <2>3, JobStep DEF QuestionsTypes, JobType, InHand, ToCome, Announced
  <2> QED BY <1>7, <2>2, <2>3 DEF Fail
<1>8. CASE Stall(r)
  <2>1. UNCHANGED <<trainers, lock, requests>> /\ jobs[r] \in InHand /\ hit' = hit \cup {r}
    BY <1>8 DEF Stall, Hit
  <2> PICK from \in InHand, to \in {"waiting", "skipped"} : JobGoto(r, from, to)
    BY <1>8, <2>1 DEF Stall
  <2> QED BY <1>1, <2>1, JobStep DEF QuestionsTypes, JobType, InHand, ToCome, Announced
<1> QED BY <1>2, <1>3, <1>4, <1>5, <1>6, <1>7, <1>8

LEMMA AsksStep ==
  ASSUME QuestionsInv, NEW r \in Requests, NEW t \in Trainers,
         \/ OpenChoice(r, t) \/ OpenBuilt(r, t) \/ OpenDialogue(r, t)
         \/ SubmitChoice(r, t) \/ SubmitBlank(r, t) \/ SubmitAudio(r, t)
  PROVE  QuestionsInv'
<1>1. QuestionsTypes
  BY DEF QuestionsInv
<1>2. CASE OpenChoice(r, t)
  <2> PICK pc \in {"wipe", "lock", "answered"} : pc = NextStep(t)
    BY DEF NextStep
  <2>1. Begin(r, "exam", t, pc) /\ UNCHANGED <<trainers, lock, jobs, hit>>
    BY <1>2 DEF OpenChoice, Calm
  <2>2. trainers[t].questions = None => pc = "lock"
    BY DEF NextStep
  <2> QED BY <1>1, <2>1, <2>2, BeginStep DEF QuestionsTypes
<1>3. CASE OpenBuilt(r, t)
  <2>1. Begin(r, "exam", t, "answered") /\ UNCHANGED <<trainers, lock, jobs, hit>> /\ ~Choice(t)
    BY <1>3 DEF OpenBuilt, Calm, Choice, ChoiceTypes
  <2> QED BY <1>1, <2>1, BeginStep DEF QuestionsTypes
<1>4. CASE OpenDialogue(r, t)
  <2>1. Begin(r, "exam", t, "dialogue") /\ UNCHANGED <<trainers, lock, jobs, hit>> /\ ~Choice(t)
    BY <1>4 DEF OpenDialogue, Calm, Choice, ChoiceTypes, Dialogue
  <2> QED BY <1>1, <2>1, BeginStep DEF QuestionsTypes
<1>5. CASE SubmitChoice(r, t)
  <2>1. Begin(r, "submit", t, "answered") /\ UNCHANGED <<lock, jobs, hit>> /\ Submitted(t)
    BY <1>5 DEF SubmitChoice, Calm
  <2>2. /\ trainers' \in [Trainers -> [questions : Requests \cup {None}, submitted : BOOLEAN]]
        /\ \A u \in Trainers : trainers'[u].questions = trainers[u].questions
    BY <1>1, <2>1 DEF Submitted, QuestionsTypes
  <2> QED BY <2>1, <2>2, BeginStep
<1>6. CASE SubmitBlank(r, t) \/ SubmitAudio(r, t)
  <2>1. Begin(r, "submit", t, "lock") /\ UNCHANGED <<trainers, lock, jobs, hit>>
    BY <1>6 DEF SubmitBlank, SubmitAudio, Calm
  <2> QED BY <1>1, <2>1, BeginStep DEF QuestionsTypes
<1> QED BY <1>2, <1>3, <1>4, <1>5, <1>6

LEMMA EndingStep ==
  ASSUME QuestionsInv, NEW r \in Requests, WriteDialogue(r) \/ EnqueueError(r) \/ RequestError(r)
  PROVE  QuestionsInv'
<1>1. CASE WriteDialogue(r)
  <2>1. /\ requests[r].pc = "dialogue" /\ Goto(r, "answered") /\ UNCHANGED <<lock, jobs, hit>>
        /\ UNCHANGED trainers \/ Store(requests[r].trainer, r)
    BY <1>1 DEF WriteDialogue, Calm
  <2> QED BY <2>1, GoneStep DEF QuestionsInv, QuestionsTypes
<1>2. CASE EnqueueError(r) \/ RequestError(r)
  <2>1. /\ requests[r].pc \in {"wipe", "dialogue", "lock", "enqueue"} /\ Goto(r, "error")
        /\ hit' = hit \cup {r} /\ lock' \in {lock, Released(r)} /\ UNCHANGED <<trainers, jobs>>
    BY <1>2 DEF EnqueueError, RequestError, Hit
  <2> QED BY <2>1, GoneStep DEF QuestionsInv, QuestionsTypes
<1> QED BY <1>1, <1>2

-----------------------------------------------------------------------------
LEMMA QuestionsStep == QuestionsInv /\ [Next]_vars => QuestionsInv'
<1> SUFFICES ASSUME QuestionsInv, [Next]_vars PROVE QuestionsInv'
  OBVIOUS
<1>1. CASE UNCHANGED vars
  BY <1>1 DEF QuestionsInv, QuestionsTypes, Queued, LockInv, ExamInv, Owns, Awaited, Explains, OpenedBy, Choice, vars
<1>2. CASE Expire
  BY <1>2, ExpireStep
<1>3. ASSUME NEW r \in Requests, NEW t \in Trainers,
             \/ OpenChoice(r, t) \/ OpenBuilt(r, t) \/ OpenDialogue(r, t)
             \/ SubmitChoice(r, t) \/ SubmitBlank(r, t) \/ SubmitAudio(r, t)
      PROVE  QuestionsInv'
  BY <1>3, AsksStep
<1>4. ASSUME NEW r \in Requests, WipeQuestions(r) PROVE QuestionsInv'
  BY <1>4, WipeStep
<1>5. ASSUME NEW r \in Requests, AcquireOrGetActive(r) PROVE QuestionsInv'
  BY <1>5, LockedStep
<1>6. ASSUME NEW r \in Requests, Enqueue(r) PROVE QuestionsInv'
  BY <1>6, EnqueueStep
<1>7. ASSUME NEW r \in Requests, WriteDialogue(r) \/ EnqueueError(r) \/ RequestError(r) PROVE QuestionsInv'
  BY <1>7, EndingStep
<1>8. ASSUME NEW r \in Requests,
             \/ Start(r) \/ SaveQuestions(r) \/ SaveResults(r) \/ EmitCompleted(r) \/ Release(r)
             \/ Fail(r) \/ Stall(r)
      PROVE  QuestionsInv'
  BY <1>8, ProcessorStep
<1> QED BY <1>1, <1>2, <1>3, <1>4, <1>5, <1>6, <1>7, <1>8 DEF Next

LEMMA QuestionsCorrect == Spec => []QuestionsInv
BY QuestionsStart, QuestionsStep, PTL DEF Spec

LEMMA AnsweredInv == QuestionsInv => WaitIsAnswered
<1> SUFFICES ASSUME QuestionsInv, NEW r \in Requests, requests[r].told # None
             PROVE  Awaited(requests[r].told)
  BY DEF WaitIsAnswered, Awaited
<1> QED BY DEF QuestionsInv, LockInv

LEMMA AccountedInv == QuestionsInv => QuestionsAccounted
<1> SUFFICES ASSUME QuestionsInv, NEW t \in Trainers, Choice(t), NEW q \in Requests, OpenedBy(q, t),
                    trainers[t].questions = None
             PROVE  \E r \in { k \in Requests : OpenedBy(k, t) } :
                      \/ requests[r].pc \in {"lock", "enqueue"}
                      \/ requests[r].told \notin {None, r}
                      \/ jobs[r] \in ToCome \cup {"completedNone", "endedNone", "failed"}
                      \/ r \in hit
  BY DEF QuestionsAccounted, OpenedBy
<1>1. PICK r \in Requests : OpenedBy(r, t) /\ Explains(r)
  BY DEF QuestionsInv, ExamInv
<1> QED BY <1>1 DEF Explains, ToCome

\* A client that is answered with the id of a job waits for a job whose end is
\* still announced or was, unless that job's request failed, its process ended
\* or its lock ran out (withUserActiveJobLock hands out whatever job has the
\* lock), for any number of trainers, requests and faults.
THEOREM WaitIsAnsweredCorrect == Spec => []WaitIsAnswered
BY QuestionsCorrect, AnsweredInv, PTL

\* A choice exam that was opened never loses its questions for no reason: it has
\* them, or some request that opened it still works on them, was sent to another
\* job, found none to ask, failed, or was hit (findOneAndExam empties the
\* questions before it asks for the lock).
THEOREM QuestionsAccountedCorrect == Spec => []QuestionsAccounted
BY QuestionsCorrect, AccountedInv, PTL
===============================================================================
