------------------------------ MODULE Accounts ------------------------------
(***************************************************************************)
(* Accounts: every user exists twice, as an account of Supabase and as a   *)
(* row of the local table user.  No transaction spans the two, so the      *)
(* services write one after the other and compensate, or do not.           *)
(*                                                                         *)
(* A row carries the identifier of its account, so both are indexed by it. *)
(* Names, telephone, avatar and password are left out; profile says        *)
(* whether the row still has the names the provider reports.               *)
(***************************************************************************)
EXTENDS Naturals, FiniteSets

CONSTANTS Sups,      \* Supabase identifiers, given out in ascending order
          Existing,  \* accounts that exist on both sides at the start
          Emails,
          Calls,     \* service calls in progress
          MaxCalls,  \* bound: calls made in all
          MaxFaults, \* bound: crashes, database and Supabase failures
          NoRow

ASSUME AccountsAssumption == /\ Sups \subseteq Nat \ {0} /\ Existing \subseteq Sups
                             /\ MaxCalls \in Nat /\ MaxFaults \in Nat

\* Rows of the table user; their absence is none of them.
UserRows == [email : Emails, confirmed : BOOLEAN, active : BOOLEAN,
             role : {"GUEST", "MEMBER", "ADMIN"}, profile : BOOLEAN]
ASSUME RowAssumption == NoRow \notin UserRows

VARIABLES sup,       \* Sups -> the Supabase account
          rows,      \* Sups -> the local row or NoRow
          calls,     \* Calls -> the call being served
          left,      \* calls, and changes of address by one-time codes, that may still be made
          faults,    \* faults so far
          disturbed, \* accounts hit by a fault nothing compensates, or by two calls at a time
          offs       \* Sups -> deactivations and reactivations; odd: switched off

accountVars == <<sup, rows, calls, left, faults, disturbed, offs>>

NoCall == [pc |-> "idle", s |-> 0, email |-> "none", by |-> "none"]
Busy(s) == \E c \in Calls : calls[c].s = s
Live(s) == sup[s].st = "live"
Obscured(s) == sup[s].st = "obfuscated"
LiveWith(e) == {s \in Sups : Live(s) /\ sup[s].email = e}
RowsWith(e) == {s \in Sups : rows[s] # NoRow /\ rows[s].email = e}
Unused == {s \in Sups : sup[s].st = "none"}
Fresh == {s \in Unused : \A t \in Unused : s <= t}

Go(c, pc) == calls' = [calls EXCEPT ![c].pc = pc]
End(c) == calls' = [calls EXCEPT ![c] = NoCall]
Spend == left > 0 /\ left' = left - 1
Fault == faults < MaxFaults /\ faults' = faults + 1
\* Two calls about one account at a time disturb it.
Meet(s) == disturbed' = IF Busy(s) THEN disturbed \cup {s} ELSE disturbed

\* moved: its user has changed its address in Supabase, with a code of email_change.
Account(e, origin) ==
  [st |-> "live", email |-> e, confirmed |-> origin = "oauth", origin |-> origin, session |-> FALSE,
   moved |-> FALSE]
\* The user Supabase makes up for the sign-up on an address that is confirmed: its
\* identifier is no account's.
Obfuscated(e) == [Account(e, "signup") EXCEPT !.st = "obfuscated"]
Row(e, confirmed, role) ==
  [email |-> e, confirmed |-> confirmed, active |-> TRUE, role |-> role, profile |-> TRUE]

AccountsInit ==
  /\ \E address \in [Existing -> Emails], role \in {"GUEST", "ADMIN"} :
       /\ \A s, t \in Existing : address[s] = address[t] => s = t
       /\ sup = [s \in Sups |-> IF s \in Existing
                   THEN [Account(address[s], "signup") EXCEPT !.confirmed = TRUE, !.session = TRUE]
                   ELSE [Account("none", "signup") EXCEPT !.st = "none"]]
       /\ rows = [s \in Sups |-> IF s \in Existing THEN Row(address[s], FALSE, role) ELSE NoRow]
  /\ calls = [c \in Calls |-> NoCall]
  /\ faults = 0 /\ disturbed = {}
  /\ offs = [s \in Sups |-> 0]

-----------------------------------------------------------------------------
(* signUp and the administrator's create *)

\* A registered address is refused, or gets the confirmation mail again.
FindByEmail(c, e) ==
  /\ calls[c] = NoCall /\ Spend
  /\ IF RowsWith(e) # {} THEN UNCHANGED calls
     ELSE calls' = [calls EXCEPT ![c] = [pc |-> "signUp", s |-> 0, email |-> e, by |-> "user"]]
  /\ UNCHANGED <<sup, rows, faults, disturbed, offs>>

CreateByAdmin(c, e) ==
  /\ calls[c] = NoCall /\ Spend
  /\ calls' = [calls EXCEPT ![c] = [pc |-> "signUp", s |-> 0, email |-> e, by |-> "admin"]]
  /\ UNCHANGED <<sup, rows, faults, disturbed, offs>>

\* Supabase returns an account still unconfirmed again.  A confirmed one it refuses,
\* or, where addresses have to be confirmed, hides behind an obfuscated user.
SignedUp(c, s) == calls' = [calls EXCEPT ![c].s = s, ![c].pc = "create"] /\ Meet(s)
SupabaseSignUp(c) ==
  LET e == calls[c].email
      known == LiveWith(e)
  IN /\ calls[c].pc = "signUp"
     /\ \/ (\E s \in known : sup[s].confirmed) /\ End(c) /\ UNCHANGED <<sup, disturbed>>
        \/ \E s \in known : ~sup[s].confirmed /\ SignedUp(c, s) /\ UNCHANGED sup
        \/ /\ \A s \in known : sup[s].confirmed
           /\ \E s \in Fresh :
                /\ sup' = [sup EXCEPT ![s] = IF known = {} THEN Account(e, "signup") ELSE Obfuscated(e)]
                /\ SignedUp(c, s)
     /\ UNCHANGED <<rows, left, faults, offs>>

\* The two unique indexes of the row: its account and its address.
Taken(s, e) == rows[s] # NoRow \/ RowsWith(e) # {}

\* Only signUp deletes the account of a row it could not insert.
CreateFailed(c) ==
  IF calls[c].by = "user" THEN Go(c, "compensate") /\ UNCHANGED disturbed
  ELSE /\ End(c)
       /\ disturbed' = IF rows[calls[c].s] = NoRow THEN disturbed \cup {calls[c].s} ELSE disturbed

CreateRow(c) ==
  LET s == calls[c].s
      e == calls[c].email
  IN /\ calls[c].pc = "create"
     /\ \/ /\ ~Taken(s, e)
           /\ rows' = [rows EXCEPT ![s] = Row(e, FALSE, IF calls[c].by = "user" THEN "GUEST" ELSE "MEMBER")]
           /\ End(c) /\ UNCHANGED <<faults, disturbed>>
        \/ Taken(s, e) /\ CreateFailed(c) /\ UNCHANGED <<rows, faults>>
        \/ Fault /\ CreateFailed(c) /\ UNCHANGED rows
     /\ UNCHANGED <<sup, left, offs>>

\* Mutant: a sign-up that could not store its row leaves its account behind.
CompensateNothing(c) ==
  /\ calls[c].pc = "compensate" /\ End(c)
  /\ UNCHANGED <<sup, rows, left, faults, disturbed, offs>>
\* deleteUser answers a failure with an error that is not looked at, that the user is
\* none of Supabase's included.  The account may be another sign-up's, of the same
\* address, that has stored its row meanwhile.
Compensate(c) ==
  LET s == calls[c].s
  IN /\ calls[c].pc = "compensate"
     /\ End(c)
     /\ \/ /\ sup' = IF Live(s) THEN [sup EXCEPT ![s].st = "gone"] ELSE sup
           /\ disturbed' = IF rows[s] # NoRow THEN disturbed \cup {s} ELSE disturbed
           /\ UNCHANGED faults
        \/ Fault /\ disturbed' = disturbed \cup {s} /\ UNCHANGED sup
     /\ UNCHANGED <<rows, left, offs>>

-----------------------------------------------------------------------------
(* Sessions, confirmation and OAuth *)

MayRefresh(s) == Live(s) /\ rows[s] # NoRow /\ rows[s].active
SignIn(s) ==
  /\ sup[s].confirmed /\ ~sup[s].session /\ MayRefresh(s)
  /\ sup' = [sup EXCEPT ![s].session = TRUE]
  /\ UNCHANGED <<rows, calls, left, faults, disturbed, offs>>

Confirmed(s) == [sup[s] EXCEPT !.confirmed = TRUE, !.session = TRUE]
\* A code of signup or recovery confirms the account; one of email_change also gives it
\* the address its user has asked Supabase for.  The row is left alone, with its flag
\* emailConfirmed and its address.
VerifyOtp(s) ==
  /\ Live(s)
  /\ \/ /\ sup[s] # Confirmed(s) /\ sup' = [sup EXCEPT ![s] = Confirmed(s)]
        /\ UNCHANGED left
     \/ /\ Spend
        /\ \E e \in Emails : /\ LiveWith(e) = {}
                            /\ sup' = [sup EXCEPT ![s] = [Confirmed(s) EXCEPT !.email = e, !.moved = TRUE]]
  /\ UNCHANGED <<rows, calls, faults, disturbed, offs>>

\* The change revokes the sessions; signing in again may fail.
ChangePassword(s) ==
  /\ MayRefresh(s) /\ sup[s].session
  /\ Fault /\ sup' = [sup EXCEPT ![s].session = FALSE]
  /\ UNCHANGED <<rows, calls, left, disturbed, offs>>

\* Outside the program: the provider creates a confirmed account.
OAuth(e) ==
  /\ Spend /\ LiveWith(e) = {}
  /\ \E s \in Fresh : sup' = [sup EXCEPT ![s] = [Account(e, "oauth") EXCEPT !.session = TRUE]]
  /\ UNCHANGED <<rows, calls, faults, disturbed, offs>>

Synced(s) == rows[s].confirmed /\ rows[s].profile
Sync(c, s) ==
  /\ calls[c] = NoCall /\ Spend /\ Live(s) /\ sup[s].session
  /\ IF rows[s] # NoRow /\ Synced(s) THEN UNCHANGED <<calls, disturbed>>
     ELSE /\ calls' = [calls EXCEPT ![c] = [pc |-> IF rows[s] = NoRow THEN "syncCreate" ELSE "syncUpdate",
                                            s |-> s, email |-> sup[s].email, by |-> "user"]]
          /\ Meet(s)
  /\ UNCHANGED <<sup, rows, faults, offs>>

\* A row another call has inserted meanwhile is taken as it is.
SyncCreate(c) ==
  LET s == calls[c].s
      e == calls[c].email
  IN /\ calls[c].pc = "syncCreate"
     /\ rows' = IF Taken(s, e) THEN rows ELSE [rows EXCEPT ![s] = Row(e, TRUE, "GUEST")]
     /\ End(c)
     /\ UNCHANGED <<sup, left, faults, disturbed, offs>>

\* Mutant: the next sign-in with OAuth switches the account on again.
SyncedRowActive(r) == [r EXCEPT !.confirmed = TRUE, !.profile = TRUE, !.active = TRUE]
SyncedRow(r) == [r EXCEPT !.confirmed = TRUE, !.profile = TRUE]
SyncUpdate(c) ==
  LET s == calls[c].s
  IN /\ calls[c].pc = "syncUpdate"
     /\ rows' = IF rows[s] = NoRow THEN rows ELSE [rows EXCEPT ![s] = SyncedRow(@)]
     /\ End(c)
     /\ UNCHANGED <<sup, left, faults, disturbed, offs>>

-----------------------------------------------------------------------------
(* Updates and deletions *)

\* A name, the role, or isActive: one write of the row.
UpdateRow(s) ==
  /\ rows[s] # NoRow /\ Spend
  /\ \E on \in BOOLEAN, role \in {rows[s].role, "ADMIN"}, profile \in {rows[s].profile, FALSE} :
       /\ rows' = [rows EXCEPT ![s].active = on, ![s].role = role, ![s].profile = profile]
       /\ rows' # rows
       /\ offs' = [offs EXCEPT ![s] = IF on = rows[s].active THEN @ ELSE @ + 1]
  /\ UNCHANGED <<sup, calls, faults, disturbed>>

DeleteSelf(s) ==
  /\ rows[s] # NoRow /\ rows[s].active /\ Spend
  /\ rows' = [rows EXCEPT ![s].active = FALSE]
  /\ offs' = [offs EXCEPT ![s] = @ + 1]
  /\ UNCHANGED <<sup, calls, faults, disturbed>>

\* A new address goes to Supabase first.
ChangeEmail(c, s, e) ==
  /\ calls[c] = NoCall /\ Spend /\ rows[s] # NoRow /\ rows[s].email # e
  /\ calls' = [calls EXCEPT ![c] = [pc |-> "supabaseEmail", s |-> s, email |-> e, by |-> "admin"]]
  /\ Meet(s)
  /\ UNCHANGED <<sup, rows, faults, offs>>

SupabaseEmail(c) ==
  LET s == calls[c].s
      e == calls[c].email
  IN /\ calls[c].pc = "supabaseEmail"
     /\ \/ /\ Live(s) /\ LiveWith(e) \subseteq {s}
           /\ sup' = [sup EXCEPT ![s].email = e, ![s].moved = FALSE] /\ Go(c, "rowEmail")
        \/ ~(Live(s) /\ LiveWith(e) \subseteq {s}) /\ End(c) /\ UNCHANGED sup
     /\ UNCHANGED <<rows, left, faults, disturbed, offs>>

\* An address the local table refuses stays changed in Supabase.
RowEmail(c) ==
  LET s == calls[c].s
      e == calls[c].email
      ok == rows[s] # NoRow /\ RowsWith(e) \subseteq {s}
  IN /\ calls[c].pc = "rowEmail" /\ End(c)
     /\ \/ ok /\ rows' = [rows EXCEPT ![s].email = e] /\ UNCHANGED <<faults, disturbed>>
        \/ ~ok /\ disturbed' = disturbed \cup {s} /\ UNCHANGED <<rows, faults>>
        \/ Fault /\ disturbed' = disturbed \cup {s} /\ UNCHANGED rows
     /\ UNCHANGED <<sup, left, offs>>

Delete(c, s) ==
  /\ calls[c] = NoCall /\ Spend /\ rows[s] # NoRow
  /\ calls' = [calls EXCEPT ![c] = [NoCall EXCEPT !.pc = "supabaseDelete", !.s = s, !.by = "admin"]]
  /\ Meet(s)
  /\ UNCHANGED <<sup, rows, faults, offs>>

\* The error deleteUser returns is not looked at.
SupabaseDelete(c) ==
  LET s == calls[c].s
  IN /\ calls[c].pc = "supabaseDelete" /\ Go(c, "rowDelete")
     /\ \/ /\ sup' = IF Live(s) THEN [sup EXCEPT ![s].st = "gone"] ELSE sup
           /\ UNCHANGED <<faults, disturbed>>
        \/ Fault /\ disturbed' = disturbed \cup {s} /\ UNCHANGED sup
     /\ UNCHANGED <<rows, left, offs>>

\* Deleting the row ends a deactivation with it.
RowDelete(c) ==
  LET s == calls[c].s
  IN /\ calls[c].pc = "rowDelete" /\ End(c)
     /\ \/ /\ rows' = [rows EXCEPT ![s] = NoRow]
           /\ offs' = [offs EXCEPT ![s] = IF @ % 2 = 1 THEN @ + 1 ELSE @]
           /\ UNCHANGED <<faults, disturbed>>
        \/ Fault /\ disturbed' = disturbed \cup {s} /\ UNCHANGED <<rows, offs>>
     /\ UNCHANGED <<sup, left>>

\* The process dies between two steps.
CallCrash(c) ==
  /\ calls[c] # NoCall /\ Fault /\ End(c)
  /\ disturbed' = disturbed \cup ({calls[c].s} \ {0})
  /\ UNCHANGED <<sup, rows, left, offs>>

AccountsNext ==
  \/ \E c \in Calls : \/ SupabaseSignUp(c) \/ CreateRow(c) \/ Compensate(c)
                      \/ SyncCreate(c) \/ SyncUpdate(c)
                      \/ SupabaseEmail(c) \/ RowEmail(c)
                      \/ SupabaseDelete(c) \/ RowDelete(c) \/ CallCrash(c)
  \/ \E c \in Calls, e \in Emails : FindByEmail(c, e) \/ CreateByAdmin(c, e)
  \/ \E c \in Calls, s \in Sups : Sync(c, s) \/ Delete(c, s)
  \/ \E c \in Calls, s \in Sups, e \in Emails : ChangeEmail(c, s, e)
  \/ \E s \in Sups : \/ SignIn(s) \/ VerifyOtp(s) \/ ChangePassword(s)
                     \/ UpdateRow(s) \/ DeleteSelf(s)
  \/ \E e \in Emails : OAuth(e)

-----------------------------------------------------------------------------
(***************************************************************************)
(* Properties.                                                             *)
(***************************************************************************)

\* The address of the account, unless its user has changed it since.
Address(s, e) == sup[s].email = e \/ sup[s].moved
Agree(s) ==
  /\ rows[s] # NoRow => Obscured(s) \/ (Live(s) /\ Address(s, rows[s].email))
  /\ Live(s) /\ sup[s].origin = "signup" => rows[s] # NoRow
\* Supabase and the local table tell the same users, with the same addresses,
\* whenever no call is under way, except for accounts on which two calls met, that
\* the compensation of a sign-up took from another one, or that a crash or a failure
\* nobody compensates has hit: signUp undoes its own failures (auth.service.ts:83),
\* the other services leave theirs.  Two more exceptions need no failure: a row may
\* keep an address its user has changed with a code of email_change, until an
\* administrator changes it too (auth.service.ts:260), and a sign-up on a confirmed
\* address without a row stores one under an identifier of no account
\* (auth.service.ts:72).
BothSidesAgree == \A s \in Sups : s \notin disturbed /\ ~Busy(s) => Agree(s)
=============================================================================
