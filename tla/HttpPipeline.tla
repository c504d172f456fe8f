----------------------------- MODULE HttpPipeline -----------------------------
(***************************************************************************)
(* What every HTTP request passes through: the router, GlobalAuthGuard,    *)
(* UserThrottlerGuard, the guards of the handler and the handler, while    *)
(* the accounts the guards read are created, switched off and deleted      *)
(* (Accounts).                                                             *)
(*                                                                         *)
(* One route of the tables is observed, any of them: counters are kept per *)
(* route, and nothing else is shared between routes.                       *)
(***************************************************************************)
EXTENDS Accounts, HttpRoutes, FiniteSetsExt

CONSTANTS Slots,     \* requests in progress
          Ips,
          Tokens,    \* what the callers present
          Watched,   \* bound: paths under which the accounts change meanwhile
          Budget(_)  \* bound: requests a window admits, for a limit of the tables

\* A token names no account but one of Supabase, and a valid one names one.
ASSUME TokensAssumption ==
  \A t \in Tokens : t.s \in Sups \cup {0} /\ (t.kind \in {"jwt", "supabase"} => t.s \in Sups)

Trackers == {<<"user", s>> : s \in Sups} \cup {<<"supabase", s>> : s \in Sups} \cup {<<"ip", i>> : i \in Ips}

VARIABLES route,  \* the route observed: the one its URLs are meant for, and the one they reach
          req,    \* Slots -> the request
          hits    \* trackers -> the requests counted under it in this window

pipelineVars == <<accountVars, route, req, hits>>
httpVars == <<route, req, hits>>

NoToken == [kind |-> "none", s |-> 0, roles |-> {}, restricted |-> FALSE]
NoRequest == [pc |-> "idle", code |-> 0, handler |-> 0, ip |-> "none", token |-> NoToken,
              tracker |-> <<>>, role |-> {}, ver |-> 0]
Rt(p) == Routes[req[p].handler]
Step(p, pc) == req' = [req EXCEPT ![p].pc = pc]
Answer(p, code) == req' = [req EXCEPT ![p] = [@ EXCEPT !.pc = "answered", !.code = code]]

-----------------------------------------------------------------------------
(* Routing *)

\* A URL of the route: a value for every parameter.
Url(path) == [i \in DOMAIN path |-> IF path[i] = "*" THEN "value" ELSE path[i]]
Matches(path, url) == Len(path) = Len(url) /\ \A i \in DOMAIN url : path[i] \in {"*", url[i]}
\* The first route registered that takes the URLs of route i.
Dispatch(i) ==
  Min({j \in DOMAIN Routes : /\ Routes[j].method = Routes[i].method
                             /\ Matches(Routes[j].path, Url(Routes[i].path))})

Arrive(p, ip, token) ==
  /\ req[p].pc \in {"idle", "answered"} /\ Spend
  /\ token.kind = "supabase" => sup[token.s].session
  /\ token.kind = "none" \/ ~Routes[route.reached].open
  /\ req' = [req EXCEPT ![p] =
       [NoRequest EXCEPT !.pc = "authenticate", !.ip = ip, !.token = token,
                         !.handler = route.reached,
                         !.ver = IF token.s = 0 THEN 0 ELSE offs[token.s]]]
  /\ UNCHANGED <<sup, rows, calls, faults, disturbed, offs, route, hits>>

-----------------------------------------------------------------------------
(* GlobalAuthGuard: the token, then the row of its user *)

\* combined: an application token, or else whatever Supabase knows.
Verified(token, strategy) ==
  \/ token.kind = "jwt" /\ strategy \in {"jwt", "combined"}
  \/ token.kind = "supabase" /\ strategy \in {"supabase", "combined"}
     /\ Live(token.s) /\ sup[token.s].session

\* Mutant: the row of the user is bound whatever its state.
BindsAnyRow(s) == TRUE
\* A deactivated account is refused; a user without a row is not.
Binds(s) == rows[s] # NoRow => rows[s].active
Admitted(p, strategy) == Verified(req[p].token, strategy) /\ Binds(req[p].token.s)

\* The identifier of a Supabase token gives way to the identifier of the row.
AuthUserId(token) ==
  IF token.kind = "jwt" \/ rows[token.s] # NoRow THEN <<"user", token.s>> ELSE <<"supabase", token.s>>
RowRole(s) == IF rows[s] = NoRow THEN {} ELSE {rows[s].role}

Authenticate(p) ==
  LET token == req[p].token
  IN /\ req[p].pc = "authenticate"
     /\ \/ Rt(p).open /\ Step(p, "throttle")
        \/ /\ ~Rt(p).open /\ Admitted(p, Rt(p).strategy)
           /\ req' = [req EXCEPT ![p] = [@ EXCEPT !.pc = "throttle", !.tracker = AuthUserId(token),
                                                  !.role = RowRole(token.s)]]
        \/ ~Rt(p).open /\ ~Admitted(p, Rt(p).strategy) /\ Answer(p, 401)
     /\ UNCHANGED <<accountVars, route, hits>>

-----------------------------------------------------------------------------
(* UserThrottlerGuard: one counter per route and tracker *)

\* Mutant: the throttler does not know the user the guard before it has bound.
TrackerByAddress(r) == <<"ip", r.ip>>
\* The user if one is bound, the address of a public request.
Tracker(r) == IF r.tracker = <<>> THEN <<"ip", r.ip>> ELSE r.tracker
\* What is known of who sent a request: the account of its token, 0 if none, and its address.
Sender(r) == [s |-> r.token.s, ip |-> r.ip]

Throttle(p) ==
  LET t == Tracker(req[p])
  IN /\ req[p].pc = "throttle"
     /\ hits' = [hits EXCEPT ![t] = Append(@, Sender(req[p]))]
     /\ IF Len(hits[t]) + 1 > Budget(Rt(p).limit) THEN Answer(p, 429) ELSE Step(p, "authorize")
     /\ UNCHANGED <<accountVars, route>>

\* The window of a tracker ends.
WindowEnds(t) ==
  /\ hits[t] # <<>>
  /\ hits' = [hits EXCEPT ![t] = <<>>]
  /\ UNCHANGED <<accountVars, route, req>>

-----------------------------------------------------------------------------
(* The guards of the handler, and the handler *)

\* Roles claimed by the token come before the role of the row.
EffectiveRoles(r) == IF r.token.roles # {} THEN r.token.roles ELSE r.role
RolesGuard(p) == Rt(p).roles # {} => Rt(p).roles \cap EffectiveRoles(req[p]) # {}
RestrictedGuard(p) == Rt(p).guard = "restricted" => req[p].token.kind = "jwt" /\ req[p].token.restricted
\* JwtAuthGuard and CombinedAuthGuard verify and bind once more.
Reverified(p) == Rt(p).guard \in {"jwt", "combined"} => Admitted(p, Rt(p).guard)
\* An unknown key, one without the scope, or one that may add entries.
ApiKeyAnswers == {401, 403, 0}

Authorize(p) ==
  /\ req[p].pc = "authorize"
  /\ \/ ~Reverified(p) /\ Answer(p, 401)
     \/ Reverified(p) /\ ~(RolesGuard(p) /\ RestrictedGuard(p)) /\ Answer(p, 403)
     \/ /\ Reverified(p) /\ RolesGuard(p) /\ RestrictedGuard(p)
        /\ \E code \in IF Rt(p).guard = "apiKey" THEN ApiKeyAnswers ELSE {0} :
             IF code = 0 THEN Step(p, "handle") ELSE Answer(p, code)
  /\ UNCHANGED <<accountVars, route, hits>>

\* The handler ends; what it answers, and the statuses the exception filters give its
\* errors, change nothing here.
Handle(p) ==
  /\ req[p].pc = "handle"
  /\ Answer(p, 200)
  /\ UNCHANGED <<accountVars, route, hits>>

-----------------------------------------------------------------------------
PipelineInit ==
  /\ AccountsInit
  /\ left = MaxCalls
  /\ route \in {[declared |-> i, reached |-> Dispatch(i)] : i \in DOMAIN Routes}
  /\ req = [p \in Slots |-> NoRequest]
  /\ hits = [t \in Trackers |-> <<>>]

RequestStep(p) ==
  \/ \E ip \in Ips, token \in Tokens : Arrive(p, ip, token)
  \/ Authenticate(p) \/ Throttle(p) \/ Authorize(p) \/ Handle(p)

AccountStep == Routes[route.declared].path \in Watched /\ AccountsNext /\ UNCHANGED httpVars

PipelineNext == \/ \E p \in Slots : RequestStep(p)
        \/ \E t \in Trackers : WindowEnds(t)
        \/ AccountStep

PipelineSpec == PipelineInit /\ [][PipelineNext]_pipelineVars

-----------------------------------------------------------------------------
(***************************************************************************)
(* Properties.                                                             *)
(***************************************************************************)

\* A request for a declared path reaches the handler declared for it: no route
\* before it takes it, as ':id' would take 'my', 'random', 'reorder' or 'me'
\* (language-folder.controller.ts:30, user.controller.ts:66).
DispatchedAsDeclared == \A p \in Slots : req[p].handler \in {0, route.declared}

\* The requests of a window that are of the sender of r: those of its account, under
\* whatever token and from whatever address.  A public route knows no account, only
\* the address, which several people may share.
OwnRequests(r, window) ==
  {i \in DOMAIN window : IF Routes[r.handler].open THEN window[i].ip = r.ip
                                                   ELSE window[i].s = r.token.s}
\* A signed-in user is turned away only once its own account has sent more than the
\* limit in the window, whoever else is behind its address and whichever tokens it
\* uses, and even if its row comes or goes meanwhile.  On a public route the same
\* holds of the address: people behind one address use up one window together
\* (user-throttler.guard.ts:22 and 38; application.module.ts:96 puts the guard that
\* binds the user first).
ThrottledByOwnRequests ==
  [][\A p \in Slots, t \in Trackers :
       Throttle(p) /\ req'[p].pc = "answered" /\ hits'[t] # hits[t] =>
         Cardinality(OwnRequests(req[p], hits'[t])) > Budget(Rt(p).limit)]_pipelineVars

\* From its deactivation until an administrator undoes it, no request an account
\* sends under its token reaches a handler, whatever OAuth synchronisation,
\* one-time code or new session comes in between (bind-request-user.util.ts:14,
\* auth.service.ts:348).
DeactivatedLockedOut ==
  \A p \in Slots : req[p].pc = "handle" /\ ~Rt(p).open /\ req[p].ver % 2 = 1
                     => offs[req[p].token.s] # req[p].ver
=============================================================================
