--------------------------- MODULE MC_HttpPipeline ---------------------------
(* Instance of HttpPipeline for TLC. *)
EXTENDS HttpPipeline, TLC

Token(kind, s, roles, restricted) ==
  [kind |-> kind, s |-> s, roles |-> roles, restricted |-> restricted]
\* Supabase tokens of either account, an application token that claims roles
\* and the restricted one, and a token nobody has issued.
MCTokens == {NoToken, Token("forged", 0, {}, FALSE), Token("jwt", 2, Admin \cup {"user"}, TRUE)}
            \cup {Token("supabase", s, {}, FALSE) : s \in Sups}

\* The limits 50 and 60 admit two requests, the others one.
MCBudget(limit) == IF limit >= 50 THEN 2 ELSE 1

\* The accounts change while POST /auth/change-password is observed.
MCWatched == {<<"auth", "change-password">>}

Symmetry == Permutations(Slots) \cup Permutations(Calls)
=============================================================================
