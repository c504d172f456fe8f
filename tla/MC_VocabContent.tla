--------------------------- MODULE MC_VocabContent ---------------------------
(* Requests of a guest over the words "a", "A" and "b": creations with a      *)
(* placeholder and two new subjects, edits, deletions, single targets with a  *)
(* link to another user's subject, an import of three rows in two groups.     *)
EXTENDS VocabContent, TLC

MCLower == ("" :> "") @@ ("a" :> "a") @@ ("A" :> "a") @@ ("b" :> "b")
                      @@ ("x" :> "x") @@ ("X" :> "x") @@ ("n" :> "n") @@ ("m" :> "m")
Body(op, src, texts, names) ==
  [op |-> op, src |-> src, texts |-> texts, names |-> names, guest |-> TRUE, rows |-> {},
   links |-> {}]
MCInputs ==
  { Body("create", "A", {""}, {"n", "m"}), Body("create", "a", {"x"}, {}),
    [Body("create", "b", {""}, {}) EXCEPT !.guest = FALSE],
    Body("update", "b", {"X"}, {}), [Body("addTarget", "", {"x"}, {}) EXCEPT !.links = {1}],
    [Body("editTarget", "", {"X"}, {}) EXCEPT !.links = {1}],
    [Body("import", "", {}, {}) EXCEPT !.rows =
       {[src |-> "A", text |-> "x"], [src |-> "a", text |-> "X"], [src |-> "b", text |-> "x"]}] }
  \cup { Body(op, "", {}, {}) : op \in {"delete", "removeTarget", "deleteFolder", "dropSubject"} }
  \cup { Body("subject", "", {}, {"n"}) }
MCIds == 1 .. 4
MCSubIds == 1 .. 4
MCForeign == {1}
Sym == Permutations(Calls) \cup Permutations(Workers)
=============================================================================
