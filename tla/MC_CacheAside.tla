---------------------------- MODULE MC_CacheAside ----------------------------
(* Two operations at a time over any one entry. *)
EXTENDS CacheAside, TLC

Sym == Permutations(Calls)
=============================================================================
