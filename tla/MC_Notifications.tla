-------------------------- MODULE MC_Notifications --------------------------
(* Two users with a device they share, a creating job, two runs of the handler.  *)
EXTENDS Notifications, TLC

MCNoteIds == 1 .. 3
Sym == Permutations(Users)
       \cup Permutations(Runners) \cup Permutations(Calls)
=============================================================================
