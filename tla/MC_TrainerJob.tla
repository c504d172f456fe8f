----------------------------- MODULE MC_TrainerJob -----------------------------
(* Instances of TrainerJob for TLC: the kinds of jobs and the faults. *)
EXTENDS TrainerJob, TLC

CONSTANTS f1, f2, a1, c1

MCKinds == (f1 :> "fill" @@ f2 :> "fill" @@ c1 :> "choice" @@ a1 :> "audio")

Times(counts) == [f \in FaultKinds |-> IF f \in DOMAIN counts THEN counts[f] ELSE 0]

\* What retries are made for and the failures they are not made for, and
\* everything that can leave the lock behind or take it from its owner.
MCFaults == { Times(f :> 1) : f \in FaultKinds }
=============================================================================
