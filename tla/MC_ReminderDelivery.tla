------------------------- MODULE MC_ReminderDelivery -------------------------
(* Instances of ReminderDelivery for TLC: fault budgets and symmetry. *)
EXTENDS ReminderDelivery, TLC

Once(kinds) == [f \in FaultKinds |-> IF f \in kinds THEN 1 ELSE 0]

\* One thing goes wrong: a request or a worker dies, a handler throws, a live worker
\* loses the lock of its job, or the provider fails (as often as there are attempts).
OneFault == { Once({f}) : f \in {"requestCrash", "workerCrash", "handlerError", "stall"} }
            \cup { [f \in FaultKinds |-> IF f = "sendError" THEN MaxAttempts ELSE 0] }
\* What the reconciler is there for.
RecoveryFaults == { Once({"pollerCrash", "jobLoss", "enqueueError", "rollbackError"}) }

Symmetry == Permutations(Pollers) \cup Permutations(Workers) \cup Permutations(Requests)
=============================================================================
