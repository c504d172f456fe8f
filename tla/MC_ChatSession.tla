----------------------------- MODULE MC_ChatSession -----------------------------
(* Instances of ChatSession for TLC: which process a handler slot belongs to. *)
EXTENDS ChatSession, TLC

CONSTANTS w1, w2, i1, i2

TwoInstances == (w1 :> i1 @@ w2 :> i2)

=============================================================================
