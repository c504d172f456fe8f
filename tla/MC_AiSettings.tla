---------------------------- MODULE MC_AiSettings -----------------------------
(* A call of one user, beside three requests on his settings and the system's. *)
EXTENDS AiSettings, TLC

CONSTANTS alice, special, plain, combo, w1, w2, w3

Symmetry == Permutations(Writers)

\* Every provider has a default of its own but for audio, where OmniRoute has another.
Defaults == [pk \in Providers \X {"text", "audio", "chat"} |->
                IF pk = <<"omniroute", "audio">> THEN {special} ELSE {plain}]
=============================================================================
