--------------------------- MODULE MC_RelatedWords ---------------------------
(* Three words, one of them created during the run; concurrent requests of   *)
(* which at most MaxOps are made.                                            *)
EXTENDS RelatedWords, TLC

MCIds == 1 .. 3
MCExisting == {1, 2}
=============================================================================
