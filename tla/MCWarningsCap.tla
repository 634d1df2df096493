--------------------------- MODULE MCWarningsCap ---------------------------
(***************************************************************************)
(* boundedWarnings on every list of up to six warnings of three lengths,   *)
(* and on lists of short ones whose omitted count has two digits.          *)
(***************************************************************************)
EXTENDS WarningsCap, SequencesExt

ShortLists == {[k \in 1..n |-> 1] : n \in 9..12}
MCInputs == SeqOf({1, 4, 12}, 6) \union ShortLists
=============================================================================
