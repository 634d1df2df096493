---------------------------- MODULE MCReasonCut ----------------------------
(***************************************************************************)
(* Instances of ReasonCut for TLC: every reason of up to seven characters  *)
(* and MaxBytes bytes, so characters of every width at every place around  *)
(* the limit.                                                              *)
(***************************************************************************)
EXTENDS ReasonCut

CONSTANT MaxBytes    \* bound: the longest reason

Character(width) == [k \in 1..width |-> IF k = 1 THEN width ELSE Continuation]
Written(widths) == FlattenSeq([k \in DOMAIN widths |-> Character(widths[k])])

MCReasons ==
  {s \in {Written(widths) : widths \in SeqOf(1..4, 7)} : Len(s) <= MaxBytes}

=============================================================================
