---------------------------- MODULE WarningsCap ----------------------------
(***************************************************************************)
(* boundedWarnings (src/buildconfig/converter.go) as the code computes it: *)
(* a loop that writes warning after warning into a builder and breaks off  *)
(* before the first one that would not leave room for the omitted-count    *)
(* line.  WarningsAnnotation says what comes out of it; the Converter uses *)
(* that.                                                                   *)
(***************************************************************************)
EXTENDS WarningsAnnotation

CONSTANT Inputs  \* the lists of warning lengths it may be called with

\* The cap leaves room for the omitted-count line of every input.
ASSUME InputsAssumption ==
  \A lengths \in Inputs : /\ lengths \in Seq(Nat)
                          /\ ReservedLength(lengths) <= MaxConversionWarningsBytes

VARIABLES
  lengths,  \* the lengths of the warnings
  phase,    \* "called", "loop" or "returned"
  kept,     \* warnings written
  omitted,  \* the number in the omitted-count line, 0 without one
  size      \* b.Len(), at the end the length of the result

vars == <<lengths, phase, kept, omitted, size>>

Init ==
  /\ lengths \in Inputs
  /\ phase = "called"
  /\ kept = 0
  /\ omitted = 0
  /\ size = 0

\* Everything fits.
ReturnJoined ==
  /\ phase = "called"
  /\ WithinCap(lengths)
  /\ kept' = Len(lengths)
  /\ size' = JoinedLengths(lengths)[Len(lengths)]
  /\ phase' = "returned"
  /\ UNCHANGED <<lengths, omitted>>

StartLoop ==
  /\ phase = "called"
  /\ ~WithinCap(lengths)
  /\ phase' = "loop"
  /\ UNCHANGED <<lengths, kept, omitted, size>>

Newline == IF kept > 0 THEN 1 ELSE 0

Needed == lengths[kept + 1] + Newline

\* Mutant: a warning that leaves exactly the reserved room breaks the loop.
FitsBelow ==
  kept < Len(lengths) /\ size + Needed + ReservedLength(lengths) < MaxConversionWarningsBytes

Fits ==
  kept < Len(lengths) /\ size + Needed + ReservedLength(lengths) <= MaxConversionWarningsBytes

WriteWarning ==
  /\ phase = "loop"
  /\ Fits
  /\ size' = size + Needed
  /\ kept' = kept + 1
  /\ UNCHANGED <<lengths, phase, omitted>>

\* Mutant: the line that tells how many are missing is counted as missing.
ReturnCutCountingLine ==
  /\ phase = "loop"
  /\ ~Fits
  /\ omitted' = Len(lengths) - kept + 1
  /\ size' = size + Newline + OmittedNoticeLength(Len(lengths) - kept)
  /\ phase' = "returned"
  /\ UNCHANGED <<lengths, kept>>

ReturnCut ==
  /\ phase = "loop"
  /\ ~Fits
  /\ omitted' = Len(lengths) - kept
  /\ size' = size + Newline + OmittedNoticeLength(Len(lengths) - kept)
  /\ phase' = "returned"
  /\ UNCHANGED <<lengths, kept>>

Next == ReturnJoined \/ StartLoop \/ WriteWarning \/ ReturnCut

Spec == Init /\ [][Next]_vars

-----------------------------------------------------------------------------
(* Properties *)

TypeOK ==
  /\ lengths \in Inputs
  /\ phase \in {"called", "loop", "returned"}
  /\ kept \in 0..Len(lengths)
  /\ omitted \in 0..Len(lengths)
  /\ phase # "returned" => size \in Nat

\* The annotation never exceeds its cap, the omitted-count line included
\* (converter.go:333-334, 342-343): the room is reserved before it is known
\* how many digits the count will have.
NeverOverCap == phase = "returned" => size <= MaxConversionWarningsBytes

\* Whole warnings from the first on, as many as possible, and a count that
\* makes up for the rest: what the Converter takes from WarningsAnnotation.
KeepsAsManyAsFit ==
  phase = "returned" => kept = KeptCount(lengths) /\ omitted = Len(lengths) - kept

=============================================================================
