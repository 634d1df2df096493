----------------------------- MODULE ReasonCut -----------------------------
(***************************************************************************)
(* How a reason is cut to the annotation's limit: truncateReason in        *)
(* src/buildconfig/disposition.go, one step of its loop at a time.         *)
(*                                                                         *)
(* Of a byte the loop sees only what UTF-8 makes of it: the first byte of  *)
(* a character is its width in bytes, any other byte is Continuation.      *)
(***************************************************************************)
EXTENDS Naturals, Sequences, SequencesExt

CONSTANTS
  MaxConversionReasonBytes,   \* the limit, 4 KiB in the code
  Reasons                     \* the reasons an Outcome may carry

VARIABLES
  reason,      \* as the Outcome carries it
  truncated,   \* what is left of it; in the end, what is returned
  step         \* "cut", "trim" or "done"

Continuation == 0
Ellipsis == <<3, Continuation, Continuation>>

\* utf8.ValidString: every character has all its bytes, and no byte is stray.
ValidString(s) ==
  /\ \A k \in DOMAIN s : s[k] # Continuation =>
       /\ k + s[k] <= Len(s) + 1
       /\ \A j \in DOMAIN s : k < j /\ j < k + s[k] => s[j] = Continuation
  /\ \A k \in DOMAIN s : s[k] = Continuation =>
       \E j \in DOMAIN s : j < k /\ k < j + s[j]

ASSUME ReasonCutAssumption ==
  /\ MaxConversionReasonBytes \in Nat
  /\ MaxConversionReasonBytes >= Len(Ellipsis)
  /\ Reasons \subseteq {s \in Seq(0..4) : ValidString(s)}

Room == MaxConversionReasonBytes - Len(Ellipsis)

Init ==
  /\ reason \in Reasons
  /\ truncated = <<>>
  /\ step = "cut"

ReturnAsItIs ==
  /\ step = "cut"
  /\ Len(reason) <= MaxConversionReasonBytes
  /\ truncated' = reason
  /\ step' = "done"
  /\ UNCHANGED reason

\* Mutant: the ellipsis is not counted.
CutAtTheLimit ==
  /\ step = "cut"
  /\ Len(reason) > MaxConversionReasonBytes
  /\ truncated' = SubSeq(reason, 1, MaxConversionReasonBytes)
  /\ step' = "trim"
  /\ UNCHANGED reason

Cut ==
  /\ step = "cut"
  /\ Len(reason) > MaxConversionReasonBytes
  /\ truncated' = SubSeq(reason, 1, Room)
  /\ step' = "trim"
  /\ UNCHANGED reason

\* Mutant: the loop goes on to the last single-byte character.
TrimToOneByte ==
  /\ step = "trim"
  /\ truncated # <<>> /\ (~ValidString(truncated) \/ Last(truncated) # 1)
  /\ truncated' = Front(truncated)
  /\ UNCHANGED <<reason, step>>

Trim ==
  /\ step = "trim"
  /\ truncated # <<>> /\ ~ValidString(truncated)
  /\ truncated' = Front(truncated)
  /\ UNCHANGED <<reason, step>>

\* Mutant: the loop stops at the first byte of the broken character.
AppendAtFirstByte ==
  /\ step = "trim"
  /\ truncated = <<>> \/ ValidString(truncated) \/ Last(truncated) # Continuation
  /\ truncated' = truncated \o Ellipsis
  /\ step' = "done"
  /\ UNCHANGED reason

AppendEllipsis ==
  /\ step = "trim"
  /\ truncated = <<>> \/ ValidString(truncated)
  /\ truncated' = truncated \o Ellipsis
  /\ step' = "done"
  /\ UNCHANGED reason

Next == ReturnAsItIs \/ Cut \/ Trim \/ AppendEllipsis

cutVars == <<reason, truncated, step>>
Spec == Init /\ [][Next]_cutVars

-----------------------------------------------------------------------------
(* What the cut promises *)

\* The annotation's value is within the limit, its ellipsis included
\* (disposition.go:85-86).
ReasonFits == step = "done" => Len(truncated) <= MaxConversionReasonBytes

\* Wherever the limit falls, the value is valid UTF-8 (disposition.go:84-85).
ReasonStaysValid == step = "done" => ValidString(truncated)

\* Trimming takes away at most the one character that the limit has broken:
\* three bytes, and only bytes with which the reason would not be valid.
OnlyABrokenCharacterIsCut ==
  step # "cut" /\ Len(reason) > MaxConversionReasonBytes =>
    LET kept == IF step = "done" THEN Len(truncated) - Len(Ellipsis) ELSE Len(truncated)
    IN  /\ Room - kept <= 3
        /\ SubSeq(truncated, 1, kept) = SubSeq(reason, 1, kept)
        /\ \A n \in (kept + 1)..Room : ~ValidString(SubSeq(reason, 1, n))

=============================================================================
