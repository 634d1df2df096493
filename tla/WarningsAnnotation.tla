------------------------- MODULE WarningsAnnotation -------------------------
(***************************************************************************)
(* The size-capped text of the conversion-warnings annotation              *)
(* (boundedWarnings in src/buildconfig/converter.go), by its lengths: how  *)
(* many of the warnings it keeps, given the length of each.                *)
(***************************************************************************)
EXTENDS Naturals, Sequences, FiniteSets

CONSTANTS
  MaxConversionWarningsBytes,  \* 32 KiB in the code
  NoticeBytes                  \* the omitted-count line without its number

ASSUME AnnotationAssumption ==
  /\ MaxConversionWarningsBytes \in Nat
  /\ NoticeBytes \in Nat

\* Decimal digits of a count below 10^9.
Digits(count) == 1 + Cardinality({k \in 1..8 : 10^k <= count})

OmittedNoticeLength(omitted) == NoticeBytes + Digits(omitted)

\* The length of the first k texts joined by newlines.
JoinedLengths(lengths) ==
  LET joined[k \in 0..Len(lengths)] ==
        IF k = 0 THEN 0
        ELSE joined[k - 1] + lengths[k] + (IF k > 1 THEN 1 ELSE 0)
  IN  joined

WithinCap(lengths) ==
  JoinedLengths(lengths)[Len(lengths)] <= MaxConversionWarningsBytes

\* Mutant: the newline before the notice is forgotten.
ReservedWithoutNewline(lengths) == OmittedNoticeLength(Len(lengths))

\* Room for the notice is reserved for the worst case, all of them omitted,
\* with its own newline.
ReservedLength(lengths) == OmittedNoticeLength(Len(lengths)) + 1

\* Whole warnings from the first on, as long as they leave the reserved room.
KeptCount(lengths) ==
  IF WithinCap(lengths)
  THEN Len(lengths)
  ELSE CHOOSE k \in 0..Len(lengths) :
         LET fits(j) == \/ j = 0
                        \/ JoinedLengths(lengths)[j] + ReservedLength(lengths)
                             <= MaxConversionWarningsBytes
         IN  fits(k) /\ \A j \in (k + 1)..Len(lengths) : ~fits(j)

=============================================================================
