------------------------- MODULE WarningsCapProofs -------------------------
(***************************************************************************)
(* The warnings annotation stays within its cap whatever the warnings and  *)
(* the cap.  While the loop runs, what is written leaves the reserved room *)
(* free; the omitted-count line never takes more than that, because a      *)
(* smaller count never has more digits.  And it keeps as many as fit: the  *)
(* joined lengths only grow, so that the first warning to break the loop   *)
(* is the first not to leave the room, and no later one does.              *)
(***************************************************************************)
EXTENDS WarningsCap, TLAPS, FiniteSetTheorems, WellFoundedInduction

\* A smaller count never has more digits.
LEMMA DigitsMonotone ==
  ASSUME NEW m \in Nat, NEW n \in Nat, m <= n
  PROVE  Digits(m) \in Nat /\ Digits(n) \in Nat /\ Digits(m) <= Digits(n)
<1> DEFINE powers(count) == {k \in 1..8 : 10^k <= count}
<1>1. IsFiniteSet(1..8)
  <2>1. 1 \in Int /\ 8 \in Int
    OBVIOUS
  <2>2. QED
    BY <2>1, FS_Interval, Zenon
<1>2. powers(m) \subseteq 1..8 /\ powers(n) \subseteq 1..8
  OBVIOUS
<1>3. \A k \in 1..8 : 10^k \in Int
  OBVIOUS
<1>4. powers(m) \subseteq powers(n)
  BY <1>3
<1> HIDE DEF powers
<1>5. IsFiniteSet(powers(m)) /\ IsFiniteSet(powers(n))
  BY <1>1, <1>2, FS_Subset
<1>6. /\ Cardinality(powers(m)) \in Nat
      /\ Cardinality(powers(n)) \in Nat
      /\ Cardinality(powers(m)) <= Cardinality(powers(n))
  BY <1>4, <1>5, FS_Subset, FS_CardinalityType
<1>7. Digits(m) = 1 + Cardinality(powers(m)) /\ Digits(n) = 1 + Cardinality(powers(n))
  BY DEF Digits, powers
<1>8. QED
  BY <1>6, <1>7

\* The omitted-count line fits into the reserved room, its newline included.
LEMMA NoticeFits ==
  ASSUME NEW texts \in Seq(Nat), NEW count \in 0..Len(texts)
  PROVE  /\ OmittedNoticeLength(count) \in Nat
         /\ ReservedLength(texts) \in Nat
         /\ OmittedNoticeLength(count) + 1 <= ReservedLength(texts)
<1>1. Len(texts) \in Nat /\ count \in Nat /\ count <= Len(texts)
  OBVIOUS
<1>2. Digits(count) \in Nat /\ Digits(Len(texts)) \in Nat /\ Digits(count) <= Digits(Len(texts))
  BY <1>1, DigitsMonotone
<1>3. QED
  BY <1>2, AnnotationAssumption DEF OmittedNoticeLength, ReservedLength

\* The loop leaves the reserved room free; once returned, the cap is kept.
CapInv ==
  /\ TypeOK
  /\ phase = "called" => size = 0
  /\ phase = "loop" => size + ReservedLength(lengths) <= MaxConversionWarningsBytes
  /\ NeverOverCap

\* A call starts with nothing written.
LEMMA Initially ==
  Init => CapInv
<1> SUFFICES ASSUME Init PROVE CapInv
  OBVIOUS
<1>1. lengths \in Seq(Nat)
  BY InputsAssumption DEF Init
<1>2. QED
  BY <1>1 DEF Init, CapInv, TypeOK, NeverOverCap

\* Every step keeps the room, or returns within the cap.
LEMMA Inductive ==
  CapInv /\ [Next]_vars => CapInv'
<1> SUFFICES ASSUME CapInv, [Next]_vars PROVE CapInv'
  OBVIOUS
<1>1. /\ lengths \in Seq(Nat)
      /\ ReservedLength(lengths) <= MaxConversionWarningsBytes
      /\ Len(lengths) \in Nat
      /\ kept \in 0..Len(lengths)
  BY InputsAssumption DEF CapInv, TypeOK
<1>2. ReservedLength(lengths) \in Nat /\ MaxConversionWarningsBytes \in Nat
  BY <1>1, NoticeFits, AnnotationAssumption
<1>3. CASE ReturnJoined
  BY <1>1, <1>3 DEF ReturnJoined, WithinCap, CapInv, TypeOK, NeverOverCap
<1>4. CASE StartLoop
  <2>1. size = 0
    BY <1>4 DEF StartLoop, CapInv
  <2>2. QED
    BY <1>1, <1>2, <1>4, <2>1 DEF StartLoop, CapInv, TypeOK, NeverOverCap
<1>5. CASE WriteWarning
  <2>1. kept + 1 \in 1..Len(lengths) /\ lengths[kept + 1] \in Nat
    BY <1>1, <1>5 DEF WriteWarning, Fits
  <2>2. Newline \in Nat /\ Needed \in Nat
    BY <2>1 DEF Newline, Needed
  <2>3. QED
    BY <1>1, <1>2, <1>5, <2>1, <2>2, SMTT(30) DEF WriteWarning, Fits, CapInv, TypeOK, NeverOverCap
<1>6. CASE ReturnCut
  <2>1. Len(lengths) - kept \in 0..Len(lengths)
    BY <1>1
  <2>2. /\ OmittedNoticeLength(Len(lengths) - kept) \in Nat
        /\ OmittedNoticeLength(Len(lengths) - kept) + 1 <= ReservedLength(lengths)
    BY <1>1, <2>1, NoticeFits
  <2>3. Newline \in {0, 1} /\ size \in Nat
    BY <1>6 DEF Newline, ReturnCut, CapInv, TypeOK
  <2>4. size' <= MaxConversionWarningsBytes
    BY <1>2, <1>6, <2>2, <2>3 DEF ReturnCut, CapInv
  <2>5. QED
    BY <1>1, <1>6, <2>1, <2>4 DEF ReturnCut, CapInv, TypeOK, NeverOverCap
<1>7. CASE UNCHANGED vars
  BY <1>7 DEF vars, CapInv, TypeOK, NeverOverCap
<1>8. QED
  BY <1>3, <1>4, <1>5, <1>6, <1>7 DEF Next

\* The annotation never exceeds its cap, whatever the warnings, the cap and the
\* wording of the omitted-count line (boundedWarnings, converter.go:333-366).
THEOREM CapKept ==
  Spec => []NeverOverCap
<1>1. CapInv => NeverOverCap
  BY DEF CapInv
<1>2. QED
  BY <1>1, Initially, Inductive, PTL DEF Spec

\* The loop never leaves its list: what it keeps and what it counts as omitted
\* stay within the warnings it was given (converter.go:345-366).
THEOREM CapTypeCorrectness ==
  Spec => []TypeOK
<1>1. CapInv => TypeOK
  BY DEF CapInv
<1>2. QED
  BY <1>1, Initially, Inductive, PTL DEF Spec

-----------------------------------------------------------------------------
(* The joined lengths *)

\* A set of natural numbers has a least element.
LEMMA LeastNatural ==
  ASSUME NEW T, T \subseteq Nat, T # {}
  PROVE  \E x \in T : \A y \in T : x <= y
<1> DEFINE R == OpToRel(<, Nat)
<1>1. \A x, y \in Nat : <<y, x>> \in R <=> y < x
  BY DEF OpToRel
<1>2. IsWellFoundedOn(R, Nat)
  BY NatLessThanWellFounded
<1> HIDE DEF R
<1>3. PICK x \in T : \A y \in T : ~ (<<y, x>> \in R)
  BY <1>2, WFMin, Zenon
<1>4. \A y \in T : x \in Nat /\ y \in Nat
  OBVIOUS
<1>5. \A y \in T : ~(y < x)
  BY <1>1, <1>3, <1>4, Zenon
<1>6. \A y \in T : x <= y
  BY <1>4, <1>5
<1>7. QED
  BY <1>6

\* A text and the newline before it.
Part(texts, k) == texts[k] + (IF k > 1 THEN 1 ELSE 0)

\* sums are the joined lengths of the first m texts.
SumsUpTo(texts, m, sums) ==
  /\ sums \in [0..m -> Nat]
  /\ sums[0] = 0
  /\ \A k \in 1..m : sums[k] = sums[k - 1] + Part(texts, k)

\* There are such sums for every list.
LEMMA SumsExist ==
  ASSUME NEW texts \in Seq(Nat)
  PROVE  \E sums : SumsUpTo(texts, Len(texts), sums)
<1> DEFINE missing == {m \in 0..Len(texts) : \A sums : ~SumsUpTo(texts, m, sums)}
<1>0. Len(texts) \in Nat /\ \A k \in 1..Len(texts) : texts[k] \in Nat
  OBVIOUS
<1>1. SUFFICES ASSUME missing # {} PROVE FALSE
  BY <1>0
<1>2. missing \subseteq Nat
  OBVIOUS
<1>3. PICK m \in missing : \A other \in missing : m <= other
  BY <1>1, <1>2, LeastNatural
<1>4. m \in 0..Len(texts) /\ \A sums : ~SumsUpTo(texts, m, sums)
  OBVIOUS
<1>5. CASE m = 0
  <2>1. SumsUpTo(texts, 0, [k \in 0..0 |-> 0])
    BY DEF SumsUpTo
  <2>2. QED
    BY <1>4, <1>5, <2>1
<1>6. CASE m # 0
  <2>1. m - 1 \in 0..Len(texts) /\ m - 1 \notin missing
    BY <1>0, <1>3, <1>4, <1>6
  <2>2. PICK sums : SumsUpTo(texts, m - 1, sums)
    BY <2>1
  <2> DEFINE more == [k \in 0..m |-> IF k < m THEN sums[k] ELSE sums[m - 1] + Part(texts, m)]
  <2>3. m \in 1..Len(texts) /\ Part(texts, m) \in Nat
    BY <1>0, <1>4, <1>6 DEF Part
  <2>4. /\ \A k \in 0..(m - 1) : sums[k] \in Nat
        /\ sums[0] = 0
        /\ \A k \in 1..(m - 1) : sums[k] = sums[k - 1] + Part(texts, k)
    BY <2>2 DEF SumsUpTo
  <2>5. more \in [0..m -> Nat]
    BY <2>3, <2>4
  <2>6. more[0] = 0
    BY <2>3, <2>4
  <2>7. ASSUME NEW k \in 1..m
        PROVE  more[k] = more[k - 1] + Part(texts, k)
    <3>1. more[k - 1] = sums[k - 1]
      BY <2>3
    <3>2. CASE k < m
      <4>1. k \in 1..(m - 1) /\ more[k] = sums[k]
        BY <2>3, <3>2
      <4>2. QED
        BY <2>4, <3>1, <4>1
    <3>3. CASE k = m
      BY <2>3, <3>1, <3>3
    <3>4. QED
      BY <2>3, <3>2, <3>3
  <2> HIDE DEF more
  <2>8. SumsUpTo(texts, m, more)
    BY <2>5, <2>6, <2>7 DEF SumsUpTo
  <2>9. QED
    BY <1>4, <2>8
<1>7. QED
  BY <1>5, <1>6

\* What the recursive definition computes.
LEMMA JoinedAre ==
  ASSUME NEW texts \in Seq(Nat)
  PROVE  SumsUpTo(texts, Len(texts), JoinedLengths(texts))
<1> DEFINE next(joined, k) == IF k = 0 THEN 0
                              ELSE joined[k - 1] + texts[k] + (IF k > 1 THEN 1 ELSE 0)
           unfolds(joined) == joined = [k \in 0..Len(texts) |-> next(joined, k)]
<1>0. Len(texts) \in Nat /\ \A k \in 1..Len(texts) : texts[k] \in Nat
  OBVIOUS
<1>1. PICK sums : SumsUpTo(texts, Len(texts), sums)
  BY SumsExist
<1>2. unfolds(sums)
  <2>1. sums \in [0..Len(texts) -> Nat]
    BY <1>1 DEF SumsUpTo
  <2>2. \A k \in 0..Len(texts) : sums[k] = next(sums, k)
    <3> SUFFICES ASSUME NEW k \in 0..Len(texts) PROVE sums[k] = next(sums, k)
      OBVIOUS
    <3>1. CASE k = 0
      BY <1>1, <3>1 DEF SumsUpTo
    <3>2. CASE k # 0
      <4>1. k \in 1..Len(texts) /\ k - 1 \in 0..Len(texts) /\ texts[k] \in Nat
        BY <1>0, <3>2
      <4>2. sums[k - 1] \in Nat /\ sums[k] = sums[k - 1] + (texts[k] + (IF k > 1 THEN 1 ELSE 0))
        BY <1>1, <4>1 DEF SumsUpTo, Part
      <4>3. QED
        BY <3>2, <4>1, <4>2
    <3>3. QED
      BY <3>1, <3>2
  <2> HIDE DEF next
  <2>3. QED
    BY <2>1, <2>2
<1>3. JoinedLengths(texts) = CHOOSE joined : unfolds(joined)
  BY DEF JoinedLengths
<1>4. PICK joined : joined = JoinedLengths(texts) /\ unfolds(joined)
  <2> HIDE DEF unfolds
  <2>1. unfolds(CHOOSE joined : unfolds(joined))
    BY <1>2
  <2>2. QED
    BY <1>3, <2>1
<1>5. \A k \in 0..Len(texts) : joined[k] = next(joined, k)
  <2> HIDE DEF next
  <2>1. QED
    BY <1>4
<1>6. \A k \in 0..Len(texts) : joined[k] \in Nat
  <2> DEFINE wrong == {k \in 0..Len(texts) : joined[k] \notin Nat}
  <2>1. SUFFICES ASSUME wrong # {} PROVE FALSE
    OBVIOUS
  <2>2. wrong \subseteq Nat
    OBVIOUS
  <2>3. PICK k \in wrong : \A other \in wrong : k <= other
    BY <2>1, <2>2, LeastNatural
  <2>4. k \in 0..Len(texts) /\ joined[k] \notin Nat /\ joined[k] = next(joined, k)
    BY <1>5
  <2>5. k # 0
    BY <2>4
  <2>6. k - 1 \in 0..Len(texts) /\ k - 1 \notin wrong /\ k \in 1..Len(texts)
    BY <1>0, <2>3, <2>4, <2>5
  <2>7. joined[k - 1] \in Nat /\ texts[k] \in Nat
    BY <1>0, <2>6
  <2>8. QED
    BY <2>4, <2>5, <2>7
<1>7. joined \in [0..Len(texts) -> Nat]
  <2>1. joined = [k \in 0..Len(texts) |-> joined[k]]
    <3> HIDE DEF next
    <3>1. QED
      BY <1>4, <1>5
  <2>2. QED
    BY <1>6, <2>1
<1>8. joined[0] = 0
  <2>1. 0 \in 0..Len(texts)
    BY <1>0
  <2>2. QED
    BY <1>5, <2>1
<1>9. \A k \in 1..Len(texts) : joined[k] = joined[k - 1] + Part(texts, k)
  <2> SUFFICES ASSUME NEW k \in 1..Len(texts)
               PROVE  joined[k] = joined[k - 1] + Part(texts, k)
    OBVIOUS
  <2>1. k \in 0..Len(texts) /\ k # 0 /\ k - 1 \in 0..Len(texts) /\ texts[k] \in Nat
    BY <1>0
  <2>2. joined[k - 1] \in Nat
    BY <1>6, <2>1
  <2>3. joined[k] = joined[k - 1] + texts[k] + (IF k > 1 THEN 1 ELSE 0)
    BY <1>5, <2>1
  <2>4. QED
    BY <2>1, <2>2, <2>3 DEF Part
<1>10. QED
  BY <1>4, <1>7, <1>8, <1>9 DEF SumsUpTo

\* More texts are never shorter.
LEMMA JoinedGrow ==
  ASSUME NEW texts \in Seq(Nat), NEW j \in 0..Len(texts), NEW k \in j..Len(texts)
  PROVE  JoinedLengths(texts)[j] <= JoinedLengths(texts)[k]
<1> DEFINE joined == JoinedLengths(texts)
           shorter == {i \in j..Len(texts) : ~(joined[j] <= joined[i])}
<1>0. Len(texts) \in Nat /\ \A i \in 1..Len(texts) : texts[i] \in Nat
  OBVIOUS
<1>1. /\ \A i \in 0..Len(texts) : joined[i] \in Nat
      /\ \A i \in 1..Len(texts) : joined[i] = joined[i - 1] + Part(texts, i)
  BY JoinedAre DEF SumsUpTo
<1> HIDE DEF joined
<1>2. SUFFICES ASSUME shorter # {} PROVE FALSE
  BY DEF joined
<1>3. shorter \subseteq Nat
  OBVIOUS
<1>4. PICK i \in shorter : \A other \in shorter : i <= other
  BY <1>2, <1>3, LeastNatural
<1>5. i \in j..Len(texts) /\ ~(joined[j] <= joined[i]) /\ joined[j] \in Nat
  BY <1>1
<1>6. i # j
  BY <1>5
<1>7. i - 1 \in j..Len(texts) /\ i - 1 \notin shorter /\ i \in 1..Len(texts)
  BY <1>0, <1>4, <1>5, <1>6
<1>8. joined[j] <= joined[i - 1] /\ joined[i - 1] \in Nat
  BY <1>0, <1>1, <1>7
<1>9. Part(texts, i) \in Nat
  BY <1>0, <1>7 DEF Part
<1>10. QED
  BY <1>1, <1>5, <1>7, <1>8, <1>9

-----------------------------------------------------------------------------
(* As many as fit *)

\* What the loop has written is what the kept warnings come to, and it runs
\* only when not all of them fit.
KeptInv ==
  /\ phase = "called" => kept = 0
  /\ phase # "returned" => size = JoinedLengths(lengths)[kept] /\ omitted = 0
  /\ phase = "loop" => ~WithinCap(lengths)
  /\ KeepsAsManyAsFit

\* Where the loop breaks off is where WarningsAnnotation says.
LEMMA BreaksWhereItShould ==
  ASSUME CapInv, KeptInv, phase = "loop", ~Fits
  PROVE  kept = KeptCount(lengths)
<1> DEFINE n == Len(lengths)
           joined == JoinedLengths(lengths)
           room == ReservedLength(lengths)
           fits(j) == j = 0 \/ joined[j] + room <= MaxConversionWarningsBytes
           last(k) == fits(k) /\ \A j \in (k + 1)..n : ~fits(j)
<1>1. /\ lengths \in Seq(Nat) /\ n \in Nat /\ kept \in 0..n
      /\ size = joined[kept] /\ ~WithinCap(lengths)
      /\ size + room <= MaxConversionWarningsBytes
  BY InputsAssumption DEF CapInv, TypeOK, KeptInv
<1>2. room \in Nat /\ MaxConversionWarningsBytes \in Nat
  BY <1>1, NoticeFits, AnnotationAssumption
<1>3. /\ \A j \in 0..n : joined[j] \in Nat
      /\ \A j \in 1..n : joined[j] = joined[j - 1] + Part(lengths, j)
  BY <1>1, JoinedAre DEF SumsUpTo
<1>4. kept # n
  BY <1>1, <1>2, <1>3 DEF WithinCap
<1>5. kept + 1 \in 1..n /\ lengths[kept + 1] \in Nat
  BY <1>1, <1>4
<1>6. joined[kept + 1] = size + Needed
  <2>1. Needed = Part(lengths, kept + 1)
    BY <1>1, <1>5 DEF Needed, Newline, Part
  <2>2. joined[kept + 1] = joined[kept] + Part(lengths, kept + 1)
    BY <1>1, <1>3, <1>5
  <2>3. QED
    BY <1>1, <2>1, <2>2
<1>7. ~(joined[kept + 1] + room <= MaxConversionWarningsBytes)
  <2>1. ~(size + Needed + room <= MaxConversionWarningsBytes)
    BY <1>1, <1>5 DEF Fits
  <2>2. QED
    BY <1>6, <2>1
<1>8. ASSUME NEW j \in (kept + 1)..n
      PROVE  ~fits(j)
  <2>1. joined[kept + 1] <= joined[j]
    BY <1>1, <1>5, <1>8, JoinedGrow
  <2>2. j \in 0..n /\ kept + 1 \in 0..n /\ j # 0
    BY <1>1, <1>5, <1>8
  <2>3. joined[j] \in Nat /\ joined[kept + 1] \in Nat
    BY <1>3, <2>2
  <2> HIDE DEF joined, room
  <2>4. QED
    BY <1>2, <1>7, <2>1, <2>2, <2>3
<1>9. last(kept)
  BY <1>1, <1>8
<1>10. KeptCount(lengths) = CHOOSE k \in 0..n : last(k)
  BY <1>1 DEF KeptCount
<1>11. \A k \in 0..n : last(k) => k = kept
  <2> SUFFICES ASSUME NEW k \in 0..n, last(k), k # kept PROVE FALSE
    OBVIOUS
  <2>1. CASE k < kept
    <3>1. kept \in (k + 1)..n
      BY <1>1, <2>1
    <3> HIDE DEF fits
    <3>2. QED
      BY <1>9, <3>1
  <2>2. CASE kept < k
    <3>1. k \in (kept + 1)..n
      BY <1>1, <2>2
    <3> HIDE DEF fits
    <3>2. QED
      BY <1>9, <3>1
  <2>3. QED
    BY <1>1, <2>1, <2>2
<1> HIDE DEF last
<1>12. QED
  BY <1>1, <1>9, <1>10, <1>11

\* The cap keeps as many warnings as fit, from the first on, and counts the
\* others: the loop agrees with the definition the Converter uses
\* (boundedWarnings, converter.go:333-366).
THEOREM CapKeepsAsManyAsFit ==
  Spec => []KeepsAsManyAsFit
<1>1. Init => KeptInv
  <2> SUFFICES ASSUME Init PROVE KeptInv
    OBVIOUS
  <2>1. lengths \in Seq(Nat)
    BY InputsAssumption DEF Init
  <2>2. JoinedLengths(lengths)[0] = 0
    BY <2>1, JoinedAre DEF SumsUpTo
  <2>3. QED
    BY <2>2 DEF Init, KeptInv, KeepsAsManyAsFit
<1>2. CapInv /\ KeptInv /\ [Next]_vars => KeptInv'
  <2> SUFFICES ASSUME CapInv, KeptInv, [Next]_vars PROVE KeptInv'
    OBVIOUS
  <2>0. lengths \in Seq(Nat) /\ Len(lengths) \in Nat /\ kept \in 0..Len(lengths)
    BY InputsAssumption DEF CapInv, TypeOK
  <2>1. CASE ReturnJoined
    <3>1. kept' = KeptCount(lengths) /\ kept' = Len(lengths) /\ omitted = 0 /\ lengths' = lengths
      BY <2>1 DEF ReturnJoined, KeptCount, KeptInv
    <3>2. QED
      BY <2>0, <2>1, <3>1 DEF ReturnJoined, KeptInv, KeepsAsManyAsFit
  <2>2. CASE StartLoop
    BY <2>2 DEF StartLoop, KeptInv, KeepsAsManyAsFit
  <2>3. CASE WriteWarning
    <3>1. kept + 1 \in 1..Len(lengths)
      BY <2>0, <2>3 DEF WriteWarning, Fits
    <3>2. JoinedLengths(lengths)[kept + 1] =
            JoinedLengths(lengths)[kept] + Part(lengths, kept + 1)
      <4>1. (kept + 1) - 1 = kept
        BY <2>0
      <4>2. QED
        BY <2>0, <3>1, <4>1, JoinedAre DEF SumsUpTo
    <3>3. Needed = Part(lengths, kept + 1)
      BY <2>0 DEF Needed, Newline, Part
    <3>4. size = JoinedLengths(lengths)[kept]
      BY <2>3 DEF WriteWarning, KeptInv
    <3>5. size' = JoinedLengths(lengths)[kept']
      BY <2>3, <3>2, <3>3, <3>4 DEF WriteWarning
    <3>6. QED
      BY <2>3, <3>5 DEF WriteWarning, KeptInv, KeepsAsManyAsFit
  <2>4. CASE ReturnCut
    <3>1. kept = KeptCount(lengths)
      BY <2>4, BreaksWhereItShould DEF ReturnCut
    <3>2. QED
      BY <2>4, <3>1 DEF ReturnCut, KeptInv, KeepsAsManyAsFit
  <2>5. CASE UNCHANGED vars
    BY <2>5 DEF vars, KeptInv, KeepsAsManyAsFit
  <2>6. QED
    BY <2>1, <2>2, <2>3, <2>4, <2>5 DEF Next
<1>3. KeptInv => KeepsAsManyAsFit
  BY DEF KeptInv
<1>4. QED
  BY <1>1, <1>2, <1>3, Initially, Inductive, PTL DEF Spec

=============================================================================
