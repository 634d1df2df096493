-------------------------- MODULE ReasonCutProofs --------------------------
(***************************************************************************)
(* truncateReason keeps its promises for every limit and every valid       *)
(* reason.  The cut at the limit breaks at most one character, and         *)
(* trimming stops in front of it: as long as bytes are taken away, that    *)
(* character begins at most one byte behind what is left.                  *)
(***************************************************************************)
EXTENDS ReasonCut, TLAPS, SequenceTheorems

Bytes == 0..4

\* The first kept bytes of s are a cut of it: nothing longer was valid, and
\* whatever was trimmed belongs to a character that reaches beyond the room.
IsCut(s, kept) ==
  /\ kept \in 0..Room
  /\ Len(s) > MaxConversionReasonBytes
  /\ \A n \in (kept + 1)..Room : ~ValidString(SubSeq(s, 1, n))
  /\ kept < Room => \E k \in 1..(kept + 1) : s[k] # Continuation /\ k + s[k] > Room + 1

\* What the prefixes of a sequence are.
LEMMA Prefix ==
  ASSUME NEW s \in Seq(Bytes), NEW n \in 0..Len(s)
  PROVE  /\ SubSeq(s, 1, n) \in Seq(Bytes)
         /\ Len(SubSeq(s, 1, n)) = n
         /\ DOMAIN SubSeq(s, 1, n) = 1..n
         /\ \A k \in 1..n : SubSeq(s, 1, n)[k] = s[k] /\ s[k] \in Bytes
<1>1. Len(s) \in Nat /\ \A k \in 1..Len(s) : s[k] \in Bytes
  OBVIOUS
<1>2. SubSeq(s, 1, n) \in Seq(Bytes) /\ Len(SubSeq(s, 1, n)) = n
  BY <1>1
<1>3. QED
  BY <1>1, <1>2

\* The bytes there is room for beside the ellipsis.
LEMMA RoomBounds ==
  Room \in Nat /\ Room + 3 = MaxConversionReasonBytes
BY ReasonCutAssumption DEF Room, Ellipsis

\* A prefix of a valid string is valid unless it breaks a character: its stray
\* bytes would be stray in the whole string.
LEMMA OnlyTheEndBreaks ==
  ASSUME NEW s \in Seq(Bytes), ValidString(s), NEW n \in 0..Len(s),
         ~ValidString(SubSeq(s, 1, n))
  PROVE  \E k \in 1..n : s[k] # Continuation /\ k + s[k] > n + 1
<1> DEFINE p == SubSeq(s, 1, n)
<1>1. /\ Len(p) = n /\ DOMAIN p = 1..n /\ n \in Nat /\ n <= Len(s) /\ Len(s) \in Nat
      /\ DOMAIN s = 1..Len(s)
      /\ \A k \in 1..n : p[k] = s[k] /\ s[k] \in Bytes
  BY Prefix
<1>2. ~ValidString(p)
  OBVIOUS
<1> HIDE DEF p
<1>3. \A k \in 1..n : s[k] = Continuation => \E j \in 1..n : j < k /\ k < j + s[j]
  BY <1>1 DEF ValidString
<1>4. \A k \in 1..n : s[k] # Continuation =>
        \A j \in 1..n : k < j /\ j < k + s[k] => s[j] = Continuation
  <2>1. \A k \in DOMAIN s : s[k] # Continuation =>
          \A j \in DOMAIN s : k < j /\ j < k + s[k] => s[j] = Continuation
    BY DEF ValidString
  <2>2. \A k \in 1..n : k \in DOMAIN s
    BY <1>1
  <2>3. QED
    BY <2>1, <2>2, Zenon
<1>5. PICK k \in 1..n : p[k] # Continuation /\ ~(k + p[k] <= n + 1)
  BY <1>1, <1>2, <1>3, <1>4, SMTT(30) DEF ValidString
<1>6. k + s[k] > n + 1
  BY <1>1, <1>5 DEF Bytes
<1>7. QED
  BY <1>1, <1>5, <1>6

\* What a string with the ellipsis after it is.
LEMMA WithEllipsis ==
  ASSUME NEW s \in Seq(Bytes)
  PROVE  /\ s \o Ellipsis \in Seq(Bytes)
         /\ Len(s \o Ellipsis) = Len(s) + 3
         /\ \A k \in 1..(Len(s) + 3) :
              (s \o Ellipsis)[k] = IF k <= Len(s) THEN s[k] ELSE Ellipsis[k - Len(s)]
<1>1. Ellipsis \in Seq(Bytes) /\ Len(Ellipsis) = 3
  BY DEF Ellipsis, Bytes, Continuation
<1>2. /\ s \o Ellipsis \in Seq(Bytes)
      /\ Len(s \o Ellipsis) = Len(s) + Len(Ellipsis)
      /\ \A k \in 1..(Len(s) + Len(Ellipsis)) :
           (s \o Ellipsis)[k] = IF k <= Len(s) THEN s[k] ELSE Ellipsis[k - Len(s)]
  BY <1>1, ConcatProperties, Zenon
<1>3. QED
  BY <1>1, <1>2, Zenon

\* No character begins within another.
LEMMA NoCharacterWithinAnother ==
  ASSUME NEW s \in Seq(Bytes), ValidString(s), NEW j \in DOMAIN s, NEW k \in DOMAIN s,
         s[j] # Continuation, s[k] # Continuation, j < k
  PROVE  j + s[j] <= k
<1>1. s[j] \in Bytes /\ j \in Nat /\ k \in Nat
  OBVIOUS
<1>2. QED
  BY <1>1 DEF ValidString, Bytes

\* One byte less is a cut as well when what there is is not valid.
LEMMA TrimKeepsCut ==
  ASSUME NEW s \in Seq(Bytes), ValidString(s), NEW kept, IsCut(s, kept),
         kept # 0, ~ValidString(SubSeq(s, 1, kept))
  PROVE  IsCut(s, kept - 1)
<1>1. /\ kept \in Nat /\ kept >= 1 /\ Room \in Nat /\ kept <= Room /\ Len(s) \in Nat
      /\ Room < Len(s)
      /\ DOMAIN s = 1..Len(s)
      /\ \A k \in 1..Len(s) : s[k] \in Bytes
  BY RoomBounds DEF IsCut
<1>2. PICK k \in 1..kept : s[k] # Continuation /\ k + s[k] > kept + 1
  BY <1>1, OnlyTheEndBreaks
<1>3. \E m \in 1..kept : s[m] # Continuation /\ m + s[m] > Room + 1
  <2>1. CASE kept = Room
    BY <2>1, <1>2
  <2>2. CASE kept < Room
    <3>1. PICK m \in 1..(kept + 1) : s[m] # Continuation /\ m + s[m] > Room + 1
      BY <2>2 DEF IsCut
    <3>2. m # kept + 1
      <4>1. SUFFICES ASSUME m = kept + 1
                     PROVE  FALSE
        OBVIOUS
      <4>2. k \in DOMAIN s /\ m \in DOMAIN s /\ k < m
        BY <1>1, <4>1
      <4>3. k + s[k] <= m
        BY <4>2, <1>2, <3>1, NoCharacterWithinAnother
      <4>4. QED
        BY <4>1, <4>3, <1>1, <1>2 DEF Bytes
    <3>3. QED
      BY <3>1, <3>2, <1>1
  <2>3. QED
    BY <1>1, <2>1, <2>2
<1>4. \A n \in ((kept - 1) + 1)..Room : ~ValidString(SubSeq(s, 1, n))
  BY <1>1 DEF IsCut
<1>5. QED
  BY <1>1, <1>3, <1>4 DEF IsCut

\* A cut loses at most three of the bytes there was room for.
LEMMA CutLosesAtMostThree ==
  ASSUME NEW s \in Seq(Bytes), NEW kept, IsCut(s, kept)
  PROVE  Room - kept <= 3
<1>1. kept \in Nat /\ Room \in Nat /\ kept <= Room /\ Len(s) \in Nat /\ Room < Len(s)
  BY RoomBounds DEF IsCut
<1>2. CASE kept = Room
  BY <1>1, <1>2
<1>3. CASE kept < Room
  <2>1. PICK k \in 1..(kept + 1) : k + s[k] > Room + 1
    BY <1>3 DEF IsCut
  <2>2. s[k] \in Bytes
    BY <1>1, <1>3
  <2>3. QED
    BY <1>1, <2>1, <2>2 DEF Bytes
<1>4. QED
  BY <1>1, <1>2, <1>3

\* The ellipsis after a valid string leaves it valid.
LEMMA EllipsisKeepsValid ==
  ASSUME NEW s \in Seq(Bytes), ValidString(s)
  PROVE  ValidString(s \o Ellipsis)
<1> DEFINE t == s \o Ellipsis
           n == Len(s)
<1>1. Ellipsis \in Seq(Bytes) /\ Len(Ellipsis) = 3 /\ Ellipsis[1] = 3 /\ Ellipsis[2] = 0 /\ Ellipsis[3] = 0
  BY DEF Ellipsis, Bytes, Continuation
<1>2. /\ n \in Nat /\ DOMAIN s = 1..n /\ \A k \in 1..n : s[k] \in Bytes
      /\ Len(t) = n + 3 /\ DOMAIN t = 1..(n + 3)
      /\ \A k \in 1..n : t[k] = s[k]
      /\ t[n + 1] = 3 /\ t[n + 2] = 0 /\ t[n + 3] = 0
  <2>1. /\ n \in Nat /\ DOMAIN s = 1..n /\ \A k \in 1..n : s[k] \in Bytes
    OBVIOUS
  <2>2. /\ t \in Seq(Bytes)
        /\ Len(t) = n + 3
        /\ \A k \in 1..(n + 3) : t[k] = IF k <= n THEN s[k] ELSE Ellipsis[k - n]
    BY WithEllipsis
  <2>3. QED
    BY <1>1, <2>1, <2>2
<1> HIDE DEF t
<1>3. \A k \in DOMAIN t : t[k] # Continuation => k + t[k] <= Len(t) + 1
  BY <1>2 DEF ValidString, Continuation, Bytes
<1>4. \A k \in DOMAIN t : t[k] # Continuation =>
        \A j \in DOMAIN t : k < j /\ j < k + t[k] => t[j] = Continuation
  <2>1. SUFFICES ASSUME NEW k \in 1..(n + 3), t[k] # Continuation,
                        NEW j \in 1..(n + 3), k < j, j < k + t[k]
                 PROVE  t[j] = Continuation
    BY <1>2
  <2>2. CASE k <= n
    <3>1. k + s[k] <= n + 1 /\ s[k] \in Bytes /\ t[k] = s[k]
      BY <1>2, <2>1, <2>2 DEF ValidString
    <3>2. j <= n
      BY <3>1, <2>1, <1>2 DEF Bytes
    <3>3. QED
      BY <3>1, <3>2, <2>1, <2>2, <1>2 DEF ValidString
  <2>3. CASE k > n
    BY <2>1, <2>3, <1>2 DEF Continuation
  <2>4. QED
    BY <2>2, <2>3, <1>2
<1>5. \A k \in DOMAIN t : t[k] = Continuation =>
        \E j \in DOMAIN t : j < k /\ k < j + t[j]
  <2>1. SUFFICES ASSUME NEW k \in 1..(n + 3), t[k] = Continuation
                 PROVE  \E j \in 1..(n + 3) : j < k /\ k < j + t[j]
    BY <1>2
  <2>2. CASE k <= n
    <3>1. PICK j \in 1..n : j < k /\ k < j + s[j]
      BY <2>1, <2>2, <1>2 DEF ValidString
    <3>2. QED
      BY <3>1, <1>2
  <2>3. CASE k > n
    <3>1. k \in {n + 2, n + 3}
      BY <2>1, <2>3, <1>2 DEF Continuation
    <3>2. n + 1 < k /\ k < (n + 1) + t[n + 1] /\ n + 1 \in 1..(n + 3)
      BY <3>1, <1>2
    <3>3. QED
      BY <3>2
  <2>4. QED
    BY <2>2, <2>3, <1>2
<1>6. ValidString(t)
  BY <1>3, <1>4, <1>5 DEF ValidString
<1>7. QED
  BY <1>6 DEF t

-----------------------------------------------------------------------------
(* The invariant *)

CutInv ==
  /\ reason \in Reasons
  /\ step \in {"cut", "trim", "done"}
  /\ step = "trim" =>
       \E kept \in 0..Room : IsCut(reason, kept) /\ truncated = SubSeq(reason, 1, kept)
  /\ step = "done" =>
       \/ Len(reason) <= MaxConversionReasonBytes /\ truncated = reason
       \/ \E kept \in 0..Room :
            /\ IsCut(reason, kept)
            /\ ValidString(SubSeq(reason, 1, kept))
            /\ truncated = SubSeq(reason, 1, kept) \o Ellipsis

\* A reason is a valid string of bytes.
LEMMA ReasonsAreValid ==
  ASSUME NEW s \in Reasons
  PROVE  s \in Seq(Bytes) /\ ValidString(s) /\ Len(s) \in Nat
<1>1. s \in Seq(Bytes) /\ ValidString(s)
  BY ReasonCutAssumption DEF Bytes
<1>2. QED
  BY <1>1

\* Every step of the loop keeps the invariant.
LEMMA StepKeepsCutInv ==
  CutInv /\ [Next]_cutVars => CutInv'
<1> SUFFICES ASSUME CutInv, [Next]_cutVars
             PROVE  CutInv'
  OBVIOUS
<1>1. reason \in Seq(Bytes) /\ ValidString(reason) /\ Len(reason) \in Nat /\ reason \in Reasons
  BY ReasonsAreValid DEF CutInv
<1>2. CASE ReturnAsItIs
  BY <1>1, <1>2 DEF ReturnAsItIs, CutInv
<1>3. CASE Cut
  <2>1. IsCut(reason, Room) /\ Room \in 0..Room
    BY <1>1, <1>3, RoomBounds DEF IsCut, Cut
  <2>2. truncated' = SubSeq(reason, 1, Room) /\ reason' = reason /\ step' = "trim"
    BY <1>3 DEF Cut
  <2>3. QED
    BY <1>1, <2>1, <2>2 DEF CutInv
<1>4. CASE Trim
  <2>1. PICK kept \in 0..Room : IsCut(reason, kept) /\ truncated = SubSeq(reason, 1, kept)
    BY <1>4 DEF Trim, CutInv
  <2>2. kept \in 0..Len(reason) /\ Room \in Nat
    BY <1>1, <2>1, RoomBounds DEF IsCut
  <2>3. Len(truncated) = kept /\ truncated \in Seq(Bytes) /\ \A k \in 1..kept : truncated[k] = reason[k]
    BY <1>1, <2>1, <2>2, Prefix
  <2>4. kept # 0 /\ ~ValidString(SubSeq(reason, 1, kept))
    BY <1>4, <2>1, <2>3 DEF Trim
  <2>5. IsCut(reason, kept - 1)
    BY <1>1, <2>1, <2>4, TrimKeepsCut
  <2>6. truncated' = SubSeq(reason, 1, kept - 1)
    <3>1. truncated' = SubSeq(truncated, 1, kept - 1)
      BY <1>4, <2>3 DEF Trim, Front
    <3>2. QED
      BY <3>1, <2>1, <2>2, <2>3, <2>4, <1>1
  <2>7. reason' = reason /\ step' = "trim" /\ kept - 1 \in 0..Room
    BY <1>4, <2>2, <2>4 DEF Trim
  <2>8. QED
    BY <1>1, <2>5, <2>6, <2>7 DEF CutInv
<1>5. CASE AppendEllipsis
  <2>1. PICK kept \in 0..Room : IsCut(reason, kept) /\ truncated = SubSeq(reason, 1, kept)
    BY <1>5 DEF AppendEllipsis, CutInv
  <2>2. ValidString(truncated)
    <3>1. ValidString(<<>>)
      BY DEF ValidString
    <3>2. QED
      BY <3>1, <1>5 DEF AppendEllipsis
  <2>3. truncated' = SubSeq(reason, 1, kept) \o Ellipsis /\ reason' = reason /\ step' = "done"
    BY <1>5, <2>1 DEF AppendEllipsis
  <2>4. QED
    BY <1>1, <2>1, <2>2, <2>3 DEF CutInv
<1>6. CASE UNCHANGED cutVars
  BY <1>6 DEF CutInv, cutVars
<1>7. QED
  BY <1>2, <1>3, <1>4, <1>5, <1>6 DEF Next

\* The invariant says what is promised of a value that is returned, and of what
\* is kept all along.
LEMMA CutInvSuffices ==
  CutInv => ReasonFits /\ ReasonStaysValid /\ OnlyABrokenCharacterIsCut
<1> SUFFICES ASSUME CutInv
             PROVE  ReasonFits /\ ReasonStaysValid /\ OnlyABrokenCharacterIsCut
  OBVIOUS
<1>1. reason \in Seq(Bytes) /\ ValidString(reason) /\ Len(reason) \in Nat
  BY ReasonsAreValid DEF CutInv
<1>2. Ellipsis \in Seq(Bytes) /\ Len(Ellipsis) = 3
  BY DEF Ellipsis, Bytes, Continuation
<1>3. ASSUME NEW kept \in 0..Room, IsCut(reason, kept)
      PROVE  /\ Room - kept <= 3
             /\ SubSeq(reason, 1, kept) \in Seq(Bytes)
             /\ Len(SubSeq(reason, 1, kept)) = kept
             /\ \A n \in (kept + 1)..Room : ~ValidString(SubSeq(reason, 1, n))
             /\ kept \in 0..Len(reason)
  <2>1. kept \in 0..Len(reason)
    BY <1>1, <1>3, RoomBounds DEF IsCut
  <2>2. QED
    BY <1>1, <1>3, <2>1, Prefix, CutLosesAtMostThree DEF IsCut
<1>4. CASE step = "done" /\ Len(reason) <= MaxConversionReasonBytes /\ truncated = reason
  BY <1>1, <1>4, ReasonCutAssumption DEF ReasonFits, ReasonStaysValid, OnlyABrokenCharacterIsCut
<1>5. CASE /\ step = "done"
           /\ \E kept \in 0..Room :
                /\ IsCut(reason, kept)
                /\ ValidString(SubSeq(reason, 1, kept))
                /\ truncated = SubSeq(reason, 1, kept) \o Ellipsis
  <2>1. PICK kept \in 0..Room :
                /\ IsCut(reason, kept)
                /\ ValidString(SubSeq(reason, 1, kept))
                /\ truncated = SubSeq(reason, 1, kept) \o Ellipsis
    BY <1>5
  <2> DEFINE head == SubSeq(reason, 1, kept)
  <2>2. /\ head \in Seq(Bytes) /\ Len(head) = kept /\ kept \in Nat /\ kept <= Room /\ Room \in Nat
        /\ \A n \in (kept + 1)..Room : ~ValidString(SubSeq(reason, 1, n))
        /\ Room - kept <= 3
    BY <1>3, <2>1, RoomBounds
  <2>3. head = SubSeq(reason, 1, kept)
    OBVIOUS
  <2> HIDE DEF head
  <2>4. truncated = head \o Ellipsis /\ ValidString(head)
    BY <2>1, <2>3
  <2>5. Len(truncated) = kept + 3 /\ truncated \in Seq(Bytes)
    BY <2>2, <2>4, WithEllipsis
  <2>6. SubSeq(truncated, 1, kept) = head
    BY <2>2, <2>4, <1>2
  <2>7. ReasonFits
    BY <2>2, <2>5, RoomBounds DEF ReasonFits
  <2>8. ReasonStaysValid
    BY <2>2, <2>4, EllipsisKeepsValid DEF ReasonStaysValid
  <2>9. OnlyABrokenCharacterIsCut
    <3>1. Len(truncated) - Len(Ellipsis) = kept
      BY <2>2, <2>5, <1>2
    <3>2. QED
      BY <1>5, <2>2, <2>3, <2>6, <3>1 DEF OnlyABrokenCharacterIsCut
  <2>10. QED
    BY <2>7, <2>8, <2>9
<1>6. CASE step = "trim"
  <2>1. PICK kept \in 0..Room : IsCut(reason, kept) /\ truncated = SubSeq(reason, 1, kept)
    BY <1>6 DEF CutInv
  <2>2. /\ Len(truncated) = kept /\ truncated \in Seq(Bytes)
        /\ \A n \in (kept + 1)..Room : ~ValidString(SubSeq(reason, 1, n))
        /\ Room - kept <= 3
    BY <1>3, <2>1
  <2>3. SubSeq(truncated, 1, kept) = truncated
    BY <2>2
  <2>4. OnlyABrokenCharacterIsCut
    BY <1>6, <2>1, <2>2, <2>3 DEF OnlyABrokenCharacterIsCut
  <2>5. QED
    BY <1>6, <2>4 DEF ReasonFits, ReasonStaysValid
<1>7. CASE step = "cut"
  BY <1>7 DEF ReasonFits, ReasonStaysValid, OnlyABrokenCharacterIsCut
<1>8. QED
  BY <1>4, <1>5, <1>6, <1>7 DEF CutInv

\* The invariant holds of every run.
LEMMA AlwaysCutInv ==
  Spec => []CutInv
<1>1. Init => CutInv
  BY DEF Init, CutInv
<1>2. QED
  BY <1>1, StepKeepsCutInv, PTL DEF Spec

\* truncateReason never exceeds the limit, its ellipsis included
\* (disposition.go:82-83).
THEOREM CutReasonFits == Spec => []ReasonFits
BY AlwaysCutInv, CutInvSuffices, PTL

\* What truncateReason returns is valid UTF-8 whatever the limit falls on
\* (disposition.go:81-82).
THEOREM CutReasonStaysValid == Spec => []ReasonStaysValid
BY AlwaysCutInv, CutInvSuffices, PTL

\* Trimming loses no more than the character broken at the limit
\* (disposition.go:92-94).
THEOREM CutLosesOneCharacter == Spec => []OnlyABrokenCharacterIsCut
BY AlwaysCutInv, CutInvSuffices, PTL

=============================================================================
