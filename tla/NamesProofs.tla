----------------------------- MODULE NamesProofs -----------------------------
(***************************************************************************)
(* What sanitizeDNS1123Label makes of any name, whatever the characters    *)
(* and the length limit.                                                   *)
(*                                                                         *)
(* A name is followed through the steps: lowering leaves no upper-case     *)
(* character, replacing runs no invalid one, trimming no dash at an end;   *)
(* the suffix then fits behind what is left.                               *)
(***************************************************************************)
EXTENDS Names, TLAPS, FiniteSetTheorems, SequenceTheorems, WellFoundedInduction

LowerCase == Tokens \ DOMAIN Lowered
Clean == Tokens \ (InvalidChars \union DOMAIN Lowered)

\* A function on 1..n is a sequence.
LEMMA FunctionIsSequence ==
  ASSUME NEW S, NEW n \in Nat, NEW f \in [1..n -> S]
  PROVE  f \in Seq(S) /\ Len(f) = n
OBVIOUS

\* What a pair is.
LEMMA PairIsSequence ==
  ASSUME NEW S, NEW x \in S, NEW y \in S
  PROVE  <<x, y>> \in Seq(S) /\ Len(<<x, y>>) = 2 /\ <<x, y>>[1] = x /\ <<x, y>>[2] = y
OBVIOUS

\* A set of natural numbers has a least element.
LEMMA LeastNatural ==
  ASSUME NEW T, T \subseteq Nat, T # {}
  PROVE  \E x \in T : \A y \in T : x <= y
<1> DEFINE R == OpToRel(<, Nat)
<1>1. \A x, y \in Nat : <<y, x>> \in R <=> y < x
  BY DEF OpToRel
<1>2. IsWellFoundedOn(R, Nat)
  BY NatLessThanWellFounded
<1> HIDE DEF R
<1>3. PICK x \in T : \A y \in T : ~ (<<y, x>> \in R)
  BY <1>2, WFMin, Zenon
<1>4. \A y \in T : x \in Nat /\ y \in Nat
  OBVIOUS
<1>5. \A y \in T : ~(y < x)
  BY <1>1, <1>3, <1>4, Zenon
<1>6. \A y \in T : x <= y
  BY <1>4, <1>5
<1>7. QED
  BY <1>6

\* Min and Max of a set of positions are what their names say.
LEMMA LeastAndGreatest ==
  ASSUME NEW n \in Nat, NEW T, T \subseteq 1..n, T # {}
  PROVE  /\ Min(T) \in T /\ \A y \in T : Min(T) <= y
         /\ Max(T) \in T /\ \A y \in T : Max(T) >= y
<1>1. \E x \in T : \A y \in T : x <= y
  <2>1. T \subseteq Nat
    OBVIOUS
  <2>2. QED
    BY <2>1, LeastNatural
<1>2. \E x \in T : \A y \in T : x >= y
  <2> DEFINE mirrored == {n - y : y \in T}
  <2>1. mirrored \subseteq Nat /\ mirrored # {}
    <3>1. \A y \in T : y \in Nat /\ y <= n
      OBVIOUS
    <3>2. \A y \in T : n - y \in Nat
      BY <3>1
    <3>3. PICK y \in T : TRUE
      OBVIOUS
    <3>4. n - y \in mirrored
      OBVIOUS
    <3>5. QED
      BY <3>2, <3>4
  <2>2. PICK m \in mirrored : \A y \in mirrored : m <= y
    BY <2>1, LeastNatural
  <2>3. PICK x \in T : m = n - x
    OBVIOUS
  <2>4. \A y \in T : n - x <= n - y
    BY <2>2, <2>3
  <2>5. \A y \in T : x >= y
    BY <2>4
  <2>6. QED
    BY <2>5
<1>3. QED
  BY <1>1, <1>2 DEF Min, Max

\* Counting the members of K up to a position passes every number there is.
LEMMA EveryCountIsReached ==
  ASSUME NEW n \in Nat, NEW K, K \subseteq 1..n, NEW j \in 1..Cardinality(K)
  PROVE  \E k \in K : Cardinality(K \cap 1..k) = j
<1>1. IsFiniteSet(1..n)
  <2>1. 1 \in Int /\ n \in Int
    OBVIOUS
  <2>2. QED
    BY <2>1, FS_Interval, Zenon
<1>2. IsFiniteSet(K) /\ Cardinality(K) \in Nat
  BY <1>1, FS_Subset, FS_CardinalityType
<1>3. \A k \in Nat : IsFiniteSet(K \cap 1..k) /\ Cardinality(K \cap 1..k) \in Nat
  BY <1>2, FS_Intersection, FS_CardinalityType
<1> DEFINE enough == {k \in 1..n : Cardinality(K \cap 1..k) >= j}
<1>4. enough # {} /\ enough \subseteq Nat
  <2>1. K \cap 1..n = K /\ n # 0
    <3>1. n = 0 => K = {}
      OBVIOUS
    <3>2. K # {}
      BY <1>2, FS_EmptySet
    <3>3. QED
      BY <3>1, <3>2
  <2>2. n \in 1..n /\ Cardinality(K \cap 1..n) >= j
    BY <2>1, <1>2
  <2>3. n \in enough
    BY <2>2
  <2>4. enough \subseteq 1..n
    OBVIOUS
  <2> HIDE DEF enough
  <2>5. QED
    BY <2>3, <2>4
<1>5. PICK k \in enough : \A y \in enough : k <= y
  BY <1>4, LeastNatural
<1>6. k \in 1..n /\ Cardinality(K \cap 1..k) >= j
  OBVIOUS
<1>7. Cardinality(K \cap 1..(k - 1)) < j /\ k - 1 \in Nat
  <2>1. CASE k = 1
    <3>1. K \cap 1..(k - 1) = {}
      BY <2>1
    <3>2. Cardinality(K \cap 1..(k - 1)) = 0
      BY <3>1, FS_EmptySet, Zenon
    <3>3. QED
      BY <2>1, <3>2, <1>2
  <2>2. CASE k # 1
    <3>1. k - 1 \in 1..n /\ k - 1 \in Nat /\ ~(k <= k - 1)
      BY <1>6, <2>2
    <3>2. k - 1 \notin enough
      BY <1>5, <3>1, Zenon
    <3>3. ~(Cardinality(K \cap 1..(k - 1)) >= j)
      BY <3>1, <3>2
    <3>4. QED
      BY <1>2, <1>3, <3>1, <3>3
  <2>3. QED
    BY <2>1, <2>2
<1> HIDE DEF enough
<1>8. k \in K
  <2>1. SUFFICES ASSUME k \notin K
                 PROVE  FALSE
    OBVIOUS
  <2>2. K \cap 1..k = K \cap 1..(k - 1)
    BY <2>1, <1>6
  <2>3. QED
    BY <2>2, <1>2, <1>3, <1>6, <1>7
<1>9. Cardinality(K \cap 1..k) = Cardinality(K \cap 1..(k - 1)) + 1
  <2>1. K \cap 1..k = (K \cap 1..(k - 1)) \union {k} /\ k \notin K \cap 1..(k - 1)
    BY <1>6, <1>8
  <2>2. QED
    BY <2>1, <1>3, <1>7, FS_AddElement
<1>10. Cardinality(K \cap 1..k) = j
  <2> DEFINE below == Cardinality(K \cap 1..(k - 1))
             upTo == Cardinality(K \cap 1..k)
  <2>1. below \in Nat /\ below < j /\ upTo = below + 1 /\ upTo >= j /\ j \in Nat
    BY <1>2, <1>3, <1>6, <1>7, <1>9
  <2> HIDE DEF below, upTo
  <2>2. upTo = j
    BY <2>1
  <2>3. QED
    BY <2>2 DEF upTo
<1>11. QED
  BY <1>8, <1>10

-----------------------------------------------------------------------------
(* The steps of sanitizeDNS1123Label *)

\* Lowering leaves no upper-case character.
LEMMA LoweredText ==
  ASSUME NEW s \in Text
  PROVE  ToLower[s] \in Seq(LowerCase)
<1>1. /\ Len(s) \in Nat /\ DOMAIN s = 1..Len(s) /\ \A k \in 1..Len(s) : s[k] \in Tokens
  BY DEF Text
<1>2. ToLower[s] \in [1..Len(s) -> LowerCase]
  BY <1>1, NamesAssumption DEF ToLower, LowerCase, Text
<1>3. QED
  BY <1>1, <1>2, FunctionIsSequence

\* Replacing the invalid runs leaves clean characters only.
LEMMA ReplacedRuns ==
  ASSUME NEW s \in Seq(LowerCase)
  PROVE  ReplaceInvalidRuns[s] \in Seq(Clean)
<1>1. /\ Len(s) \in Nat /\ DOMAIN s = 1..Len(s) /\ \A k \in 1..Len(s) : s[k] \in LowerCase
  OBVIOUS
<1> DEFINE kept == {k \in DOMAIN s : s[k] \in InvalidChars => k = 1 \/ ~(s[k - 1] \in InvalidChars)}
           nth(j) == CHOOSE k \in kept : Cardinality(kept \cap 1..k) = j
           replaced == [j \in 1..Cardinality(kept) |->
                          IF s[nth(j)] \in InvalidChars THEN Dash ELSE s[nth(j)]]
<1>2. kept \subseteq 1..Len(s)
  BY <1>1
<1>a. s \in Text
  BY <1>1 DEF LowerCase, Text
<1>3. ReplaceInvalidRuns[s] = replaced
  BY <1>a DEF ReplaceInvalidRuns
<1>4. Cardinality(kept) \in Nat
  <2>1. IsFiniteSet(1..Len(s))
    <3>1. 1 \in Int /\ Len(s) \in Int
      BY <1>1
    <3>2. QED
      BY <3>1, FS_Interval, Zenon
  <2>2. IsFiniteSet(kept)
    BY <2>1, <1>2, FS_Subset
  <2>3. QED
    BY <2>2, FS_CardinalityType
<1> HIDE DEF kept
<1>5. \A j \in 1..Cardinality(kept) : nth(j) \in kept
  <2>1. \A j \in 1..Cardinality(kept) : \E k \in kept : Cardinality(kept \cap 1..k) = j
    BY <1>1, <1>2, EveryCountIsReached
  <2>2. QED
    BY <2>1
<1> HIDE DEF nth
<1>6. Dash \in Clean
  BY TokensAssumption, NamesAssumption DEF Clean
<1>7. \A j \in 1..Cardinality(kept) : s[nth(j)] \in LowerCase
  BY <1>1, <1>2, <1>5
<1>8. replaced \in [1..Cardinality(kept) -> Clean]
  BY <1>6, <1>7 DEF Clean, LowerCase
<1>9. replaced \in Seq(Clean)
  BY <1>4, <1>8, FunctionIsSequence
<1>10. QED
  BY <1>3, <1>9

\* Trimming takes the dashes from both ends.
LEMMA TrimmedDashes ==
  ASSUME NEW s \in Seq(Clean)
  PROVE  /\ TrimDashes[s] \in Seq(Clean)
         /\ Len(TrimDashes[s]) <= Len(s)
         /\ TrimDashes[s] # <<>> =>
              TrimDashes[s][1] # Dash /\ TrimDashes[s][Len(TrimDashes[s])] # Dash
<1>1. /\ Len(s) \in Nat /\ DOMAIN s = 1..Len(s) /\ \A k \in 1..Len(s) : s[k] \in Clean
  OBVIOUS
<1> DEFINE solid == {k \in DOMAIN s : s[k] # Dash}
<1>a. s \in Text
  BY <1>1 DEF Clean, Text
<1>2. TrimDashes[s] = IF solid = {} THEN <<>> ELSE SubSeq(s, Min(solid), Max(solid))
  BY <1>a DEF TrimDashes
<1>3. CASE solid = {}
  BY <1>1, <1>2, <1>3
<1>4. CASE solid # {}
  <2>1. /\ Min(solid) \in solid /\ Max(solid) \in solid /\ Min(solid) <= Max(solid)
    BY <1>1, <1>4, LeastAndGreatest
  <2> DEFINE m == Min(solid)
             n == Max(solid)
  <2>2. m \in 1..Len(s) /\ n \in 1..Len(s) /\ m <= n /\ s[m] # Dash /\ s[n] # Dash
    BY <1>1, <2>1
  <2>3. TrimDashes[s] = SubSeq(s, m, n)
    BY <1>2, <1>4
  <2> HIDE DEF m, n
  <2>4. /\ SubSeq(s, m, n) \in Seq(Clean)
        /\ Len(SubSeq(s, m, n)) = n - m + 1
        /\ SubSeq(s, m, n)[1] = s[m]
        /\ SubSeq(s, m, n)[n - m + 1] = s[n]
    BY <1>1, <2>2
  <2>5. QED
    BY <1>1, <2>2, <2>3, <2>4
<1>5. QED
  BY <1>3, <1>4

\* The suffix fits behind what the cut leaves, and ends the name.
LEMMA Suffixed ==
  ASSUME NEW base \in Seq(Clean), NEW original
  PROVE  \E head \in Seq(Clean) :
           /\ WithHashSuffix(base, original) = head \o <<Dash, Digest(original)>>
           /\ head # <<>> /\ head[1] # Dash
           /\ Len(head) + 2 <= MaxGeneratedNameLength
<1> DEFINE room == MaxGeneratedNameLength - 2
           length == Min({Len(base), room})
           prefix == SubSeq(base, 1, length)
           cut == TrimDashes[prefix]
           head == IF cut = <<>> THEN <<"b", "c">> ELSE cut
<1>1. room \in Nat /\ room >= 2 /\ room + 2 = MaxGeneratedNameLength /\ Len(base) \in Nat
  BY NamesAssumption
<1>2. length \in 0..Len(base) /\ length <= room
  BY <1>1 DEF Min
<1>3. WithHashSuffix(base, original) = head \o <<Dash, Digest(original)>>
  BY DEF WithHashSuffix
<1> HIDE DEF length, room
<1>4. prefix \in Seq(Clean) /\ Len(prefix) = length
  BY <1>1, <1>2
<1> HIDE DEF prefix
<1>5. /\ cut \in Seq(Clean)
      /\ Len(cut) <= length
      /\ cut # <<>> => cut[1] # Dash
  BY <1>4, TrimmedDashes
<1> HIDE DEF cut
<1>6. "b" \in Clean /\ "c" \in Clean /\ "b" # Dash
  BY NamesAssumption DEF Clean
<1>7. /\ head \in Seq(Clean) /\ head # <<>> /\ head[1] # Dash
      /\ Len(head) <= room
  <2>1. CASE cut = <<>>
    <3>1. head = <<"b", "c">>
      BY <2>1
    <3>2. /\ <<"b", "c">> \in Seq(Clean)
          /\ Len(<<"b", "c">>) = 2
          /\ <<"b", "c">>[1] = "b"
      BY <1>6, PairIsSequence, Zenon
    <3>3. /\ head \in Seq(Clean) /\ Len(head) = 2 /\ head[1] # Dash
      BY <3>1, <3>2, <1>6
    <3> HIDE DEF head
    <3>4. head # <<>>
      <4>1. Len(<<>>) # 2
        OBVIOUS
      <4>2. QED
        BY <3>3, <4>1, Zenon
    <3>5. QED
      BY <3>3, <3>4, <1>1
  <2>2. CASE cut # <<>>
    <3>1. Len(cut) \in Nat
      BY <1>5
    <3>2. QED
      BY <2>2, <3>1, <1>1, <1>2, <1>5
  <2>3. QED
    BY <2>1, <2>2
<1> HIDE DEF head
<1>8. Len(head) + 2 <= MaxGeneratedNameLength
  BY <1>1, <1>7
<1>9. QED
  BY <1>3, <1>7, <1>8

-----------------------------------------------------------------------------
(* The names that come out *)

LabelOf(name) == TrimDashes[ReplaceInvalidRuns[ToLower[name]]]

\* What the steps leave of a name.
LEMMA LabelIsClean ==
  ASSUME NEW name \in Text
  PROVE  /\ LabelOf(name) \in Seq(Clean)
         /\ LabelOf(name) # <<>> =>
              LabelOf(name)[1] # Dash /\ LabelOf(name)[Len(LabelOf(name))] # Dash
<1>1. ReplaceInvalidRuns[ToLower[name]] \in Seq(Clean)
  BY LoweredText, ReplacedRuns
<1>2. QED
  BY <1>1, TrimmedDashes DEF LabelOf

\* A name that is not empty is never sanitized to nothing.
LEMMA SanitizedNotEmpty ==
  ASSUME NEW name \in Text, name # Empty
  PROVE  SanitizeDNS1123Label(name) # Empty
<1>1. CASE SanitizeDNS1123Label(name) = name
  BY <1>1
<1>2. CASE SanitizeDNS1123Label(name) # name
  <2>1. LabelOf(name) \in Seq(Clean)
    BY LabelIsClean
  <2>2. SanitizeDNS1123Label(name) = WithHashSuffix(LabelOf(name), name)
    BY <1>2 DEF SanitizeDNS1123Label, LabelOf
  <2>3. PICK head \in Seq(Clean) :
          WithHashSuffix(LabelOf(name), name) = head \o <<Dash, Digest(name)>>
    BY <2>1, Suffixed
  <2> DEFINE suffix == <<Dash, Digest(name)>>
             whole == head \o suffix
             All == Clean \union {Dash, Digest(name)}
  <2>4. suffix \in Seq(All) /\ Len(suffix) = 2
    BY PairIsSequence
  <2>5. head \in Seq(All) /\ Len(head) \in Nat
    OBVIOUS
  <2> HIDE DEF suffix, All
  <2>6. Len(head \o suffix) = Len(head) + Len(suffix)
    BY <2>4, <2>5, ConcatProperties, Zenon
  <2>7. Len(whole) # 0
    BY <2>4, <2>5, <2>6
  <2> HIDE DEF whole
  <2>8. whole # <<>>
    BY <2>7
  <2>9. QED
    BY <2>2, <2>3, <2>8 DEF whole, suffix, Empty
<1>3. QED
  BY <1>1, <1>2

\* A rewritten name ends in the digest of its original.
LEMMA RewrittenEnd ==
  ASSUME NEW name \in Text, Rewritten(name)
  PROVE  LET label == SanitizeDNS1123Label(name) IN label[Len(label)] = Digest(name)
<1>1. LabelOf(name) \in Seq(Clean)
  BY LabelIsClean
<1>2. SanitizeDNS1123Label(name) = WithHashSuffix(LabelOf(name), name)
  BY DEF Rewritten, SanitizeDNS1123Label, LabelOf
<1>3. PICK head \in Seq(Clean) :
        WithHashSuffix(LabelOf(name), name) = head \o <<Dash, Digest(name)>>
  BY <1>1, Suffixed
<1> DEFINE suffix == <<Dash, Digest(name)>>
           whole == head \o suffix
           All == Clean \union {Dash, Digest(name)}
<1>4. suffix \in Seq(All) /\ Len(suffix) = 2 /\ suffix[2] = Digest(name)
  BY PairIsSequence
<1>5. head \in Seq(All) /\ Len(head) \in Nat
  OBVIOUS
<1> HIDE DEF suffix, All
<1>6. /\ Len(head \o suffix) = Len(head) + Len(suffix)
      /\ \A k \in 1..(Len(head) + Len(suffix)) :
           (head \o suffix)[k] = IF k <= Len(head) THEN head[k] ELSE suffix[k - Len(head)]
  BY <1>4, <1>5, ConcatProperties, Zenon
<1>7. Len(whole) = Len(head) + 2 /\ whole[Len(head) + 2] = Digest(name)
  BY <1>4, <1>5, <1>6
<1> HIDE DEF whole
<1>8. whole[Len(whole)] = Digest(name)
  BY <1>7
<1>9. SanitizeDNS1123Label(name) = whole
  BY <1>2, <1>3 DEF whole, suffix
<1>10. QED
  BY <1>8, <1>9

=============================================================================
