------------------------ MODULE GeneratedNamesProofs ------------------------
(***************************************************************************)
(* Every generated name is a label, labels are kept, and rewritten names   *)
(* stay apart: for all characters, originals and length limits.            *)
(***************************************************************************)
EXTENDS GeneratedNames, NamesProofs

\* A rewritten name ends in the digest of its original.
LEMMA RewrittenEndsInDigest ==
  ASSUME NEW name \in Originals, Rewritten(name)
  PROVE  \E head \in Seq(Clean) :
           /\ SanitizeDNS1123Label(name) = head \o <<Dash, Digest(name)>>
           /\ head # <<>> /\ head[1] # Dash
           /\ Len(head) + 2 <= MaxGeneratedNameLength
<1>1. name \in Text
  BY GeneratedNamesAssumption
<1>2. LabelOf(name) \in Seq(Clean)
  BY <1>1, LabelIsClean
<1>3. SanitizeDNS1123Label(name) = WithHashSuffix(LabelOf(name), name)
  BY DEF Rewritten, SanitizeDNS1123Label, LabelOf
<1>4. QED
  BY <1>2, <1>3, Suffixed

\* What follows from a head, a dash and a digest.
LEMMA HeadAndDigest ==
  ASSUME NEW head \in Seq(Clean), head # <<>>, NEW digest \in Clean
  PROVE  LET whole == head \o <<Dash, digest>>
         IN  /\ whole \in Seq(Clean)
             /\ Len(whole) = Len(head) + 2
             /\ whole[1] = head[1]
             /\ whole[Len(whole)] = digest
<1>1. Dash \in Clean
  BY TokensAssumption, NamesAssumption DEF Clean
<1> DEFINE suffix == <<Dash, digest>>
<1>2. suffix \in Seq(Clean) /\ Len(suffix) = 2 /\ suffix[2] = digest
  BY <1>1
<1>3. Len(head) \in Nat /\ Len(head) >= 1
  OBVIOUS
<1> HIDE DEF suffix
<1>4. /\ head \o suffix \in Seq(Clean)
      /\ Len(head \o suffix) = Len(head) + Len(suffix)
      /\ \A k \in 1..(Len(head) + Len(suffix)) :
           (head \o suffix)[k] = IF k <= Len(head) THEN head[k] ELSE suffix[k - Len(head)]
  BY <1>2, ConcatProperties, Zenon
<1>5. /\ head \o suffix \in Seq(Clean)
      /\ Len(head \o suffix) = Len(head) + 2
      /\ (head \o suffix)[1] = head[1]
      /\ (head \o suffix)[Len(head) + 2] = digest
  BY <1>2, <1>3, <1>4
<1>6. QED
  BY <1>5 DEF suffix

\* The digest of an original is clean and no dash.
LEMMA DigestIsClean ==
  ASSUME NEW name \in Originals
  PROVE  Digest(name) \in Clean /\ Digest(name) # Dash
BY DigestAssumption DEF Clean

\* What a label is made of.
LEMMA CleanIsLabel ==
  ASSUME NEW label \in Seq(Clean), label # <<>>, Len(label) <= MaxGeneratedNameLength,
         label[1] # Dash, label[Len(label)] # Dash
  PROVE  IsLabel(label)
<1>1. \A k \in DOMAIN label : label[k] \in Clean
  OBVIOUS
<1>2. \A k \in DOMAIN label : label[k] \notin InvalidChars \union DOMAIN Lowered
  BY <1>1 DEF Clean
<1>3. QED
  BY <1>2 DEF IsLabel, Empty

\* Every result is a label.
LEMMA SanitizedIsLabel ==
  ASSUME NEW name \in Originals
  PROVE  SanitizeDNS1123Label(name) \in Seq(Clean) /\ IsLabel(SanitizeDNS1123Label(name))
<1>1. name \in Text /\ name # Empty
  BY GeneratedNamesAssumption
<1> DEFINE label == SanitizeDNS1123Label(name)
<1>2. SUFFICES /\ label \in Seq(Clean) /\ label # <<>> /\ Len(label) <= MaxGeneratedNameLength
               /\ label[1] # Dash /\ label[Len(label)] # Dash
  BY CleanIsLabel
<1>3. CASE Rewritten(name)
  <2>1. PICK head \in Seq(Clean) :
           /\ label = head \o <<Dash, Digest(name)>>
           /\ head # <<>> /\ head[1] # Dash
           /\ Len(head) + 2 <= MaxGeneratedNameLength
    BY <1>3, RewrittenEndsInDigest
  <2>2. Digest(name) \in Clean /\ Digest(name) # Dash
    BY DigestIsClean
  <2> DEFINE whole == head \o <<Dash, Digest(name)>>
  <2>3. /\ whole \in Seq(Clean) /\ Len(whole) = Len(head) + 2
        /\ whole[1] = head[1] /\ whole[Len(whole)] = Digest(name)
    BY <2>1, <2>2, HeadAndDigest
  <2>4. label = whole
    BY <2>1
  <2> HIDE DEF whole, label
  <2>5. Len(head) \in Nat
    BY <2>1
  <2>6. QED
    BY <2>1, <2>2, <2>3, <2>4, <2>5
<1>4. CASE ~Rewritten(name)
  <2>1. label = name
    BY <1>4 DEF Rewritten
  <2>2. CASE LabelOf(name) = name /\ Len(LabelOf(name)) <= MaxGeneratedNameLength
    <3>1. /\ name \in Seq(Clean) /\ name # <<>> /\ name[1] # Dash /\ name[Len(name)] # Dash
          /\ Len(name) <= MaxGeneratedNameLength
      BY <1>1, <2>2, LabelIsClean DEF Empty
    <3> HIDE DEF label
    <3>2. QED
      BY <2>1, <3>1
  <2>3. CASE ~(LabelOf(name) = name /\ Len(LabelOf(name)) <= MaxGeneratedNameLength)
    <3>1. label = WithHashSuffix(LabelOf(name), name)
      BY <2>3 DEF SanitizeDNS1123Label, LabelOf
    <3>2. LabelOf(name) \in Seq(Clean)
      BY <1>1, LabelIsClean
    <3>3. PICK head \in Seq(Clean) :
             /\ label = head \o <<Dash, Digest(name)>>
             /\ head # <<>> /\ head[1] # Dash
             /\ Len(head) + 2 <= MaxGeneratedNameLength
      BY <3>1, <3>2, Suffixed
    <3>4. Digest(name) \in Clean /\ Digest(name) # Dash
      BY DigestIsClean
    <3> DEFINE whole == head \o <<Dash, Digest(name)>>
    <3>5. /\ whole \in Seq(Clean) /\ Len(whole) = Len(head) + 2
          /\ whole[1] = head[1] /\ whole[Len(whole)] = Digest(name)
      BY <3>3, <3>4, HeadAndDigest
    <3>6. label = whole
      BY <3>3
    <3> HIDE DEF whole, label
    <3>7. Len(head) \in Nat
      BY <3>3
    <3>8. QED
      BY <3>3, <3>4, <3>5, <3>6, <3>7
  <2>4. QED
    BY <2>2, <2>3
<1>5. QED
  BY <1>3, <1>4

\* The steps change nothing of a label.
LEMMA StepsKeepLabel ==
  ASSUME NEW name \in Text, IsLabel(name)
  PROVE  LabelOf(name) = name
<1> DEFINE n == Len(name)
<1>1. /\ n \in Nat /\ n >= 1 /\ DOMAIN name = 1..n
      /\ \A k \in 1..n : name[k] \notin InvalidChars /\ name[k] \notin DOMAIN Lowered
      /\ name[1] # Dash /\ name[n] # Dash
  BY DEF IsLabel, Text, Empty
<1>2. name = [k \in 1..n |-> name[k]]
  BY DEF Text
<1>3. ToLower[name] = name
  BY <1>1, <1>2 DEF ToLower
<1>4. ReplaceInvalidRuns[name] = name
  <2> DEFINE kept == {k \in DOMAIN name :
                        name[k] \in InvalidChars => k = 1 \/ ~(name[k - 1] \in InvalidChars)}
             nth(j) == CHOOSE k \in kept : Cardinality(kept \cap 1..k) = j
  <2>1. ReplaceInvalidRuns[name] =
          [j \in 1..Cardinality(kept) |->
             IF name[nth(j)] \in InvalidChars THEN Dash ELSE name[nth(j)]]
    BY DEF ReplaceInvalidRuns
  <2>2. kept = 1..n
    BY <1>1
  <2> HIDE DEF kept, n
  <2>3. \A k \in 0..n : Cardinality(1..k) = k
    <3>1. \A k \in 0..n : 1 \in Int /\ k \in Int /\ (IF 1 > k THEN 0 ELSE k - 1 + 1) = k
      BY <1>1
    <3>2. QED
      BY <3>1, FS_Interval
  <2>4. \A k \in kept : Cardinality(kept \cap 1..k) = k
    <3>1. \A k \in kept : kept \cap 1..k = 1..k /\ k \in 0..n
      BY <1>1, <2>2
    <3>2. QED
      BY <2>3, <3>1
  <2>5. Cardinality(kept) = n
    BY <1>1, <2>2, <2>3
  <2>6. \A j \in 1..n : nth(j) = j
    BY <2>2, <2>4
  <2> HIDE DEF nth
  <2>7. ReplaceInvalidRuns[name] = [j \in 1..n |-> name[j]]
    BY <1>1, <2>1, <2>5, <2>6
  <2>8. QED
    BY <2>7, <1>2
<1>5. TrimDashes[name] = name
  <2> DEFINE solid == {k \in DOMAIN name : name[k] # Dash}
  <2>1. TrimDashes[name] = IF solid = {} THEN <<>> ELSE SubSeq(name, Min(solid), Max(solid))
    BY DEF TrimDashes
  <2>2. 1 \in solid /\ n \in solid /\ solid \subseteq 1..n
    BY <1>1
  <2> HIDE DEF solid, n
  <2>3. /\ Min(solid) \in solid /\ \A y \in solid : Min(solid) <= y
        /\ Max(solid) \in solid /\ \A y \in solid : Max(solid) >= y
    BY <1>1, <2>2, LeastAndGreatest
  <2>4. Min(solid) = 1 /\ Max(solid) = n
    <3>1. n \in Nat
      BY <1>1 DEF n
    <3>2. Min(solid) \in 1..n /\ Min(solid) <= 1 /\ Max(solid) \in 1..n /\ Max(solid) >= n
      BY <2>2, <2>3
    <3> HIDE DEF Min, Max
    <3>3. QED
      BY <3>1, <3>2
  <2>5. SubSeq(name, 1, n) = name
    BY DEF n, Text
  <2>6. QED
    BY <2>1, <2>2, <2>4, <2>5
<1>6. QED
  BY <1>3, <1>4, <1>5 DEF LabelOf

\* A label is what it is sanitized to.
LEMMA LabelIsKept ==
  ASSUME NEW name \in Text, IsLabel(name)
  PROVE  SanitizeDNS1123Label(name) = name
BY StepsKeepLabel DEF SanitizeDNS1123Label, LabelOf, IsLabel

\* Two rewritten names have the digests of their originals as last characters.
LEMMA RewrittenDiffer ==
  ASSUME NEW o \in Originals, NEW p \in Originals, Rewritten(o), Rewritten(p),
         SanitizeDNS1123Label(o) = SanitizeDNS1123Label(p)
  PROVE  o = p
<1>1. o \in Text /\ p \in Text
  BY GeneratedNamesAssumption
<1> DEFINE label == SanitizeDNS1123Label(o)
<1>2. label[Len(label)] = Digest(o) /\ label[Len(label)] = Digest(p)
  BY <1>1, RewrittenEnd
<1>3. QED
  BY <1>2, DigestAssumption

-----------------------------------------------------------------------------
(* The names of a migration *)

\* What has been given is what the original alone is sanitized to.
GivenInv ==
  /\ DOMAIN given \subseteq Originals
  /\ \A o \in DOMAIN given : given[o] = SanitizeDNS1123Label(o)

\* Every given name is the sanitized original, throughout.
LEMMA AlwaysGivenInv ==
  Spec => []GivenInv
<1>1. Init => GivenInv
  BY DEF Init, GivenInv
<1>2. GivenInv /\ [Next]_given => GivenInv'
  <2> SUFFICES ASSUME GivenInv, [Next]_given
               PROVE  GivenInv'
    OBVIOUS
  <2>1. ASSUME NEW original \in Originals \ DOMAIN given, Generate(original)
        PROVE  GivenInv'
    BY <2>1 DEF Generate, GivenInv
  <2>2. CASE UNCHANGED given
    BY <2>2 DEF GivenInv
  <2>3. QED
    BY <2>1, <2>2 DEF Next
<1>3. QED
  BY <1>1, <1>2, PTL DEF Spec

\* Every generated name is a DNS-1123 label within the limit, whatever the
\* characters and the limit (names.go:44-56).
THEOREM GeneratedNamesAreLabels == Spec => []GeneratedAreLabels
<1>1. GivenInv => GeneratedAreLabels
  BY SanitizedIsLabel DEF GivenInv, GeneratedAreLabels
<1>2. QED
  BY <1>1, AlwaysGivenInv, PTL

\* A label is kept, and sanitizing once more changes nothing (names.go:36-38).
THEOREM GeneratedLabelsKept == Spec => []LabelsKept
<1>1. GivenInv => LabelsKept
  <2> SUFFICES ASSUME GivenInv, NEW o \in DOMAIN given
               PROVE  /\ IsLabel(o) => given[o] = o
                      /\ SanitizeDNS1123Label(given[o]) = given[o]
    BY DEF LabelsKept
  <2>1. o \in Originals /\ o \in Text /\ given[o] = SanitizeDNS1123Label(o)
    BY GeneratedNamesAssumption DEF GivenInv
  <2>2. IsLabel(o) => given[o] = o
    BY <2>1, LabelIsKept
  <2>3. given[o] \in Text /\ IsLabel(given[o])
    <3>1. given[o] \in Seq(Clean) /\ IsLabel(given[o])
      BY <2>1, SanitizedIsLabel
    <3>2. Clean \subseteq Tokens
      BY DEF Clean
    <3>3. QED
      BY <3>1, <3>2 DEF Text
  <2>4. QED
    BY <2>2, <2>3, LabelIsKept
<1>2. QED
  BY <1>1, AlwaysGivenInv, PTL

\* Two originals that had to be changed never get one name (names.go:28-31).
THEOREM RewrittenNamesStayApart == Spec => []RewrittenStayApart
<1>1. GivenInv => RewrittenStayApart
  BY RewrittenDiffer DEF GivenInv, RewrittenStayApart
<1>2. QED
  BY <1>1, AlwaysGivenInv, PTL

=============================================================================
