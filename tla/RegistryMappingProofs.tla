----------------------- MODULE RegistryMappingProofs -----------------------
(***************************************************************************)
(* The result of applyRegistryMapping does not depend on the order a Go    *)
(* map is iterated in, for every reference and every mapping.  While the   *)
(* keys are tried, all those before the current one do not apply, and      *)
(* those behind it are not longer: so the first that applies is a longest  *)
(* one, and two prefixes of one reference with one length are equal.       *)
(***************************************************************************)
EXTENDS RegistryMapping, TLAPS

\* Two prefixes of one text with one length are the same.
LEMMA PrefixesOfOneLength ==
  ASSUME NEW text \in Text, NEW p \in Text, NEW q \in Text,
         IsPrefix(p, text), IsPrefix(q, text), Len(p) = Len(q)
  PROVE  p = q
<1>1. SubSeq(p, 1, Len(p)) = p /\ SubSeq(q, 1, Len(q)) = q
  BY DEF Text
<1>2. QED
  BY <1>1 DEF IsPrefix

\* A usable key that no usable key exceeds is the one ApplyRegistryMapping
\* chooses.
LEMMA LongestDecides ==
  ASSUME NEW text \in Text, NEW entries, DOMAIN entries \subseteq Text,
         NEW key \in UsableEntries(text, entries),
         \A other \in UsableEntries(text, entries) : Len(other) <= Len(key)
  PROVE  ApplyRegistryMapping(text, entries)
           = entries[key] \o SubSeq(text, Len(key) + 1, Len(text))
<1> DEFINE usable == UsableEntries(text, entries)
           longest == CHOOSE k \in usable : \A other \in usable : Len(other) <= Len(k)
<1>1. longest \in usable /\ \A other \in usable : Len(other) <= Len(longest)
  OBVIOUS
<1>2. \A k \in usable : k \in Text /\ IsPrefix(k, text) /\ Len(k) \in Nat
  BY DEF UsableEntries, Text
<1>3. Len(longest) = Len(key)
  <2>1. Len(longest) <= Len(key) /\ Len(key) <= Len(longest)
    BY <1>1
  <2>2. QED
    BY <1>1, <1>2, <2>1
<1>4. longest = key
  BY <1>1, <1>2, <1>3, PrefixesOfOneLength
<1>5. usable # {}
  OBVIOUS
<1>6. ApplyRegistryMapping(text, entries)
        = IF usable = {} THEN text
          ELSE entries[longest] \o SubSeq(text, Len(longest) + 1, Len(text))
  BY DEF ApplyRegistryMapping
<1>7. QED
  BY <1>4, <1>5, <1>6

\* A function on 1..n is a sequence of length n.
LEMMA FunctionIsSequence ==
  ASSUME NEW S, NEW n \in Nat, NEW s \in [1..n -> S]
  PROVE  s \in Seq(S) /\ Len(s) = n
OBVIOUS

\* The keys are all there, longest first, and none before next applies.
ScanInv ==
  /\ phase = "collect" => next = 1
  /\ phase = "scan" =>
       /\ LongestFirst(keys)
       /\ \A key \in DOMAIN mapping : \E k \in DOMAIN keys : keys[k] = key
       /\ \A k \in 1..(next - 1) : ~Applies(keys[k])

MappingInv == TypeOK /\ ScanInv /\ MostSpecificWins

\* No key is met yet.
LEMMA Initially ==
  Init => MappingInv
BY DEF Init, MappingInv, TypeOK, ScanInv, MostSpecificWins

\* A key applies when it is usable.
LEMMA AppliesIsUsable ==
  UsableEntries(ref, mapping) = {key \in DOMAIN mapping : Applies(key)}
BY DEF UsableEntries, Applies

\* Every step keeps the order and the skipped keys, or returns what the
\* longest usable key gives.
LEMMA Inductive ==
  MappingInv /\ [Next]_vars => MappingInv'
<1> SUFFICES ASSUME MappingInv, [Next]_vars PROVE MappingInv'
  OBVIOUS
<1>1. /\ ref \in Text
      /\ DOMAIN mapping \subseteq Text
      /\ keys \in Seq(DOMAIN mapping)
      /\ next \in 1..(Len(keys) + 1)
      /\ Len(keys) \in Nat
      /\ DOMAIN keys = 1..Len(keys)
  BY InputsAssumption DEF MappingInv, TypeOK
<1>2. CASE CollectKey
  <2>1. PICK key \in DOMAIN mapping : keys' = Append(keys, key)
    BY <1>2 DEF CollectKey
  <2>2. keys' \in Seq(DOMAIN mapping) /\ Len(keys') = Len(keys) + 1
    BY <1>1, <2>1
  <2>3. next' \in 1..(Len(keys') + 1)
    BY <1>1, <1>2, <2>2 DEF CollectKey
  <2>4. QED
    BY <1>2, <2>2, <2>3 DEF CollectKey, MappingInv, TypeOK, ScanInv, MostSpecificWins
<1>3. CASE SortKeys
  <2>1. /\ keys' \in [1..Len(keys) -> DOMAIN mapping]
        /\ LongestFirst(keys')
        /\ \A key \in DOMAIN mapping : \E k \in DOMAIN keys' : keys'[k] = key
    BY <1>1, <1>3 DEF SortKeys
  <2>2. keys' \in Seq(DOMAIN mapping) /\ Len(keys') = Len(keys)
    BY <1>1, <2>1, FunctionIsSequence
  <2>3. next = 1
    BY <1>3 DEF SortKeys, MappingInv, ScanInv
  <2>4. TypeOK'
    BY <1>1, <1>3, <2>2 DEF SortKeys, MappingInv, TypeOK
  <2>5. ScanInv'
    <3>1. \A k \in 1..(next' - 1) : FALSE
      BY <1>3, <2>3 DEF SortKeys
    <3>2. \A key \in DOMAIN mapping' : \E k \in DOMAIN keys' : keys'[k] = key
      BY <1>3, <2>1 DEF SortKeys
    <3>3. \A j, k \in DOMAIN keys' : j <= k => Len(keys'[k]) <= Len(keys'[j])
      BY <2>1 DEF LongestFirst
    <3>4. phase' = "scan"
      BY <1>3 DEF SortKeys
    <3>5. QED
      BY <3>1, <3>2, <3>3, <3>4 DEF ScanInv, LongestFirst
  <2>6. QED
    BY <1>3, <2>4, <2>5 DEF SortKeys, MappingInv, MostSpecificWins
<1>4. CASE SkipKey
  <2>1. next' \in 1..(Len(keys') + 1)
    BY <1>1, <1>4 DEF SkipKey
  <2>2. \A k \in 1..(next' - 1) : ~Applies(keys[k])
    BY <1>1, <1>4 DEF SkipKey, MappingInv, ScanInv
  <2>3. QED
    BY <1>4, <2>1, <2>2 DEF SkipKey, MappingInv, TypeOK, ScanInv, MostSpecificWins, LongestFirst, Applies
<1>5. CASE ReplacePrefix
  <2>1. keys[next] \in UsableEntries(ref, mapping)
    <3>1. keys[next] \in DOMAIN mapping
      BY <1>1, <1>5 DEF ReplacePrefix
    <3>2. QED
      BY <1>5, <3>1, AppliesIsUsable DEF ReplacePrefix
  <2>2. ASSUME NEW other \in UsableEntries(ref, mapping)
        PROVE  Len(other) <= Len(keys[next])
    <3>1. other \in DOMAIN mapping /\ Applies(other)
      BY AppliesIsUsable
    <3>2. PICK k \in DOMAIN keys : keys[k] = other
      BY <1>5, <3>1 DEF ReplacePrefix, MappingInv, ScanInv
    <3>3. k >= next
      BY <1>1, <1>5, <3>1, <3>2 DEF ReplacePrefix, MappingInv, ScanInv
    <3>4. next \in DOMAIN keys
      BY <1>1, <1>5 DEF ReplacePrefix
    <3>5. QED
      BY <1>1, <1>5, <3>2, <3>3, <3>4 DEF ReplacePrefix, MappingInv, ScanInv, LongestFirst
  <2>3. result' = ApplyRegistryMapping(ref, mapping)
    BY <1>1, <1>5, <2>1, <2>2, LongestDecides DEF ReplacePrefix
  <2>4. QED
    BY <1>5, <2>3 DEF ReplacePrefix, MappingInv, TypeOK, ScanInv, MostSpecificWins
<1>6. CASE NoKeyApplies
  <2>1. \A key \in DOMAIN mapping : ~Applies(key)
    BY <1>1, <1>6 DEF NoKeyApplies, MappingInv, ScanInv
  <2>2. UsableEntries(ref, mapping) = {}
    BY <2>1, AppliesIsUsable
  <2>3. ApplyRegistryMapping(ref, mapping) = ref
    BY <2>2 DEF ApplyRegistryMapping
  <2>4. QED
    BY <1>6, <2>3 DEF NoKeyApplies, MappingInv, TypeOK, ScanInv, MostSpecificWins
<1>7. CASE UNCHANGED vars
  BY <1>7 DEF vars, MappingInv, TypeOK, ScanInv, MostSpecificWins, LongestFirst, Applies
<1>8. QED
  BY <1>2, <1>3, <1>4, <1>5, <1>6, <1>7 DEF Next

\* Whatever the map order, the longest usable key decides (imagestream.go:61-99).
THEOREM OrderDoesNotDecide ==
  Spec => []MostSpecificWins
<1>1. MappingInv => MostSpecificWins
  BY DEF MappingInv
<1>2. QED
  BY <1>1, Initially, Inductive, PTL DEF Spec

\* The scan collects keys of the mapping only and never runs past them
\* (imagestream.go:66-98).
THEOREM MappingTypeCorrectness ==
  Spec => []TypeOK
<1>1. MappingInv => TypeOK
  BY DEF MappingInv
<1>2. QED
  BY <1>1, Initially, Inductive, PTL DEF Spec

=============================================================================
