-------------------------- MODULE RegistryMapping --------------------------
(***************************************************************************)
(* applyRegistryMapping (src/buildconfig/imagestream.go) as the code       *)
(* computes it.  The keys of the mapping come out of a Go map in any       *)
(* order; they are sorted, longest first, and tried until one applies.     *)
(* ImageReferences says which entry that is, and the Converter uses that.  *)
(*                                                                         *)
(* The code breaks a tie between keys of one length lexically.  Here such  *)
(* keys may come in either order: the result must not depend on it.        *)
(***************************************************************************)
EXTENDS ImageReferences, FiniteSets

CONSTANTS
  References,  \* the image references
  Mappings     \* the values of --registry-mapping: partial functions on texts

ASSUME InputsAssumption ==
  /\ References \subseteq Text
  /\ \A mapping \in Mappings : /\ DOMAIN mapping \subseteq Text
                               /\ mapping \in [DOMAIN mapping -> Text]
                               /\ IsFiniteSet(DOMAIN mapping)

VARIABLES
  ref,      \* imageRef
  mapping,  \* registryMapping
  phase,    \* "collect", "scan" or "returned"
  keys,     \* the keys met so far, then all of them, sorted
  next,     \* the position in keys of the entry tried next
  result    \* what the function returns

vars == <<ref, mapping, phase, keys, next, result>>

\* Mutant: make([]string, len(registryMapping)), and the keys appended to that.
InitWithLength ==
  /\ ref \in References
  /\ mapping \in Mappings
  /\ phase = "collect"
  /\ keys = [k \in 1..Cardinality(DOMAIN mapping) |-> Empty]
  /\ next = 1
  /\ result = Empty

Init ==
  /\ ref \in References
  /\ mapping \in Mappings
  /\ phase = "collect"
  /\ keys = <<>>
  /\ next = 1
  /\ result = Empty

Collected == {keys[k] : k \in DOMAIN keys}

\* for k := range registryMapping, in any order.
CollectKey ==
  /\ phase = "collect"
  /\ \E key \in DOMAIN mapping \ Collected : keys' = Append(keys, key)
  /\ UNCHANGED <<ref, mapping, phase, next, result>>

LongestFirst(sorted) ==
  \A j, k \in DOMAIN sorted : j <= k => Len(sorted[k]) <= Len(sorted[j])

\* Mutant: j and i swapped in the comparison.
SortKeysShortestFirst ==
  /\ phase = "collect"
  /\ DOMAIN mapping \subseteq Collected
  /\ keys' \in {sorted \in [DOMAIN keys -> DOMAIN mapping] :
                  /\ \A j, k \in DOMAIN sorted : j <= k => Len(sorted[j]) <= Len(sorted[k])
                  /\ \A key \in DOMAIN mapping : \E k \in DOMAIN sorted : sorted[k] = key}
  /\ phase' = "scan"
  /\ UNCHANGED <<ref, mapping, next, result>>

SortKeys ==
  /\ phase = "collect"
  /\ DOMAIN mapping \subseteq Collected
  /\ keys' \in {sorted \in [DOMAIN keys -> DOMAIN mapping] :
                  /\ LongestFirst(sorted)
                  /\ \A key \in DOMAIN mapping : \E k \in DOMAIN sorted : sorted[k] = key}
  /\ phase' = "scan"
  /\ UNCHANGED <<ref, mapping, next, result>>

\* The three conditions under which the loop returns at a key.
Applies(key) ==
  /\ key # Empty
  /\ IsPrefix(key, ref)
  /\ mapping[key] # Empty

SkipKey ==
  /\ phase = "scan"
  /\ next <= Len(keys)
  /\ ~Applies(keys[next])
  /\ next' = next + 1
  /\ UNCHANGED <<ref, mapping, phase, keys, result>>

ReplacePrefix ==
  /\ phase = "scan"
  /\ next <= Len(keys)
  /\ Applies(keys[next])
  /\ result' = mapping[keys[next]] \o SubSeq(ref, Len(keys[next]) + 1, Len(ref))
  /\ phase' = "returned"
  /\ UNCHANGED <<ref, mapping, keys, next>>

NoKeyApplies ==
  /\ phase = "scan"
  /\ next > Len(keys)
  /\ result' = ref
  /\ phase' = "returned"
  /\ UNCHANGED <<ref, mapping, keys, next>>

Next == CollectKey \/ SortKeys \/ SkipKey \/ ReplacePrefix \/ NoKeyApplies

Spec == Init /\ [][Next]_vars

-----------------------------------------------------------------------------
(* Properties *)

TypeOK ==
  /\ ref \in References
  /\ mapping \in Mappings
  /\ phase \in {"collect", "scan", "returned"}
  /\ keys \in Seq(DOMAIN mapping)
  /\ next \in 1..(Len(keys) + 1)

\* Whatever order the map iteration gives (BUILD-2339, imagestream.go:62-65),
\* the longest usable key decides, and an unusable one hides none behind it.
MostSpecificWins ==
  phase = "returned" => result = ApplyRegistryMapping(ref, mapping)

=============================================================================
