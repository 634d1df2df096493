------------------------------- MODULE Names -------------------------------
(***************************************************************************)
(* Generated resource names (src/buildconfig/names.go).                    *)
(*                                                                         *)
(* The tokens of a name stand for its characters.  The hex digest a        *)
(* rewritten name ends in is one token here, so                            *)
(* MaxGeneratedNameLength counts it as one.  It is computed from the whole *)
(* original.  That different originals have different digests (the code    *)
(* keeps 32 bits of SHA-256) is assumed where it is used.                  *)
(***************************************************************************)
EXTENDS Naturals, Sequences, FiniteSets, SequencesExt, Texts

CONSTANTS
  InvalidChars,             \* characters outside [a-z0-9-], once lowered
  Lowered,                  \* the lower-case form of each upper-case character
  MaxGeneratedNameLength,   \* 63 in the code
  Digest(_)                 \* the hex digest of an original

ASSUME NamesAssumption ==
  /\ InvalidChars \subseteq Tokens
  /\ Lowered \in [DOMAIN Lowered -> Tokens]
  /\ MaxGeneratedNameLength \in Nat
  /\ MaxGeneratedNameLength >= 4
  /\ Dash \notin InvalidChars
  /\ \A c \in DOMAIN Lowered : Lowered[c] \notin DOMAIN Lowered
  /\ {Dash, "b", "c"} \cap DOMAIN Lowered = {}
  /\ {"b", "c"} \subseteq Tokens \ (InvalidChars \union {Dash})

ToLower[s \in Text] ==
  [k \in DOMAIN s |-> IF s[k] \in DOMAIN Lowered THEN Lowered[s[k]] ELSE s[k]]

\* Every maximal run of invalid characters becomes one dash.  A dash already
\* there is valid and is kept next to it.
ReplaceInvalidRuns[s \in Text] ==
  LET invalid(k) == s[k] \in InvalidChars
      kept == {k \in DOMAIN s : invalid(k) => k = 1 \/ ~invalid(k - 1)}
      nth(j) == CHOOSE k \in kept : Cardinality(kept \cap 1..k) = j
  IN  [j \in 1..Cardinality(kept) |-> IF invalid(nth(j)) THEN Dash ELSE s[nth(j)]]

TrimDashes[s \in Text] ==
  LET solid == {k \in DOMAIN s : s[k] # Dash}
  IN  IF solid = {} THEN <<>> ELSE SubSeq(s, Min(solid), Max(solid))

\* Mutant: the digest is that of the cleaned name.
WithHashOfBase(base, original) ==
  LET suffix == <<Dash, Digest(base)>>
      room == MaxGeneratedNameLength - Len(suffix)
      cut == TrimDashes[SubSeq(base, 1, Min({Len(base), room}))]
  IN  (IF cut = <<>> THEN <<"b", "c">> ELSE cut) \o suffix

\* Mutant: what the cut leaves is used as it is.
WithHashUntrimmed(base, original) ==
  LET suffix == <<Dash, Digest(original)>>
      room == MaxGeneratedNameLength - Len(suffix)
  IN  SubSeq(base, 1, Min({Len(base), room})) \o suffix

WithHashSuffix(base, original) ==
  LET suffix == <<Dash, Digest(original)>>
      room == MaxGeneratedNameLength - Len(suffix)
      cut == TrimDashes[SubSeq(base, 1, Min({Len(base), room}))]
  IN  (IF cut = <<>> THEN <<"b", "c">> ELSE cut) \o suffix

\* Mutant: a name that is only too long is cut without a digest.
SanitizeByCutting(name) ==
  LET label == TrimDashes[ReplaceInvalidRuns[ToLower[name]]]
  IN  IF label = name
      THEN SubSeq(name, 1, Min({Len(name), MaxGeneratedNameLength}))
      ELSE WithHashSuffix(label, name)

\* Mutant: every generated name gets a digest.
SanitizeAlways(name) ==
  WithHashSuffix(TrimDashes[ReplaceInvalidRuns[ToLower[name]]], name)

SanitizeDNS1123Label(name) ==
  LET label == TrimDashes[ReplaceInvalidRuns[ToLower[name]]]
  IN  IF label = name /\ Len(label) <= MaxGeneratedNameLength
      THEN name
      ELSE WithHashSuffix(label, name)

Rewritten(name) == SanitizeDNS1123Label(name) # name

=============================================================================
