--------------------------- MODULE GeneratedNames ---------------------------
(***************************************************************************)
(* The generated names of a migration, one after another: what             *)
(* sanitizeDNS1123Label (src/buildconfig/names.go) promises about each,    *)
(* and about any two.  Every name is made from its original alone; nothing *)
(* is kept from one call to the next.                                      *)
(***************************************************************************)
EXTENDS Names

CONSTANTS
  Originals,     \* the names that labels are generated for
  MaxNames       \* bound: how many of them

ASSUME GeneratedNamesAssumption ==
  /\ Originals \subseteq Text \ {Empty}
  /\ MaxNames \in Nat

\* A digest is made of characters of its own, and no two originals share one.
ASSUME DigestAssumption ==
  /\ \A s \in Originals : Digest(s) \in Tokens \ (InvalidChars \union DOMAIN Lowered \union {Dash})
  /\ \A s, t \in Originals : Digest(s) = Digest(t) => s = t

VARIABLE given     \* the label generated for each original so far

Init == given = [original \in {} |-> Empty]

Generate(original) ==
  /\ Cardinality(DOMAIN given) < MaxNames
  /\ given' = [o \in DOMAIN given \union {original} |->
                 IF o = original THEN SanitizeDNS1123Label(o) ELSE given[o]]

Next == \E original \in Originals \ DOMAIN given : Generate(original)

Spec == Init /\ [][Next]_given

-----------------------------------------------------------------------------

IsLabel(name) ==
  /\ name # Empty
  /\ Len(name) <= MaxGeneratedNameLength
  /\ \A k \in DOMAIN name : name[k] \notin InvalidChars \union DOMAIN Lowered
  /\ name[1] # Dash
  /\ name[Len(name)] # Dash

\* Every generated name is a DNS-1123 label within the limit, also when the cut
\* falls on a dash or nothing of the original is left (names.go:45-57).
GeneratedAreLabels == \A o \in DOMAIN given : IsLabel(given[o])

\* A name that is a label already stays what it is, so that sanitizing once
\* more changes nothing (names.go:36-38; docs/architecture.md rule 12).
LabelsKept ==
  \A o \in DOMAIN given :
    /\ IsLabel(o) => given[o] = o
    /\ SanitizeDNS1123Label(given[o]) = given[o]

\* Two originals that had to be changed never meet, whatever the cut leaves of
\* them (names.go:28-31, docs/support-matrix.md:77).
RewrittenStayApart ==
  \A o, p \in DOMAIN given :
    Rewritten(o) /\ Rewritten(p) /\ given[o] = given[p] => o = p

=============================================================================
