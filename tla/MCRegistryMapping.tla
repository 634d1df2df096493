------------------------- MODULE MCRegistryMapping -------------------------
(***************************************************************************)
(* applyRegistryMapping on references of up to three tokens, with every    *)
(* mapping of up to four entries: nested keys, keys of one length, keys    *)
(* that end inside a component, the empty key, and empty values.           *)
(***************************************************************************)
EXTENDS RegistryMapping, FiniteSetsExt

MCTokens == {Slash, Colon, Dash, "dockerfile", "nilPointer", "quay", ".io", "new"}

MCReferences ==
  {<<"quay">>, <<"quay", ".io">>, <<"quay", ".io", Slash>>, <<".io", "quay", Slash>>}

Keys == {Empty, <<"quay">>, <<".io">>, <<"quay", ".io">>, <<"quay", Slash>>}
Values == {Empty, <<"new">>, <<"quay", Dash>>}

MCMappings ==
  UNION {[entries -> Values] : entries \in {S \in SUBSET Keys : Cardinality(S) <= 4}}
=============================================================================
