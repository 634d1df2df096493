-------------------------- MODULE MCGeneratedNames --------------------------
(***************************************************************************)
(* Instances of GeneratedNames for TLC: any two of the short names over    *)
(* letters of both cases, an invalid character and dashes, of the long     *)
(* ones over fewer characters, and of a label that looks like a result.    *)
(***************************************************************************)
EXTENDS GeneratedNames

MCTokens == STRING
MCInvalidChars == {".", "_"}
MCLowered == [c \in {"A"} |-> "a"]
MCDigest(original) == ToString(original)

MCOriginals ==
  (SeqOf({"a", "A", ".", "-"}, 3) \union SeqOf({"a", "."}, 6) \union SeqOf({"a", "-"}, 6)
     \union {<<"a", "-", MCDigest(<<"A">>)>>}) \ {Empty}

=============================================================================
