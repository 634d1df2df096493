-------------------------------- MODULE Texts --------------------------------
(***************************************************************************)
(* Names, references, keys and free text, as sequences of tokens.  A token *)
(* is as much of a string as no function of the code looks into: the       *)
(* separators are tokens of their own.                                     *)
(***************************************************************************)
EXTENDS Sequences

CONSTANT Tokens

Slash == "/"
Colon == ":"
Dash == "-"
Nil == <<"nilPointer">>                  \* a nil pointer to a name
DockerfileEnding == <<Dash, "dockerfile">>

\* The tokens the code itself writes.
ASSUME TokensAssumption ==
  {Slash, Colon, Dash, "dockerfile", "nilPointer"} \subseteq Tokens

Text == Seq(Tokens)
Empty == <<>>

=============================================================================
