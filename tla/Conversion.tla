----------------------------- MODULE Conversion -----------------------------
(***************************************************************************)
(* What Convert promises about the BuildConfig it is given, without its    *)
(* body: one answer, which depends on that BuildConfig alone.  Neither the *)
(* flags nor the conversions before it decide whether there is a Build,    *)
(* and nothing is emitted for a BuildConfig that is refused (README.md:29, *)
(* docs/architecture.md rules 3, 4 and 12).                                *)
(***************************************************************************)
EXTENDS BuildConfigs

CONSTANT Configs   \* the BuildConfigs that may be given

VARIABLES
  given,    \* the BuildConfig being converted, in a set of one, or none
  answer    \* what the last conversion returned

NoReason == ""
Nothing == [state |-> "none", reason |-> NoReason, parts |-> {}]

-----------------------------------------------------------------------------
(* What stands in the way of a Build *)

Declined == {"unsupported strategy", "no output image"}
Reasons ==
  <<"unsupported strategy", "unknown strategy", "strategy image", "no output image", "source">>

ResolvableKinds == {"DockerImage"} \union ImageStreamKinds

\* Of the two strategies only Source takes an empty kind for a tag.
StrategyImageKinds(c) == ResolvableKinds \union {kind \in {""} : c.type = "Source"}

SourcesOf(c) ==
  {source \in {"git", "binary", "images"} :
     \/ source = "git" /\ c.source.git # Nil
     \/ source = "binary" /\ c.source.binary # Nil
     \/ source = "images" /\ c.source.images # <<>>}

UnusableSource(c) ==
  \/ \E one, other \in SourcesOf(c) : one # other
  \/ SourcesOf(c) = {"binary"} /\ c.source.binary = Empty
  \/ SourcesOf(c) = {"images"} /\ Len(c.source.images) > 1
  \/ SourcesOf(c) = {"images"} /\ c.source.images[1].from.kind \notin ResolvableKinds

Stands(reason, c) ==
  \/ reason = "unsupported strategy" /\ c.type \in {"Custom", "JenkinsPipeline"}
  \/ reason = "unknown strategy" /\ c.type \notin {"Docker", "Source"}
  \/ /\ reason = "strategy image"
     /\ c.type \in DOMAIN c.blocks
     /\ c.blocks[c.type].from.name # Empty
     /\ c.blocks[c.type].from.kind \notin StrategyImageKinds(c)
  \/ reason = "no output image" /\ c.output.to.name = Empty
  \/ reason = "source" /\ UnusableSource(c)

-----------------------------------------------------------------------------
(* What a conversion emits *)

Parts(c) ==
  {"Build"}
    \union {part \in {"ServiceAccount"} :
              /\ c.serviceAccount = Empty
              /\ \E type \in DOMAIN c.blocks : c.blocks[type].pullSecret # Nil}
    \union {part \in {"ConfigMap"} :
              c.type = "Docker" /\ c.source.dockerfile \notin {Nil, Empty}}

-----------------------------------------------------------------------------
Init == given = {} /\ answer = Nothing

\* "given" is set to one of Configs.
Call ==
  /\ given = {}
  /\ \E c \in given' : c \in Configs /\ given' = {c}
  /\ answer' = Nothing

Answer(state, reason, parts) ==
  /\ given' = {}
  /\ answer' = [state |-> state, reason |-> reason, parts |-> parts]

\* The first reason decides, and whether it skips or fails depends on it alone.
Refuse ==
  \E c \in given : \E k \in DOMAIN Reasons :
    /\ Stands(Reasons[k], c)
    /\ \A j \in 1..(k - 1) : ~Stands(Reasons[j], c)
    /\ Answer(IF Reasons[k] \in Declined THEN "skipped" ELSE "failed", Reasons[k], {})

Produce ==
  \E c \in given :
    /\ \A k \in DOMAIN Reasons : ~Stands(Reasons[k], c)
    /\ \E state \in {"converted", "converted-with-warnings"} : Answer(state, NoReason, Parts(c))

Next == Call \/ Refuse \/ Produce

Spec == Init /\ [][Next]_<<given, answer>>
=============================================================================
