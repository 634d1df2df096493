---------------------------- MODULE MCMigration ----------------------------
(***************************************************************************)
(* Instances of the Migration for TLC: exports of up to four resources.    *)
(***************************************************************************)
EXTENDS MigrationProperties

MCTokens == STRING
MCInvalidChars == {".", "_"}
MCLowered == [c \in {"Web"} |-> "web"]
MCDigest(original) == ToString(original)
NoFlagSet == {NoFlags}

-----------------------------------------------------------------------------
(* Exported resources *)

Exported(spec, name, annotations) ==
  [kind |-> "BuildConfig", group |-> "build.openshift.io", ns |-> spec.ns, name |-> name,
   annotations |-> annotations, spec |-> spec, decodable |-> TRUE]

Bare == [key \in {} |-> [text |-> Empty]]
Team == [key \in {<<"team">>} |-> [text |-> <<"x">>]]
\* Annotated by an earlier run, for another reason.
Stale == [key \in {<<"team">>, OutcomeAnnotation, ReasonAnnotation} |-> [text |-> <<"old">>]]

WithPull(spec, secret) == [spec EXCEPT !.blocks["Docker"].pullSecret = secret]
WithDockerfile(spec, text) == [spec EXCEPT !.source.dockerfile = text]

\* A BuildConfig with all the parts that get names of their own.
Whole(name, text) ==
  Exported(WithDockerfile(WithPull(PlainBuildConfig, <<text>>), <<text>>), name, Bare)

Plain == Exported(PlainBuildConfig, <<"api">>, Team)
Jenkins == Exported([PlainBuildConfig EXCEPT !.type = "JenkinsPipeline"], <<"pipe">>, Bare)
Blind == Exported([PlainBuildConfig EXCEPT !.output.to.name = Empty], <<"blind">>, Bare)
Failing == Exported(WithPull([PlainBuildConfig EXCEPT !.source.binary = <<"app.jar">>], <<"p">>),
                    <<"failing">>, Bare)
Annotated(u, annotations) == [u EXCEPT !.annotations = annotations]
Broken == [Plain EXCEPT !.name = <<"broken">>, !.decodable = FALSE]
Legacy == [Plain EXCEPT !.group = ""]
Elsewhere == [Whole(<<"web">>, "o") EXCEPT !.ns = <<"ops">>, !.spec.ns = <<"ops">>]
Account(name) == [kind |-> "ServiceAccount", ns |-> <<"shop">>, name |-> name,
                  secret |-> <<"own">>]
Deployment == [kind |-> "Deployment", ns |-> <<"shop">>, name |-> <<"web">>]

-----------------------------------------------------------------------------
(* Fates: every way to end, with and without annotations, next to resources  *)
(* the plugin does not handle, and with one that does not decode.            *)

FateExports ==
  {{Annotated(first, annotations), Plain, other, last} :
     first \in {Jenkins, Blind, Failing}, annotations \in {Bare, Team, Stale},
     other \in {Legacy, Account(<<"robot">>), Deployment},
     last \in {Whole(<<"web">>, "w"), Broken, Annotated([Failing EXCEPT !.name = <<"late">>], Stale)}}

\* Names: originals that become one label before the digest, a name cut short,
\* one of the largest length, one name in two namespaces.
NameExports ==
  {{Whole(a, "a"), Whole(c, "c"), extra} :
     a \in {<<"web">>, <<"Web">>, <<"web", ".", "x">>},
     c \in {<<"web", "_", "x">>, <<"web", "-">>, <<"web", ".", "_", "x", "-">>,
            <<"a", "b", "c", "d", "e", "f">>, <<"a", "b", "c", "d", "e", "f", "g">>},
     extra \in {Elsewhere, Account(<<"robot">>), Whole(<<"a", "b", "c", "d", "e", "f", "h">>, "h")}}

\* An account that was exported has the name of a BuildConfig with a pull secret.
ClashExports ==
  {{Whole(name, "w"), Account(name), other} :
     name \in {<<"web">>, <<"pipeline">>}, other \in {Plain, Deployment, Jenkins}}

AllExports == FateExports \union NameExports

ConfigsOf(exports) == {Decoded(u) : u \in {u \in UNION exports : u.kind = "BuildConfig"}}

AllConfigs == ConfigsOf(AllExports)

\* What the constants stand for.  TLC evaluates these bodies at every use, and
\* the sets they name only once.
ExportSets == AllExports
ExportConfigs == AllConfigs
ClashConfigs == ConfigsOf(ClashExports)

-----------------------------------------------------------------------------
(* A migration stops when it is over.  With that as a step of its own, one     *)
(* that is stuck before, a conversion that no call continues for instance, is *)
(* a deadlock.                                                               *)

Over == (Finished \/ aborted) /\ UNCHANGED migrationVars

MCMigrationSpec == MigrationInit /\ [][MigrationNext \/ Over]_migrationVars

=============================================================================
