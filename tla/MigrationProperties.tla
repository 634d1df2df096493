------------------------ MODULE MigrationProperties ------------------------
(***************************************************************************)
(* What a migration promises about all the resources of an export.         *)
(***************************************************************************)
EXTENDS Migration

\* Every variable of crane and the plugin has its type.
MigrationTypeOK ==
  /\ export \in Exports
  /\ pending \subseteq export
  /\ handling \subseteq export \ pending
  /\ whiteouts \subseteq export \ pending
  /\ output \in Seq({output[k] : k \in DOMAIN output})
  /\ aborted \in BOOLEAN
  /\ outcome.state \in ConvertedStates \union {"skipped", "failed", "none"}

-----------------------------------------------------------------------------
(* Vocabulary of the properties *)

Finished == pending = {} /\ handling = {} /\ ~aborted

\* Crane is done with u.
Answered == export \ (pending \union handling)

\* r is the Build that replaces the BuildConfig u.
Replaces(r, u) ==
  /\ r.kind = "Build"
  /\ Handled(u)
  /\ r.ns = u.ns
  /\ r.annotations[ConvertedFromAnnotation].text = u.name

\* A BuildConfig that was exported has a name of its own in its namespace, and
\* no Build that was exported says that it was converted from it.
ASSUME ExportsAssumption ==
  \A resources \in Exports :
    /\ \A u \in {u \in resources : Handled(u)} :
         {"kind", "group", "ns", "name", "annotations", "spec", "decodable"} \subseteq DOMAIN u
    /\ \A u, v \in {u \in resources : Handled(u)} : u.ns = v.ns /\ u.name = v.name => u = v
    /\ \A r \in resources : ~Handled(r) => \A u \in resources : ~Replaces(r, u)

Copies(u) == {r \in Delivered : Key(r) = Key(u)}
Builds(u) == {r \in Delivered : Replaces(r, u)}

GivesDockerfile(u) == u.spec.source.dockerfile \notin {Nil, Empty} /\ u.spec.type = "Docker"
MapName(u) == UniqueName(u.name \o DockerfileEnding)
PullSecretsOf(u) ==
  {u.spec.blocks[type].pullSecret : type \in DOMAIN u.spec.blocks} \ {Nil}
NeedsAccount(u) == PullSecretsOf(u) # {} /\ u.spec.serviceAccount = Empty

\* The keys of what a conversion of u emits.
GeneratedKeys(u) ==
  {<<"Build", "", u.ns, UniqueName(u.name)>>}
    \union {key \in {<<"ServiceAccount", "", u.ns, UniqueName(u.name)>>} : NeedsAccount(u)}
    \union {key \in {<<"ConfigMap", "", u.ns, MapName(u)>>} : GivesDockerfile(u)}

\* The originals of the names that a conversion of u generates.
OriginalsOf(u) == {u.name} \union {o \in {u.name \o DockerfileEnding} : GivesDockerfile(u)}

Convertibles(resources) == {u \in resources : Handled(u) /\ u.decodable}
GeneratingNames(resources) == UNION {OriginalsOf(u) : u \in Convertibles(resources)}

\* No two originals of an export share a digest (names.go:28-31).
ASSUME MigratedDigestsAssumption ==
  \A resources \in Exports : \A o, p \in GeneratingNames(resources) :
    Digest(o) = Digest(p) => o = p

\* The names of an export leave the generated ones alone: no exported resource
\* has the key of a generated one, and no original that needs no rewriting is
\* what another one of its namespace is rewritten to.
NamesApart(resources) ==
  \A u \in Convertibles(resources) :
    /\ \A r \in resources : Key(r) \notin GeneratedKeys(u)
    /\ \A v \in {v \in Convertibles(resources) : v.ns = u.ns} :
         \A o \in OriginalsOf(u), p \in OriginalsOf(v) :
           Rewritten(o) /\ ~Rewritten(p) => UniqueName(o) # p

\* r is the resource u as it is passed through.
PassedAs(r, u) ==
  IF ~Handled(u) THEN r = u
  ELSE /\ Key(r) = Key(u)
       /\ r = [u EXCEPT !.annotations = r.annotations]
       /\ LET stamped == r.annotations
              own == DOMAIN u.annotations \ {OutcomeAnnotation, ReasonAnnotation}
          IN  /\ DOMAIN stamped = own \union {OutcomeAnnotation, ReasonAnnotation}
              /\ \A key \in own : stamped[key] = u.annotations[key]
              /\ stamped[OutcomeAnnotation].text \in {<<"skipped">>, <<"failed">>}
              /\ stamped[ReasonAnnotation].text # <<"">>

-----------------------------------------------------------------------------
(* Safety *)

\* No resource of the export vanishes, and none is left beside its own
\* replacement: in the end each is in the output once, or it was whited out and
\* exactly one Build says that it was converted from it.  Whatever the order,
\* no generated resource has taken another's place (README.md:12-26).
NothingVanishes ==
  Finished =>
    \A u \in export :
      IF u \in whiteouts
      THEN Copies(u) = {} /\ Cardinality(Builds(u)) = 1
      ELSE Cardinality(Copies(u)) = 1 /\ Builds(u) = {}

\* What the plugin passes through is what was exported: a resource that is no
\* BuildConfig of the build group in every part, a BuildConfig but for its
\* outcome and its reason, which say that it was not converted and why; its own
\* annotations are all there (dispositionPatch, disposition.go:31-74).
PassedThroughSaysWhy ==
  \A u \in (Answered \ whiteouts) : ~aborted => \E k \in DOMAIN output : PassedAs(output[k], u)

\* Only a BuildConfig that does not decode stops the migration: none that fails
\* to convert does, and no patch is one that crane cannot apply (ADR-0002;
\* docs/architecture.md rule 3).
OnlyUndecodableAborts ==
  aborted => \E u \in export \ pending : Handled(u) /\ ~u.decodable

\* The Builds of a migration have what they need: the ConfigMap a Build names
\* holds its own BuildConfig's Dockerfile, and its account its own pull secret.
\* Names are made for one BuildConfig at a time, and this says that they stay
\* apart in the whole output (names.go:28-31, docs/support-matrix.md:77).
PartsStayApart ==
  Finished =>
    \A u \in whiteouts : \A build \in Builds(u) :
      /\ GivesDockerfile(u) =>
           \E r \in Delivered :
             /\ r.kind = "ConfigMap" /\ r.ns = u.ns
             /\ r.name = build.annotations[DockerfileAnnotation].text
             /\ r.content = u.spec.source.dockerfile
      /\ NeedsAccount(u) =>
           \E r \in Delivered :
             /\ r.kind = "ServiceAccount" /\ r.ns = u.ns
             /\ r.name = build.name
             /\ r.secret \in PullSecretsOf(u)

-----------------------------------------------------------------------------
(* The abstract specification that a migration implements *)

\* A resource that crane is done with is replaced when it was whited out, and
\* kept when there is one of its name in the output; it is never lost.
FateOf(u) ==
  CASE u \in pending \union handling -> "waiting"
    [] u \in whiteouts -> "replaced"
    [] u \in Answered \ whiteouts /\ Handled(u) /\ ~u.decodable -> "refused"
    [] OTHER -> IF \E k \in DOMAIN output : Key(output[k]) = Key(u) THEN "kept" ELSE "lost"

Promise ==
  INSTANCE Fates WITH
    Convertible <- {u \in UNION Exports : Handled(u) /\ u.decodable},
    Unreadable <- {u \in UNION Exports : Handled(u) /\ ~u.decodable},
    fate <- [u \in export |-> FateOf(u)],
    built <- {u \in export : \E k \in DOMAIN output : Replaces(output[k], u)},
    stopped <- aborted

\* Every migration is one that Fates allows: conversions, patches and crane's
\* answers decide each resource once, and together with its Build.
KeepsItsPromise == Promise!Spec

-----------------------------------------------------------------------------
(* Claims of the documentation that the code does not keep *)

\* README.md:12: anything that is not a BuildConfig passes through untouched.
OthersUntouched ==
  Finished => \A u \in export : ~Handled(u) => u \in Delivered

=============================================================================
