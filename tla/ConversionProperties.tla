------------------------ MODULE ConversionProperties ------------------------
(***************************************************************************)
(* What Converter.Convert promises about one conversion, and about several *)
(* conversions by one Converter.                                           *)
(***************************************************************************)
EXTENDS Converter

Steps == {"idle", "skeleton", "strategy", "buildArgs", "volumes", "gate", "dockerfile",
          "source", "output", "imageLabels", "deadline", "nodeSelector", "runPolicy",
          "postCommit", "history", "registries", "triggers", "chain", "resources",
          "outcome"}
States == ConvertedStates \union {"skipped", "failed"}

WarningKinds ==
  {"renamed", "strategy skipped", "output skipped", "doubtful image", "incremental",
   "build arg skipped", "literal ignored", "optional key", "volume undeclared",
   "volume skipped", "volumes rejected", "pull secret not linked", "associations",
   "inline dockerfile", "source secret", "image as", "no source", "source configMap",
   "source mount secret", "image paths", "image paths, run order", "output fallback",
   "output redirected", "no push secret", "image label skipped",
   "image label overridden", "deadline", "nodeSelector", "run policy", "postCommit",
   "postCommit script and command", "history limit", "webhook trigger",
   "image trigger", "image trigger, run order", "config trigger, template",
   "config trigger, by hand", "unknown trigger", "triggers found",
   "step names unknown", "resources in template", "annotation truncated"}

Attribution == [ns : Text, name : Text]
WarningRecord == [of : Attribution, kind : WarningKinds, about : Text]

\* Every variable has its type; the Build is a record of the fields the model
\* follows.
TypeOK ==
  /\ opts \in FlagSets
  /\ warnings \in Seq(WarningRecord)
  /\ current \in Attribution
  /\ conversions \in 0..MaxConversions
  /\ step \in Steps
  /\ item \in Nat \ {0}
  /\ bc \in SourceConfigs \/ bc = PlainBuildConfig
  /\ startWarnings \in 0..Len(warnings)
  /\ DOMAIN b = DOMAIN EmptyBuild
  /\ DOMAIN outcome = DOMAIN NoOutcome
  /\ outcome.state \in States \union {"none"}

-----------------------------------------------------------------------------
(* Vocabulary of the properties *)

Concluded == step = "idle" /\ outcome.state # "none"
Converted == Concluded /\ outcome.state \in ConvertedStates
Own == SubSeq(warnings, startWarnings + 1, Len(warnings))
Recorded(kind, about) == \E k \in DOMAIN Own : Own[k].kind = kind /\ Own[k].about = about
RecordedKind(kind) == \E k \in DOMAIN Own : Own[k].kind = kind
CountKinds(kinds) == Cardinality({k \in DOMAIN Own : Own[k].kind \in kinds})

Build == outcome.resources[1]
Others == {outcome.resources[k] : k \in 2..Len(outcome.resources)}
OthersOfKind(kind) == {r \in Others : r.kind = kind}

-----------------------------------------------------------------------------
(* Outcome and warnings *)

\* A conversion is "converted" exactly when it recorded no warning; with
\* warnings, the Outcome carries every one of them, the truncation notice
\* included, and no other conversion's (Convert, converter.go:219-231).
OutcomeMatchesWarnings ==
  Concluded =>
    /\ outcome.state = "converted" => Own = <<>>
    /\ outcome.state = "converted-with-warnings" =>
         Own # <<>> /\ outcome.warnings = Own
    /\ outcome.state \in {"skipped", "failed"} => outcome.warnings = <<>>

\* Every warning of a conversion names the BuildConfig being converted, none is
\* unattributed, and a Converter between calls attributes to nobody
\* (recordWarning, outcome.go:65-73; the deferred clear, converter.go:108-111).
WarningsAttributed ==
  /\ step = "idle" <=> current = NoConfig
  /\ \A k \in DOMAIN warnings : warnings[k].of # NoConfig
  /\ \A k \in DOMAIN Own : Own[k].of = Identity(bc)

\* A Converter that has converted others before reports of a BuildConfig what a
\* fresh one does: warning for warning what it recorded when it last converted
\* it.  What earlier conversions left in the Converter, a list of warnings that
\* is past the annotation's cap among them, decides nothing (converter.go:86-91,
\* 219-231).  The BuildConfigs of one Converter have names of their own.
ReusedAsFresh ==
  Concluded =>
    LET said == SelectSeq(warnings, LAMBDA w : w.of = Identity(bc))
    IN  IF Own = <<>> THEN said = <<>>
        ELSE /\ Len(said) % Len(Own) = 0
             /\ \A k \in 1..(Len(said) - Len(Own)) : said[k] = said[k + Len(Own)]

\* Within a conversion an annotation the converter wrote is never rewritten:
\* each key has one writer, at one step (ADR-0003: written once).
AnnotationsWrittenOnce ==
  [][step \notin {"idle", "skeleton"} =>
       \A key \in DOMAIN b.annotations :
         /\ key \in DOMAIN b'.annotations
         /\ key \notin DOMAIN bc.annotations => b'.annotations[key] = b.annotations[key]]_vars

\* The annotation and the log agree: what the annotation keeps is the head of
\* the recorded list and with what it omits makes up all of it, except for the
\* truncation notice, which is recorded when and only when something is
\* omitted (boundedWarnings, converter.go:333-366).
AnnotationAccountsForWarnings ==
  Converted /\ WarningsAnnotationKey \in DOMAIN Build.annotations
    /\ WarningsAnnotationKey \notin DOMAIN bc.annotations =>
    LET annotation == Build.annotations[WarningsAnnotationKey]
        truncated == annotation.omitted > 0
    IN  /\ IsPrefix(annotation.kept, Own)
        /\ Len(annotation.kept) + annotation.omitted + (IF truncated THEN 1 ELSE 0) = Len(Own)
        /\ truncated <=> RecordedKind("annotation truncated")

\* A BuildConfig that passes through is reported on only by the steps up to the
\* one that refused it: a later step would report a loss that does not happen
\* (docs/architecture.md rule 4, triggers.go:129-131, postcommit.go:27-30).  The
\* steps before have reported by then: what the strategy step says of build args
\* and volumes stays in the log of a BuildConfig that the output gate then skips
\* (docs/architecture.md:155-158), but an unsupported strategy or an
\* image that does not resolve is met before anything was dropped.
StrategyWarnings ==
  {"renamed", "doubtful image", "incremental", "build arg skipped", "literal ignored",
   "optional key", "volume undeclared", "volume skipped", "volumes rejected"}
WarningsUpTo(reason) ==
  CASE reason = "unsupported strategy" -> {"renamed", "strategy skipped"}
    [] reason \in {"unknown strategy", "strategy image"} -> {"renamed"}
    [] reason = "no output image" -> StrategyWarnings \union {"output skipped"}
    [] reason = "source" ->
         StrategyWarnings
           \union {"pull secret not linked", "associations", "inline dockerfile",
                   "source secret", "image as"}
RefusalsReportNoLaterStep ==
  Concluded /\ outcome.state \in {"skipped", "failed"} =>
    \A k \in DOMAIN Own : Own[k].kind \in WarningsUpTo(outcome.reason)

-----------------------------------------------------------------------------
(* What is emitted *)

\* Resources come out with a Build and never without one, even when the
\* ServiceAccount or the ConfigMap was built before the conversion failed, and
\* every reference between them holds: each emitted ConfigMap has the content
\* and is the one the Dockerfile annotation names, and the annotation names none
\* that is not emitted, unless the BuildConfig brought the annotation itself.
EmittedTogether ==
  Concluded =>
    /\ (outcome.resources # <<>>) <=> outcome.state \in ConvertedStates
    /\ Converted =>
         /\ Build.kind = "Build"
         /\ \A r \in Others : r.ns = Build.ns
         /\ LET maps == {r.name : r \in OthersOfKind("ConfigMap")}
                pointed == IF DockerfileAnnotation \in DOMAIN Build.annotations
                           THEN {Build.annotations[DockerfileAnnotation].text} ELSE {}
            IN  /\ maps \subseteq pointed
                /\ DockerfileAnnotation \notin DOMAIN bc.annotations => maps = pointed
         /\ \A r \in OthersOfKind("ConfigMap") : r.content = bc.source.dockerfile

\* Never emit a ServiceAccount for a BuildConfig that names one, and never lose
\* a pull secret: it is on the emitted account or a warning tells how to
\* attach it (ADR-0006).
PullSecretKept ==
  Converted =>
    /\ NamesServiceAccount => OthersOfKind("ServiceAccount") = {}
    /\ PullSecret # Nil =>
         \/ \E r \in OthersOfKind("ServiceAccount") : r.secret = PullSecret
         \/ Recorded("pull secret not linked", PullSecret)

\* The BuildRun template runs as the account that holds the pull secret: the
\* generated one, which is then emitted, or the one the BuildConfig names; and
\* it names steps only for the strategy they belong to (ADR-0005).
TemplateRunnable ==
  Converted /\ TemplateAnnotation \in DOMAIN Build.annotations
    /\ TemplateAnnotation \notin DOMAIN bc.annotations =>
    LET template == Build.annotations[TemplateAnnotation]
        emitted == {r.name : r \in OthersOfKind("ServiceAccount")}
    IN  /\ template.build = Build.name
        /\ template.sa = Empty => PullSecret = Nil /\ emitted = {}
        /\ template.sa # Empty =>
             template.sa \in (IF NamesServiceAccount THEN {bc.serviceAccount} ELSE emitted)
        /\ template.steps # <<>> => Build.strategy = DefaultStrategy[bc.type]

\* An insecure registry is declared where the strategy's push looks for it:
\* never as a parameter source-to-image does not declare, never on the output
\* of a strategy that reads the parameter (converter.go:1183-1204).
InsecureReachesThePush ==
  Converted /\ opts.insecure # <<>> =>
    LET byParam == \E k \in DOMAIN Build.params : Build.params[k].name = "registries-insecure"
        host == ImageRegistryHost(Build.image)
    IN  IF Build.strategy = <<"source-to-image">>
        THEN ~byParam /\ (Build.insecure <=> \E k \in DOMAIN opts.insecure : opts.insecure[k] = host)
        ELSE byParam /\ ~Build.insecure

\* A timeout on the Build is the deadline itself: never clamped, never the
\* wrapped product of an overflow (processCompletionDeadline).
TimeoutIsExact ==
  Converted /\ Build.timeout # <<>> =>
    /\ Build.timeout[1] = bc.deadline[1] * Second
    /\ Build.timeout[1] > 0
    /\ Build.timeout[1] <= MaxDuration

-----------------------------------------------------------------------------
(* No silent loss: what the BuildConfig says and the Build does not is in a  *)
(* recorded warning (README.md:29, docs/architecture.md rule 1).             *)

\* Strategy: a build arg or a volume is on the Build under its own name or
\* reported skipped; a usable volume is left out only for another of its name
\* that is on the Build; volume names there are unique, each one carries
\* the warning that the strategy does not declare it, and every volume entry
\* is reported once (ADR-0007).
StrategyLossesDeclared ==
  Converted /\ HasBlock =>
    /\ \A k \in DOMAIN Block.buildArgs :
         LET arg == Block.buildArgs[k]
         IN  \/ Contains(Build.buildArgs, [name |-> arg.name, from |-> arg.from])
             \/ Recorded("build arg skipped", arg.name)
    /\ \A k \in DOMAIN Block.volumes :
         LET volume == Block.volumes[k]
         IN  \/ Contains(Build.volumes, [name |-> volume.name, type |-> volume.type])
             \/ Recorded("volume skipped", volume.name)
    /\ \A k \in DOMAIN Block.volumes :
         LET volume == Block.volumes[k]
         IN  volume.name # Empty /\ volume.type \in {"Secret", "ConfigMap"} /\ volume.set =>
               \E j \in DOMAIN Build.volumes : Build.volumes[j].name = volume.name
    /\ \A j, k \in DOMAIN Build.volumes :
         Build.volumes[j].name = Build.volumes[k].name => j = k
    /\ \A k \in DOMAIN Build.volumes : Recorded("volume undeclared", Build.volumes[k].name)
    /\ CountKinds({"volume undeclared", "volume skipped"}) = Len(Block.volumes)

\* Source: what the BuildConfig's source says is on the Build's source, or
\* reported, or there is no source at all and that is reported.
SourceLossesDeclared ==
  Converted =>
    /\ Build.source.type = "none" <=> RecordedKind("no source")
    /\ bc.source.secret \notin {Nil, Empty} =>
         Build.source.secret = bc.source.secret \/ Recorded("source secret", bc.source.secret)
    /\ HasInlineDockerfile => RecordedKind("inline dockerfile")
    /\ Build.source.type # "none" =>
         /\ Build.source.contextDir = bc.source.contextDir
         /\ CountKinds({"source configMap"}) = Len(bc.source.configMaps)
         /\ CountKinds({"source mount secret"}) = Len(bc.source.secrets)
         /\ \A k \in DOMAIN bc.source.images :
              LET image == bc.source.images[k]
              IN  /\ image.as => Recorded("image as", image.from.name)
                  /\ image.paths => \/ Recorded("image paths", image.from.name)
                                    \/ Recorded("image paths, run order", image.from.name)

\* Output: an image label is on the Build with its value or reported; a push
\* that leaves the internal registry, and one without a credential, are
\* reported (BUILD-2316).
OutputLossesDeclared ==
  Converted =>
    /\ \A k \in DOMAIN bc.output.labels :
         LET label == bc.output.labels[k]
         IN  \/ /\ label.name \in DOMAIN Build.imageLabels
                /\ Build.imageLabels[label.name] = label.value
             \/ Recorded("image label overridden", label.name)
             \/ Recorded("image label skipped", label.name)
    /\ bc.output.to.kind = "ImageStreamTag" /\ ~OnInternalRegistry(Build.image) =>
         RecordedKind("output redirected")
    /\ Build.pushSecret = Nil => RecordedKind("no push secret")

\* The rest of the spec: deadline, limits, node selector, policy, hook,
\* resources; every trigger has a warning of its own and is preserved.
SpecLossesDeclared ==
  Converted =>
    /\ bc.deadline # <<>> /\ Build.timeout = <<>> => RecordedKind("deadline")
    /\ CountKinds({"history limit"}) =
         Cardinality({l \in {1} : bc.succeededLimit # Build.succeededLimit})
         + Cardinality({l \in {1} : bc.failedLimit # Build.failedLimit})
    /\ bc.nodeSelector # Build.nodeSelector =>
         Build.nodeSelector = {} /\ RecordedKind("nodeSelector")
    /\ bc.runPolicy # "Parallel" => RecordedKind("run policy")
    /\ bc.postCommit # {} => RecordedKind("postCommit")
    /\ bc.resources =>
         CountKinds({"step names unknown", "resources in template"}) = 1
    /\ CountKinds({"webhook trigger", "image trigger", "image trigger, run order",
                   "config trigger, template", "config trigger, by hand",
                   "unknown trigger"}) = Len(bc.triggers)
    /\ bc.triggers # <<>> =>
         Build.annotations[TriggersAnnotation] = [triggers |-> bc.triggers]

-----------------------------------------------------------------------------
(* Chained builds *)

ImageInputs ==
  {WithDefaultNamespace(ref) :
     ref \in (IF HasBlock
              THEN {[Block.from EXCEPT !.kind =
                       IF bc.type = "Source" /\ @ = "" THEN "ImageStreamTag" ELSE @]}
              ELSE {})
             \union {bc.source.images[k].from : k \in DOMAIN bc.source.images}}
ChainedInputs == {ref \in ImageInputs : ref.name # Empty /\ ChainCandidate(ref)}

NamedByWarning(ref) ==
  \/ Recorded("image trigger, run order", ref.name)
  \/ Recorded("image paths, run order", ref.name)

\* An image input that another BuildConfig of the namespace may build is
\* noticed: by a warning that names it, or else by an info line about what it
\* resolves to.  No two info lines are about one image, and none is about an
\* image whose inputs warnings already name (ADR-0009).  Warnings and info
\* lines are written by different steps, each deciding on its own.
ChainNoticedOnce ==
  Converted =>
    /\ \A ref \in ChainedInputs :
         NamedByWarning(ref) \/ Contains(notices, Resolve(ref).image)
    /\ \A j, k \in DOMAIN notices : notices[j] = notices[k] => j = k
    /\ \A k \in DOMAIN notices :
         \E ref \in ChainedInputs :
           ~NamedByWarning(ref) /\ Resolve(ref).image = notices[k]

-----------------------------------------------------------------------------
(* The abstract specification that a Converter implements *)

Contract ==
  INSTANCE Conversion WITH
    Configs <- SourceConfigs,
    given <- IF step = "idle" THEN {} ELSE {bc},
    answer <- [state |-> outcome.state, reason |-> outcome.reason,
               parts |-> {outcome.resources[k].kind : k \in DOMAIN outcome.resources}]

\* Every conversion is one that Conversion allows: whether a BuildConfig is
\* converted, why it is not, and which resources come out depend on it alone,
\* and a convertible one always gets its Build (docs/architecture.md rules 4 and
\* 15): the flags, what went wrong in earlier conversions and what was already
\* built when a step gave up make no difference.
KeepsItsContract == Contract!Spec

-----------------------------------------------------------------------------
(* Claims of the documentation that the code does not keep *)

\* triggers.go:170-172 and the warning's wording: a dropped ConfigChange
\* trigger points at the BuildRun template whenever the Build carries one.
ConfigChangeNamesTemplate ==
  Converted /\ TemplateAnnotation \in DOMAIN Build.annotations
            /\ (\E k \in DOMAIN bc.triggers : bc.triggers[k].type = "ConfigChange") =>
    ~RecordedKind("config trigger, by hand")

\* README.md:29: every field the plugin reads and then drops produces a
\* warning; here, the source's ConfigMaps and Secrets.
SourceInputsDeclared ==
  Converted =>
    /\ \A k \in DOMAIN bc.source.configMaps :
         Recorded("source configMap", bc.source.configMaps[k])
    /\ \A k \in DOMAIN bc.source.secrets :
         Recorded("source mount secret", bc.source.secrets[k])

\* docs/support-matrix.md:337 and converter.go:61-65: the conversion-reason
\* annotation is on passed-through BuildConfigs, skipped or failed.
ReasonOnlyOnPassThrough ==
  Converted => ReasonAnnotation \notin DOMAIN Build.annotations

=============================================================================
