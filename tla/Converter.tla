----------------------------- MODULE Converter -----------------------------
(***************************************************************************)
(* Converter.Convert (src/buildconfig/converter.go): one BuildConfig       *)
(* becomes a Shipwright Build and the resources that go with it, or is     *)
(* skipped, or fails.                                                      *)
(*                                                                         *)
(* Convert is sequential.  "step" is the next call of its body; one action *)
(* is one call with everything the call changes, and one action is one     *)
(* iteration where a call loops over a list of the BuildConfig ("item" is  *)
(* the index).  A Converter may convert several BuildConfigs one after     *)
(* another; its warnings accumulate, and each conversion slices out its    *)
(* own.                                                                    *)
(***************************************************************************)
EXTENDS Integers, Sequences, FiniteSets, SequencesExt,
        BuildConfigs, Names, WarningsAnnotation

CONSTANTS
  SourceConfigs,     \* the BuildConfigs that may be converted
  FlagSets,          \* the plugin flags one Converter may have been given
  MaxConversions,    \* bound: conversions by one Converter
  WordingBytes,      \* length of a warning without the name it embeds
  MaxDuration,       \* the largest time.Duration, math.MaxInt64
  Second,            \* time.Second in the same unit
  MaxRetentionLimit  \* 10000 in the code

ASSUME ConverterAssumption ==
  /\ \A c \in SourceConfigs : IsBuildConfig(c)
  /\ \A o \in FlagSets : IsOptions(o)
  /\ MaxConversions \in Nat
  /\ WordingBytes \in Nat
  /\ MaxDuration \in Nat
  /\ Second \in Nat \ {0}
  /\ MaxRetentionLimit \in Nat

VARIABLES
  opts,         \* Converter.Opts
  warnings,     \* Converter.warnings
  current,      \* Converter.curNS and curName
  conversions,  \* how many conversions this Converter has begun
  step,         \* the next call in Convert's body, or "idle"
  item,         \* the iteration the call is at
  bc,           \* the BuildConfig being converted
  startWarnings,
  b,            \* the Build
  newResources, \* what goes with the Build
  generatedSA,  \* the name of the generated ServiceAccount, or Empty
  notices,      \* images an info line has been printed about
  outcome       \* what the last Convert returned: Outcome and resources

fixed == <<opts, conversions, bc, startWarnings>>
vars == <<opts, warnings, current, conversions, step, item, bc, startWarnings,
          b, newResources, generatedSA, notices, outcome>>

-----------------------------------------------------------------------------
(* Vocabulary *)

NoConfig == [ns |-> Empty, name |-> Empty]
Identity(c) == [ns |-> c.ns, name |-> c.name]

DefaultStrategy == [Docker |-> <<"buildah">>, Source |-> <<"source-to-image">>]
StrategyFlag == [Docker |-> "docker", Source |-> "s2i"]

\* Annotation keys the converter owns.
ConvertedFromAnnotation == <<"converted-from">>
WarningsAnnotationKey == <<"conversion-warnings">>
OutcomeAnnotation == <<"buildconfig-to-shipwright", Slash, "conversion-outcome">>
ReasonAnnotation == <<"buildconfig-to-shipwright", Slash, "conversion-reason">>
TemplateAnnotation == <<"buildrun-template">>
TriggersAnnotation == <<"original-triggers">>
DockerfileAnnotation == <<"inline-dockerfile-configmap">>

\* Mutant: the map is rebuilt around the new key.
WithOnly(f, key, value) == [x \in {key} |-> value]

With(f, key, value) ==
  [x \in DOMAIN f \union {key} |-> IF x = key THEN value ELSE f[x]]

\* The sequence of e alone when the condition holds, empty otherwise.
If(condition, e) == IF condition THEN <<e>> ELSE <<>>

\* recordWarning prefixes a message with the BuildConfig being converted.
Warning(kind, about) == [of |-> current, kind |-> kind, about |-> about]
WarningLength(w) == WordingBytes + Len(w.about)

Param(name, value) == [name |-> name, value |-> value]

NoOutcome == [state |-> "none", reason |-> "", warnings |-> <<>>, resources |-> <<>>]

NoSource == [type |-> "none", at |-> Empty, revision |-> Empty,
             secret |-> Nil, contextDir |-> Empty]

EmptyBuild ==
  [kind |-> "Build", ns |-> Empty, name |-> Empty,
   annotations |-> [key \in {} |-> [text |-> Empty]], labels |-> {},
   strategy |-> Empty, params |-> <<>>, buildArgs |-> <<>>, env |-> <<>>, volumes |-> <<>>,
   source |-> NoSource, image |-> Empty, pushSecret |-> Nil,
   imageLabels |-> [name \in {} |-> Empty], insecure |-> FALSE,
   timeout |-> <<>>, nodeSelector |-> {}, succeededLimit |-> <<>>,
   failedLimit |-> <<>>]

-----------------------------------------------------------------------------
(* Control: every call of Convert's body either continues or returns. *)

\* Mutant: a call replaces the recorded list.
WarnReplacingAll(ws) == warnings' = ws

\* Mutant: what was recorded before is not recorded again.
WarnUnheard(ws) ==
  warnings' = IF \A k \in DOMAIN ws : Contains(warnings, ws[k]) THEN warnings
              ELSE warnings \o ws

Warn(ws) == warnings' = warnings \o ws

Continue(next) ==
  /\ step' = next
  /\ item' = 1
  /\ UNCHANGED <<fixed, current, outcome>>

Repeat ==
  /\ item' = item + 1
  /\ UNCHANGED <<fixed, current, step, outcome>>

\* Mutant: the attribution is not cleared.
ReturnAttributed(result) ==
  /\ outcome' = result
  /\ step' = "idle"
  /\ item' = 1
  /\ UNCHANGED <<fixed, current, b, newResources, generatedSA, notices>>

\* Convert returns: the deferred function clears the attribution.
Return(result) ==
  /\ outcome' = result
  /\ current' = NoConfig
  /\ step' = "idle"
  /\ item' = 1
  /\ UNCHANGED <<fixed, b, newResources, generatedSA, notices>>

ConvertedStates == {"converted", "converted-with-warnings"}

\* Mutant: a failure ships what was built before it.
FailedWithResources(reason) ==
  [state |-> "failed", reason |-> reason, warnings |-> <<>>, resources |-> newResources]

OutcomeFailed(reason) ==
  [state |-> "failed", reason |-> reason, warnings |-> <<>>, resources |-> <<>>]
OutcomeSkipped(reason) ==
  [state |-> "skipped", reason |-> reason, warnings |-> <<>>, resources |-> <<>>]

UnchangedExtras == UNCHANGED <<newResources, generatedSA, notices>>

-----------------------------------------------------------------------------
(* The call, the skeleton Build and its metadata *)

Convert(c) ==
  /\ step = "idle"
  /\ conversions < MaxConversions
  /\ conversions' = conversions + 1
  /\ bc' = c
  /\ current' = Identity(c)
  /\ startWarnings' = Len(warnings)
  /\ step' = "skeleton"
  /\ item' = 1
  /\ b' = EmptyBuild
  /\ newResources' = <<>>
  /\ generatedSA' = Empty
  /\ notices' = <<>>
  /\ outcome' = NoOutcome
  /\ UNCHANGED <<opts, warnings>>

\* uniqueName: the sanitized name, and a warning when it had to be changed.
UniqueName(original) == SanitizeDNS1123Label(original)
RenameWarning(original) == If(Rewritten(original), Warning("renamed", original))

HasPrefixIn(key, prefixes) == \E prefix \in prefixes : IsPrefix(prefix, key)

CopyAnnotations(annotations) ==
  LET kept == {key \in DOMAIN annotations :
                 ~HasPrefixIn(key, {<<"openshift.io/">>, <<"kubectl.kubernetes.io/">>})}
  IN  [key \in kept |-> annotations[key]]

CopyLabels(labels) ==
  {key \in labels : /\ ~HasPrefixIn(key, {<<"openshift.io/", "build">>})
                    /\ key # <<"buildconfig">>}

MakeSkeleton ==
  /\ step = "skeleton"
  /\ b' = [EmptyBuild EXCEPT
             !.ns = bc.ns,
             !.name = UniqueName(bc.name),
             !.annotations = With(CopyAnnotations(bc.annotations),
                                  ConvertedFromAnnotation, [text |-> bc.name]),
             !.labels = CopyLabels(bc.labels)]
  /\ Warn(RenameWarning(bc.name))
  /\ Continue("strategy")
  /\ UnchangedExtras

-----------------------------------------------------------------------------
(* Strategy *)

StrategyName(type) ==
  LET flag == StrategyFlag[type]
  IN  IF flag \in DOMAIN opts.strategy /\ opts.strategy[flag] # Empty
      THEN opts.strategy[flag]
      ELSE DefaultStrategy[type]

WithDefaultNamespace(ref) == [ref EXCEPT !.ns = IF @ = Empty THEN bc.ns ELSE @]

Resolve(ref) ==
  LET full == WithDefaultNamespace(ref)
  IN  ResolveImageRef(full.kind, full.name, full.ns, opts)

Block == bc.blocks[bc.type]
HasBlock == bc.type \in DOMAIN bc.blocks
Convertible == bc.type \in {"Docker", "Source"}
NamesStrategyImage == Block.from.name # Empty

\* Mutant: both strategies default an empty kind.
StrategyImageDefaulted ==
  Resolve([Block.from EXCEPT !.kind = IF @ = "" THEN "ImageStreamTag" ELSE @])

\* Only the Source strategy defaults an empty kind.
StrategyImage ==
  Resolve([Block.from EXCEPT !.kind =
             IF bc.type = "Source" /\ @ = "" THEN "ImageStreamTag" ELSE @])

Skip(warningKind, reason) ==
  /\ Warn(<<Warning(warningKind, bc.name)>>)
  /\ Return(OutcomeSkipped(reason))

SkipUnsupportedStrategy ==
  /\ step = "strategy"
  /\ bc.type \in {"Custom", "JenkinsPipeline"}
  /\ Skip("strategy skipped", "unsupported strategy")

FailUnknownStrategy ==
  /\ step = "strategy"
  /\ bc.type \notin {"Docker", "Source", "Custom", "JenkinsPipeline"}
  /\ UNCHANGED warnings
  /\ Return(OutcomeFailed("unknown strategy"))

FailStrategyImage ==
  /\ step = "strategy"
  /\ Convertible /\ HasBlock /\ NamesStrategyImage
  /\ ~StrategyImage.ok
  /\ UNCHANGED warnings
  /\ Return(OutcomeFailed("strategy image"))

StrategyWithoutBlock ==
  /\ step = "strategy"
  /\ Convertible /\ ~HasBlock
  /\ b' = [b EXCEPT !.strategy = StrategyName(bc.type)]
  /\ UNCHANGED warnings
  /\ Continue("gate")
  /\ UnchangedExtras

ImageParam(name) == If(NamesStrategyImage, Param(name, StrategyImage.image))
ImageWarning ==
  If(NamesStrategyImage /\ StrategyImage.doubtful,
     Warning("doubtful image", Block.from.name))
SwitchParam(name) == If(name \in Block.switches, Param(name, <<"true">>))

StrategyImageUsable == NamesStrategyImage => StrategyImage.ok

ProcessDockerStrategy ==
  /\ step = "strategy"
  /\ bc.type = "Docker" /\ HasBlock /\ StrategyImageUsable
  /\ b' = [b EXCEPT
             !.strategy = StrategyName("Docker"),
             !.params = @ \o ImageParam("runtime-stage-from") \o SwitchParam("no-cache")
                          \o SwitchParam("pull") \o SwitchParam("dockerfile"),
             !.env = @ \o Block.env]
  /\ Warn(ImageWarning)
  /\ Continue("buildArgs")
  /\ UnchangedExtras

ProcessSourceStrategy ==
  /\ step = "strategy"
  /\ bc.type = "Source" /\ HasBlock /\ StrategyImageUsable
  /\ b' = [b EXCEPT
             !.strategy = StrategyName("Source"),
             !.params = @ \o ImageParam("builder-image") \o SwitchParam("scripts-url")
                          \o SwitchParam("incremental") \o SwitchParam("pull-policy"),
             !.env = @ \o Block.env]
  /\ Warn(ImageWarning \o If("incremental" \in Block.switches,
                             Warning("incremental", bc.name)))
  /\ Continue("volumes")
  /\ UnchangedExtras

-----------------------------------------------------------------------------
(* Build args of the Docker strategy: the values of the build-args parameter *)

ValidBuildArgName(name) ==
  name # Empty /\ ~\E k \in DOMAIN name : name[k] \in {"=", "$", "{", "}", " ", "\n"}

BuildArgConverts(arg) ==
  /\ ValidBuildArgName(arg.name)
  /\ \/ arg.from = "value"
     \/ arg.from \in {"configMap", "secret"} /\ arg.complete

BuildArgWarnings(arg) ==
  IF ~ValidBuildArgName(arg.name)
  THEN <<Warning("build arg skipped", arg.name)>>
  ELSE If(arg.from # "value" /\ arg.literal, Warning("literal ignored", arg.name))
       \o If(~BuildArgConverts(arg), Warning("build arg skipped", arg.name))
       \o If(BuildArgConverts(arg) /\ arg.from # "value" /\ arg.optional,
             Warning("optional key", arg.name))

ConvertBuildArg ==
  /\ step = "buildArgs"
  /\ item <= Len(Block.buildArgs)
  /\ LET arg == Block.buildArgs[item]
     IN  /\ b' = [b EXCEPT !.buildArgs =
                    @ \o If(BuildArgConverts(arg), [name |-> arg.name, from |-> arg.from])]
         /\ Warn(BuildArgWarnings(arg))
  /\ Repeat
  /\ UnchangedExtras

FinishDockerStrategy ==
  /\ step = "buildArgs"
  /\ item > Len(Block.buildArgs)
  /\ b' = [b EXCEPT !.params = @ \o SwitchParam("squash")]
  /\ UNCHANGED warnings
  /\ Continue("volumes")
  /\ UnchangedExtras

-----------------------------------------------------------------------------
(* Strategy volumes.  A name is seen once a volume of that name converted. *)

\* Mutant: a name is seen as soon as an entry carries it, converted or not.
VolumeNameMet(volume) == \E k \in 1..(item - 1) : Block.volumes[k].name = volume.name

VolumeSeen(volume) == \E k \in DOMAIN b.volumes : b.volumes[k].name = volume.name

VolumeConverts(volume) ==
  /\ volume.name # Empty
  /\ ~VolumeSeen(volume)
  /\ volume.type \in {"Secret", "ConfigMap"}
  /\ volume.set

ConvertVolume ==
  /\ step = "volumes"
  /\ item <= Len(Block.volumes)
  /\ LET volume == Block.volumes[item]
         converts == VolumeConverts(volume)
     IN  /\ b' = [b EXCEPT !.volumes =
                    @ \o If(converts, [name |-> volume.name, type |-> volume.type])]
         /\ Warn(<<Warning(IF converts THEN "volume undeclared" ELSE "volume skipped",
                           volume.name)>>)
  /\ Repeat
  /\ UnchangedExtras

FinishVolumes ==
  /\ step = "volumes"
  /\ item > Len(Block.volumes)
  /\ Warn(If(b.volumes # <<>>, Warning("volumes rejected", bc.name)))
  /\ UNCHANGED b
  /\ Continue("gate")
  /\ UnchangedExtras

-----------------------------------------------------------------------------
(* The output gate, credentials and the inline Dockerfile *)

HasOutput == bc.output.to.name # Empty

\* Mutant: the hook is reported dropped before the gate skips the BuildConfig.
SkipAfterPostCommit ==
  /\ step = "gate"
  /\ ~HasOutput
  /\ Warn(If(bc.postCommit # {}, Warning("postCommit", bc.name))
          \o <<Warning("output skipped", bc.name)>>)
  /\ Return(OutcomeSkipped("no output image"))

SkipWithoutOutput ==
  /\ step = "gate"
  /\ ~HasOutput
  /\ Skip("output skipped", "no output image")

\* The Docker block comes first whatever the strategy type.
PullSecret ==
  CASE "Docker" \in DOMAIN bc.blocks /\ bc.blocks["Docker"].pullSecret # Nil ->
         bc.blocks["Docker"].pullSecret
    [] "Source" \in DOMAIN bc.blocks
         /\ ("Docker" \notin DOMAIN bc.blocks \/ bc.blocks["Docker"].pullSecret = Nil) ->
         bc.blocks["Source"].pullSecret
    [] OTHER -> Nil

NamesServiceAccount == bc.serviceAccount # Empty
\* Mutant: an account is generated beside the one the BuildConfig names.
GeneratesAlways == PullSecret # Nil

GeneratesServiceAccount == PullSecret # Nil /\ ~NamesServiceAccount

ServiceAccount ==
  [kind |-> "ServiceAccount", ns |-> bc.ns, name |-> UniqueName(bc.name),
   secret |-> PullSecret]

ProcessCredentials ==
  /\ step = "gate"
  /\ HasOutput
  /\ newResources' = newResources \o If(GeneratesServiceAccount, ServiceAccount)
  /\ generatedSA' = IF GeneratesServiceAccount THEN ServiceAccount.name ELSE Empty
  /\ Warn(If(PullSecret # Nil /\ NamesServiceAccount,
             Warning("pull secret not linked", PullSecret))
          \o (IF GeneratesServiceAccount THEN RenameWarning(bc.name) ELSE <<>>)
          \o If(NamesServiceAccount, Warning("associations", bc.serviceAccount)))
  /\ Continue("dockerfile")
  /\ UNCHANGED <<b, notices>>

HasInlineDockerfile == bc.source.dockerfile \notin {Nil, Empty}
\* Mutant: the ConfigMap has one name for every BuildConfig.
DockerfileCommonName == <<"dockerfile">>

DockerfileOriginalName == bc.name \o DockerfileEnding

DockerfileConfigMap ==
  [kind |-> "ConfigMap", ns |-> bc.ns, name |-> UniqueName(DockerfileOriginalName),
   content |-> bc.source.dockerfile]

ProcessInlineDockerfile ==
  /\ step = "dockerfile"
  /\ LET preserved == HasInlineDockerfile /\ bc.type = "Docker"
     IN  /\ newResources' = newResources \o If(preserved, DockerfileConfigMap)
         /\ b' = IF preserved
                 THEN [b EXCEPT !.annotations =
                         With(@, DockerfileAnnotation, [text |-> DockerfileConfigMap.name])]
                 ELSE b
         /\ Warn((IF preserved THEN RenameWarning(DockerfileOriginalName) ELSE <<>>)
                 \o If(HasInlineDockerfile, Warning("inline dockerfile", bc.name)))
  /\ Continue("source")
  /\ UNCHANGED <<generatedSA, notices>>

-----------------------------------------------------------------------------
(* Source *)

SourceTypes ==
  {type \in {"git", "binary", "images"} :
     CASE type = "git" -> bc.source.git # Nil
       [] type = "binary" -> bc.source.binary # Nil
       [] type = "images" -> bc.source.images # <<>>}

SoleImage == bc.source.images[1]

\* Mutant: the check comes behind the early return for an absent source.
SourceSecretWarningLate ==
  If("git" \notin SourceTypes /\ SourceTypes # {} /\ bc.source.secret \notin {Nil, Empty},
     Warning("source secret", bc.source.secret))

\* sourceSecret authenticates git clones only.
SourceSecretWarning ==
  If("git" \notin SourceTypes /\ bc.source.secret \notin {Nil, Empty},
     Warning("source secret", bc.source.secret))

ImageAsWarning == If(SoleImage.as, Warning("image as", SoleImage.from.name))

FailSource ==
  /\ step = "source"
  /\ \/ /\ Cardinality(SourceTypes) > 1
        /\ Warn(SourceSecretWarning)
     \/ /\ SourceTypes = {"binary"}
        /\ bc.source.binary = Empty
        /\ Warn(SourceSecretWarning)
     \/ /\ SourceTypes = {"images"}
        /\ Len(bc.source.images) > 1
        /\ Warn(SourceSecretWarning)
     \/ /\ SourceTypes = {"images"}
        /\ Len(bc.source.images) = 1
        /\ ~Resolve(SoleImage.from).ok
        /\ Warn(SourceSecretWarning \o ImageAsWarning)
  /\ Return(OutcomeFailed("source"))

SourceAbsent ==
  /\ step = "source"
  /\ SourceTypes = {}
  /\ Warn(SourceSecretWarning \o <<Warning("no source", bc.name)>>)
  /\ UNCHANGED b
  /\ Continue("output")
  /\ UnchangedExtras

\* Source ConfigMaps and Secrets have no Shipwright equivalent: one warning
\* per entry, nothing on the Build.
MountWarnings ==
  [k \in DOMAIN bc.source.configMaps |->
     Warning("source configMap", bc.source.configMaps[k])]
  \o [k \in DOMAIN bc.source.secrets |->
     Warning("source mount secret", bc.source.secrets[k])]

Source(type, at, revision, secret) ==
  [type |-> type, at |-> at, revision |-> revision, secret |-> secret,
   contextDir |-> bc.source.contextDir]

\* Each proxy becomes the variable in both cases.
ProxyEnv ==
  LET pair(proxy) == If(proxy \in bc.source.proxies, <<proxy, "upper">>)
                     \o If(proxy \in bc.source.proxies, <<proxy, "lower">>)
  IN  pair("http") \o pair("https") \o pair("no")

GitSource ==
  /\ step = "source"
  /\ SourceTypes = {"git"}
  /\ b' = [b EXCEPT !.source = Source("Git", bc.source.git, bc.source.ref, bc.source.secret),
                    !.env = @ \o ProxyEnv]
  /\ Warn(MountWarnings)
  /\ Continue("output")
  /\ UnchangedExtras

BinarySource ==
  /\ step = "source"
  /\ SourceTypes = {"binary"}
  /\ bc.source.binary # Empty
  /\ b' = [b EXCEPT !.source = Source("Local", <<"local-copy">>, Empty, Nil)]
  /\ Warn(SourceSecretWarning \o MountWarnings)
  /\ Continue("output")
  /\ UnchangedExtras

\* An image input that another BuildConfig of the namespace may produce.
\* The reference carries its defaulted namespace.
ChainCandidate(ref) == ref.kind = "ImageStreamTag" /\ ref.ns = bc.ns

ImagePathsWarning ==
  If(SoleImage.paths,
     Warning(IF ChainCandidate(WithDefaultNamespace(SoleImage.from))
             THEN "image paths, run order" ELSE "image paths",
             SoleImage.from.name))

ImageSourceStep ==
  /\ step = "source"
  /\ SourceTypes = {"images"}
  /\ Len(bc.source.images) = 1
  /\ LET image == Resolve(SoleImage.from)
     IN  /\ image.ok
         /\ b' = [b EXCEPT !.source =
                    Source("OCI", image.image, Empty, SoleImage.pullSecret)]
         /\ Warn(SourceSecretWarning \o ImageAsWarning
                 \o If(image.doubtful, Warning("doubtful image", SoleImage.from.name))
                 \o ImagePathsWarning \o MountWarnings)
  /\ Continue("output")
  /\ UnchangedExtras

-----------------------------------------------------------------------------
(* Output *)

ProcessOutput ==
  /\ step = "output"
  /\ LET to == WithDefaultNamespace(bc.output.to)
         image == OutputImage(to.kind, to.name, to.ns, opts)
         isTag == to.kind = "ImageStreamTag"
         hasPushSecret == bc.output.pushSecret \notin {Nil, Empty}
     IN  /\ b' = [b EXCEPT
                    !.image = image,
                    !.pushSecret = IF hasPushSecret THEN bc.output.pushSecret ELSE Nil]
         /\ Warn(If(isTag /\ ~OutputIsMapped(to.ns, to.name, opts),
                    Warning("output fallback", to.name))
                 \o If(isTag /\ ~OnInternalRegistry(image),
                       Warning("output redirected", to.name))
                 \o If(~hasPushSecret, Warning("no push secret", bc.name)))
  /\ Continue("imageLabels")
  /\ UnchangedExtras

ImageLabelConflicts(label) ==
  label.name \in DOMAIN b.imageLabels /\ b.imageLabels[label.name] # label.value

\* Mutant: the last value of a label wins silently.
ImageLabelSilent(label) ==
  IF label.name = Empty THEN <<Warning("image label skipped", label.name)>> ELSE <<>>

ImageLabelWarnings(label) ==
  IF label.name = Empty
  THEN <<Warning("image label skipped", label.name)>>
  ELSE If(ImageLabelConflicts(label), Warning("image label overridden", label.name))

ConvertImageLabel ==
  /\ step = "imageLabels"
  /\ item <= Len(bc.output.labels)
  /\ LET label == bc.output.labels[item]
     IN  /\ b' = IF label.name = Empty THEN b
                 ELSE [b EXCEPT !.imageLabels = With(@, label.name, label.value)]
         /\ Warn(ImageLabelWarnings(label))
  /\ Repeat
  /\ UnchangedExtras

FinishOutput ==
  /\ step = "imageLabels"
  /\ item > Len(bc.output.labels)
  /\ UNCHANGED <<b, warnings>>
  /\ Continue("deadline")
  /\ UnchangedExtras

-----------------------------------------------------------------------------
(* Deadline, node selector, run policy, hook and history limits *)

\* Signed integers wrap at the width of time.Duration.
Wrap(x) == ((x + MaxDuration + 1) % (2 * (MaxDuration + 1))) - (MaxDuration + 1)

MaxTimeoutSeconds == MaxDuration \div Second
\* Mutant: no upper bound on the deadline.
PositiveDeadline(seconds) == seconds > 0

UsableDeadline(seconds) == seconds > 0 /\ seconds <= MaxTimeoutSeconds

ProcessCompletionDeadline ==
  /\ step = "deadline"
  /\ LET usable == bc.deadline # <<>> /\ UsableDeadline(bc.deadline[1])
     IN  /\ b' = IF usable THEN [b EXCEPT !.timeout = <<Wrap(bc.deadline[1] * Second)>>] ELSE b
         /\ Warn(If(bc.deadline # <<>> /\ ~usable, Warning("deadline", bc.name)))
  /\ Continue("nodeSelector")
  /\ UnchangedExtras

ValidNodeSelector == \A entry \in bc.nodeSelector : entry.valid

ProcessNodeSelector ==
  /\ step = "nodeSelector"
  /\ b' = IF ValidNodeSelector THEN [b EXCEPT !.nodeSelector = bc.nodeSelector] ELSE b
  /\ Warn(If(~ValidNodeSelector, Warning("nodeSelector", bc.name)))
  /\ Continue("runPolicy")
  /\ UnchangedExtras

\* An absent policy meant Serial; Parallel is what BuildRuns do anyway.
ProcessRunPolicy ==
  /\ step = "runPolicy"
  /\ Warn(If(bc.runPolicy # "Parallel", Warning("run policy", bc.name)))
  /\ UNCHANGED b
  /\ Continue("postCommit")
  /\ UnchangedExtras

ProcessPostCommit ==
  /\ step = "postCommit"
  /\ Warn(If(bc.postCommit # {}, Warning("postCommit", bc.name))
          \o If({"script", "command"} \subseteq bc.postCommit,
                Warning("postCommit script and command", bc.name)))
  /\ UNCHANGED b
  /\ Continue("history")
  /\ UnchangedExtras

UsableLimit(limit) == 1 <= limit /\ limit <= MaxRetentionLimit
ResolveRetentionLimit(limit) ==
  IF limit # <<>> /\ UsableLimit(limit[1]) THEN limit ELSE <<>>
\* Mutant: only a limit above the range is reported.
LimitWarningAbove(limit) ==
  If(limit # <<>> /\ limit[1] > MaxRetentionLimit, Warning("history limit", bc.name))

LimitWarning(limit) ==
  If(limit # <<>> /\ ~UsableLimit(limit[1]), Warning("history limit", bc.name))

ProcessBuildsHistoryLimits ==
  /\ step = "history"
  /\ b' = [b EXCEPT !.succeededLimit = ResolveRetentionLimit(bc.succeededLimit),
                    !.failedLimit = ResolveRetentionLimit(bc.failedLimit)]
  /\ Warn(LimitWarning(bc.succeededLimit) \o LimitWarning(bc.failedLimit))
  /\ Continue("registries")
  /\ UnchangedExtras

-----------------------------------------------------------------------------
(* Registries.  source-to-image has its push done by Shipwright, which reads *)
(* output.insecure; every other strategy reads a parameter.                  *)

\* Mutant: the route is chosen by strategy type, not by strategy name.
SourceTypePushes == bc.type = "Source"

ShipwrightPushes == b.strategy = DefaultStrategy["Source"]

InsecureParam ==
  If(opts.insecure # <<>> /\ ~ShipwrightPushes,
     Param("registries-insecure", opts.insecure))

AddRegistries ==
  /\ step = "registries"
  /\ b' = [b EXCEPT
             !.params = @ \o If(opts.search # <<>>, Param("registries-search", opts.search))
                          \o InsecureParam
                          \o If(opts.block # <<>>, Param("registries-block", opts.block)),
             !.insecure = ShipwrightPushes
                          /\ Contains(opts.insecure, ImageRegistryHost(b.image))]
  /\ UNCHANGED warnings
  /\ Continue("triggers")
  /\ UnchangedExtras

-----------------------------------------------------------------------------
(* Triggers *)

CanonicalTriggerType(type) ==
  CASE type = "github" -> "GitHub"
    [] type = "generic" -> "Generic"
    [] type = "imageChange" -> "ImageChange"
    [] OTHER -> type

\* What an ImageChange trigger with this From watches: the image it names, or
\* else the strategy image, the Docker block's first.
WatchedReference(from) ==
  CASE from.name # Empty -> from
    [] from.name = Empty /\ "Docker" \in DOMAIN bc.blocks -> bc.blocks["Docker"].from
    [] from.name = Empty /\ DOMAIN bc.blocks = {"Source"} -> bc.blocks["Source"].from
    [] OTHER -> NoReference

ImageChangeWatchedObject(from) ==
  IF WatchedReference(from).name = Empty
  THEN NoReference
  ELSE [WithDefaultNamespace(WatchedReference(from)) EXCEPT
          !.kind = IF @ = "" THEN "ImageStreamTag" ELSE @]

ChainWatchedByTrigger(trigger) ==
  /\ CanonicalTriggerType(trigger.type) = "ImageChange"
  /\ ImageChangeWatchedObject(trigger.from) # NoReference
  /\ ChainCandidate(ImageChangeWatchedObject(trigger.from))

TriggerWarning(trigger) ==
  LET type == CanonicalTriggerType(trigger.type)
  IN  CASE type \in {"GitHub", "GitLab", "Bitbucket", "Generic"} ->
             Warning("webhook trigger", bc.name)
        [] type = "ImageChange" ->
             Warning(IF ChainWatchedByTrigger(trigger)
                     THEN "image trigger, run order" ELSE "image trigger",
                     ImageChangeWatchedObject(trigger.from).name)
        [] type = "ConfigChange" ->
             Warning(IF TemplateAnnotation \in DOMAIN b.annotations
                     THEN "config trigger, template" ELSE "config trigger, by hand",
                     bc.name)
        [] OTHER -> Warning("unknown trigger", bc.name)

ProcessTriggers ==
  /\ step = "triggers"
  /\ b' = IF bc.triggers = <<>> THEN b
          ELSE [b EXCEPT !.annotations =
                  With(@, TriggersAnnotation, [triggers |-> bc.triggers])]
  /\ Warn([k \in DOMAIN bc.triggers |-> TriggerWarning(bc.triggers[k])]
          \o If(bc.triggers # <<>>, Warning("triggers found", bc.name)))
  /\ Continue("chain")
  /\ UnchangedExtras

-----------------------------------------------------------------------------
(* Chained builds: one info line per image input no warning names *)

ChainKey(ref) == ImageKey(ref.ns, ref.name)

ChainInputs ==
  LET strategyImage == ImageChangeWatchedObject(NoReference)
  IN  If(strategyImage # NoReference, strategyImage)
      \o If(Len(bc.source.images) = 1 /\ ~SoleImage.paths /\ SoleImage.from.name # Empty,
            WithDefaultNamespace(SoleImage.from))

ChainWarnedBySourceImages ==
  /\ Len(bc.source.images) = 1
  /\ SoleImage.paths
  /\ SoleImage.from.name # Empty
  /\ ChainCandidate(WithDefaultNamespace(SoleImage.from))

KeysNamedByTriggers ==
  {ChainKey(ImageChangeWatchedObject(bc.triggers[k].from)) :
     k \in {j \in DOMAIN bc.triggers : ChainWatchedByTrigger(bc.triggers[j])}}
KeysNamedByPaths ==
  {ChainKey(WithDefaultNamespace(SoleImage.from)) : x \in {y \in {1} : ChainWarnedBySourceImages}}
\* Mutant: the paths warning is forgotten.
KeysNamedByTriggersOnly == KeysNamedByTriggers

KeysNamedByWarnings == KeysNamedByTriggers \union KeysNamedByPaths

KeysSeenBefore(n) ==
  KeysNamedByWarnings
    \union {ChainKey(ChainInputs[j]) : j \in {j \in 1..(n - 1) : ChainCandidate(ChainInputs[j])}}

NeedsNotice(n) ==
  /\ ChainCandidate(ChainInputs[n])
  /\ ChainKey(ChainInputs[n]) \notin KeysSeenBefore(n)
  /\ ~Contains(notices, Resolve(ChainInputs[n]).image)

ProcessChainInput ==
  /\ step = "chain"
  /\ item <= Len(ChainInputs)
  /\ notices' = notices \o If(NeedsNotice(item), Resolve(ChainInputs[item]).image)
  /\ UNCHANGED <<b, warnings, newResources, generatedSA>>
  /\ Repeat

FinishChainCandidates ==
  /\ step = "chain"
  /\ item > Len(ChainInputs)
  /\ UNCHANGED <<b, warnings>>
  /\ Continue("resources")
  /\ UnchangedExtras

-----------------------------------------------------------------------------
(* The BuildRun template *)

CatalogSteps == [Docker |-> <<"build-and-push">>, Source |-> <<"s2i-generate", "buildah">>]

\* The step names of a strategy override are unknown.
StepNames ==
  IF b.strategy = DefaultStrategy[bc.type] THEN CatalogSteps[bc.type] ELSE <<>>

\* Mutant: the template keeps the BuildConfig's account only.
TemplateNamedAccount == bc.serviceAccount

TemplateServiceAccount == IF generatedSA # Empty THEN generatedSA ELSE bc.serviceAccount

ProcessResources ==
  /\ step = "resources"
  /\ b' = IF ~bc.resources THEN b
          ELSE [b EXCEPT !.annotations =
                  With(@, TemplateAnnotation,
                       [build |-> b.name, sa |-> TemplateServiceAccount, steps |-> StepNames])]
  /\ Warn(If(bc.resources, Warning(IF StepNames = <<>> THEN "step names unknown"
                                   ELSE "resources in template", bc.name)))
  /\ Continue("outcome")
  /\ UnchangedExtras

-----------------------------------------------------------------------------
(* Outcome *)

\* Mutant: the earlier conversions' warnings are not sliced off.
AllWarnings(all) == all

OwnWarnings(all) == SubSeq(all, startWarnings + 1, Len(all))

\* Mutant: the omitted count is the number of all warnings.
BoundedCountingAll(own) ==
  LET kept == KeptCount([k \in DOMAIN own |-> WarningLength(own[k])])
  IN  [kept |-> SubSeq(own, 1, kept),
       omitted |-> IF kept < Len(own) THEN Len(own) ELSE 0]

\* boundedWarnings: what the annotation holds.
BoundedWarnings(own) ==
  LET kept == KeptCount([k \in DOMAIN own |-> WarningLength(own[k])])
  IN  [kept |-> SubSeq(own, 1, kept), omitted |-> Len(own) - kept]

\* boundedWarnings records a warning of its own when it truncates.
TruncationWarning(own) ==
  If(BoundedWarnings(own).omitted > 0, Warning("annotation truncated", bc.name))

Classify ==
  /\ step = "outcome"
  /\ LET own == OwnWarnings(warnings)
         lossy == own # <<>>
         state == IF lossy THEN "converted-with-warnings" ELSE "converted"
         annotated == IF lossy
                      THEN With(b.annotations, WarningsAnnotationKey, BoundedWarnings(own))
                      ELSE b.annotations
     IN  /\ b' = [b EXCEPT !.annotations =
                    With(annotated, OutcomeAnnotation, [text |-> <<state>>])]
         /\ Warn(TruncationWarning(own))
         /\ outcome' = [state |-> state, reason |-> "",
                        warnings |-> OwnWarnings(warnings'),
                        resources |-> <<b'>> \o newResources]
  /\ current' = NoConfig
  /\ step' = "idle"
  /\ item' = 1
  /\ UNCHANGED <<fixed, newResources, generatedSA, notices>>

-----------------------------------------------------------------------------
(* The specification *)

Init ==
  /\ opts \in FlagSets
  /\ warnings = <<>>
  /\ current = NoConfig
  /\ conversions = 0
  /\ step = "idle"
  /\ item = 1
  /\ bc = PlainBuildConfig
  /\ startWarnings = 0
  /\ b = EmptyBuild
  /\ newResources = <<>>
  /\ generatedSA = Empty
  /\ notices = <<>>
  /\ outcome = NoOutcome

\* The body of Convert once it is called.
Proceed ==
  \/ MakeSkeleton
  \/ SkipUnsupportedStrategy \/ FailUnknownStrategy \/ FailStrategyImage
  \/ StrategyWithoutBlock \/ ProcessDockerStrategy \/ ProcessSourceStrategy
  \/ ConvertBuildArg \/ FinishDockerStrategy
  \/ ConvertVolume \/ FinishVolumes
  \/ SkipWithoutOutput \/ ProcessCredentials \/ ProcessInlineDockerfile
  \/ FailSource \/ SourceAbsent \/ GitSource \/ BinarySource \/ ImageSourceStep
  \/ ProcessOutput \/ ConvertImageLabel \/ FinishOutput
  \/ ProcessCompletionDeadline \/ ProcessNodeSelector \/ ProcessRunPolicy
  \/ ProcessPostCommit \/ ProcessBuildsHistoryLimits
  \/ AddRegistries \/ ProcessTriggers
  \/ ProcessChainInput \/ FinishChainCandidates
  \/ ProcessResources \/ Classify

Next == Proceed \/ \E c \in SourceConfigs : Convert(c)

Spec == Init /\ [][Next]_vars
=============================================================================
