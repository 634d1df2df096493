--------------------------- MODULE ConverterProofs ---------------------------
(***************************************************************************)
(* What holds of a Converter for every set of BuildConfigs, every set of   *)
(* flags, every cap and any number of conversions: the types, whose        *)
(* warnings a conversion reports, the outcome it is classified with, the   *)
(* deadline and the credentials; and, for the proofs about conversions,    *)
(* which call writes what and when.                                        *)
(*                                                                         *)
(* The argument: each step of Convert's body appends warnings that name    *)
(* the conversion in progress (ProceedRecords), and either goes on or      *)
(* returns (ProceedFrame).  The recorded list therefore grows at its end   *)
(* only, and the part since startWarnings stays the conversion's own.  The *)
(* timeout and the credentials are settled by one call each, and held by   *)
(* ConversionInv until they are shipped.                                   *)
(***************************************************************************)
EXTENDS ConversionProperties, NamesProofs

\* The loops over the strategy block run only when there is one.
BlockPresent == step \in {"buildArgs", "volumes"} => HasBlock

\* The kinds of warning that each call of Convert's body may record.
KindsAt(call) ==
  CASE call = "skeleton" -> {"renamed"}
    [] call = "strategy" -> {"strategy skipped", "doubtful image", "incremental"}
    [] call = "buildArgs" -> {"build arg skipped", "literal ignored", "optional key"}
    [] call = "volumes" -> {"volume undeclared", "volume skipped", "volumes rejected"}
    [] call = "gate" ->
         {"output skipped", "pull secret not linked", "renamed", "associations"}
    [] call = "dockerfile" -> {"renamed", "inline dockerfile"}
    [] call = "source" ->
         {"source secret", "image as", "doubtful image", "no source", "source configMap",
          "source mount secret", "image paths", "image paths, run order"}
    [] call = "output" -> {"output fallback", "output redirected", "no push secret"}
    [] call = "imageLabels" -> {"image label skipped", "image label overridden"}
    [] call = "deadline" -> {"deadline"}
    [] call = "nodeSelector" -> {"nodeSelector"}
    [] call = "runPolicy" -> {"run policy"}
    [] call = "postCommit" -> {"postCommit", "postCommit script and command"}
    [] call = "history" -> {"history limit"}
    [] call = "triggers" ->
         {"webhook trigger", "image trigger", "image trigger, run order",
          "config trigger, template", "config trigger, by hand", "unknown trigger",
          "triggers found"}
    [] call = "resources" -> {"step names unknown", "resources in template"}
    [] call = "outcome" -> {"annotation truncated"}
    [] OTHER -> {}

\* The warnings the call at hand may record about the conversion in progress.
OwnRecord == [of : {current}, kind : KindsAt(step), about : Text]

\* A step appends such warnings, or records nothing.
RecordsOwn == UNCHANGED warnings \/ \E ws \in Seq(OwnRecord) : warnings' = warnings \o ws

\* A sequence of one element.
LEMMA SingletonTyped ==
  \A S : \A e \in S : <<e>> \in Seq(S)
OBVIOUS

\* A sequence of two elements.
LEMMA PairTyped ==
  \A S : \A d, e \in S : <<d, e>> \in Seq(S)
OBVIOUS

\* Concatenation stays within the sequences over a set.
LEMMA ConcatTyped ==
  \A S : \A s, t \in Seq(S) : s \o t \in Seq(S)
OBVIOUS

\* The sequence of e alone under a condition, or the empty one.
LEMMA IfTyped ==
  \A S, condition, e : (condition => e \in S) => If(condition, e) \in Seq(S)
BY DEF If

\* A sequence under a condition, or the empty one.
LEMMA OptionTyped ==
  \A S : \A s \in Seq(S) : \A condition : (IF condition THEN s ELSE <<>>) \in Seq(S)
OBVIOUS

\* A function on the positions of a sequence is a sequence.
LEMMA MapTyped ==
  \A S, T : \A s \in Seq(S) : \A f \in [DOMAIN s -> T] : f \in Seq(T)
OBVIOUS

\* A sequence is a prefix of what is appended to it.
LEMMA PrefixOfConcatenation ==
  ASSUME NEW S, NEW s \in Seq(S), NEW t \in Seq(S)
  PROVE  IsPrefix(s, s \o t)
BY DEF IsPrefix

\* Every kind that a call may record is a kind of warning.
LEMMA KindsAreKnown ==
  KindsAt(step) \subseteq WarningKinds
BY ZenonT(40) DEF KindsAt, WarningKinds

\* A recorded warning names the BuildConfig being converted.
LEMMA WarningTyped ==
  \A kind \in KindsAt(step), about \in Text : Warning(kind, about) \in OwnRecord
BY DEF Warning, OwnRecord

\* A warning under a condition, as every step records it.
LEMMA IfWarningTyped ==
  \A condition, kind, about :
    (condition => kind \in KindsAt(step) /\ about \in Text)
      => If(condition, Warning(kind, about)) \in Seq(OwnRecord)
BY WarningTyped, IfTyped

\* The names the code itself writes are made of its tokens.
LEMMA WrittenTextTyped ==
  Nil \in Text /\ DockerfileEnding \in Text
<1> DEFINE word == "dockerfile"
           nil == "nilPointer"
<1>1. Dash \in Tokens /\ word \in Tokens /\ nil \in Tokens
  BY TokensAssumption
<1>2. DockerfileEnding = <<Dash, word>> /\ Nil = <<nil>>
  BY DEF DockerfileEnding, Nil
<1> HIDE DEF word, nil
<1>3. QED
  BY <1>1, <1>2, PairTyped, SingletonTyped DEF Text

\* The names a BuildConfig brings, and the original name of its ConfigMap.
LEMMA NameTyped ==
  ASSUME IsBuildConfig(bc)
  PROVE  /\ bc.name \in Text
         /\ bc.serviceAccount \in Text
         /\ DockerfileOriginalName \in Text
<1>1. bc.name \in Text /\ bc.serviceAccount \in Text
  BY DEF IsBuildConfig
<1>2. QED
  BY <1>1, WrittenTextTyped, ConcatTyped DEF DockerfileOriginalName, Text

\* The strategy block, where there is one, has its type.
LEMMA BlockTyped ==
  ASSUME IsBuildConfig(bc), HasBlock
  PROVE  Block \in StrategyBlock
BY DEF IsBuildConfig, IsMap, Block, HasBlock

\* The pull secret is a name, wherever it comes from (getPullSecret).
LEMMA PullSecretTyped ==
  ASSUME IsBuildConfig(bc)
  PROVE  PullSecret \in Text
<1>1. \A t \in DOMAIN bc.blocks : bc.blocks[t].pullSecret \in Text
  BY DEF IsBuildConfig, IsMap, StrategyBlock
<1>2. QED
  BY <1>1, WrittenTextTyped DEF PullSecret

\* The names the source warnings mention.
LEMMA SourceTyped ==
  ASSUME IsBuildConfig(bc)
  PROVE  /\ bc.source.secret \in Text
         /\ bc.source.configMaps \in Seq(Text)
         /\ bc.source.secrets \in Seq(Text)
         /\ Len(bc.source.images) = 1 => SoleImage.from.name \in Text
<1>1. bc.source \in BuildSource
  BY DEF IsBuildConfig
<1>2. /\ bc.source.secret \in Text
      /\ bc.source.configMaps \in Seq(Text)
      /\ bc.source.secrets \in Seq(Text)
      /\ bc.source.images \in Seq(ImageSource)
  BY <1>1 DEF BuildSource
<1>3. ASSUME Len(bc.source.images) = 1
      PROVE  SoleImage \in ImageSource
  BY <1>2, <1>3, ElementOfSeq DEF SoleImage
<1>4. \A image \in ImageSource : image.from.name \in Text
  BY DEF ImageSource, ObjectReference
<1>5. QED
  BY <1>2, <1>3, <1>4

\* The names the output warnings mention; a defaulted namespace changes none.
LEMMA OutputTyped ==
  ASSUME IsBuildConfig(bc)
  PROVE  /\ WithDefaultNamespace(bc.output.to).name = bc.output.to.name
         /\ bc.output.to.name \in Text
         /\ \A k \in DOMAIN bc.output.labels : bc.output.labels[k].name \in Text
<1>1. bc.output \in BuildOutput
  BY DEF IsBuildConfig
<1>2. bc.output.to \in ObjectReference /\ bc.output.labels \in Seq(ImageLabel)
  BY <1>1 DEF BuildOutput
<1>3. \A ref \in ObjectReference : /\ ref.name \in Text
                                   /\ WithDefaultNamespace(ref).name = ref.name
  BY DEF ObjectReference, WithDefaultNamespace
<1>4. \A k \in DOMAIN bc.output.labels : bc.output.labels[k] \in ImageLabel
  BY <1>2
<1>5. QED
  BY <1>2, <1>3, <1>4 DEF ImageLabel

\* Every trigger has one warning, about the BuildConfig or the image it watches.
LEMMA TriggerWarningTyped ==
  ASSUME IsBuildConfig(bc), step = "triggers", NEW trigger \in Trigger
  PROVE  TriggerWarning(trigger) \in OwnRecord
<1> DEFINE watched == ImageChangeWatchedObject(trigger.from)
<1>1. watched.name \in Text
  <2>1. trigger.from \in ObjectReference
    BY DEF Trigger
  <2>2. \A t \in DOMAIN bc.blocks : bc.blocks[t].from \in ObjectReference
    BY DEF IsBuildConfig, IsMap, StrategyBlock
  <2>3. NoReference.name \in Text
    BY DEF NoReference, Empty, Text
  <2>4. \/ WatchedReference(trigger.from) = NoReference
        \/ WatchedReference(trigger.from) \in ObjectReference
    BY <2>1, <2>2 DEF WatchedReference
  <2>5. \A ref \in ObjectReference :
          /\ ref.name \in Text
          /\ [WithDefaultNamespace(ref) EXCEPT
                !.kind = IF @ = "" THEN "ImageStreamTag" ELSE @].name = ref.name
    BY DEF ObjectReference, WithDefaultNamespace
  <2>6. NoReference.name = Empty
    BY DEF NoReference
  <2>7. QED
    BY <2>3, <2>4, <2>5, <2>6 DEF ImageChangeWatchedObject
<1>2. \A kind \in KindsAt(step) : Warning(kind, bc.name) \in OwnRecord
                                /\ Warning(kind, watched.name) \in OwnRecord
  BY <1>1, NameTyped, WarningTyped
<1> HIDE DEF watched
<1>3. QED
  BY <1>2 DEF TriggerWarning, KindsAt, watched

\* The warnings about one build argument.
LEMMA BuildArgWarningsTyped ==
  ASSUME IsBuildConfig(bc), step = "buildArgs", NEW arg \in BuildArg
  PROVE  BuildArgWarnings(arg) \in Seq(OwnRecord)
<1>1. arg.name \in Text
  BY DEF BuildArg
<1>2. Warning("build arg skipped", arg.name) \in OwnRecord
  BY <1>1, WarningTyped DEF KindsAt
<1>3. CASE ~ValidBuildArgName(arg.name)
  BY <1>2, <1>3, SingletonTyped DEF BuildArgWarnings
<1>4. CASE ValidBuildArgName(arg.name)
  <2>1. /\ If(arg.from # "value" /\ arg.literal, Warning("literal ignored", arg.name))
             \in Seq(OwnRecord)
        /\ If(~BuildArgConverts(arg), Warning("build arg skipped", arg.name))
             \in Seq(OwnRecord)
        /\ If(BuildArgConverts(arg) /\ arg.from # "value" /\ arg.optional,
              Warning("optional key", arg.name)) \in Seq(OwnRecord)
    BY <1>1, IfWarningTyped DEF KindsAt
  <2>2. QED
    BY <1>4, <2>1, ConcatTyped DEF BuildArgWarnings
<1>5. QED
  BY <1>3, <1>4

\* The warnings about source ConfigMaps and Secrets.
LEMMA MountWarningsTyped ==
  ASSUME IsBuildConfig(bc), step = "source"
  PROVE  MountWarnings \in Seq(OwnRecord)
<1>1. \A text \in Text : /\ Warning("source configMap", text) \in OwnRecord
                         /\ Warning("source mount secret", text) \in OwnRecord
  BY WarningTyped DEF KindsAt
<1>2. /\ \A k \in DOMAIN bc.source.configMaps : bc.source.configMaps[k] \in Text
      /\ \A k \in DOMAIN bc.source.secrets : bc.source.secrets[k] \in Text
  BY SourceTyped
<1> DEFINE configMaps == [k \in DOMAIN bc.source.configMaps |->
                            Warning("source configMap", bc.source.configMaps[k])]
           secrets == [k \in DOMAIN bc.source.secrets |->
                         Warning("source mount secret", bc.source.secrets[k])]
<1>3. /\ configMaps \in [DOMAIN bc.source.configMaps -> OwnRecord]
      /\ secrets \in [DOMAIN bc.source.secrets -> OwnRecord]
  BY <1>2, <1>1
<1>4. MountWarnings = configMaps \o secrets
  BY DEF MountWarnings
<1> HIDE DEF configMaps, secrets
<1>5. configMaps \in Seq(OwnRecord) /\ secrets \in Seq(OwnRecord)
  BY <1>3, SourceTyped, MapTyped
<1>6. QED
  BY <1>4, <1>5, ConcatTyped

\* Recording a step's own warnings.
LEMMA WarnRecords ==
  \A ws \in Seq(OwnRecord) : Warn(ws) => RecordsOwn
BY DEF Warn, RecordsOwn

\* Every step of Convert's body appends warnings of the conversion in progress,
\* or none.
LEMMA ProceedRecords ==
  ASSUME IsBuildConfig(bc), item \in Nat \ {0}, BlockPresent, Proceed
  PROVE  RecordsOwn
<1>a. \A kind \in KindsAt(step) : Warn(<<Warning(kind, bc.name)>>) => RecordsOwn
  BY NameTyped, WarningTyped, SingletonTyped, WarnRecords
<1>b. \A condition, kind :
        kind \in KindsAt(step) => If(condition, Warning(kind, bc.name)) \in Seq(OwnRecord)
  BY NameTyped, IfWarningTyped
<1>1. CASE MakeSkeleton
  <2>0. step = "skeleton"
    BY <1>1 DEF MakeSkeleton
  <2>1. RenameWarning(bc.name) \in Seq(OwnRecord)
    BY <2>0, <1>b DEF RenameWarning, KindsAt
  <2>2. QED
    BY <1>1, <2>1, WarnRecords DEF MakeSkeleton
<1>2. CASE SkipUnsupportedStrategy
  BY <1>2, <1>a DEF SkipUnsupportedStrategy, Skip, KindsAt
<1>3. CASE FailUnknownStrategy \/ FailStrategyImage \/ StrategyWithoutBlock
  BY <1>3 DEF FailUnknownStrategy, FailStrategyImage, StrategyWithoutBlock, RecordsOwn
<1>4. CASE ProcessDockerStrategy \/ ProcessSourceStrategy
  <2>0. step = "strategy"
    BY <1>4 DEF ProcessDockerStrategy, ProcessSourceStrategy
  <2>1. HasBlock
    BY <1>4 DEF ProcessDockerStrategy, ProcessSourceStrategy
  <2>2. Block.from.name \in Text
    BY <2>1, BlockTyped DEF StrategyBlock, ObjectReference
  <2>3. ImageWarning \in Seq(OwnRecord)
    BY <2>0, <2>2, IfWarningTyped DEF ImageWarning, KindsAt
  <2>4. If("incremental" \in Block.switches, Warning("incremental", bc.name)) \in Seq(OwnRecord)
    BY <2>0, <1>b DEF KindsAt
  <2>5. CASE ProcessDockerStrategy
    BY <2>5, <2>3, WarnRecords DEF ProcessDockerStrategy
  <2>6. CASE ProcessSourceStrategy
    BY <2>6, <2>3, <2>4, ConcatTyped, WarnRecords DEF ProcessSourceStrategy
  <2>7. QED
    BY <1>4, <2>5, <2>6
<1>5. CASE ConvertBuildArg
  <2>1. HasBlock
    BY <1>5 DEF ConvertBuildArg, BlockPresent
  <2>2. Block.buildArgs[item] \in BuildArg
    BY <1>5, <2>1, BlockTyped DEF ConvertBuildArg, StrategyBlock
  <2>3. QED
    BY <1>5, <2>2, BuildArgWarningsTyped, WarnRecords DEF ConvertBuildArg
<1>6. CASE FinishDockerStrategy \/ FinishOutput \/ AddRegistries
             \/ ProcessChainInput \/ FinishChainCandidates
  BY <1>6 DEF FinishDockerStrategy, FinishOutput, AddRegistries, ProcessChainInput,
              FinishChainCandidates, RecordsOwn
<1>7. CASE ConvertVolume
  <2>0. step = "volumes"
    BY <1>7 DEF ConvertVolume
  <2>1. HasBlock
    BY <1>7 DEF ConvertVolume, BlockPresent
  <2>2. Block.volumes[item] \in BuildVolume
    <3>1. Block.volumes \in Seq(BuildVolume)
      BY <2>1, BlockTyped DEF StrategyBlock
    <3>2. item <= Len(Block.volumes)
      BY <1>7 DEF ConvertVolume
    <3>3. QED
      BY <3>1, <3>2, ElementOfSeq
  <2> DEFINE kind == IF VolumeConverts(Block.volumes[item])
                     THEN "volume undeclared" ELSE "volume skipped"
  <2>3. kind \in KindsAt(step)
    BY <2>0 DEF KindsAt
  <2>4. Warn(<<Warning(kind, Block.volumes[item].name)>>)
    BY <1>7 DEF ConvertVolume
  <2> HIDE DEF kind
  <2>5. QED
    BY <2>2, <2>3, <2>4, WarningTyped, SingletonTyped, WarnRecords DEF BuildVolume
<1>8. CASE FinishVolumes
  BY <1>8, <1>b, WarnRecords DEF FinishVolumes, KindsAt
<1>9. CASE SkipWithoutOutput
  BY <1>9, <1>a DEF SkipWithoutOutput, Skip, KindsAt
<1>10. CASE ProcessCredentials
  <2>0. step = "gate"
    BY <1>10 DEF ProcessCredentials
  <2>1. /\ If(PullSecret # Nil /\ NamesServiceAccount,
              Warning("pull secret not linked", PullSecret)) \in Seq(OwnRecord)
        /\ If(NamesServiceAccount, Warning("associations", bc.serviceAccount))
             \in Seq(OwnRecord)
    BY <2>0, PullSecretTyped, NameTyped, IfWarningTyped DEF KindsAt
  <2>2. (IF GeneratesServiceAccount THEN RenameWarning(bc.name) ELSE <<>>) \in Seq(OwnRecord)
    BY <2>0, <1>b, OptionTyped DEF RenameWarning, KindsAt
  <2>3. QED
    BY <1>10, <2>1, <2>2, ConcatTyped, WarnRecords DEF ProcessCredentials
<1>11. CASE ProcessInlineDockerfile
  <2>0. step = "dockerfile"
    BY <1>11 DEF ProcessInlineDockerfile
  <2> DEFINE preserved == HasInlineDockerfile /\ bc.type = "Docker"
  <2>1. (IF preserved THEN RenameWarning(DockerfileOriginalName) ELSE <<>>) \in Seq(OwnRecord)
    BY <2>0, NameTyped, IfWarningTyped, OptionTyped DEF RenameWarning, KindsAt
  <2>2. If(HasInlineDockerfile, Warning("inline dockerfile", bc.name)) \in Seq(OwnRecord)
    BY <2>0, <1>b DEF KindsAt
  <2>3. QED
    BY <1>11, <2>1, <2>2, ConcatTyped, WarnRecords DEF ProcessInlineDockerfile
<1>12. step = "source" => SourceSecretWarning \in Seq(OwnRecord)
  BY SourceTyped, IfWarningTyped DEF SourceSecretWarning, KindsAt
<1>13. step = "source" /\ Len(bc.source.images) = 1 => ImageAsWarning \in Seq(OwnRecord)
  BY SourceTyped, IfWarningTyped DEF ImageAsWarning, KindsAt
<1>14. CASE FailSource
  BY <1>14, <1>12, <1>13, ConcatTyped, WarnRecords DEF FailSource
<1>15. CASE SourceAbsent
  <2>0. step = "source"
    BY <1>15 DEF SourceAbsent
  <2>1. <<Warning("no source", bc.name)>> \in Seq(OwnRecord)
    BY <2>0, NameTyped, WarningTyped, SingletonTyped DEF KindsAt
  <2>2. QED
    BY <1>15, <1>12, <2>1, ConcatTyped, WarnRecords DEF SourceAbsent
<1>16. CASE GitSource \/ BinarySource
  BY <1>16, <1>12, MountWarningsTyped, ConcatTyped, WarnRecords DEF GitSource, BinarySource
<1>17. CASE ImageSourceStep
  <2>0. step = "source"
    BY <1>17 DEF ImageSourceStep
  <2> DEFINE image == Resolve(SoleImage.from)
  <2>1. SoleImage.from.name \in Text /\ ImageAsWarning \in Seq(OwnRecord)
    BY <1>17, <1>13, SourceTyped DEF ImageSourceStep
  <2>2. If(image.doubtful, Warning("doubtful image", SoleImage.from.name)) \in Seq(OwnRecord)
    BY <2>0, <2>1, IfWarningTyped DEF KindsAt
  <2>3. ImagePathsWarning \in Seq(OwnRecord)
    BY <2>0, <2>1, IfWarningTyped DEF ImagePathsWarning, KindsAt
  <2>4. QED
    BY <1>17, <1>12, <2>1, <2>2, <2>3, MountWarningsTyped, ConcatTyped, WarnRecords
    DEF ImageSourceStep
<1>18. CASE ProcessOutput
  <2>0. step = "output"
    BY <1>18 DEF ProcessOutput
  <2> DEFINE to == WithDefaultNamespace(bc.output.to)
             image == OutputImage(to.kind, to.name, to.ns, opts)
             isTag == to.kind = "ImageStreamTag"
             hasPushSecret == bc.output.pushSecret \notin {Nil, Empty}
             fallback == If(isTag /\ ~OutputIsMapped(to.ns, to.name, opts),
                            Warning("output fallback", to.name))
             redirect == If(isTag /\ ~OnInternalRegistry(image),
                            Warning("output redirected", to.name))
             credential == If(~hasPushSecret, Warning("no push secret", bc.name))
  <2>1. to.name \in Text
    BY OutputTyped
  <2>2. Warn(fallback \o redirect \o credential)
    BY <1>18 DEF ProcessOutput
  <2> HIDE DEF to, image, isTag, hasPushSecret
  <2>3. fallback \in Seq(OwnRecord) /\ redirect \in Seq(OwnRecord)
    BY <2>0, <2>1, IfWarningTyped DEF KindsAt
  <2>4. credential \in Seq(OwnRecord)
    BY <2>0, <1>b DEF KindsAt
  <2> HIDE DEF fallback, redirect, credential
  <2>5. QED
    BY <2>2, <2>3, <2>4, ConcatTyped, WarnRecords
<1>19. CASE ConvertImageLabel
  <2>0. step = "imageLabels"
    BY <1>19 DEF ConvertImageLabel
  <2> DEFINE label == bc.output.labels[item]
  <2>1. label.name \in Text
    BY <1>19, OutputTyped DEF ConvertImageLabel
  <2>2. Warn(ImageLabelWarnings(label))
    BY <1>19 DEF ConvertImageLabel
  <2> HIDE DEF label
  <2>3. /\ <<Warning("image label skipped", label.name)>> \in Seq(OwnRecord)
        /\ If(ImageLabelConflicts(label), Warning("image label overridden", label.name))
             \in Seq(OwnRecord)
    BY <2>0, <2>1, WarningTyped, SingletonTyped, IfWarningTyped DEF KindsAt
  <2>4. ImageLabelWarnings(label) \in Seq(OwnRecord)
    BY <2>3 DEF ImageLabelWarnings
  <2>5. QED
    BY <2>2, <2>4, WarnRecords
<1>20. CASE ProcessCompletionDeadline
  BY <1>20, <1>b, WarnRecords DEF ProcessCompletionDeadline, KindsAt
<1>21. CASE ProcessNodeSelector
  BY <1>21, <1>b, WarnRecords DEF ProcessNodeSelector, KindsAt
<1>22. CASE ProcessRunPolicy
  BY <1>22, <1>b, WarnRecords DEF ProcessRunPolicy, KindsAt
<1>23. CASE ProcessPostCommit
  BY <1>23, <1>b, ConcatTyped, WarnRecords DEF ProcessPostCommit, KindsAt
<1>24. CASE ProcessBuildsHistoryLimits
  <2>0. step = "history"
    BY <1>24 DEF ProcessBuildsHistoryLimits
  <2>1. \A limit : LimitWarning(limit) \in Seq(OwnRecord)
    BY <2>0, <1>b DEF LimitWarning, KindsAt
  <2>2. QED
    BY <1>24, <2>1, ConcatTyped, WarnRecords DEF ProcessBuildsHistoryLimits
<1>25. CASE ProcessTriggers
  <2>0. step = "triggers"
    BY <1>25 DEF ProcessTriggers
  <2> DEFINE each == [k \in DOMAIN bc.triggers |-> TriggerWarning(bc.triggers[k])]
             found == If(bc.triggers # <<>>, Warning("triggers found", bc.name))
  <2>1. bc.triggers \in Seq(Trigger)
    BY DEF IsBuildConfig
  <2>2. each \in [DOMAIN bc.triggers -> OwnRecord]
    BY <2>0, <2>1, TriggerWarningTyped
  <2>3. found \in Seq(OwnRecord)
    BY <2>0, <1>b DEF KindsAt
  <2>4. Warn(each \o found)
    BY <1>25 DEF ProcessTriggers
  <2> HIDE DEF each, found
  <2>5. QED
    BY <2>1, <2>2, <2>3, <2>4, MapTyped, ConcatTyped, WarnRecords
<1>26. CASE ProcessResources
  <2>0. step = "resources"
    BY <1>26 DEF ProcessResources
  <2> DEFINE kind == IF StepNames = <<>> THEN "step names unknown" ELSE "resources in template"
  <2>1. kind \in KindsAt(step)
    BY <2>0 DEF KindsAt
  <2>2. Warn(If(bc.resources, Warning(kind, bc.name)))
    BY <1>26 DEF ProcessResources
  <2> HIDE DEF kind
  <2>3. QED
    BY <2>1, <2>2, <1>b, WarnRecords
<1>27. CASE Classify
  <2>0. step = "outcome"
    BY <1>27 DEF Classify
  <2> DEFINE own == OwnWarnings(warnings)
  <2>1. TruncationWarning(own) \in Seq(OwnRecord)
    BY <2>0, <1>b DEF TruncationWarning, KindsAt
  <2>2. Warn(TruncationWarning(own))
    BY <1>27 DEF Classify
  <2>3. QED
    BY <2>1, <2>2, WarnRecords
<1>28. QED
  BY <1>1, <1>2, <1>3, <1>4, <1>5, <1>6, <1>7, <1>8, <1>9, <1>10, <1>11, <1>14,
     <1>15, <1>16, <1>17, <1>18, <1>19, <1>20, <1>21, <1>22, <1>23, <1>24, <1>25,
     <1>26, <1>27 DEF Proceed

-----------------------------------------------------------------------------
(* What a step leaves alone *)

\* The conversion is still in progress after the step.
GoesOn ==
  /\ step' \in Steps \ {"idle"}
  /\ item' \in Nat \ {0}
  /\ UNCHANGED <<current, outcome>>
  /\ BlockPresent'

\* The conversion is over after the step.
Returns ==
  /\ step' = "idle"
  /\ item' = 1
  /\ current' = NoConfig
  /\ \/ outcome'.state \in {"skipped", "failed"} /\ outcome'.warnings = <<>>
     \/ Classify

\* A call that ends hands over to the next one.
LEMMA ContinueGoesOn ==
  ASSUME BlockPresent, UNCHANGED bc, NEW next \in Steps \ {"idle"},
         next \in {"buildArgs", "volumes"} => HasBlock,
         Continue(next)
  PROVE  GoesOn
BY DEF Continue, GoesOn, BlockPresent, HasBlock

\* An iteration hands over to the next one.
LEMMA RepeatGoesOn ==
  ASSUME BlockPresent, step \in Steps \ {"idle"}, item \in Nat \ {0}, Repeat
  PROVE  GoesOn /\ UNCHANGED fixed
BY DEF Repeat, GoesOn, BlockPresent, HasBlock, fixed

\* A skip and a failure return no warnings, and nobody is named afterwards.
LEMMA ReturnReturns ==
  \A reason : \/ Return(OutcomeSkipped(reason))
              \/ Return(OutcomeFailed(reason))
              => Returns /\ UNCHANGED fixed
BY DEF Return, OutcomeSkipped, OutcomeFailed, Returns, fixed

\* Every step of Convert's body goes on or returns, and never changes the
\* BuildConfig, the flags or where the conversion's warnings start.
LEMMA ProceedFrame ==
  ASSUME step \in Steps, item \in Nat \ {0}, BlockPresent, Proceed
  PROVE  /\ UNCHANGED fixed
         /\ step # "idle"
         /\ GoesOn \/ Returns
<1> USE DEF fixed
<1>1. CASE MakeSkeleton
  BY <1>1, ContinueGoesOn DEF MakeSkeleton, Continue, Steps
<1>2. CASE SkipUnsupportedStrategy \/ SkipWithoutOutput
  <2>1. \A kind, reason : Skip(kind, reason) => Return(OutcomeSkipped(reason))
    BY DEF Skip
  <2>2. QED
    BY <1>2, <2>1, ReturnReturns DEF SkipUnsupportedStrategy, SkipWithoutOutput
<1>3. CASE FailUnknownStrategy \/ FailStrategyImage \/ FailSource
  BY <1>3, ReturnReturns DEF FailUnknownStrategy, FailStrategyImage, FailSource
<1>4. CASE StrategyWithoutBlock
  BY <1>4, ContinueGoesOn DEF StrategyWithoutBlock, Continue, Steps
<1>5. CASE ProcessDockerStrategy \/ ProcessSourceStrategy
  BY <1>5, ContinueGoesOn DEF ProcessDockerStrategy, ProcessSourceStrategy, Continue, Steps
<1>6. CASE ConvertBuildArg \/ ConvertVolume \/ ConvertImageLabel \/ ProcessChainInput
  BY <1>6, RepeatGoesOn
  DEF ConvertBuildArg, ConvertVolume, ConvertImageLabel, ProcessChainInput
<1>7. CASE FinishDockerStrategy \/ FinishVolumes
  BY <1>7, ContinueGoesOn DEF FinishDockerStrategy, FinishVolumes, Continue, Steps, BlockPresent
<1>8. CASE ProcessCredentials \/ ProcessInlineDockerfile \/ SourceAbsent \/ GitSource
             \/ BinarySource \/ ImageSourceStep \/ ProcessOutput \/ FinishOutput
  BY <1>8, ContinueGoesOn
  DEF ProcessCredentials, ProcessInlineDockerfile, SourceAbsent, GitSource, BinarySource,
      ImageSourceStep, ProcessOutput, FinishOutput, Continue, Steps
<1>9. CASE ProcessCompletionDeadline \/ ProcessNodeSelector \/ ProcessRunPolicy
             \/ ProcessPostCommit \/ ProcessBuildsHistoryLimits \/ AddRegistries
             \/ ProcessTriggers \/ FinishChainCandidates \/ ProcessResources
  BY <1>9, ContinueGoesOn
  DEF ProcessCompletionDeadline, ProcessNodeSelector, ProcessRunPolicy, ProcessPostCommit,
      ProcessBuildsHistoryLimits, AddRegistries, ProcessTriggers, FinishChainCandidates,
      ProcessResources, Continue, Steps
<1>10. CASE Classify
  BY <1>10 DEF Classify, Returns
<1>11. QED
  BY <1>1, <1>2, <1>3, <1>4, <1>5, <1>6, <1>7, <1>8, <1>9, <1>10 DEF Proceed

\* The Build and the outcome keep their fields.
LEMMA ShapesKept ==
  ASSUME DOMAIN b = DOMAIN EmptyBuild, DOMAIN outcome = DOMAIN NoOutcome, Proceed
  PROVE  DOMAIN b' = DOMAIN EmptyBuild /\ DOMAIN outcome' = DOMAIN NoOutcome
<1>1. CASE MakeSkeleton
  BY <1>1 DEF MakeSkeleton, Continue
<1>2. \A result : DOMAIN result = DOMAIN NoOutcome /\ Return(result) =>
        DOMAIN b' = DOMAIN EmptyBuild /\ DOMAIN outcome' = DOMAIN NoOutcome
  BY DEF Return
<1>3. \A reason : /\ DOMAIN OutcomeSkipped(reason) = DOMAIN NoOutcome
                  /\ DOMAIN OutcomeFailed(reason) = DOMAIN NoOutcome
  BY DEF OutcomeSkipped, OutcomeFailed, NoOutcome
<1>4. CASE SkipUnsupportedStrategy \/ FailUnknownStrategy \/ FailStrategyImage
             \/ SkipWithoutOutput \/ FailSource
  BY <1>2, <1>3, <1>4 DEF SkipUnsupportedStrategy, FailUnknownStrategy, FailStrategyImage,
                          SkipWithoutOutput, FailSource, Skip
<1>5. CASE Classify
  BY <1>5 DEF Classify, NoOutcome
<1>6. CASE StrategyWithoutBlock \/ ProcessDockerStrategy \/ ProcessSourceStrategy
             \/ FinishDockerStrategy \/ FinishVolumes
  BY <1>6 DEF StrategyWithoutBlock, ProcessDockerStrategy, ProcessSourceStrategy,
              FinishDockerStrategy, FinishVolumes, Continue
<1>7. CASE ConvertBuildArg \/ ConvertVolume \/ ConvertImageLabel \/ ProcessChainInput
  BY <1>7 DEF ConvertBuildArg, ConvertVolume, ConvertImageLabel, ProcessChainInput, Repeat
<1>8. CASE ProcessCredentials \/ ProcessInlineDockerfile \/ SourceAbsent \/ GitSource
             \/ BinarySource \/ ImageSourceStep \/ ProcessOutput \/ FinishOutput
  BY <1>8 DEF ProcessCredentials, ProcessInlineDockerfile, SourceAbsent, GitSource,
              BinarySource, ImageSourceStep, ProcessOutput, FinishOutput, Continue
<1>9. CASE ProcessCompletionDeadline \/ ProcessNodeSelector \/ ProcessRunPolicy
             \/ ProcessPostCommit \/ ProcessBuildsHistoryLimits \/ AddRegistries
             \/ ProcessTriggers \/ FinishChainCandidates \/ ProcessResources
  BY <1>9
  DEF ProcessCompletionDeadline, ProcessNodeSelector, ProcessRunPolicy, ProcessPostCommit,
      ProcessBuildsHistoryLimits, AddRegistries, ProcessTriggers, FinishChainCandidates,
      ProcessResources, Continue
<1>10. QED
  BY <1>1, <1>4, <1>5, <1>6, <1>7, <1>8, <1>9 DEF Proceed

-----------------------------------------------------------------------------
(* The recorded list *)

\* Appending own warnings keeps the recorded ones, at their positions.
LEMMA RecordedListGrows ==
  ASSUME warnings \in Seq(WarningRecord), current \in Attribution, RecordsOwn
  PROVE  /\ warnings' \in Seq(WarningRecord)
         /\ IsPrefix(warnings, warnings')
         /\ Len(warnings) <= Len(warnings')
         /\ \A k \in 1..Len(warnings) : warnings'[k] = warnings[k]
         /\ \A k \in (Len(warnings) + 1)..Len(warnings') : warnings'[k].of = current
<1>1. CASE UNCHANGED warnings
  BY <1>1 DEF IsPrefix
<1>2. ASSUME NEW ws \in Seq(OwnRecord), warnings' = warnings \o ws
      PROVE  /\ warnings' \in Seq(WarningRecord)
             /\ IsPrefix(warnings, warnings')
             /\ Len(warnings) <= Len(warnings')
             /\ \A k \in 1..Len(warnings) : warnings'[k] = warnings[k]
             /\ \A k \in (Len(warnings) + 1)..Len(warnings') : warnings'[k].of = current
  <2>1. \A w \in OwnRecord : w \in WarningRecord /\ w.of = current
    BY KindsAreKnown DEF OwnRecord, WarningRecord
  <2>2. ws \in Seq(WarningRecord)
    BY <2>1
  <2>3. /\ warnings' \in Seq(WarningRecord)
        /\ Len(warnings') = Len(warnings) + Len(ws)
        /\ \A k \in 1..(Len(warnings) + Len(ws)) :
             warnings'[k] = IF k <= Len(warnings) THEN warnings[k] ELSE ws[k - Len(warnings)]
    BY <1>2, <2>2, ConcatProperties
  <2>4. \A k \in 1..Len(ws) : ws[k].of = current
    BY <2>1
  <2>5. Len(warnings) \in Nat /\ Len(ws) \in Nat
    BY <2>2
  <2>6. ASSUME NEW k \in (Len(warnings) + 1)..Len(warnings')
        PROVE  warnings'[k].of = current
    BY <2>3, <2>4, <2>5
  <2>7. IsPrefix(warnings, warnings')
    BY <1>2, <2>2, PrefixOfConcatenation
  <2>8. QED
    BY <2>3, <2>5, <2>6, <2>7
<1>3. QED
  BY <1>1, <1>2 DEF RecordsOwn

\* A conversion's own warnings, by their positions in the recorded list.
LEMMA SuffixByPosition ==
  ASSUME NEW S, NEW s \in Seq(S), NEW n \in 0..Len(s)
  PROVE  /\ SubSeq(s, n + 1, Len(s)) \in Seq(S)
         /\ Len(SubSeq(s, n + 1, Len(s))) = Len(s) - n
         /\ \A k \in 1..(Len(s) - n) : SubSeq(s, n + 1, Len(s))[k] = s[n + k]
<1>1. \A k \in (n + 1)..Len(s) : s[k] \in S
  OBVIOUS
<1>2. n + 1 \in Int /\ Len(s) \in Int
  OBVIOUS
<1>3. QED
  BY <1>1, <1>2, SubSeqProperties

\* A conversion's own warnings are those recorded since it started.
LEMMA OwnByPosition ==
  ASSUME warnings \in Seq(WarningRecord), startWarnings \in 0..Len(warnings)
  PROVE  /\ Len(Own) = Len(warnings) - startWarnings
         /\ DOMAIN Own = 1..Len(Own)
         /\ \A k \in 1..Len(Own) : Own[k] = warnings[startWarnings + k]
BY SuffixByPosition DEF Own

-----------------------------------------------------------------------------
(* The inductive invariant *)

\* The call in progress is about a BuildConfig it was given, and warnings are
\* attributed to that one.
CallInProgress ==
  step # "idle" => bc \in SourceConfigs /\ current = Identity(bc)

\* WarningsAttributed alone is not inductive: that a step's warnings are typed
\* takes the BuildConfig's type, which CallInProgress gives, and the loops'
\* indexing of the strategy block takes BlockPresent.
ConverterInv == TypeOK /\ WarningsAttributed /\ BlockPresent /\ CallInProgress

\* A new Converter satisfies the invariant.
LEMMA Initially ==
  Init => ConverterInv
<1> SUFFICES ASSUME Init PROVE ConverterInv
  OBVIOUS
<1>1. TypeOK
  <2>1. Empty \in Text
    BY DEF Empty, Text
  <2>2. current \in Attribution
    BY <2>1 DEF Init, Attribution, NoConfig
  <2>3. warnings \in Seq(WarningRecord) /\ startWarnings \in 0..Len(warnings)
    BY DEF Init
  <2>4. conversions \in 0..MaxConversions /\ item \in Nat \ {0}
    BY ConverterAssumption DEF Init
  <2>5. DOMAIN outcome = DOMAIN NoOutcome /\ outcome.state = "none"
    BY DEF Init, NoOutcome
  <2>6. QED
    BY <2>2, <2>3, <2>4, <2>5 DEF Init, TypeOK, Steps
<1>2. WarningsAttributed
  <2>1. Len(Own) = 0
    BY <1>1, OwnByPosition DEF TypeOK, Init
  <2>2. QED
    BY <2>1 DEF Init, WarningsAttributed, Own
<1>3. QED
  BY <1>1, <1>2 DEF Init, ConverterInv, BlockPresent, CallInProgress

\* Calling Convert keeps the invariant, whatever was recorded before.
LEMMA ConvertStep ==
  ASSUME ConverterInv, NEW c \in SourceConfigs, Convert(c)
  PROVE  ConverterInv'
<1>1. IsBuildConfig(c)
  BY ConverterAssumption
<1>2. Identity(c) \in Attribution /\ Identity(c) # NoConfig
  BY <1>1 DEF IsBuildConfig, Identity, Attribution, NoConfig
<1>3. TypeOK'
  <2>1. conversions' \in 0..MaxConversions
    BY ConverterAssumption DEF ConverterInv, TypeOK, Convert
  <2>2. startWarnings' \in 0..Len(warnings') /\ warnings' \in Seq(WarningRecord)
    BY DEF ConverterInv, TypeOK, Convert
  <2>3. DOMAIN outcome' = DOMAIN NoOutcome /\ outcome'.state = "none"
    BY DEF Convert, NoOutcome
  <2>4. opts' \in FlagSets /\ step' \in Steps /\ item' \in Nat \ {0}
    BY DEF ConverterInv, TypeOK, Convert, Steps
  <2>5. QED
    BY <1>2, <2>1, <2>2, <2>3, <2>4 DEF TypeOK, Convert
<1>4. WarningsAttributed'
  <2>1. Len(Own') = 0
    BY <1>3, OwnByPosition DEF ConverterInv, TypeOK, Convert, Own
  <2>2. QED
    BY <1>2, <2>1 DEF ConverterInv, WarningsAttributed, Convert
<1>5. QED
  BY <1>3, <1>4 DEF ConverterInv, BlockPresent, CallInProgress, Convert, Identity

\* What the invariant gives a step of Convert's body.
LEMMA ProceedFacts ==
  ASSUME ConverterInv, Proceed
  PROVE  /\ UNCHANGED fixed
         /\ step # "idle"
         /\ GoesOn \/ Returns
         /\ IsBuildConfig(bc)
         /\ current = Identity(bc)
         /\ RecordsOwn
<1>1. UNCHANGED fixed /\ step # "idle" /\ (GoesOn \/ Returns)
  BY ProceedFrame DEF ConverterInv, TypeOK
<1>2. bc \in SourceConfigs /\ current = Identity(bc)
  BY <1>1 DEF ConverterInv, CallInProgress
<1>3. IsBuildConfig(bc)
  BY <1>2, ConverterAssumption
<1>4. RecordsOwn
  BY <1>3, ProceedRecords DEF ConverterInv, TypeOK
<1>5. QED
  BY <1>1, <1>2, <1>3, <1>4

\* A step of Convert's body only appends to the recorded list.
LEMMA ProceedGrows ==
  ASSUME ConverterInv, Proceed
  PROVE  /\ warnings' \in Seq(WarningRecord)
         /\ IsPrefix(warnings, warnings')
         /\ Len(warnings) <= Len(warnings')
         /\ \A k \in 1..Len(warnings) : warnings'[k] = warnings[k]
         /\ \A k \in (Len(warnings) + 1)..Len(warnings') : warnings'[k].of = current
<1>1. RecordsOwn
  BY ProceedFacts
<1>2. warnings \in Seq(WarningRecord) /\ current \in Attribution
  BY DEF ConverterInv, TypeOK
<1>3. QED
  BY <1>1, <1>2, RecordedListGrows

\* A step of Convert's body keeps the types.
LEMMA ProceedKeepsTypes ==
  ASSUME ConverterInv, Proceed
  PROVE  TypeOK'
<1>1. DOMAIN b' = DOMAIN EmptyBuild /\ DOMAIN outcome' = DOMAIN NoOutcome
  BY ShapesKept DEF ConverterInv, TypeOK
<1>2. opts' \in FlagSets /\ conversions' \in 0..MaxConversions
      /\ (bc' \in SourceConfigs \/ bc' = PlainBuildConfig)
  BY ProceedFacts DEF fixed, ConverterInv, TypeOK
<1>3. warnings' \in Seq(WarningRecord) /\ startWarnings' \in 0..Len(warnings')
  BY ProceedFacts, ProceedGrows DEF fixed, ConverterInv, TypeOK
<1>4. current' \in Attribution
  <2>1. NoConfig \in Attribution
    BY DEF NoConfig, Attribution, Text, Empty
  <2>2. QED
    BY <2>1, ProceedFacts DEF ConverterInv, TypeOK, GoesOn, Returns
<1>5. step' \in Steps /\ item' \in Nat \ {0}
  BY ProceedFacts DEF GoesOn, Returns, Steps
<1>6. outcome'.state \in States \union {"none"}
  <2>1. CASE GoesOn
    BY <2>1 DEF GoesOn, ConverterInv, TypeOK
  <2>2. CASE outcome'.state \in {"skipped", "failed"}
    BY <2>2 DEF States
  <2>3. CASE Classify
    BY <2>3 DEF Classify, States, ConvertedStates
  <2>4. QED
    BY <2>1, <2>2, <2>3, ProceedFacts DEF Returns
<1>7. QED
  BY <1>1, <1>2, <1>3, <1>4, <1>5, <1>6 DEF TypeOK

\* A step of Convert's body keeps the attribution: what was recorded stays, and
\* what is appended names the conversion in progress.
LEMMA ProceedKeepsAttribution ==
  ASSUME ConverterInv, Proceed
  PROVE  WarningsAttributed'
<1>1. step' = "idle" <=> current' = NoConfig
  BY ProceedFacts DEF GoesOn, Returns, ConverterInv, WarningsAttributed
<1>2. current # NoConfig
  BY ProceedFacts DEF ConverterInv, WarningsAttributed
<1>3. \A k \in DOMAIN warnings' : warnings'[k].of # NoConfig
  <2>1. \A k \in 1..Len(warnings) : warnings[k].of # NoConfig
    BY DEF ConverterInv, TypeOK, WarningsAttributed
  <2>2. \A k \in 1..Len(warnings') :
          k \in 1..Len(warnings) \/ k \in (Len(warnings) + 1)..Len(warnings')
    BY ProceedGrows DEF ConverterInv, TypeOK
  <2>3. QED
    BY <1>2, <2>1, <2>2, ProceedGrows
<1>4. \A k \in DOMAIN Own' : Own'[k].of = Identity(bc')
  <2>1. /\ startWarnings' = startWarnings
        /\ bc' = bc
        /\ current = Identity(bc)
    BY ProceedFacts DEF fixed
  <2>2. startWarnings \in 0..Len(warnings) /\ warnings \in Seq(WarningRecord)
    BY DEF ConverterInv, TypeOK
  <2>3. \A k \in (startWarnings + 1)..Len(warnings) : warnings[k].of = Identity(bc)
    <3> SUFFICES ASSUME NEW k \in (startWarnings + 1)..Len(warnings)
                 PROVE  warnings[k].of = Identity(bc)
      OBVIOUS
    <3>1. k - startWarnings \in 1..Len(Own) /\ Own[k - startWarnings] = warnings[k]
      BY <2>2, OwnByPosition
    <3>2. QED
      BY <3>1, <2>2, OwnByPosition DEF ConverterInv, WarningsAttributed
  <2>4. \A k \in (startWarnings + 1)..Len(warnings') : warnings'[k].of = Identity(bc)
    BY <2>1, <2>2, <2>3, ProceedGrows
  <2>5. /\ Len(Own') = Len(warnings') - startWarnings
        /\ DOMAIN Own' = 1..Len(Own')
        /\ \A k \in 1..Len(Own') : Own'[k] = warnings'[startWarnings + k]
    <3>1. warnings' \in Seq(WarningRecord) /\ startWarnings' \in 0..Len(warnings')
      BY ProceedKeepsTypes DEF TypeOK
    <3>2. QED
      BY <3>1, <2>1, SuffixByPosition DEF Own
  <2>6. QED
    BY <2>1, <2>2, <2>4, <2>5, ProceedGrows, SMTT(30)
<1>5. QED
  BY <1>1, <1>3, <1>4 DEF WarningsAttributed

\* A stuttering step keeps the invariant.
LEMMA Stutters ==
  ASSUME ConverterInv, UNCHANGED vars
  PROVE  ConverterInv'
BY DEF ConverterInv, TypeOK, WarningsAttributed, BlockPresent, HasBlock, CallInProgress,
       Own, vars

\* Every step keeps the invariant.
LEMMA Inductive ==
  ConverterInv /\ [Next]_vars => ConverterInv'
<1> SUFFICES ASSUME ConverterInv, [Next]_vars PROVE ConverterInv'
  OBVIOUS
<1>1. CASE Proceed
  <2>1. TypeOK' /\ WarningsAttributed'
    BY <1>1, ProceedKeepsTypes, ProceedKeepsAttribution
  <2>2. BlockPresent'
    BY <1>1, ProceedFacts DEF GoesOn, Returns, BlockPresent
  <2>3. CallInProgress'
    BY <1>1, ProceedFacts DEF GoesOn, Returns, CallInProgress, ConverterInv, fixed
  <2>4. QED
    BY <2>1, <2>2, <2>3 DEF ConverterInv
<1>2. ASSUME NEW c \in SourceConfigs, Convert(c)
      PROVE  ConverterInv'
  BY <1>2, ConvertStep
<1>3. CASE UNCHANGED vars
  BY <1>3, Stutters
<1>4. QED
  BY <1>1, <1>2, <1>3 DEF Next

\* A Converter's reachable states satisfy the inductive invariant.
THEOREM Invariance ==
  Spec => []ConverterInv
BY Initially, Inductive, PTL DEF Spec

\* Every variable keeps its type, and each recorded warning is a warning of a
\* known kind about text of the BuildConfig (Converter, converter.go:77-91).
THEOREM TypeCorrectness ==
  Spec => []TypeOK
<1>1. ConverterInv => TypeOK
  BY DEF ConverterInv
<1>2. QED
  BY <1>1, Invariance, PTL

\* However many BuildConfigs a Converter converts, each conversion's warnings
\* name its own BuildConfig, and between conversions none is being named
\* (recordWarning, outcome.go:65-73; the deferred clear, converter.go:108-111).
THEOREM AttributionCorrectness ==
  Spec => []WarningsAttributed
<1>1. ConverterInv => WarningsAttributed
  BY DEF ConverterInv
<1>2. QED
  BY <1>1, Invariance, PTL

-----------------------------------------------------------------------------
(* The outcome *)

\* Of no warnings the annotation omits none, whatever its cap.
LEMMA NothingToOmit ==
  TruncationWarning(<<>>) = <<>>
<1> DEFINE lengths == [k \in DOMAIN <<>> |-> WarningLength(<<>>[k])]
<1>1. lengths = <<>> /\ Len(lengths) = 0
  OBVIOUS
<1> HIDE DEF lengths
<1>2. KeptCount(lengths) \in 0..0
  <2> DEFINE fits(j) == \/ j = 0
                        \/ JoinedLengths(lengths)[j] + ReservedLength(lengths)
                             <= MaxConversionWarningsBytes
             last(k) == fits(k) /\ \A j \in (k + 1)..Len(lengths) : ~fits(j)
  <2>1. last(0)
    BY <1>1
  <2>2. KeptCount(lengths) = IF WithinCap(lengths) THEN Len(lengths)
                             ELSE CHOOSE k \in 0..Len(lengths) : last(k)
    BY DEF KeptCount
  <2> HIDE DEF last
  <2>3. (CHOOSE k \in 0..Len(lengths) : last(k)) \in 0..Len(lengths)
    BY <1>1, <2>1
  <2> HIDE DEF fits
  <2>4. CASE WithinCap(lengths)
    BY <1>1, <2>2, <2>4
  <2>5. CASE ~WithinCap(lengths)
    <3>1. KeptCount(lengths) = CHOOSE k \in 0..Len(lengths) : last(k)
      BY <2>2, <2>5
    <3>2. QED
      BY <1>1, <2>3, <3>1
  <2>6. QED
    BY <2>4, <2>5
<1>3. BoundedWarnings(<<>>).omitted = Len(<<>>) - KeptCount(lengths)
  BY DEF BoundedWarnings, lengths
<1>4. BoundedWarnings(<<>>).omitted = 0
  BY <1>2, <1>3
<1>5. QED
  BY <1>4 DEF TruncationWarning, If

\* A conversion that gets to its end is classified by its own warnings.
LEMMA ClassifiedByOwnWarnings ==
  ASSUME ConverterInv, Classify
  PROVE  OutcomeMatchesWarnings'
<1>1. Proceed
  BY DEF Proceed
<1>2. /\ startWarnings' = startWarnings
      /\ startWarnings \in 0..Len(warnings)
      /\ warnings \in Seq(WarningRecord)
      /\ warnings' \in Seq(WarningRecord)
      /\ Len(warnings) <= Len(warnings')
  BY <1>1, ProceedGrows DEF Classify, fixed, ConverterInv, TypeOK
<1>3. Len(Own) = Len(warnings) - startWarnings
  BY <1>2, OwnByPosition
<1>4. Own' \in Seq(WarningRecord) /\ Len(Own') = Len(warnings') - startWarnings
  BY <1>2, SuffixByPosition DEF Own
<1>5. outcome'.warnings = Own'
  BY <1>2 DEF Classify, OwnWarnings, Own
<1>6. CASE Own = <<>>
  <2>1. Own = OwnWarnings(warnings)
    BY DEF Own, OwnWarnings
  <2>2. TruncationWarning(OwnWarnings(warnings)) = <<>>
    BY <1>6, <2>1, NothingToOmit
  <2>3. warnings' = warnings
    <3>1. Warn(TruncationWarning(OwnWarnings(warnings)))
      BY DEF Classify
    <3>2. Warn(<<>>)
      BY <2>2, <3>1
    <3>3. QED
      BY <1>2, <3>2 DEF Warn
  <2>4. Own' = <<>>
    BY <1>2, <1>6, <2>3 DEF Own
  <2>5. outcome'.state = "converted"
    BY <1>6, <2>1 DEF Classify
  <2>6. QED
    BY <2>4, <2>5 DEF OutcomeMatchesWarnings
<1>7. CASE Own # <<>>
  <2>1. Own \in Seq(WarningRecord)
    BY <1>2, SuffixByPosition DEF Own
  <2>2. Own' # <<>>
    BY <1>2, <1>3, <1>4, <1>7, <2>1
  <2>3. outcome'.state = "converted-with-warnings"
    BY <1>7 DEF Classify, OwnWarnings, Own
  <2>4. QED
    BY <1>5, <2>2, <2>3 DEF OutcomeMatchesWarnings
<1>8. QED
  BY <1>6, <1>7

\* A conversion ends "converted" only when it has recorded no warning, and
\* with warnings exactly its own are in the Outcome, whatever earlier
\* conversions recorded and whatever the cap (Convert, converter.go:219-240).
THEOREM OutcomeSound ==
  Spec => []OutcomeMatchesWarnings
<1>1. Init => OutcomeMatchesWarnings
  <2> SUFFICES ASSUME Init PROVE OutcomeMatchesWarnings
    OBVIOUS
  <2>1. outcome = NoOutcome /\ NoOutcome.state = "none"
    BY DEF Init, NoOutcome
  <2>2. QED
    BY <2>1 DEF OutcomeMatchesWarnings, Concluded
<1>2. ASSUME ConverterInv, OutcomeMatchesWarnings, [Next]_vars
      PROVE  OutcomeMatchesWarnings'
  <2>1. CASE Proceed
    <3>1. CASE GoesOn
      BY <3>1 DEF GoesOn, OutcomeMatchesWarnings, Concluded
    <3>2. CASE outcome'.state \in {"skipped", "failed"} /\ outcome'.warnings = <<>>
      BY <3>2 DEF OutcomeMatchesWarnings
    <3>3. CASE Classify
      BY <1>2, <3>3, ClassifiedByOwnWarnings
    <3>4. QED
      BY <1>2, <2>1, <3>1, <3>2, <3>3, ProceedFacts DEF Returns
  <2>2. ASSUME NEW c \in SourceConfigs, Convert(c)
        PROVE  OutcomeMatchesWarnings'
    BY <2>2 DEF Convert, OutcomeMatchesWarnings, Concluded, NoOutcome
  <2>3. CASE UNCHANGED vars
    BY <1>2, <2>3 DEF OutcomeMatchesWarnings, Concluded, Own, vars
  <2>4. QED
    BY <1>2, <2>1, <2>2, <2>3 DEF Next
<1>3. QED
  BY <1>1, <1>2, Invariance, PTL DEF Spec

-----------------------------------------------------------------------------
(* The deadline and the pull secret *)

BeforeGate == {"skeleton", "strategy", "buildArgs", "volumes", "gate"}
AfterGate == Steps \ (BeforeGate \union {"idle"})

\* The resources that go with the Build are a sequence, of whatever records.
IsSequence(s) == \E S : s \in Seq(S)

\* The timeout is absent or the deadline.
ExactTimeout(timeout) ==
  timeout # <<>> =>
    /\ timeout[1] = bc.deadline[1] * Second
    /\ timeout[1] > 0
    /\ timeout[1] <= MaxDuration

IsAccount(r) == r.kind = "ServiceAccount"

\* What ProcessCredentials leaves: no account beside the one the BuildConfig
\* names, and the pull secret on an account or in a warning.
CredentialsSettled ==
  /\ NamesServiceAccount => \A k \in DOMAIN newResources : ~IsAccount(newResources[k])
  /\ PullSecret # Nil =>
       \/ \E k \in DOMAIN newResources :
            IsAccount(newResources[k]) /\ newResources[k].secret = PullSecret
       \/ Recorded("pull secret not linked", PullSecret)

\* Neither theorem is inductive: the timeout is sound from the first step on,
\* the credentials from the gate on, and a converted Outcome holds what was
\* built.
ConversionInv ==
  /\ IsSequence(newResources)
  /\ step \in BeforeGate => newResources = <<>>
  /\ step # "idle" => ExactTimeout(b.timeout)
  /\ step \in AfterGate => CredentialsSettled
  /\ Converted =>
       /\ outcome.resources = <<b>> \o newResources
       /\ ExactTimeout(b.timeout)
       /\ CredentialsSettled

-----------------------------------------------------------------------------
(* Arithmetic of the deadline *)

\* A duration that is in range does not wrap.
LEMMA NoWrapInRange ==
  ASSUME NEW x \in Nat, x <= MaxDuration
  PROVE  Wrap(x) = x
<1>1. MaxDuration \in Nat
  BY ConverterAssumption
<1> DEFINE width == 2 * (MaxDuration + 1)
           shifted == x + MaxDuration + 1
<1>2. width \in Nat \ {0} /\ shifted \in Nat /\ shifted < width
  BY <1>1
<1>3. shifted % width = shifted
  <2> HIDE DEF shifted, width
  <2>1. QED
    BY <1>2
<1>4. QED
  BY <1>1, <1>3 DEF Wrap

\* A usable deadline is a positive duration in range.
LEMMA UsableIsInRange ==
  ASSUME NEW seconds \in Int, UsableDeadline(seconds)
  PROVE  seconds * Second \in Nat /\ seconds * Second > 0 /\ seconds * Second <= MaxDuration
<1>1. MaxDuration \in Nat /\ Second \in Nat /\ Second > 0
  BY ConverterAssumption
<1> DEFINE most == MaxDuration \div Second
<1>2. most \in Nat /\ most * Second <= MaxDuration
  BY <1>1
<1>3. seconds > 0 /\ seconds <= most
  BY DEF UsableDeadline, MaxTimeoutSeconds
<1> HIDE DEF most
<1>4. seconds * Second <= most * Second /\ seconds * Second > 0
  BY <1>1, <1>2, <1>3
<1>5. seconds * Second \in Int /\ most * Second \in Int
  BY <1>1, <1>2
<1> DEFINE product == seconds * Second
           bound == most * Second
<1>6. product <= bound /\ bound <= MaxDuration /\ product > 0 /\ product \in Int /\ bound \in Int
  BY <1>2, <1>4, <1>5
<1> HIDE DEF product, bound
<1>7. product <= MaxDuration /\ product \in Nat
  BY <1>1, <1>6
<1>8. QED
  BY <1>6, <1>7 DEF product

\* The timeout that ProcessCompletionDeadline sets is exact.
LEMMA DeadlineIsExact ==
  ASSUME ConverterInv, ExactTimeout(b.timeout), ProcessCompletionDeadline
  PROVE  ExactTimeout(b'.timeout)
<1>1. DOMAIN b = DOMAIN EmptyBuild
  BY DEF ConverterInv, TypeOK
<1>2. IsBuildConfig(bc)
  BY ProceedFacts DEF Proceed
<1> DEFINE usable == bc.deadline # <<>> /\ UsableDeadline(bc.deadline[1])
           duration == bc.deadline[1] * Second
<1>3. CASE ~usable
  BY <1>3 DEF ProcessCompletionDeadline
<1>4. CASE usable
  <2>1. bc.deadline[1] \in Int
    BY <1>2, <1>4 DEF IsBuildConfig, OptionalInt
  <2>2. duration \in Nat /\ duration > 0 /\ duration <= MaxDuration
    BY <1>4, <2>1, UsableIsInRange
  <2>3. b' = [b EXCEPT !.timeout = <<Wrap(duration)>>]
    BY <1>4 DEF ProcessCompletionDeadline
  <2>4. Wrap(duration) = duration
    BY <2>2, NoWrapInRange
  <2>5. b'.timeout = <<duration>>
    BY <1>1, <2>3, <2>4 DEF EmptyBuild
  <2>6. QED
    BY <2>2, <2>5 DEF ExactTimeout
<1>5. QED
  BY <1>3, <1>4

-----------------------------------------------------------------------------
(* The steps, sorted by what they do to the timeout and the resources *)

\* The timeout stays as it is.
KeepsTimeout == b'.timeout = b.timeout

\* A step before the output gate: no resource yet.
StaysBefore ==
  /\ step \in BeforeGate /\ step' \in BeforeGate
  /\ UNCHANGED newResources

\* A step behind the gate that adds no resource, or one that is no account.
StaysBehind ==
  /\ step \in AfterGate /\ step' \in AfterGate
  /\ \/ UNCHANGED newResources
     \/ \E condition, r : /\ ~IsAccount(r)
                          /\ newResources' = newResources \o If(condition, r)

\* The call returns without a Build.
GivesUp ==
  /\ step' = "idle" /\ outcome'.state \in {"skipped", "failed"}
  /\ UNCHANGED newResources

\* Only MakeSkeleton and ProcessCompletionDeadline touch the timeout.
LEMMA TimeoutSteps ==
  ASSUME DOMAIN b = DOMAIN EmptyBuild, Proceed
  PROVE  KeepsTimeout \/ MakeSkeleton \/ ProcessCompletionDeadline
<1>1. "timeout" \in DOMAIN b
  BY DEF EmptyBuild
<1>2. \A result : Return(result) => KeepsTimeout
  BY DEF Return, KeepsTimeout
<1>3. CASE SkipUnsupportedStrategy \/ FailUnknownStrategy \/ FailStrategyImage
             \/ SkipWithoutOutput \/ FailSource
  BY <1>2, <1>3 DEF SkipUnsupportedStrategy, FailUnknownStrategy, FailStrategyImage,
                    SkipWithoutOutput, FailSource, Skip
<1>4. CASE StrategyWithoutBlock \/ ProcessDockerStrategy \/ ProcessSourceStrategy
             \/ FinishDockerStrategy \/ FinishVolumes
  BY <1>1, <1>4 DEF StrategyWithoutBlock, ProcessDockerStrategy, ProcessSourceStrategy,
                    FinishDockerStrategy, FinishVolumes, KeepsTimeout
<1>5. CASE ConvertBuildArg \/ ConvertVolume \/ ConvertImageLabel \/ ProcessChainInput
  BY <1>1, <1>5 DEF ConvertBuildArg, ConvertVolume, ConvertImageLabel, ProcessChainInput,
                    KeepsTimeout
<1>6. CASE ProcessCredentials \/ ProcessInlineDockerfile \/ SourceAbsent \/ GitSource
             \/ BinarySource \/ ImageSourceStep \/ ProcessOutput \/ FinishOutput
  BY <1>1, <1>6 DEF ProcessCredentials, ProcessInlineDockerfile, SourceAbsent, GitSource,
                    BinarySource, ImageSourceStep, ProcessOutput, FinishOutput, KeepsTimeout
<1>7. CASE ProcessNodeSelector \/ ProcessRunPolicy
             \/ ProcessPostCommit \/ ProcessBuildsHistoryLimits \/ AddRegistries
             \/ ProcessTriggers \/ FinishChainCandidates \/ ProcessResources
  BY <1>1, <1>7
  DEF ProcessNodeSelector, ProcessRunPolicy, ProcessPostCommit, ProcessBuildsHistoryLimits,
      AddRegistries, ProcessTriggers, FinishChainCandidates, ProcessResources, KeepsTimeout
<1>8. CASE Classify
  BY <1>1, <1>8 DEF Classify, KeepsTimeout
<1>9. QED
  BY <1>3, <1>4, <1>5, <1>6, <1>7, <1>8 DEF Proceed

\* A step stays before the gate, settles the credentials, stays behind the gate,
\* gives up, or is the last.
LEMMA SortedSteps ==
  ASSUME Proceed
  PROVE  StaysBefore \/ ProcessCredentials \/ StaysBehind \/ GivesUp \/ Classify
<1>1. \A reason : Return(OutcomeSkipped(reason)) \/ Return(OutcomeFailed(reason)) => GivesUp
  BY DEF Return, OutcomeSkipped, OutcomeFailed, GivesUp
<1>2. CASE SkipUnsupportedStrategy \/ FailUnknownStrategy \/ FailStrategyImage
             \/ SkipWithoutOutput \/ FailSource
  BY <1>1, <1>2 DEF SkipUnsupportedStrategy, FailUnknownStrategy, FailStrategyImage,
                    SkipWithoutOutput, FailSource, Skip
<1>3. CASE MakeSkeleton \/ StrategyWithoutBlock \/ ProcessDockerStrategy
             \/ ProcessSourceStrategy \/ FinishDockerStrategy \/ FinishVolumes
  BY <1>3 DEF MakeSkeleton, StrategyWithoutBlock, ProcessDockerStrategy,
              ProcessSourceStrategy, FinishDockerStrategy, FinishVolumes,
              Continue, UnchangedExtras, StaysBefore, BeforeGate
<1>4. CASE ConvertBuildArg \/ ConvertVolume
  BY <1>4 DEF ConvertBuildArg, ConvertVolume, Repeat, UnchangedExtras, StaysBefore, BeforeGate
<1>5. CASE ConvertImageLabel \/ ProcessChainInput
  BY <1>5 DEF ConvertImageLabel, ProcessChainInput, Repeat, UnchangedExtras, StaysBehind,
              BeforeGate, AfterGate, Steps
<1>6. CASE ProcessInlineDockerfile
  <2> DEFINE preserved == HasInlineDockerfile /\ bc.type = "Docker"
  <2>1. newResources' = newResources \o If(preserved, DockerfileConfigMap)
    BY <1>6 DEF ProcessInlineDockerfile
  <2>2. ~IsAccount(DockerfileConfigMap)
    BY DEF IsAccount, DockerfileConfigMap
  <2>3. step \in AfterGate /\ step' \in AfterGate
    BY <1>6 DEF ProcessInlineDockerfile, Continue, AfterGate, BeforeGate, Steps
  <2>4. QED
    BY <2>1, <2>2, <2>3 DEF StaysBehind
<1>7. CASE SourceAbsent \/ GitSource \/ BinarySource \/ ImageSourceStep
             \/ ProcessOutput \/ FinishOutput
  BY <1>7 DEF SourceAbsent, GitSource, BinarySource, ImageSourceStep, ProcessOutput,
              FinishOutput, Continue, UnchangedExtras, StaysBehind, BeforeGate, AfterGate, Steps
<1>8. CASE ProcessCompletionDeadline \/ ProcessNodeSelector \/ ProcessRunPolicy
             \/ ProcessPostCommit \/ ProcessBuildsHistoryLimits \/ AddRegistries
             \/ ProcessTriggers \/ FinishChainCandidates \/ ProcessResources
  BY <1>8
  DEF ProcessCompletionDeadline, ProcessNodeSelector, ProcessRunPolicy, ProcessPostCommit,
      ProcessBuildsHistoryLimits, AddRegistries, ProcessTriggers, FinishChainCandidates,
      ProcessResources, Continue, UnchangedExtras, StaysBehind, BeforeGate, AfterGate, Steps
<1>9. QED
  BY <1>2, <1>3, <1>4, <1>5, <1>6, <1>7, <1>8 DEF Proceed

-----------------------------------------------------------------------------
(* Warnings and credentials along a conversion *)

\* What a conversion has recorded stays recorded until the next call.
LEMMA RecordedRemains ==
  ASSUME ConverterInv, Proceed, NEW kind, NEW about, Recorded(kind, about)
  PROVE  Recorded(kind, about)'
<1>1. /\ warnings \in Seq(WarningRecord) /\ warnings' \in Seq(WarningRecord)
      /\ startWarnings \in 0..Len(warnings)
      /\ startWarnings' = startWarnings
      /\ Len(warnings) <= Len(warnings')
      /\ \A k \in 1..Len(warnings) : warnings'[k] = warnings[k]
  BY ProceedGrows, ProceedFacts DEF ConverterInv, TypeOK, fixed
<1>2. startWarnings' \in 0..Len(warnings')
  BY <1>1
<1>3. /\ DOMAIN Own = 1..(Len(warnings) - startWarnings)
      /\ \A k \in 1..(Len(warnings) - startWarnings) : Own[k] = warnings[startWarnings + k]
  BY <1>1, OwnByPosition
<1>4. /\ DOMAIN Own' = 1..(Len(warnings') - startWarnings)
      /\ \A k \in 1..(Len(warnings') - startWarnings) : Own'[k] = warnings'[startWarnings + k]
  BY <1>1, <1>2, SuffixByPosition DEF Own
<1>5. PICK k \in DOMAIN Own : Own[k].kind = kind /\ Own[k].about = about
  BY DEF Recorded
<1>6. k \in DOMAIN Own' /\ Own'[k] = Own[k]
  <2>1. k \in 1..(Len(warnings) - startWarnings)
    BY <1>3, <1>5
  <2>2. Own[k] = warnings[startWarnings + k]
    BY <1>3, <2>1
  <2>3. /\ k \in 1..(Len(warnings') - startWarnings)
        /\ startWarnings + k \in 1..Len(warnings)
    <3>1. Len(warnings) \in Nat /\ Len(warnings') \in Nat
      BY <1>1
    <3>2. QED
      BY <1>1, <2>1, <3>1
  <2>4. k \in DOMAIN Own' /\ Own'[k] = warnings'[startWarnings + k]
    BY <1>4, <2>3
  <2>5. QED
    BY <1>1, <2>2, <2>3, <2>4
<1>7. QED
  BY <1>5, <1>6 DEF Recorded

\* What a step appends first is recorded.
LEMMA FirstIsRecorded ==
  ASSUME ConverterInv, Proceed, NEW kind \in KindsAt(step), NEW about \in Text,
         NEW ws \in Seq(OwnRecord),
         warnings' = warnings \o (<<Warning(kind, about)>> \o ws)
  PROVE  Recorded(kind, about)'
<1> DEFINE appended == <<Warning(kind, about)>> \o ws
           place == Len(warnings) - startWarnings + 1
<1>1. /\ warnings \in Seq(WarningRecord) /\ warnings' \in Seq(WarningRecord)
      /\ startWarnings \in 0..Len(warnings)
      /\ startWarnings' = startWarnings
      /\ current \in Attribution
  BY ProceedGrows, ProceedFacts DEF ConverterInv, TypeOK, fixed
<1>2. /\ appended \in Seq(WarningRecord) /\ Len(appended) >= 1
      /\ appended[1] = Warning(kind, about)
  <2>1. Warning(kind, about) \in WarningRecord
    BY <1>1, KindsAreKnown DEF Warning, WarningRecord
  <2>2. ws \in Seq(WarningRecord)
    <3>1. \A w \in OwnRecord : w \in WarningRecord
      BY <1>1, KindsAreKnown DEF OwnRecord, WarningRecord
    <3>2. QED
      BY <3>1
  <2>3. QED
    BY <2>1, <2>2
<1> HIDE DEF appended
<1>3. /\ Len(warnings') = Len(warnings) + Len(appended)
      /\ warnings'[Len(warnings) + 1] = appended[1]
  BY <1>1, <1>2, ConcatProperties DEF appended
<1>4. startWarnings' \in 0..Len(warnings')
  BY <1>1, <1>2, <1>3
<1>5. /\ DOMAIN Own' = 1..(Len(warnings') - startWarnings)
      /\ \A k \in 1..(Len(warnings') - startWarnings) : Own'[k] = warnings'[startWarnings + k]
  BY <1>1, <1>4, SuffixByPosition DEF Own
<1>6. place \in DOMAIN Own' /\ Own'[place] = warnings'[Len(warnings) + 1]
  <2>1. place \in 1..(Len(warnings') - startWarnings) /\ startWarnings + place = Len(warnings) + 1
    BY <1>1, <1>2, <1>3
  <2> HIDE DEF place
  <2>2. QED
    BY <1>5, <2>1
<1>7. Own'[place].kind = kind /\ Own'[place].about = about
  BY <1>2, <1>3, <1>6 DEF Warning
<1> HIDE DEF place
<1>8. QED
  BY <1>6, <1>7 DEF Recorded

\* A resource appended under a condition.
LEMMA AppendsResource ==
  ASSUME NEW s, IsSequence(s), NEW condition, NEW r
  PROVE  /\ IsSequence(s \o If(condition, r))
         /\ \A k \in DOMAIN s : /\ k \in DOMAIN (s \o If(condition, r))
                               /\ (s \o If(condition, r))[k] = s[k]
         /\ \A k \in DOMAIN (s \o If(condition, r)) :
              \/ k \in DOMAIN s /\ (s \o If(condition, r))[k] = s[k]
              \/ (s \o If(condition, r))[k] = r
<1>1. PICK S : s \in Seq(S)
  BY DEF IsSequence
<1> DEFINE T == S \union {r}
           added == If(condition, r)
<1>2. s \in Seq(T) /\ added \in Seq(T)
  <2>1. r \in T /\ s \in Seq(T)
    BY <1>1
  <2> HIDE DEF T
  <2>2. QED
    BY <2>1, IfTyped
<1>3. \A k \in DOMAIN added : added[k] = r
  BY DEF If
<1> HIDE DEF T, added
<1>4. /\ s \o added \in Seq(T)
      /\ Len(s \o added) = Len(s) + Len(added)
      /\ \A k \in 1..(Len(s) + Len(added)) :
           (s \o added)[k] = IF k <= Len(s) THEN s[k] ELSE added[k - Len(s)]
  BY <1>2, ConcatProperties
<1>5. /\ Len(s) \in Nat /\ Len(added) \in Nat
      /\ DOMAIN s = 1..Len(s)
      /\ DOMAIN added = 1..Len(added)
      /\ DOMAIN (s \o added) = 1..(Len(s) + Len(added))
  BY <1>2, <1>4
<1>6. \A k \in DOMAIN s : k \in DOMAIN (s \o added) /\ (s \o added)[k] = s[k]
  BY <1>4, <1>5
<1>7. ASSUME NEW k \in DOMAIN (s \o added)
      PROVE  \/ k \in DOMAIN s /\ (s \o added)[k] = s[k]
             \/ (s \o added)[k] = r
  <2>1. CASE k <= Len(s)
    BY <1>4, <1>5, <1>7, <2>1
  <2>2. CASE ~(k <= Len(s))
    <3>1. k - Len(s) \in DOMAIN added /\ (s \o added)[k] = added[k - Len(s)]
      BY <1>4, <1>5, <1>7, <2>2
    <3>2. QED
      BY <1>3, <3>1
  <2>3. QED
    BY <2>1, <2>2
<1>8. QED
  BY <1>4, <1>6, <1>7 DEF added, IsSequence

\* The pull secret and the named account are the BuildConfig's, which a step
\* leaves alone.
LEMMA CredentialsFixed ==
  ASSUME bc' = bc
  PROVE  PullSecret' = PullSecret /\ NamesServiceAccount' = NamesServiceAccount
BY DEF PullSecret, NamesServiceAccount

\* ProcessCredentials settles the credentials.
LEMMA CredentialsSettle ==
  ASSUME ConverterInv, ConversionInv, ProcessCredentials
  PROVE  CredentialsSettled'
<1>1. Proceed
  BY DEF Proceed
<1>2. IsBuildConfig(bc) /\ bc' = bc
  BY <1>1, ProceedFacts DEF fixed
<1>3. newResources' = If(GeneratesServiceAccount, ServiceAccount)
  <2>1. newResources = <<>>
    BY DEF ConversionInv, ProcessCredentials, BeforeGate
  <2>2. newResources' = <<>> \o If(GeneratesServiceAccount, ServiceAccount)
    BY <2>1 DEF ProcessCredentials
  <2>3. QED
    BY <2>2 DEF If
<1>4. NamesServiceAccount => newResources' = <<>>
  BY <1>3 DEF If, GeneratesServiceAccount
<1>5. ASSUME PullSecret # Nil, ~NamesServiceAccount
      PROVE  \E k \in DOMAIN newResources' :
               IsAccount(newResources'[k]) /\ newResources'[k].secret = PullSecret
  <2>1. newResources' = <<ServiceAccount>>
    BY <1>3, <1>5 DEF If, GeneratesServiceAccount
  <2>2. IsAccount(ServiceAccount) /\ ServiceAccount.secret = PullSecret
    BY DEF ServiceAccount, IsAccount
  <2>3. 1 \in DOMAIN newResources' /\ newResources'[1] = ServiceAccount
    BY <2>1
  <2>4. QED
    BY <2>2, <2>3
<1>6. ASSUME PullSecret # Nil, NamesServiceAccount
      PROVE  Recorded("pull secret not linked", PullSecret)'
  <2> DEFINE linked == Warning("pull secret not linked", PullSecret)
             rest == <<Warning("associations", bc.serviceAccount)>>
  <2>0. step = "gate"
    BY DEF ProcessCredentials
  <2>1. /\ PullSecret \in Text /\ rest \in Seq(OwnRecord)
        /\ "pull secret not linked" \in KindsAt(step)
    BY <1>2, <2>0, PullSecretTyped, NameTyped, WarningTyped, SingletonTyped DEF KindsAt
  <2>2. warnings' = warnings \o (<<linked>> \o <<>> \o rest)
    BY <1>6 DEF ProcessCredentials, Warn, If, GeneratesServiceAccount
  <2>3. <<linked>> \o <<>> \o rest = <<linked>> \o rest
    OBVIOUS
  <2>4. warnings' = warnings \o (<<linked>> \o rest)
    BY <2>2, <2>3
  <2> HIDE DEF rest
  <2>5. PICK secret \in Text : secret = PullSecret
    BY <2>1
  <2>6. warnings' = warnings \o (<<Warning("pull secret not linked", secret)>> \o rest)
    BY <2>4, <2>5
  <2>7. Recorded("pull secret not linked", secret)'
    BY <1>1, <2>1, <2>6, FirstIsRecorded
  <2>8. PullSecret' = secret
    BY <1>2, <2>5, CredentialsFixed
  <2>9. QED
    BY <2>7, <2>8 DEF Recorded
<1>7. NamesServiceAccount' => \A k \in DOMAIN newResources' : ~IsAccount(newResources'[k])
  BY <1>2, <1>4 DEF NamesServiceAccount
<1>8. PullSecret' # Nil =>
        \/ \E k \in DOMAIN newResources' :
             IsAccount(newResources'[k]) /\ newResources'[k].secret = PullSecret'
        \/ Recorded("pull secret not linked", PullSecret)'
  BY <1>2, <1>5, <1>6, CredentialsFixed
<1>9. QED
  BY <1>7, <1>8 DEF CredentialsSettled, IsAccount

\* Behind the gate the credentials stay settled: what is there stays, and no
\* account is added.
LEMMA CredentialsStaySettled ==
  ASSUME ConverterInv, ConversionInv, Proceed, StaysBehind
  PROVE  CredentialsSettled' /\ IsSequence(newResources)'
<1>1. bc' = bc
  BY ProceedFacts DEF fixed
<1>2. CredentialsSettled /\ IsSequence(newResources)
  BY DEF ConversionInv, StaysBehind
<1>3. /\ IsSequence(newResources)'
      /\ \A k \in DOMAIN newResources :
           k \in DOMAIN newResources' /\ newResources'[k] = newResources[k]
      /\ \A k \in DOMAIN newResources' :
           \/ k \in DOMAIN newResources /\ newResources'[k] = newResources[k]
           \/ ~IsAccount(newResources'[k])
  <2>1. CASE UNCHANGED newResources
    BY <1>2, <2>1 DEF IsSequence
  <2>2. ASSUME NEW condition, NEW r, ~IsAccount(r),
               newResources' = newResources \o If(condition, r)
        PROVE  /\ IsSequence(newResources)'
               /\ \A k \in DOMAIN newResources :
                    k \in DOMAIN newResources' /\ newResources'[k] = newResources[k]
               /\ \A k \in DOMAIN newResources' :
                    \/ k \in DOMAIN newResources /\ newResources'[k] = newResources[k]
                    \/ ~IsAccount(newResources'[k])
    BY <1>2, <2>2, AppendsResource
  <2>3. QED
    BY <2>1, <2>2 DEF StaysBehind
<1>4. NamesServiceAccount => \A k \in DOMAIN newResources' : ~IsAccount(newResources'[k])
  BY <1>2, <1>3 DEF CredentialsSettled
<1>5. ASSUME PullSecret # Nil
      PROVE  \/ \E k \in DOMAIN newResources' :
                  IsAccount(newResources'[k]) /\ newResources'[k].secret = PullSecret
             \/ Recorded("pull secret not linked", PullSecret)'
  <2>1. CASE Recorded("pull secret not linked", PullSecret)
    <3>1. PICK secret : secret = PullSecret
      OBVIOUS
    <3>2. Recorded("pull secret not linked", secret)'
      BY <2>1, <3>1, RecordedRemains
    <3>3. PullSecret' = secret
      BY <1>1, <3>1, CredentialsFixed
    <3>4. QED
      BY <3>2, <3>3 DEF Recorded
  <2>2. CASE ~Recorded("pull secret not linked", PullSecret)
    BY <1>2, <1>3, <1>5, <2>2 DEF CredentialsSettled
  <2>3. QED
    BY <2>1, <2>2
<1>6. NamesServiceAccount' => \A k \in DOMAIN newResources' : ~IsAccount(newResources'[k])
  BY <1>1, <1>4 DEF NamesServiceAccount
<1>7. PullSecret' # Nil =>
        \/ \E k \in DOMAIN newResources' :
             IsAccount(newResources'[k]) /\ newResources'[k].secret = PullSecret'
        \/ Recorded("pull secret not linked", PullSecret)'
  BY <1>1, <1>5, CredentialsFixed
<1>8. QED
  BY <1>3, <1>6, <1>7 DEF CredentialsSettled, IsAccount

-----------------------------------------------------------------------------
(* The invariant *)

\* A step of Convert's body leaves an exact timeout, or none.
LEMMA TimeoutStaysExact ==
  ASSUME ConverterInv, ConversionInv, Proceed
  PROVE  ExactTimeout(b.timeout)'
<1>1. step # "idle" /\ bc' = bc
  BY ProceedFacts DEF fixed
<1>2. ExactTimeout(b.timeout)
  BY <1>1 DEF ConversionInv
<1>3. ExactTimeout(b'.timeout)
  <2>1. CASE KeepsTimeout
    BY <1>2, <2>1 DEF KeepsTimeout
  <2>2. CASE MakeSkeleton
    BY <2>2 DEF MakeSkeleton, EmptyBuild, ExactTimeout
  <2>3. CASE ProcessCompletionDeadline
    BY <1>2, <2>3, DeadlineIsExact
  <2>4. QED
    BY <2>1, <2>2, <2>3, TimeoutSteps DEF ConverterInv, TypeOK
<1>4. QED
  BY <1>1, <1>3 DEF ExactTimeout

\* The last step ships what was built.
LEMMA ClassifyShips ==
  ASSUME ConverterInv, ConversionInv, Classify
  PROVE  ConversionInv'
<1>1. Proceed
  BY DEF Proceed
<1>2. /\ step = "outcome" /\ step' = "idle" /\ bc' = bc
      /\ newResources' = newResources
      /\ outcome'.resources = <<b'>> \o newResources
  BY DEF Classify, fixed
<1>3. ExactTimeout(b.timeout)'
  BY <1>1, TimeoutStaysExact
<1>4. IsSequence(newResources) /\ CredentialsSettled
  BY <1>2 DEF ConversionInv, AfterGate, BeforeGate, Steps
<1>5. CredentialsSettled'
  <2>1. PullSecret' # Nil =>
          \/ \E k \in DOMAIN newResources' :
               IsAccount(newResources'[k]) /\ newResources'[k].secret = PullSecret'
          \/ Recorded("pull secret not linked", PullSecret)'
    <3>1. PICK secret : secret = PullSecret
      OBVIOUS
    <3>2. PullSecret' = secret
      BY <1>2, <3>1, CredentialsFixed
    <3>3. Recorded("pull secret not linked", secret) => Recorded("pull secret not linked", secret)'
      BY <1>1, RecordedRemains
    <3>4. QED
      BY <1>2, <1>4, <3>1, <3>2, <3>3 DEF CredentialsSettled, Recorded
  <2>2. NamesServiceAccount' => \A k \in DOMAIN newResources' : ~IsAccount(newResources'[k])
    BY <1>2, <1>4 DEF CredentialsSettled, NamesServiceAccount
  <2>3. QED
    BY <2>1, <2>2 DEF CredentialsSettled, IsAccount
<1>6. step' \notin BeforeGate /\ step' \notin AfterGate
  BY <1>2 DEF BeforeGate, AfterGate
<1>7. QED
  BY <1>2, <1>3, <1>4, <1>5, <1>6 DEF ConversionInv, IsSequence

\* Every step of Convert's body keeps the invariant.
LEMMA ProceedKeepsConversion ==
  ASSUME ConverterInv, ConversionInv, Proceed
  PROVE  ConversionInv'
<1>1. ExactTimeout(b.timeout)'
  BY TimeoutStaysExact
<1>2. IsSequence(newResources)
  BY DEF ConversionInv
<1>3. CASE StaysBefore
  <2>1. newResources = <<>> /\ newResources' = newResources
    BY <1>3 DEF StaysBefore, ConversionInv
  <2>2. step' \notin AfterGate /\ step' # "idle"
    BY <1>3 DEF StaysBefore, BeforeGate, AfterGate
  <2>3. QED
    BY <1>1, <1>2, <2>1, <2>2 DEF ConversionInv, Converted, Concluded, IsSequence
<1>4. CASE ProcessCredentials
  <2>1. CredentialsSettled'
    BY <1>4, CredentialsSettle
  <2>2. newResources' = newResources \o If(GeneratesServiceAccount, ServiceAccount)
        /\ step' = "dockerfile"
    BY <1>4 DEF ProcessCredentials, Continue
  <2>3. IsSequence(newResources)'
    <3>1. \A condition, r : IsSequence(newResources \o If(condition, r))
      BY <1>2, AppendsResource
    <3>2. QED
      BY <2>2, <3>1 DEF IsSequence
  <2>4. step' \notin BeforeGate /\ step' # "idle"
    BY <2>2 DEF BeforeGate
  <2>5. QED
    BY <1>1, <2>1, <2>3, <2>4 DEF ConversionInv, Converted, Concluded
<1>5. CASE StaysBehind
  <2>1. CredentialsSettled' /\ IsSequence(newResources)'
    BY <1>5, CredentialsStaySettled
  <2>2. step' \notin BeforeGate /\ step' # "idle"
    BY <1>5 DEF StaysBehind, AfterGate
  <2>3. QED
    BY <1>1, <2>1, <2>2 DEF ConversionInv, Converted, Concluded
<1>6. CASE GivesUp
  <2>1. step' = "idle" /\ ~Converted' /\ newResources' = newResources
    BY <1>6 DEF GivesUp, Converted, ConvertedStates
  <2>2. QED
    BY <1>2, <2>1 DEF ConversionInv, BeforeGate, AfterGate, IsSequence
<1>7. CASE Classify
  BY <1>7, ClassifyShips
<1>8. QED
  BY <1>3, <1>4, <1>5, <1>6, <1>7, SortedSteps

\* A new Converter has converted nothing.
LEMMA InitiallyNothing ==
  Init => ConversionInv
<1> SUFFICES ASSUME Init PROVE ConversionInv
  OBVIOUS
<1>1. newResources = <<>> /\ step = "idle" /\ outcome.state = "none"
  BY DEF Init, NoOutcome
<1>2. <<>> \in Seq({})
  OBVIOUS
<1>3. QED
  BY <1>1, <1>2 DEF ConversionInv, IsSequence, AfterGate, Converted, Concluded

\* Every step keeps the invariant.
LEMMA ConversionInductive ==
  ASSUME ConverterInv, ConversionInv, [Next]_vars
  PROVE  ConversionInv'
<1>1. CASE Proceed
  BY <1>1, ProceedKeepsConversion
<1>2. ASSUME NEW c \in SourceConfigs, Convert(c)
      PROVE  ConversionInv'
  <2>1. newResources' = <<>> /\ step' = "skeleton" /\ b' = EmptyBuild
    BY <1>2 DEF Convert
  <2>2. <<>> \in Seq({})
    OBVIOUS
  <2>3. ExactTimeout(b.timeout)'
    BY <2>1 DEF ExactTimeout, EmptyBuild
  <2>4. QED
    BY <2>1, <2>2, <2>3 DEF ConversionInv, IsSequence, BeforeGate, AfterGate, Converted, Concluded
<1>3. CASE UNCHANGED vars
  BY <1>3 DEF ConversionInv, vars, ExactTimeout, CredentialsSettled, Converted, Concluded,
              Recorded, Own, PullSecret, NamesServiceAccount, IsSequence
<1>4. QED
  BY <1>1, <1>2, <1>3 DEF Next

-----------------------------------------------------------------------------
(* The theorems *)

\* The resources of a converted Outcome, the Build first.
LEMMA ShippedResources ==
  ASSUME ConversionInv, Converted
  PROVE  /\ Build = b
         /\ Others = {newResources[k] : k \in DOMAIN newResources}
<1>1. PICK S : newResources \in Seq(S)
  BY DEF ConversionInv, IsSequence
<1> DEFINE T == S \union {b}
<1>2. <<b>> \in Seq(T) /\ newResources \in Seq(T) /\ Len(<<b>>) = 1
  BY <1>1
<1> HIDE DEF T
<1> DEFINE all == <<b>> \o newResources
<1>3. /\ Len(all) = 1 + Len(newResources)
      /\ \A k \in 1..(1 + Len(newResources)) :
           all[k] = IF k <= 1 THEN <<b>>[k] ELSE newResources[k - 1]
  BY <1>2, ConcatProperties
<1>4. Len(newResources) \in Nat /\ DOMAIN newResources = 1..Len(newResources)
  BY <1>1
<1>5. outcome.resources = all
  BY DEF ConversionInv
<1> HIDE DEF all
<1>6. all[1] = b
  BY <1>3, <1>4
<1>7. \A k \in 2..Len(all) : all[k] = newResources[k - 1] /\ k - 1 \in DOMAIN newResources
  BY <1>3, <1>4
<1>8. \A k \in DOMAIN newResources : k + 1 \in 2..Len(all) /\ all[k + 1] = newResources[k]
  BY <1>3, <1>4
<1>9. QED
  BY <1>5, <1>6, <1>7, <1>8 DEF Build, Others

\* A Build's timeout is the BuildConfig's deadline in nanoseconds, positive and
\* within a duration: for every width of a duration a deadline that would
\* overflow it is left out, never wrapped and never clamped
\* (processCompletionDeadline, converter.go:1012-1042).
THEOREM TimeoutExactness ==
  Spec => []TimeoutIsExact
<1>1. ConversionInv => TimeoutIsExact
  BY ShippedResources DEF ConversionInv, TimeoutIsExact, ExactTimeout
<1>2. Init => ConversionInv
  BY InitiallyNothing
<1>3. ConverterInv /\ ConversionInv /\ [Next]_vars => ConversionInv'
  BY ConversionInductive
<1>4. QED
  BY <1>1, <1>2, <1>3, Invariance, PTL DEF Spec

\* No conversion emits a ServiceAccount beside the one its BuildConfig names,
\* and a pull secret is on the emitted account or in a warning, whatever later
\* steps add (Convert, converter.go:156-171, and getPullSecret; ADR-0006).
THEOREM PullSecretSafety ==
  Spec => []PullSecretKept
<1>1. ConversionInv => PullSecretKept
  <2> SUFFICES ASSUME ConversionInv, Converted PROVE PullSecretKept
    BY DEF PullSecretKept
  <2>1. CredentialsSettled
    BY DEF ConversionInv
  <2>2. OthersOfKind("ServiceAccount") =
          {r \in {newResources[k] : k \in DOMAIN newResources} : IsAccount(r)}
    BY ShippedResources DEF OthersOfKind, IsAccount
  <2>3. QED
    BY <2>1, <2>2 DEF PullSecretKept, CredentialsSettled
<1>2. Init => ConversionInv
  BY InitiallyNothing
<1>3. ConverterInv /\ ConversionInv /\ [Next]_vars => ConversionInv'
  BY ConversionInductive
<1>4. QED
  BY <1>1, <1>2, <1>3, Invariance, PTL DEF Spec

-----------------------------------------------------------------------------
(* Sequences of whatever elements, and the warnings in them *)

Mentions(s, kind, about) == \E k \in DOMAIN s : s[k].kind = kind /\ s[k].about = about
MentionsKind(s, kind) == \E k \in DOMAIN s : s[k].kind = kind
Tally(s, kinds) == Cardinality({k \in DOMAIN s : s[k].kind \in kinds})

\* The place of t's k-th element in s \o t.
Beyond(s, k) == Len(s) + k

\* What s \o t holds at which position.
Concatenates(s, t) ==
  /\ IsSequence(s \o t)
  /\ Len(s) \in Nat /\ DOMAIN s = 1..Len(s)
  /\ Len(t) \in Nat /\ DOMAIN t = 1..Len(t)
  /\ Len(s \o t) = Len(s) + Len(t)
  /\ DOMAIN (s \o t) = 1..(Len(s) + Len(t))
  /\ \A k \in DOMAIN s : (s \o t)[k] = s[k]
  /\ \A k \in DOMAIN t : (s \o t)[Beyond(s, k)] = t[k]

\* A concatenation, by its positions.
LEMMA ConcatPositions ==
  ASSUME NEW s, IsSequence(s), NEW t, IsSequence(t)
  PROVE  Concatenates(s, t)
<1>1. PICK S, T : s \in Seq(S) /\ t \in Seq(T)
  BY DEF IsSequence
<1> DEFINE U == S \union T
<1>2. s \in Seq(U) /\ t \in Seq(U)
  BY <1>1
<1> HIDE DEF U
<1>3. /\ s \o t \in Seq(U)
      /\ Len(s \o t) = Len(s) + Len(t)
      /\ \A k \in 1..(Len(s) + Len(t)) :
           (s \o t)[k] = IF k <= Len(s) THEN s[k] ELSE t[k - Len(s)]
  BY <1>2, ConcatProperties
<1>4. /\ Len(s) \in Nat /\ DOMAIN s = 1..Len(s)
      /\ Len(t) \in Nat /\ DOMAIN t = 1..Len(t)
      /\ DOMAIN (s \o t) = 1..(Len(s) + Len(t))
  BY <1>2, <1>3
<1>5. \A k \in DOMAIN s : (s \o t)[k] = s[k]
  BY <1>3, <1>4
<1>6. ASSUME NEW k \in DOMAIN t
      PROVE  (s \o t)[Beyond(s, k)] = t[k]
  <2>1. /\ Len(s) + k \in 1..(Len(s) + Len(t))
        /\ ~(Len(s) + k <= Len(s))
        /\ (Len(s) + k) - Len(s) = k
    BY <1>4
  <2>2. QED
    BY <1>3, <2>1 DEF Beyond
<1>7. QED
  BY <1>3, <1>4, <1>5, <1>6 DEF IsSequence, Concatenates

\* An element of a concatenation is one of either part.
LEMMA ConcatElements ==
  ASSUME NEW s, IsSequence(s), NEW t, IsSequence(t), NEW k \in DOMAIN (s \o t)
  PROVE  \/ k \in DOMAIN s /\ (s \o t)[k] = s[k]
         \/ /\ k - Len(s) \in DOMAIN t /\ k = Len(s) + (k - Len(s))
            /\ (s \o t)[k] = t[k - Len(s)]
<1>0. /\ Len(s) \in Nat /\ DOMAIN s = 1..Len(s)
      /\ Len(t) \in Nat /\ DOMAIN t = 1..Len(t)
      /\ k \in 1..(Len(s) + Len(t))
      /\ \A j \in DOMAIN s : (s \o t)[j] = s[j]
      /\ \A j \in DOMAIN t : (s \o t)[Beyond(s, j)] = t[j]
  <2>1. Concatenates(s, t)
    BY ConcatPositions
  <2>2. QED
    BY <2>1 DEF Concatenates
<1>1. CASE k <= Len(s)
  <2>1. k \in DOMAIN s
    BY <1>0, <1>1
  <2>2. QED
    BY <1>0, <2>1
<1>2. CASE ~(k <= Len(s))
  <2>1. k - Len(s) \in DOMAIN t /\ k = Len(s) + (k - Len(s))
    BY <1>0, <1>2
  <2> DEFINE j == k - Len(s)
  <2>2. j \in DOMAIN t /\ k = Len(s) + j
    BY <2>1
  <2> HIDE DEF j
  <2>3. (s \o t)[k] = t[j]
    BY <1>0, <2>2 DEF Beyond
  <2>4. QED
    BY <2>1, <2>3 DEF j
<1>3. QED
  BY <1>1, <1>2

\* The sequences that the steps append.
LEMMA AppendedSequences ==
  /\ IsSequence(<<>>)
  /\ \A e : IsSequence(<<e>>)
  /\ \A condition, e : IsSequence(If(condition, e))
<1>1. /\ <<>> \in Seq({})
      /\ \A e : <<e>> \in Seq({e})
  OBVIOUS
<1>2. QED
  BY <1>1 DEF IsSequence, If

\* Warnings in a concatenation.
LEMMA MentionsConcat ==
  ASSUME NEW s, IsSequence(s), NEW t, IsSequence(t)
  PROVE  /\ \A kind, about : Mentions(s \o t, kind, about) <=>
                               Mentions(s, kind, about) \/ Mentions(t, kind, about)
         /\ \A kind : MentionsKind(s \o t, kind) <=>
                        MentionsKind(s, kind) \/ MentionsKind(t, kind)
<1>0. /\ Len(s) \in Nat /\ DOMAIN s = 1..Len(s)
      /\ Len(t) \in Nat /\ DOMAIN t = 1..Len(t)
      /\ DOMAIN (s \o t) = 1..(Len(s) + Len(t))
      /\ \A k \in DOMAIN s : (s \o t)[k] = s[k]
      /\ \A k \in DOMAIN t : (s \o t)[Beyond(s, k)] = t[k]
  <2>1. Concatenates(s, t)
    BY ConcatPositions
  <2>2. QED
    BY <2>1 DEF Concatenates
<1>1. \A k \in DOMAIN s : k \in DOMAIN (s \o t) /\ (s \o t)[k] = s[k]
  <2>1. \A k \in 1..Len(s) : k \in 1..(Len(s) + Len(t))
    BY <1>0
  <2>2. QED
    BY <1>0, <2>1
<1>2. \A k \in DOMAIN t : Beyond(s, k) \in DOMAIN (s \o t) /\ (s \o t)[Beyond(s, k)] = t[k]
  <2>1. \A k \in 1..Len(t) : Beyond(s, k) \in 1..(Len(s) + Len(t))
    BY <1>0 DEF Beyond
  <2>2. QED
    BY <1>0, <2>1
<1> DEFINE all == s \o t
<1>3. \A k \in DOMAIN (s \o t) :
        \/ k \in DOMAIN s /\ (s \o t)[k] = s[k]
        \/ k - Len(s) \in DOMAIN t /\ (s \o t)[k] = t[k - Len(s)]
  BY ConcatElements
<1>4. /\ \A k \in DOMAIN s : k \in DOMAIN all /\ all[k] = s[k]
      /\ \A k \in DOMAIN t : \E j \in DOMAIN all : all[j] = t[k]
      /\ \A k \in DOMAIN all : \/ \E j \in DOMAIN s : all[k] = s[j]
                               \/ \E j \in DOMAIN t : all[k] = t[j]
  BY <1>1, <1>2, <1>3
<1> HIDE DEF all
<1>5. /\ \A kind, about : Mentions(all, kind, about) <=>
                            Mentions(s, kind, about) \/ Mentions(t, kind, about)
      /\ \A kind : MentionsKind(all, kind) <=> MentionsKind(s, kind) \/ MentionsKind(t, kind)
  BY <1>4 DEF Mentions, MentionsKind
<1>6. QED
  BY <1>5 DEF all

\* Warnings in the short sequences that a step appends.
LEMMA MentionsShort ==
  /\ \A kind, about : ~Mentions(<<>>, kind, about)
  /\ \A kind : ~MentionsKind(<<>>, kind)
  /\ \A w, kind, about : Mentions(<<w>>, kind, about) <=> w.kind = kind /\ w.about = about
  /\ \A w, kind : MentionsKind(<<w>>, kind) <=> w.kind = kind
  /\ \A condition, w, kind, about :
       Mentions(If(condition, w), kind, about) <=> condition /\ w.kind = kind /\ w.about = about
  /\ \A condition, w, kind :
       MentionsKind(If(condition, w), kind) <=> condition /\ w.kind = kind
<1>1. /\ DOMAIN <<>> = {}
      /\ \A w : DOMAIN <<w>> = {1} /\ <<w>>[1] = w
  OBVIOUS
<1>2. QED
  BY <1>1 DEF Mentions, MentionsKind, If

\* The number of positions is finite.
LEMMA TallyFinite ==
  ASSUME NEW s, IsSequence(s), NEW kinds
  PROVE  /\ IsFiniteSet({k \in DOMAIN s : s[k].kind \in kinds})
         /\ Tally(s, kinds) \in Nat
<1>1. PICK S : s \in Seq(S)
  BY DEF IsSequence
<1>2. Len(s) \in Nat /\ DOMAIN s = 1..Len(s)
  BY <1>1
<1>3. IsFiniteSet(DOMAIN s)
  BY <1>2, FS_Interval
<1>4. {k \in DOMAIN s : s[k].kind \in kinds} \in SUBSET DOMAIN s
  OBVIOUS
<1>5. QED
  BY <1>3, <1>4, FS_Subset, FS_CardinalityType DEF Tally

\* Counting in a concatenation.
LEMMA TallyConcat ==
  ASSUME NEW s, IsSequence(s), NEW t, IsSequence(t), NEW kinds
  PROVE  Tally(s \o t, kinds) = Tally(s, kinds) + Tally(t, kinds)
<1> DEFINE A == {k \in DOMAIN s : s[k].kind \in kinds}
           B == {k \in DOMAIN t : t[k].kind \in kinds}
           all == {k \in DOMAIN (s \o t) : (s \o t)[k].kind \in kinds}
           shifted == {Beyond(s, k) : k \in B}
           shift == [k \in B |-> Beyond(s, k)]
<1>1. IsFiniteSet(A) /\ IsFiniteSet(B)
  BY TallyFinite
<1>2. /\ Len(s) \in Nat /\ DOMAIN s = 1..Len(s)
      /\ Len(t) \in Nat /\ DOMAIN t = 1..Len(t)
      /\ DOMAIN (s \o t) = 1..(Len(s) + Len(t))
      /\ \A k \in DOMAIN s : (s \o t)[k] = s[k]
      /\ \A k \in DOMAIN t : (s \o t)[Beyond(s, k)] = t[k]
  <2>1. Concatenates(s, t)
    BY ConcatPositions
  <2>2. QED
    BY <2>1 DEF Concatenates
<1>3. A \union shifted = all
  <2>0. /\ \A k \in 1..Len(s) : k \in 1..(Len(s) + Len(t))
        /\ \A k \in 1..Len(t) : Beyond(s, k) \in 1..(Len(s) + Len(t))
    BY <1>2 DEF Beyond
  <2>1. A \subseteq all
    BY <1>2, <2>0
  <2>2. ASSUME NEW k \in B PROVE Beyond(s, k) \in all
    BY <1>2, <2>0
  <2>3. ASSUME NEW k \in all PROVE k \in A \union shifted
    BY ConcatElements DEF Beyond
  <2>4. QED
    BY <2>1, <2>2, <2>3
<1>4. A \cap shifted = {}
  BY <1>2 DEF Beyond
<1>5. IsFiniteSet(shifted) /\ Cardinality(shifted) = Cardinality(B)
  <2>1. shift \in Bijection(B, shifted)
    <3>1. shift \in [B -> shifted]
      OBVIOUS
    <3>2. \A j, k \in B : shift[j] = shift[k] => j = k
      BY <1>2 DEF Beyond
    <3>3. \A y \in shifted : \E k \in B : shift[k] = y
      OBVIOUS
    <3> HIDE DEF shift, shifted, B
    <3>4. QED
      BY <3>1, <3>2, <3>3 DEF Bijection, Injection, Surjection, IsInjective
  <2>2. ExistsBijection(B, shifted)
    BY <2>1 DEF ExistsBijection
  <2>3. QED
    BY <1>1, <2>2, FS_Bijection
<1> HIDE DEF A, B, all, shifted
<1>6. Cardinality(A \union shifted) = Cardinality(A) + Cardinality(shifted)
  <2>1. Cardinality(A \cap shifted) = 0
    BY <1>4, FS_EmptySet
  <2>2. Cardinality(A) \in Nat /\ Cardinality(shifted) \in Nat
    BY <1>1, <1>5, FS_CardinalityType
  <2>3. Cardinality(A \union shifted)
          = Cardinality(A) + Cardinality(shifted) - Cardinality(A \cap shifted)
    BY <1>1, <1>5, FS_Union
  <2> DEFINE a == Cardinality(A)
             c == Cardinality(shifted)
  <2>4. Cardinality(A \union shifted) = a + c - 0 /\ a \in Nat /\ c \in Nat
    BY <2>1, <2>2, <2>3
  <2> HIDE DEF a, c
  <2>5. Cardinality(A \union shifted) = a + c
    BY <2>4
  <2>6. QED
    BY <2>5 DEF a, c
<1>7. QED
  BY <1>3, <1>5, <1>6 DEF Tally, A, B, all

\* Where no warning counts, the count is nothing.
LEMMA TallyNone ==
  ASSUME NEW s, NEW kinds, \A k \in DOMAIN s : s[k].kind \notin kinds
  PROVE  Tally(s, kinds) = 0
<1>1. {k \in DOMAIN s : s[k].kind \in kinds} = {}
  OBVIOUS
<1>2. QED
  BY <1>1, FS_EmptySet DEF Tally

\* Where every warning counts, the count is the length.
LEMMA TallyAll ==
  ASSUME NEW s, IsSequence(s), NEW kinds, \A k \in DOMAIN s : s[k].kind \in kinds
  PROVE  Tally(s, kinds) = Len(s)
<1>1. PICK S : s \in Seq(S)
  BY DEF IsSequence
<1>2. Len(s) \in Nat /\ DOMAIN s = 1..Len(s)
  BY <1>1
<1>3. {k \in DOMAIN s : s[k].kind \in kinds} = 1..Len(s)
  BY <1>2
<1>4. Cardinality(1..Len(s)) = IF 1 > Len(s) THEN 0 ELSE Len(s) - 1 + 1
  BY <1>2, FS_Interval
<1>5. Cardinality(1..Len(s)) = Len(s)
  BY <1>2, <1>4
<1>6. QED
  BY <1>3, <1>5 DEF Tally

\* The counts of the sequences a step appends: none, one, one on a condition.
LEMMA TallyShort ==
  /\ \A kinds : Tally(<<>>, kinds) = 0
  /\ \A w, kinds : Tally(<<w>>, kinds) = IF w.kind \in kinds THEN 1 ELSE 0
  /\ \A condition, w, kinds :
       Tally(If(condition, w), kinds) = IF condition /\ w.kind \in kinds THEN 1 ELSE 0
<1>1. \A kinds : Tally(<<>>, kinds) = 0
  BY TallyNone
<1>2. ASSUME NEW w, NEW kinds
      PROVE  Tally(<<w>>, kinds) = IF w.kind \in kinds THEN 1 ELSE 0
  <2>1. DOMAIN <<w>> = {1} /\ <<w>>[1] = w /\ Len(<<w>>) = 1
    OBVIOUS
  <2>2. CASE w.kind \in kinds
    BY <2>1, <2>2, TallyAll, AppendedSequences
  <2>3. CASE w.kind \notin kinds
    BY <2>1, <2>3, TallyNone
  <2>4. QED
    BY <2>2, <2>3
<1>3. QED
  BY <1>1, <1>2 DEF If

-----------------------------------------------------------------------------
(* What a step adds to the conversion's own warnings *)

\* The sequence recorded since the conversion started grows at its end.
LEMMA OwnAppends ==
  ASSUME ConverterInv, Proceed, NEW ws, IsSequence(ws), warnings' = warnings \o ws
  PROVE  IsSequence(Own) /\ Own' = Own \o ws
<1> DEFINE n == startWarnings
           w == warnings
<1>1. /\ w \in Seq(WarningRecord)
      /\ n \in 0..Len(w)
      /\ startWarnings' = n
  BY ProceedFacts DEF ConverterInv, TypeOK, fixed
<1>2. PICK S : ws \in Seq(S)
  BY DEF IsSequence
<1> DEFINE U == WarningRecord \union S
<1>3. w \in Seq(U) /\ ws \in Seq(U)
  <2>1. WarningRecord \subseteq U /\ S \subseteq U
    OBVIOUS
  <2> HIDE DEF U
  <2>2. QED
    BY <1>1, <1>2, <2>1
<1> DEFINE all == w \o ws
           own == SubSeq(w, n + 1, Len(w))
           ownAfter == SubSeq(all, n + 1, Len(all))
           joined == own \o ws
<1>4. Own = own /\ Own' = ownAfter
  BY <1>1 DEF Own
<1> HIDE DEF U, w, n
<1>5. /\ all \in Seq(U) /\ Len(all) = Len(w) + Len(ws)
      /\ \A k \in 1..(Len(w) + Len(ws)) : all[k] = IF k <= Len(w) THEN w[k] ELSE ws[k - Len(w)]
  BY <1>3, ConcatProperties
<1>6. Len(w) \in Nat /\ Len(ws) \in Nat /\ n \in Nat /\ n <= Len(w)
  BY <1>1, <1>3
<1>7. /\ own \in Seq(U) /\ Len(own) = Len(w) - n
      /\ \A k \in 1..(Len(w) - n) : own[k] = w[n + k]
  BY <1>1, <1>3, SuffixByPosition
<1> HIDE DEF all
<1>8. /\ ownAfter \in Seq(U) /\ Len(ownAfter) = Len(all) - n
      /\ \A k \in 1..(Len(all) - n) : ownAfter[k] = all[n + k]
  <2>1. n \in 0..Len(all)
    BY <1>5, <1>6
  <2>2. QED
    BY <1>5, <2>1, SuffixByPosition
<1> HIDE DEF own, ownAfter
<1>9. /\ joined \in Seq(U) /\ Len(joined) = Len(own) + Len(ws)
      /\ \A k \in 1..(Len(own) + Len(ws)) :
           joined[k] = IF k <= Len(own) THEN own[k] ELSE ws[k - Len(own)]
  BY <1>3, <1>7, ConcatProperties
<1> HIDE DEF joined
<1>10. Len(ownAfter) = Len(joined)
  BY <1>5, <1>6, <1>7, <1>8, <1>9
<1>11. ASSUME NEW k \in 1..Len(ownAfter)
       PROVE  ownAfter[k] = joined[k]
  <2>1. k \in 1..(Len(own) + Len(ws)) /\ k \in 1..(Len(all) - n) /\ n + k \in 1..(Len(w) + Len(ws))
    BY <1>5, <1>6, <1>7, <1>8
  <2>2. CASE k <= Len(own)
    <3>1. n + k <= Len(w) /\ k \in 1..(Len(w) - n)
      BY <1>6, <1>7, <2>1, <2>2
    <3>2. QED
      BY <1>5, <1>7, <1>8, <1>9, <2>1, <2>2, <3>1
  <2>3. CASE ~(k <= Len(own))
    <3>1. ~(n + k <= Len(w)) /\ (n + k) - Len(w) = k - Len(own)
      BY <1>6, <1>7, <2>1, <2>3
    <3>2. QED
      BY <1>5, <1>8, <1>9, <2>1, <2>3, <3>1
  <2>4. QED
    BY <2>2, <2>3
<1>12. ownAfter = joined
  BY <1>8, <1>9, <1>10, <1>11, SeqEqual
<1>13. QED
  BY <1>4, <1>7, <1>12 DEF IsSequence, joined

\* What the step records is mentioned and counted on top of what was.
LEMMA OwnGrows ==
  ASSUME ConverterInv, Proceed, NEW ws, IsSequence(ws), Warn(ws)
  PROVE  /\ \A kind, about : Mentions(Own', kind, about) <=>
                               Mentions(Own, kind, about) \/ Mentions(ws, kind, about)
         /\ \A kind : MentionsKind(Own', kind) <=>
                        MentionsKind(Own, kind) \/ MentionsKind(ws, kind)
         /\ \A kinds : Tally(Own', kinds) = Tally(Own, kinds) + Tally(ws, kinds)
<1>1. warnings' = warnings \o ws
  BY DEF Warn
<1>2. IsSequence(Own) /\ Own' = Own \o ws
  BY <1>1, OwnAppends
<1>3. QED
  BY <1>2, MentionsConcat, TallyConcat

\* Each step appends warnings of its own kinds.
LEMMA OwnAppendsItsKinds ==
  ASSUME ConverterInv, Proceed
  PROVE  \E ws : /\ IsSequence(ws) /\ Warn(ws)
                 /\ \A k \in DOMAIN ws : ws[k].kind \in KindsAt(step)
<1>1. warnings \in Seq(WarningRecord)
  BY DEF ConverterInv, TypeOK
<1>2. CASE UNCHANGED warnings
  <2>1. warnings \o <<>> = warnings
    BY <1>1
  <2>2. Warn(<<>>) /\ DOMAIN <<>> = {}
    BY <1>2, <2>1 DEF Warn
  <2>3. QED
    BY <2>2, AppendedSequences
<1>3. ASSUME NEW ws \in Seq(OwnRecord), warnings' = warnings \o ws
      PROVE  /\ IsSequence(ws) /\ Warn(ws)
             /\ \A k \in DOMAIN ws : ws[k].kind \in KindsAt(step)
  <2>1. \A w \in OwnRecord : w.kind \in KindsAt(step)
    BY DEF OwnRecord
  <2>2. \A k \in DOMAIN ws : ws[k] \in OwnRecord
    BY <1>3
  <2>3. QED
    BY <1>3, <2>1, <2>2 DEF IsSequence, Warn
<1>4. QED
  BY <1>2, <1>3, ProceedFacts DEF RecordsOwn

\* Whatever the step: what was mentioned stays so, and only the step's kinds
\* are added.
LEMMA OwnKeeps ==
  ASSUME ConverterInv, Proceed
  PROVE  /\ \A kind, about : Mentions(Own, kind, about) => Mentions(Own', kind, about)
         /\ \A kind : MentionsKind(Own, kind) => MentionsKind(Own', kind)
         /\ \A kind : MentionsKind(Own', kind) => MentionsKind(Own, kind) \/ kind \in KindsAt(step)
         /\ \A kinds : kinds \cap KindsAt(step) = {} => Tally(Own', kinds) = Tally(Own, kinds)
<1>1. PICK ws : /\ IsSequence(ws) /\ Warn(ws)
                /\ \A k \in DOMAIN ws : ws[k].kind \in KindsAt(step)
  BY OwnAppendsItsKinds
<1>2. /\ \A kind, about : Mentions(Own', kind, about) <=>
                            Mentions(Own, kind, about) \/ Mentions(ws, kind, about)
      /\ \A kind : MentionsKind(Own', kind) <=>
                     MentionsKind(Own, kind) \/ MentionsKind(ws, kind)
      /\ \A kinds : Tally(Own', kinds) = Tally(Own, kinds) + Tally(ws, kinds)
  BY <1>1, OwnGrows
<1>3. \A kind : MentionsKind(ws, kind) => kind \in KindsAt(step)
  BY <1>1 DEF MentionsKind
<1>4. ASSUME NEW kinds, kinds \cap KindsAt(step) = {}
      PROVE  Tally(Own', kinds) = Tally(Own, kinds)
  <2>1. Tally(ws, kinds) = 0
    BY <1>1, <1>4, TallyNone
  <2>2. Tally(Own, kinds) \in Nat
    <3>1. IsSequence(Own)
      BY <1>1, OwnAppends DEF Warn
    <3>2. QED
      BY <3>1, TallyFinite
  <2>3. QED
    BY <1>2, <2>1, <2>2
<1>5. QED
  BY <1>2, <1>3, <1>4

-----------------------------------------------------------------------------
(* The calls of Convert's body, in their order *)

Calls == Steps \ {"idle"}

Place(call) ==
  CASE call = "skeleton" -> 1
    [] call = "strategy" -> 2
    [] call = "buildArgs" -> 3
    [] call = "volumes" -> 4
    [] call = "gate" -> 5
    [] call = "dockerfile" -> 6
    [] call = "source" -> 7
    [] call = "output" -> 8
    [] call = "imageLabels" -> 9
    [] call = "deadline" -> 10
    [] call = "nodeSelector" -> 11
    [] call = "runPolicy" -> 12
    [] call = "postCommit" -> 13
    [] call = "history" -> 14
    [] call = "registries" -> 15
    [] call = "triggers" -> 16
    [] call = "chain" -> 17
    [] call = "resources" -> 18
    [] call = "outcome" -> 19

Loops == {"buildArgs", "volumes", "imageLabels", "chain"}

\* The call has been made: the conversion is behind it or has ended in a Build.
Past(call) == IF step = "idle" THEN Converted ELSE Place(call) < Place(step)

\* The k-th iteration of the call's loop has been made.
Reached(call, k) == Past(call) \/ (step = call /\ k < item)

\* The next iteration of a loop.
Iterates == step \in Loops /\ step' = step /\ item' = item + 1

\* The next call; the strategy's own calls are made for its block only.
HandsOver ==
  /\ item' = 1
  /\ step \in Calls /\ step' \in Calls
  /\ \/ step # "strategy" /\ Place(step') = Place(step) + 1
     \/ step = "strategy" /\ step' = "buildArgs" /\ HasBlock
     \/ step = "strategy" /\ step' = "volumes" /\ HasBlock /\ bc.type = "Source"
     \/ step = "strategy" /\ step' = "gate" /\ ~HasBlock

\* Every call has one place.
LEMMA PlaceValues ==
  /\ \A call \in Calls : Place(call) \in 1..19
  /\ \A x, y \in Calls : Place(x) = Place(y) => x = y
  /\ Place("skeleton") = 1 /\ Place("strategy") = 2 /\ Place("buildArgs") = 3
  /\ Place("volumes") = 4 /\ Place("gate") = 5 /\ Place("dockerfile") = 6
  /\ Place("source") = 7 /\ Place("output") = 8 /\ Place("imageLabels") = 9
  /\ Place("deadline") = 10 /\ Place("nodeSelector") = 11 /\ Place("runPolicy") = 12
  /\ Place("postCommit") = 13 /\ Place("history") = 14 /\ Place("registries") = 15
  /\ Place("triggers") = 16 /\ Place("chain") = 17 /\ Place("resources") = 18
  /\ Place("outcome") = 19
<1>1. /\ Place("skeleton") = 1 /\ Place("strategy") = 2 /\ Place("buildArgs") = 3
      /\ Place("volumes") = 4 /\ Place("gate") = 5 /\ Place("dockerfile") = 6
      /\ Place("source") = 7 /\ Place("output") = 8 /\ Place("imageLabels") = 9
  BY DEF Place
<1>2. /\ Place("deadline") = 10 /\ Place("nodeSelector") = 11 /\ Place("runPolicy") = 12
      /\ Place("postCommit") = 13 /\ Place("history") = 14 /\ Place("registries") = 15
      /\ Place("triggers") = 16 /\ Place("chain") = 17 /\ Place("resources") = 18
      /\ Place("outcome") = 19
  BY DEF Place
<1>3. \A call \in Calls : Place(call) \in 1..19
  BY <1>1, <1>2 DEF Calls, Steps
<1>4. \A x, y \in Calls : Place(x) = Place(y) => x = y
  BY <1>1, <1>2 DEF Calls, Steps
<1>5. QED
  BY <1>1, <1>2, <1>3, <1>4

\* Which call each action is a step of.
LEMMA Guards ==
  /\ MakeSkeleton => step = "skeleton"
  /\ SkipUnsupportedStrategy \/ FailUnknownStrategy \/ FailStrategyImage
       \/ StrategyWithoutBlock \/ ProcessDockerStrategy \/ ProcessSourceStrategy
       => step = "strategy"
  /\ ConvertBuildArg \/ FinishDockerStrategy => step = "buildArgs"
  /\ ConvertVolume \/ FinishVolumes => step = "volumes"
  /\ SkipWithoutOutput \/ ProcessCredentials => step = "gate"
  /\ ProcessInlineDockerfile => step = "dockerfile"
  /\ FailSource \/ SourceAbsent \/ GitSource \/ BinarySource \/ ImageSourceStep
       => step = "source"
  /\ ProcessOutput => step = "output"
  /\ ConvertImageLabel \/ FinishOutput => step = "imageLabels"
  /\ ProcessCompletionDeadline => step = "deadline"
  /\ ProcessNodeSelector => step = "nodeSelector"
  /\ ProcessRunPolicy => step = "runPolicy"
  /\ ProcessPostCommit => step = "postCommit"
  /\ ProcessBuildsHistoryLimits => step = "history"
  /\ AddRegistries => step = "registries"
  /\ ProcessTriggers => step = "triggers"
  /\ ProcessChainInput \/ FinishChainCandidates => step = "chain"
  /\ ProcessResources => step = "resources"
  /\ Classify => step = "outcome"
<1>1. /\ MakeSkeleton => step = "skeleton"
      /\ SkipUnsupportedStrategy \/ FailUnknownStrategy \/ FailStrategyImage
           \/ StrategyWithoutBlock \/ ProcessDockerStrategy \/ ProcessSourceStrategy
           => step = "strategy"
  BY DEF MakeSkeleton, SkipUnsupportedStrategy, FailUnknownStrategy, FailStrategyImage,
         StrategyWithoutBlock, ProcessDockerStrategy, ProcessSourceStrategy
<1>2. /\ ConvertBuildArg \/ FinishDockerStrategy => step = "buildArgs"
      /\ ConvertVolume \/ FinishVolumes => step = "volumes"
      /\ SkipWithoutOutput \/ ProcessCredentials => step = "gate"
      /\ ProcessInlineDockerfile => step = "dockerfile"
  BY DEF ConvertBuildArg, FinishDockerStrategy, ConvertVolume, FinishVolumes,
         SkipWithoutOutput, ProcessCredentials, ProcessInlineDockerfile
<1>3. /\ FailSource \/ SourceAbsent \/ GitSource \/ BinarySource \/ ImageSourceStep
           => step = "source"
      /\ ProcessOutput => step = "output"
      /\ ConvertImageLabel \/ FinishOutput => step = "imageLabels"
  BY DEF FailSource, SourceAbsent, GitSource, BinarySource, ImageSourceStep, ProcessOutput,
         ConvertImageLabel, FinishOutput
<1>4. /\ ProcessCompletionDeadline => step = "deadline"
      /\ ProcessNodeSelector => step = "nodeSelector"
      /\ ProcessRunPolicy => step = "runPolicy"
      /\ ProcessPostCommit => step = "postCommit"
      /\ ProcessBuildsHistoryLimits => step = "history"
      /\ AddRegistries => step = "registries"
  BY DEF ProcessCompletionDeadline, ProcessNodeSelector, ProcessRunPolicy,
         ProcessPostCommit, ProcessBuildsHistoryLimits, AddRegistries
<1>5. /\ ProcessTriggers => step = "triggers"
      /\ ProcessChainInput \/ FinishChainCandidates => step = "chain"
      /\ ProcessResources => step = "resources"
      /\ Classify => step = "outcome"
  BY DEF ProcessTriggers, ProcessChainInput, FinishChainCandidates, ProcessResources, Classify
<1>6. QED
  BY <1>1, <1>2, <1>3, <1>4, <1>5

\* The actions of each call.
LEMMA ActionAtStep ==
  ASSUME Proceed
  PROVE  /\ step = "skeleton" => MakeSkeleton
         /\ step = "strategy" =>
              \/ SkipUnsupportedStrategy \/ FailUnknownStrategy \/ FailStrategyImage
              \/ StrategyWithoutBlock \/ ProcessDockerStrategy \/ ProcessSourceStrategy
         /\ step = "buildArgs" => ConvertBuildArg \/ FinishDockerStrategy
         /\ step = "volumes" => ConvertVolume \/ FinishVolumes
         /\ step = "gate" => SkipWithoutOutput \/ ProcessCredentials
         /\ step = "dockerfile" => ProcessInlineDockerfile
         /\ step = "source" => \/ FailSource \/ SourceAbsent \/ GitSource \/ BinarySource
                               \/ ImageSourceStep
         /\ step = "output" => ProcessOutput
         /\ step = "imageLabels" => ConvertImageLabel \/ FinishOutput
         /\ step = "deadline" => ProcessCompletionDeadline
         /\ step = "nodeSelector" => ProcessNodeSelector
         /\ step = "runPolicy" => ProcessRunPolicy
         /\ step = "postCommit" => ProcessPostCommit
         /\ step = "history" => ProcessBuildsHistoryLimits
         /\ step = "registries" => AddRegistries
         /\ step = "triggers" => ProcessTriggers
         /\ step = "chain" => ProcessChainInput \/ FinishChainCandidates
         /\ step = "resources" => ProcessResources
         /\ step = "outcome" => Classify
BY Guards DEF Proceed

\* Every step gives up, ends the conversion, goes on with a loop, or hands over
\* to the next call.
LEMMA StepAdvances ==
  ASSUME Proceed
  PROVE  GivesUp \/ Classify \/ Iterates \/ HandsOver
<1>1. \A reason : Return(OutcomeSkipped(reason)) \/ Return(OutcomeFailed(reason)) => GivesUp
  BY DEF Return, OutcomeSkipped, OutcomeFailed, GivesUp
<1>2. CASE SkipUnsupportedStrategy \/ FailUnknownStrategy \/ FailStrategyImage
             \/ SkipWithoutOutput \/ FailSource
  BY <1>1, <1>2 DEF SkipUnsupportedStrategy, FailUnknownStrategy, FailStrategyImage,
                    SkipWithoutOutput, FailSource, Skip
<1>3. CASE ConvertBuildArg \/ ConvertVolume \/ ConvertImageLabel \/ ProcessChainInput
  BY <1>3 DEF ConvertBuildArg, ConvertVolume, ConvertImageLabel, ProcessChainInput, Repeat,
              Iterates, Loops
<1>4. CASE StrategyWithoutBlock \/ ProcessDockerStrategy \/ ProcessSourceStrategy
  BY <1>4 DEF StrategyWithoutBlock, ProcessDockerStrategy, ProcessSourceStrategy, Continue,
              HandsOver, Calls, Steps
<1>5. CASE MakeSkeleton \/ FinishDockerStrategy \/ FinishVolumes
  <2>1. /\ item' = 1
        /\ \/ step = "skeleton" /\ step' = "strategy"
           \/ step = "buildArgs" /\ step' = "volumes"
           \/ step = "volumes" /\ step' = "gate"
    BY <1>5 DEF MakeSkeleton, FinishDockerStrategy, FinishVolumes, Continue
  <2>2. Place(step') = Place(step) + 1
    BY <2>1, PlaceValues
  <2>3. QED
    BY <2>1, <2>2 DEF HandsOver, Calls, Steps
<1>6. CASE ProcessCredentials \/ ProcessInlineDockerfile \/ SourceAbsent \/ GitSource
             \/ BinarySource \/ ImageSourceStep \/ ProcessOutput \/ FinishOutput
  <2>1. /\ item' = 1
        /\ \/ step = "gate" /\ step' = "dockerfile"
           \/ step = "dockerfile" /\ step' = "source"
           \/ step = "source" /\ step' = "output"
           \/ step = "output" /\ step' = "imageLabels"
           \/ step = "imageLabels" /\ step' = "deadline"
    BY <1>6
    DEF ProcessCredentials, ProcessInlineDockerfile, SourceAbsent, GitSource, BinarySource,
        ImageSourceStep, ProcessOutput, FinishOutput, Continue
  <2>2. Place(step') = Place(step) + 1
    BY <2>1, PlaceValues
  <2>3. QED
    BY <2>1, <2>2 DEF HandsOver, Calls, Steps
<1>7. CASE ProcessCompletionDeadline \/ ProcessNodeSelector \/ ProcessRunPolicy
             \/ ProcessPostCommit \/ ProcessBuildsHistoryLimits \/ AddRegistries
             \/ ProcessTriggers \/ FinishChainCandidates \/ ProcessResources
  <2>1. /\ item' = 1
        /\ \/ step = "deadline" /\ step' = "nodeSelector"
           \/ step = "nodeSelector" /\ step' = "runPolicy"
           \/ step = "runPolicy" /\ step' = "postCommit"
           \/ step = "postCommit" /\ step' = "history"
           \/ step = "history" /\ step' = "registries"
           \/ step = "registries" /\ step' = "triggers"
           \/ step = "triggers" /\ step' = "chain"
           \/ step = "chain" /\ step' = "resources"
           \/ step = "resources" /\ step' = "outcome"
    BY <1>7
    DEF ProcessCompletionDeadline, ProcessNodeSelector, ProcessRunPolicy, ProcessPostCommit,
        ProcessBuildsHistoryLimits, AddRegistries, ProcessTriggers, FinishChainCandidates,
        ProcessResources, Continue
  <2>2. Place(step') = Place(step) + 1
    BY <2>1, PlaceValues
  <2>3. QED
    BY <2>1, <2>2 DEF HandsOver, Calls, Steps
<1>8. QED
  BY <1>2, <1>3, <1>4, <1>5, <1>6, <1>7 DEF Proceed

\* A call that has been made after the step had been made before it, or is the
\* one the step ends, or is one the strategy leaves out.
LEMMA Onward ==
  ASSUME ConverterInv, Proceed, NEW call \in Calls, Past(call)'
  PROVE  \/ Past(call)
         \/ step = call /\ step' # call
         \/ step = "strategy" /\ call = "buildArgs" /\ (~HasBlock \/ bc.type = "Source")
         \/ step = "strategy" /\ call = "volumes" /\ ~HasBlock
<1>0. step \in Calls
  BY ProceedFacts DEF ConverterInv, TypeOK, Calls
<1>1. CASE GivesUp
  BY <1>1 DEF GivesUp, Past, Converted, ConvertedStates
<1>2. CASE Classify
  <2>1. step = "outcome" /\ step' = "idle" /\ Place("outcome") = 19
    BY <1>2, PlaceValues DEF Classify
  <2>2. Place(call) \in 1..19 /\ (Place(call) = 19 => call = "outcome")
    BY <2>1, PlaceValues DEF Calls, Steps
  <2>3. QED
    BY <2>1, <2>2 DEF Past, Calls
<1>3. CASE Iterates
  <2>1. step' = step /\ step # "idle"
    BY <1>0, <1>3 DEF Iterates, Calls
  <2>2. QED
    BY <2>1 DEF Past
<1>4. CASE HandsOver
  <2>1. step' # "idle" /\ step # "idle" /\ step' \in Calls
    BY <1>4 DEF HandsOver, Calls
  <2>2. Place(call) < Place(step')
    BY <2>1 DEF Past
  <2>3. Place(call) \in 1..19 /\ Place(step) \in 1..19 /\ Place(step') \in 1..19
    BY <1>0, <2>1, PlaceValues
  <2>4. Place(call) = Place(step) => step = call
    BY <1>0, PlaceValues
  <2>5. CASE step # "strategy"
    <3>1. Place(step') = Place(step) + 1
      BY <1>4, <2>5 DEF HandsOver
    <3>2. Place(call) < Place(step) \/ Place(call) = Place(step)
      BY <2>2, <2>3, <3>1
    <3>3. step' # step
      BY <2>3, <3>1
    <3>4. QED
      BY <2>1, <2>4, <3>2, <3>3 DEF Past
  <2>6. CASE step = "strategy"
    <3>1. call = "buildArgs" <=> Place(call) = 3
      BY PlaceValues DEF Calls, Steps
    <3>2. call = "volumes" <=> Place(call) = 4
      BY PlaceValues DEF Calls, Steps
    <3>3. /\ Place(step) = 2
          /\ \/ Place(step') = 3
             \/ Place(step') = 4 /\ bc.type = "Source"
             \/ Place(step') = 5 /\ ~HasBlock
      BY <1>4, <2>6, PlaceValues DEF HandsOver
    <3>4. Place(call) <= 2 \/ (Place(call) = 3 /\ (~HasBlock \/ bc.type = "Source"))
            \/ (Place(call) = 4 /\ ~HasBlock)
      BY <2>2, <2>3, <3>3
    <3>5. Place(call) <= 2 => Place(call) < Place(step) \/ Place(call) = Place(step)
      BY <2>3, <3>3
    <3>6. step' # step
      BY <3>3
    <3>7. QED
      BY <2>1, <2>4, <2>6, <3>1, <3>2, <3>4, <3>5, <3>6 DEF Past
  <2>7. QED
    BY <2>5, <2>6
<1>5. QED
  BY <1>1, <1>2, <1>3, <1>4, StepAdvances

-----------------------------------------------------------------------------
(* The fields of the Build that each call writes *)

FieldsAt(call) ==
  CASE call = "skeleton" -> DOMAIN EmptyBuild
    [] call = "strategy" -> {"strategy", "params", "env"}
    [] call = "buildArgs" -> {"buildArgs", "params"}
    [] call = "volumes" -> {"volumes"}
    [] call = "source" -> {"source", "env"}
    [] call = "output" -> {"image", "pushSecret"}
    [] call = "imageLabels" -> {"imageLabels"}
    [] call = "deadline" -> {"timeout"}
    [] call = "nodeSelector" -> {"nodeSelector"}
    [] call = "history" -> {"succeededLimit", "failedLimit"}
    [] call = "registries" -> {"params", "insecure"}
    [] call \in {"dockerfile", "triggers", "resources", "outcome"} -> {"annotations"}
    [] OTHER -> {}

\* The Build keeps every other field.
KeepsAllBut(fields) == \A f \in DOMAIN EmptyBuild \ fields : b'[f] = b[f]

\* A step writes the fields of its call only.
LEMMA FieldsKept ==
  ASSUME DOMAIN b = DOMAIN EmptyBuild, Proceed
  PROVE  KeepsAllBut(FieldsAt(step))
<1>0. UNCHANGED b => KeepsAllBut(FieldsAt(step))
  BY DEF KeepsAllBut
<1>1. CASE MakeSkeleton
  BY <1>1, Guards DEF FieldsAt, KeepsAllBut
<1>2. CASE SkipUnsupportedStrategy \/ FailUnknownStrategy \/ FailStrategyImage
             \/ SkipWithoutOutput \/ FailSource
  <2>1. \A result : Return(result) => UNCHANGED b
    BY DEF Return
  <2>2. QED
    BY <1>0, <1>2, <2>1 DEF SkipUnsupportedStrategy, FailUnknownStrategy, FailStrategyImage,
                            SkipWithoutOutput, FailSource, Skip
<1>3. CASE StrategyWithoutBlock \/ ProcessDockerStrategy \/ ProcessSourceStrategy
  <2>1. FieldsAt(step) = {"strategy", "params", "env"}
    BY <1>3, Guards DEF FieldsAt
  <2>2. KeepsAllBut({"strategy", "params", "env"})
    BY <1>3 DEF StrategyWithoutBlock, ProcessDockerStrategy, ProcessSourceStrategy,
                      KeepsAllBut
  <2>3. QED
    BY <2>1, <2>2
<1>4. CASE ConvertBuildArg \/ FinishDockerStrategy
  <2>1. FieldsAt(step) = {"buildArgs", "params"}
    BY <1>4, Guards DEF FieldsAt
  <2>2. KeepsAllBut({"buildArgs", "params"})
    BY <1>4 DEF ConvertBuildArg, FinishDockerStrategy, KeepsAllBut
  <2>3. QED
    BY <2>1, <2>2
<1>5. CASE ConvertVolume \/ FinishVolumes
  <2>1. FieldsAt(step) = {"volumes"}
    BY <1>5, Guards DEF FieldsAt
  <2>2. KeepsAllBut({"volumes"})
    BY <1>5 DEF ConvertVolume, FinishVolumes, KeepsAllBut
  <2>3. QED
    BY <2>1, <2>2
<1>6. CASE ProcessCredentials \/ SourceAbsent \/ FinishOutput \/ ProcessRunPolicy
             \/ ProcessPostCommit \/ ProcessChainInput \/ FinishChainCandidates
  BY <1>0, <1>6 DEF ProcessCredentials, SourceAbsent, FinishOutput, ProcessRunPolicy,
                    ProcessPostCommit, ProcessChainInput, FinishChainCandidates
<1>7. CASE ProcessInlineDockerfile \/ ProcessTriggers \/ ProcessResources \/ Classify
  <2>1. FieldsAt(step) = {"annotations"}
    BY <1>7, Guards DEF FieldsAt
  <2>2. KeepsAllBut({"annotations"})
    BY <1>7 DEF ProcessInlineDockerfile, ProcessTriggers, ProcessResources, Classify,
                      KeepsAllBut
  <2>3. QED
    BY <2>1, <2>2
<1>8. CASE GitSource \/ BinarySource \/ ImageSourceStep
  <2>1. FieldsAt(step) = {"source", "env"}
    BY <1>8, Guards DEF FieldsAt
  <2>2. KeepsAllBut({"source", "env"})
    BY <1>8 DEF GitSource, BinarySource, ImageSourceStep, KeepsAllBut
  <2>3. QED
    BY <2>1, <2>2
<1>9. CASE ProcessOutput \/ ConvertImageLabel
  <2>1. /\ ProcessOutput => FieldsAt(step) = {"image", "pushSecret"}
        /\ ConvertImageLabel => FieldsAt(step) = {"imageLabels"}
    BY Guards DEF FieldsAt
  <2>2. /\ ProcessOutput => KeepsAllBut({"image", "pushSecret"})
        /\ ConvertImageLabel => KeepsAllBut({"imageLabels"})
    BY DEF ProcessOutput, ConvertImageLabel, KeepsAllBut
  <2>3. QED
    BY <1>9, <2>1, <2>2
<1>10. CASE ProcessCompletionDeadline \/ ProcessNodeSelector \/ ProcessBuildsHistoryLimits
              \/ AddRegistries
  <2>1. /\ ProcessCompletionDeadline => FieldsAt(step) = {"timeout"}
        /\ ProcessNodeSelector => FieldsAt(step) = {"nodeSelector"}
        /\ ProcessBuildsHistoryLimits => FieldsAt(step) = {"succeededLimit", "failedLimit"}
        /\ AddRegistries => FieldsAt(step) = {"params", "insecure"}
    BY Guards DEF FieldsAt
  <2>2. /\ ProcessCompletionDeadline => KeepsAllBut({"timeout"})
        /\ ProcessNodeSelector => KeepsAllBut({"nodeSelector"})
        /\ ProcessBuildsHistoryLimits => KeepsAllBut({"succeededLimit", "failedLimit"})
        /\ AddRegistries => KeepsAllBut({"params", "insecure"})
    BY DEF ProcessCompletionDeadline, ProcessNodeSelector,
                       ProcessBuildsHistoryLimits, AddRegistries, KeepsAllBut
  <2>3. QED
    BY <1>10, <2>1, <2>2
<1>11. QED
  BY <1>1, <1>2, <1>3, <1>4, <1>5, <1>6, <1>7, <1>8, <1>9, <1>10 DEF Proceed

-----------------------------------------------------------------------------
(* Which calls have warned so far *)

\* A conversion's warnings are of the kinds of the calls made so far.
WarnedSoFar ==
  step # "idle" =>
    \A k \in DOMAIN Own : \E call \in Calls :
      /\ Own[k].kind \in KindsAt(call)
      /\ Place(call) < Place(step) \/ (call = step /\ step \in Loops)

\* No other call records one of these kinds.
RecordedOnlyBy(call, kinds) ==
  \A other \in Calls : \A kind \in kinds : kind \in KindsAt(other) => other = call

\* A step of Convert's body warns for its call.
LEMMA ProceedWarns ==
  ASSUME ConverterInv, WarnedSoFar, Proceed
  PROVE  WarnedSoFar'
<1>0. step \in Calls
  BY ProceedFacts DEF ConverterInv, TypeOK, Calls
<1>1. CASE GivesUp \/ Classify
  BY <1>1 DEF GivesUp, Classify, WarnedSoFar
<1>2. ASSUME Iterates \/ HandsOver
      PROVE  WarnedSoFar'
  <2>1. /\ step' \in Calls
        /\ \/ step' = step /\ step \in Loops
           \/ Place(step) < Place(step')
    BY <1>0, <1>2, PlaceValues DEF Iterates, HandsOver
  <2>2. Place(step) \in 1..19 /\ Place(step') \in 1..19
    BY <1>0, <2>1, PlaceValues
  <2>3. ASSUME NEW k \in DOMAIN Own'
        PROVE  \E call \in Calls :
                 /\ Own'[k].kind \in KindsAt(call)
                 /\ Place(call) < Place(step') \/ (call = step' /\ step' \in Loops)
    <3>1. MentionsKind(Own', Own'[k].kind)
      BY DEF MentionsKind
    <3>2. MentionsKind(Own, Own'[k].kind) \/ Own'[k].kind \in KindsAt(step)
      BY <3>1, OwnKeeps
    <3>3. CASE Own'[k].kind \in KindsAt(step)
      BY <1>0, <2>1, <3>3
    <3>4. CASE MentionsKind(Own, Own'[k].kind)
      <4>1. PICK call \in Calls :
              /\ Own'[k].kind \in KindsAt(call)
              /\ Place(call) < Place(step) \/ (call = step /\ step \in Loops)
        BY <1>0, <3>4 DEF WarnedSoFar, MentionsKind, Calls
      <4>2. Place(call) \in 1..19
        BY PlaceValues
      <4>3. Place(call) < Place(step') \/ (call = step' /\ step' \in Loops)
        BY <2>1, <2>2, <4>1, <4>2
      <4>4. QED
        BY <4>1, <4>3
    <3>5. QED
      BY <3>2, <3>3, <3>4
  <2>4. QED
    BY <2>3 DEF WarnedSoFar
<1>3. QED
  BY <1>1, <1>2, StepAdvances

\* Before its call, a kind that no other call records is not mentioned.
LEMMA NothingYet ==
  ASSUME ConverterInv, WarnedSoFar, step \in Calls,
         NEW call \in Calls, NEW kinds, RecordedOnlyBy(call, kinds),
         Place(step) < Place(call) \/ (step = call /\ call \notin Loops)
  PROVE  /\ \A kind \in kinds : ~MentionsKind(Own, kind)
         /\ Tally(Own, kinds) = 0
<1>1. ASSUME NEW k \in DOMAIN Own
      PROVE  Own[k].kind \notin kinds
  <2>1. PICK other \in Calls :
          /\ Own[k].kind \in KindsAt(other)
          /\ Place(other) < Place(step) \/ (other = step /\ step \in Loops)
    BY DEF WarnedSoFar, Calls
  <2>2. Own[k].kind \in kinds => other = call
    BY <2>1 DEF RecordedOnlyBy
  <2>3. Place(other) \in 1..19 /\ Place(step) \in 1..19 /\ Place(call) \in 1..19
    BY PlaceValues
  <2>4. other # call
    BY <2>1, <2>3
  <2>5. QED
    BY <2>2, <2>4
<1>2. QED
  BY <1>1, TallyNone DEF MentionsKind

\* Elsewhere, such a kind stays mentioned or not, and counted.
LEMMA OthersKeep ==
  ASSUME ConverterInv, Proceed, NEW call, NEW kinds, RecordedOnlyBy(call, kinds), step # call
  PROVE  /\ \A kind \in kinds : MentionsKind(Own', kind) <=> MentionsKind(Own, kind)
         /\ Tally(Own', kinds) = Tally(Own, kinds)
<1>1. step \in Calls
  BY ProceedFacts DEF ConverterInv, TypeOK, Calls
<1>2. kinds \cap KindsAt(step) = {}
  BY <1>1 DEF RecordedOnlyBy
<1>3. QED
  BY <1>2, OwnKeeps

\* A new Converter and a new conversion have recorded nothing.
LEMMA NothingWarned ==
  /\ Init => WarnedSoFar
  /\ ConverterInv => \A c \in SourceConfigs : Convert(c) => WarnedSoFar'
<1>1. Init => WarnedSoFar
  BY DEF Init, WarnedSoFar
<1>2. ASSUME ConverterInv, NEW c \in SourceConfigs, Convert(c)
      PROVE  WarnedSoFar'
  <2>1. Len(Own') = 0 /\ DOMAIN Own' = 1..Len(Own')
    <3>1. ConverterInv'
      BY <1>2, ConvertStep
    <3>2. /\ warnings' \in Seq(WarningRecord) /\ startWarnings' \in 0..Len(warnings')
          /\ startWarnings' = Len(warnings')
      BY <1>2, <3>1 DEF ConverterInv, TypeOK, Convert
    <3>3. QED
      BY <3>2, SuffixByPosition DEF Own
  <2>2. DOMAIN Own' = {}
    BY <2>1
  <2>3. QED
    BY <2>2 DEF WarnedSoFar
<1>3. QED
  BY <1>1, <1>2

-----------------------------------------------------------------------------
(* What stays once it has been written *)

\* The writers of the fields that the promises are about.
LEMMA Writers ==
  ASSUME NEW call \in Calls, call # "skeleton"
  PROVE  /\ FieldsAt(call) \cap {"kind", "ns", "name"} = {}
         /\ "strategy" \in FieldsAt(call) => call = "strategy"
         /\ "buildArgs" \in FieldsAt(call) => call = "buildArgs"
         /\ "volumes" \in FieldsAt(call) => call = "volumes"
         /\ "source" \in FieldsAt(call) => call = "source"
         /\ FieldsAt(call) \cap {"image", "pushSecret"} # {} => call = "output"
         /\ "imageLabels" \in FieldsAt(call) => call = "imageLabels"
         /\ "timeout" \in FieldsAt(call) => call = "deadline"
         /\ "nodeSelector" \in FieldsAt(call) => call = "nodeSelector"
         /\ FieldsAt(call) \cap {"succeededLimit", "failedLimit"} # {} => call = "history"
         /\ "insecure" \in FieldsAt(call) => call = "registries"
         /\ "params" \in FieldsAt(call) => call \in {"strategy", "buildArgs", "registries"}
         /\ "annotations" \in FieldsAt(call) =>
              call \in {"dockerfile", "triggers", "resources", "outcome"}
BY DEF FieldsAt, Calls, Steps

\* A step of any other call keeps them.
LEMMA FieldsStay ==
  ASSUME ConverterInv, Proceed, step # "skeleton"
  PROVE  /\ b'.kind = b.kind /\ b'.ns = b.ns /\ b'.name = b.name
         /\ step # "strategy" => b'.strategy = b.strategy
         /\ step # "buildArgs" => b'.buildArgs = b.buildArgs
         /\ step # "volumes" => b'.volumes = b.volumes
         /\ step # "source" => b'.source = b.source
         /\ step # "output" => b'.image = b.image /\ b'.pushSecret = b.pushSecret
         /\ step # "imageLabels" => b'.imageLabels = b.imageLabels
         /\ step # "deadline" => b'.timeout = b.timeout
         /\ step # "nodeSelector" => b'.nodeSelector = b.nodeSelector
         /\ step # "history" => /\ b'.succeededLimit = b.succeededLimit
                                /\ b'.failedLimit = b.failedLimit
         /\ step # "registries" => b'.insecure = b.insecure
         /\ step \notin {"strategy", "buildArgs", "registries"} => b'.params = b.params
         /\ step \notin {"dockerfile", "triggers", "resources", "outcome"} =>
              b'.annotations = b.annotations
<1>1. DOMAIN b = DOMAIN EmptyBuild
  BY DEF ConverterInv, TypeOK
<1>2. step \in Calls
  BY ProceedFacts DEF ConverterInv, TypeOK, Calls
<1>3. \A f \in DOMAIN EmptyBuild : f \notin FieldsAt(step) => b'[f] = b[f]
  BY <1>1, FieldsKept DEF KeepsAllBut
<1>4. {"kind", "ns", "name", "strategy", "buildArgs", "volumes", "source", "image",
       "pushSecret", "imageLabels", "timeout", "nodeSelector", "succeededLimit",
       "failedLimit", "insecure", "params", "annotations"} \subseteq DOMAIN EmptyBuild
  BY DEF EmptyBuild
<1>5. /\ b'.kind = b.kind /\ b'.ns = b.ns /\ b'.name = b.name
      /\ step # "strategy" => b'.strategy = b.strategy
      /\ step # "buildArgs" => b'.buildArgs = b.buildArgs
      /\ step # "volumes" => b'.volumes = b.volumes
      /\ step # "source" => b'.source = b.source
      /\ step # "output" => b'.image = b.image /\ b'.pushSecret = b.pushSecret
  BY <1>2, <1>3, <1>4, Writers
<1>6. /\ step # "imageLabels" => b'.imageLabels = b.imageLabels
      /\ step # "deadline" => b'.timeout = b.timeout
      /\ step # "nodeSelector" => b'.nodeSelector = b.nodeSelector
      /\ step # "history" => /\ b'.succeededLimit = b.succeededLimit
                             /\ b'.failedLimit = b.failedLimit
      /\ step # "registries" => b'.insecure = b.insecure
      /\ step \notin {"strategy", "buildArgs", "registries"} => b'.params = b.params
      /\ step \notin {"dockerfile", "triggers", "resources", "outcome"} =>
           b'.annotations = b.annotations
  BY <1>2, <1>3, <1>4, Writers
<1>7. QED
  BY <1>5, <1>6

\* A call that has been made is not at hand.
LEMMA PastIsOver ==
  ASSUME ConverterInv, Proceed, NEW call \in Calls, Past(call)
  PROVE  step \in Calls /\ step # call /\ step # "skeleton" /\ Place(call) < Place(step)
<1>1. step \in Calls /\ step # "idle"
  BY ProceedFacts DEF ConverterInv, TypeOK, Calls
<1>2. Place(call) < Place(step)
  BY <1>1 DEF Past
<1>3. Place(call) \in 1..19 /\ Place("skeleton") = 1
  BY PlaceValues
<1>4. QED
  BY <1>1, <1>2, <1>3

\* A new Converter and a new conversion have made no call.
LEMMA NothingPast ==
  /\ Init => \A call \in Calls : ~Past(call)
  /\ \A c \in SourceConfigs : Convert(c) => \A call \in Calls : ~Past(call)'
<1>1. Init => step = "idle" /\ outcome = NoOutcome
  BY DEF Init
<1>2. NoOutcome.state = "none"
  BY DEF NoOutcome
<1>3. \A c \in SourceConfigs : Convert(c) => step' = "skeleton"
  BY DEF Convert
<1>4. \A call \in Calls : ~(Place(call) < Place("skeleton"))
  BY PlaceValues
<1>5. QED
  BY <1>1, <1>2, <1>3, <1>4 DEF Past, Converted, Concluded

\* Setting a key of a map.
LEMMA WithSets ==
  ASSUME NEW f, NEW key, NEW value
  PROVE  /\ DOMAIN With(f, key, value) = DOMAIN f \union {key}
         /\ With(f, key, value)[key] = value
         /\ \A x \in DOMAIN f : x # key => With(f, key, value)[x] = f[x]
BY DEF With

\* The annotations that each call writes.
AnnotationsAt(call) ==
  CASE call = "dockerfile" -> {DockerfileAnnotation}
    [] call = "triggers" -> {TriggersAnnotation}
    [] call = "resources" -> {TemplateAnnotation}
    [] call = "outcome" -> {WarningsAnnotationKey, OutcomeAnnotation}
    [] OTHER -> {}

\* The keys are told apart by their first token.
LEMMA KeysDiffer ==
  /\ DockerfileAnnotation[1] = "inline-dockerfile-configmap"
  /\ TriggersAnnotation[1] = "original-triggers"
  /\ TemplateAnnotation[1] = "buildrun-template"
  /\ WarningsAnnotationKey[1] = "conversion-warnings"
  /\ OutcomeAnnotation[1] = "buildconfig-to-shipwright"
  /\ ConvertedFromAnnotation[1] = "converted-from"
BY DEF DockerfileAnnotation, TriggersAnnotation, TemplateAnnotation, WarningsAnnotationKey,
       OutcomeAnnotation, ConvertedFromAnnotation

\* Past the skeleton, annotations stay, and each call adds its own only.
LEMMA AnnotationsStay ==
  ASSUME ConverterInv, Proceed, step # "skeleton"
  PROVE  /\ DOMAIN b.annotations \subseteq DOMAIN b'.annotations
         /\ DOMAIN b'.annotations \subseteq DOMAIN b.annotations \union AnnotationsAt(step)
         /\ \A key \in DOMAIN b.annotations \ AnnotationsAt(step) :
              b'.annotations[key] = b.annotations[key]
<1>0. "annotations" \in DOMAIN b
  BY DEF ConverterInv, TypeOK, EmptyBuild
<1>1. CASE step \notin {"dockerfile", "triggers", "resources", "outcome"}
  BY <1>1, FieldsStay
<1>2. CASE step = "dockerfile"
  <2>1. AnnotationsAt(step) = {DockerfileAnnotation}
    BY <1>2 DEF AnnotationsAt
  <2>2. \/ b' = b
        \/ \E value : b'.annotations = With(b.annotations, DockerfileAnnotation, value)
    BY <1>0, <1>2, ActionAtStep DEF ProcessInlineDockerfile
  <2>3. QED
    BY <2>1, <2>2 DEF With
<1>3. CASE step = "triggers"
  <2>1. AnnotationsAt(step) = {TriggersAnnotation}
    BY <1>3 DEF AnnotationsAt
  <2>2. \/ b' = b
        \/ \E value : b'.annotations = With(b.annotations, TriggersAnnotation, value)
    BY <1>0, <1>3, ActionAtStep DEF ProcessTriggers
  <2>3. QED
    BY <2>1, <2>2 DEF With
<1>4. CASE step = "resources"
  <2>1. AnnotationsAt(step) = {TemplateAnnotation}
    BY <1>4 DEF AnnotationsAt
  <2>2. \/ b' = b
        \/ \E value : b'.annotations = With(b.annotations, TemplateAnnotation, value)
    BY <1>0, <1>4, ActionAtStep DEF ProcessResources
  <2>3. QED
    BY <2>1, <2>2 DEF With
<1>5. CASE step = "outcome"
  <2>1. AnnotationsAt(step) = {WarningsAnnotationKey, OutcomeAnnotation}
    BY <1>5 DEF AnnotationsAt
  <2>2. PICK annotated, state :
          /\ \/ annotated = b.annotations
             \/ \E value : annotated = With(b.annotations, WarningsAnnotationKey, value)
          /\ b'.annotations = With(annotated, OutcomeAnnotation, [text |-> <<state>>])
    BY <1>0, <1>5, ActionAtStep, ZenonT(40) DEF Classify
  <2>3. /\ DOMAIN annotated \subseteq DOMAIN b.annotations \union {WarningsAnnotationKey}
        /\ DOMAIN b.annotations \subseteq DOMAIN annotated
        /\ \A key \in DOMAIN b.annotations \ {WarningsAnnotationKey} :
             annotated[key] = b.annotations[key]
    BY <2>2 DEF With
  <2>4. QED
    BY <2>1, <2>2, <2>3 DEF With
<1>6. QED
  BY <1>1, <1>2, <1>3, <1>4, <1>5

=============================================================================
