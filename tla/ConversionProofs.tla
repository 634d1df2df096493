-------------------------- MODULE ConversionProofs ----------------------------
(***************************************************************************)
(* What a conversion reports and what it emits, for any BuildConfigs and   *)
(* flags.  No silent loss: what a BuildConfig says and its Build does not  *)
(* is in a recorded warning, and one that passes through is not reported   *)
(* on by a step behind the one that refused it.  An annotation is written  *)
(* once, the one with the warnings accounts for them all, an insecure      *)
(* registry is declared where the push looks for it, and what the Build    *)
(* names is emitted with it.                                               *)
(*                                                                         *)
(* Each call of Convert's body writes fields and annotations of the Build  *)
(* that no other call writes (FieldsKept, OneWriterPerKey) and records     *)
(* kinds of warning that, where they are counted, no other call records    *)
(* (KindsAt).  A promise about one call is therefore settled by that call  *)
(* and kept by those that follow.  The last two sections relate calls: the *)
(* verdict on a BuildConfig to the order in which reasons are looked for,  *)
(* and the info lines on chained builds to what warnings name.             *)
(***************************************************************************)
EXTENDS ConverterProofs

-----------------------------------------------------------------------------
(* A BuildConfig that passes through *)

\* A conversion that gives no Build is refused by one of five steps.
LEMMA Refusals ==
  ASSUME Proceed, step' = "idle", outcome'.state \notin ConvertedStates
  PROVE  \/ SkipUnsupportedStrategy \/ FailUnknownStrategy \/ FailStrategyImage
         \/ SkipWithoutOutput \/ FailSource
<1>1. ASSUME Classify PROVE outcome'.state \in ConvertedStates
  BY <1>1 DEF Classify, ConvertedStates
<1>2. ~Classify
  BY <1>1
<1>3. ~MakeSkeleton /\ ~StrategyWithoutBlock /\ ~ProcessDockerStrategy /\ ~ProcessSourceStrategy
      /\ ~ProcessCredentials /\ ~ProcessInlineDockerfile
  BY DEF MakeSkeleton, StrategyWithoutBlock, ProcessDockerStrategy, ProcessSourceStrategy,
         ProcessCredentials, ProcessInlineDockerfile, Continue
<1>4. ~ConvertBuildArg /\ ~FinishDockerStrategy /\ ~ConvertVolume /\ ~FinishVolumes
      /\ ~ConvertImageLabel /\ ~FinishOutput /\ ~ProcessChainInput /\ ~FinishChainCandidates
  BY DEF ConvertBuildArg, FinishDockerStrategy, ConvertVolume, FinishVolumes,
         ConvertImageLabel, FinishOutput, ProcessChainInput, FinishChainCandidates,
         Continue, Repeat
<1>5. ~SourceAbsent /\ ~GitSource /\ ~BinarySource /\ ~ImageSourceStep /\ ~ProcessOutput
  BY DEF SourceAbsent, GitSource, BinarySource, ImageSourceStep, ProcessOutput, Continue
<1>6. /\ ~ProcessCompletionDeadline /\ ~ProcessNodeSelector /\ ~ProcessRunPolicy
      /\ ~ProcessPostCommit /\ ~ProcessBuildsHistoryLimits /\ ~AddRegistries
      /\ ~ProcessTriggers /\ ~ProcessResources
  BY DEF ProcessCompletionDeadline, ProcessNodeSelector, ProcessRunPolicy,
         ProcessPostCommit, ProcessBuildsHistoryLimits, AddRegistries, ProcessTriggers,
         ProcessResources, Continue
<1>7. QED
  BY <1>2, <1>3, <1>4, <1>5, <1>6 DEF Proceed

SkipKinds == {"strategy skipped", "output skipped"}

\* What the calls before a refusal record, unless they refuse themselves.
LEMMA EarlierKinds ==
  ASSUME NEW call \in Calls, NEW kind \in KindsAt(call) \ SkipKinds
  PROVE  /\ Place(call) < Place("strategy") => kind = "renamed"
         /\ Place(call) < Place("gate") => kind \in StrategyWarnings
         /\ Place(call) < Place("source") => kind \in WarningsUpTo("source")
<1>1. Place(call) < Place("strategy") => call = "skeleton"
  BY PlaceValues DEF Calls, Steps
<1>2. Place(call) < Place("gate") => call \in {"skeleton", "strategy", "buildArgs", "volumes"}
  BY PlaceValues DEF Calls, Steps
<1>3. Place(call) < Place("source") =>
        call \in {"skeleton", "strategy", "buildArgs", "volumes", "gate", "dockerfile"}
  BY PlaceValues DEF Calls, Steps
<1>4. QED
  BY <1>1, <1>2, <1>3 DEF KindsAt, StrategyWarnings, WarningsUpTo, SkipKinds

\* A sequence that says nothing of a skip.
Unskipped(ws) == \A kind \in SkipKinds : ~MentionsKind(ws, kind)

\* A warning of another kind, on its own or on a condition.
LEMMA OthersUnskipped ==
  /\ Unskipped(<<>>)
  /\ \A condition, kind, about : kind \notin SkipKinds =>
       IsSequence(If(condition, Warning(kind, about))) /\ Unskipped(If(condition, Warning(kind, about)))
<1>1. \A kind, about : Warning(kind, about).kind = kind
  BY DEF Warning
<1>2. QED
  BY <1>1, MentionsShort, AppendedSequences DEF Unskipped

\* Put together, they say nothing of a skip either.
LEMMA JoinedUnskipped ==
  ASSUME NEW s, IsSequence(s), Unskipped(s), NEW t, IsSequence(t), Unskipped(t)
  PROVE  IsSequence(s \o t) /\ Unskipped(s \o t)
<1>1. IsSequence(s \o t)
  BY ConcatPositions DEF Concatenates
<1>2. QED
  BY <1>1, MentionsConcat DEF Unskipped

\* A call after which the conversion goes on has not said that it is skipped.
LEMMA GoesOnUnskipped ==
  ASSUME ConverterInv, Proceed, step' # "idle"
  PROVE  \E ws : IsSequence(ws) /\ Warn(ws) /\ Unskipped(ws)
<1>0. warnings \o <<>> = warnings
  <2>1. warnings \in Seq(WarningRecord)
    BY DEF ConverterInv, TypeOK
  <2>2. QED
    BY <2>1
<1>1. CASE step \notin {"strategy", "gate"}
  <2>1. PICK ws : /\ IsSequence(ws) /\ Warn(ws)
                  /\ \A k \in DOMAIN ws : ws[k].kind \in KindsAt(step)
    BY OwnAppendsItsKinds
  <2>2. \A kind \in SkipKinds : kind \notin KindsAt(step)
    BY <1>1 DEF SkipKinds, KindsAt
  <2>3. QED
    BY <2>1, <2>2 DEF Unskipped, MentionsKind
<1>2. \A result : ~Return(result)
  BY DEF Return
<1>3. CASE step = "strategy"
  <2>1. StrategyWithoutBlock \/ ProcessDockerStrategy \/ ProcessSourceStrategy
    BY <1>2, <1>3, ActionAtStep DEF SkipUnsupportedStrategy, FailUnknownStrategy,
           FailStrategyImage, Skip
  <2>2. CASE StrategyWithoutBlock
    <3>1. Warn(<<>>)
      BY <1>0, <2>2 DEF StrategyWithoutBlock, Warn
    <3>2. QED
      BY <3>1, OthersUnskipped, AppendedSequences
  <2>3. IsSequence(ImageWarning) /\ Unskipped(ImageWarning)
    <3> DEFINE condition == NamesStrategyImage /\ StrategyImage.doubtful
               about == Block.from.name
    <3>1. ImageWarning = If(condition, Warning("doubtful image", about))
      BY DEF ImageWarning
    <3>2. "doubtful image" \notin SkipKinds
      BY DEF SkipKinds
    <3> HIDE DEF condition, about
    <3>3. QED
      BY <3>1, <3>2, OthersUnskipped
  <2>4. CASE ProcessDockerStrategy
    BY <2>3, <2>4 DEF ProcessDockerStrategy
  <2>5. CASE ProcessSourceStrategy
    <3> DEFINE condition == "incremental" \in Block.switches
               slow == If(condition, Warning("incremental", bc.name))
    <3>1. Warn(ImageWarning \o slow)
      BY <2>5 DEF ProcessSourceStrategy
    <3>2. "incremental" \notin SkipKinds
      BY DEF SkipKinds
    <3> HIDE DEF condition
    <3>3. IsSequence(slow) /\ Unskipped(slow)
      BY <3>2, OthersUnskipped
    <3> HIDE DEF slow
    <3>4. QED
      BY <2>3, <3>1, <3>3, JoinedUnskipped
  <2>6. QED
    BY <2>1, <2>2, <2>4, <2>5
<1>4. CASE step = "gate"
  <2> DEFINE linked == If(PullSecret # Nil /\ NamesServiceAccount,
                          Warning("pull secret not linked", PullSecret))
             renamed == IF GeneratesServiceAccount THEN RenameWarning(bc.name) ELSE <<>>
             associations == If(NamesServiceAccount, Warning("associations", bc.serviceAccount))
  <2>1. Warn(linked \o renamed \o associations)
    <3>1. ProcessCredentials
      BY <1>2, <1>4, ActionAtStep DEF SkipWithoutOutput, Skip
    <3>2. QED
      BY <3>1 DEF ProcessCredentials
  <2>2. IsSequence(linked) /\ Unskipped(linked)
    <3> DEFINE condition == PullSecret # Nil /\ NamesServiceAccount
    <3>1. linked = If(condition, Warning("pull secret not linked", PullSecret))
      OBVIOUS
    <3>2. "pull secret not linked" \notin SkipKinds
      BY DEF SkipKinds
    <3> HIDE DEF condition, linked
    <3>3. QED
      BY <3>1, <3>2, OthersUnskipped
  <2>3. IsSequence(renamed) /\ Unskipped(renamed)
    <3> DEFINE condition == Rewritten(bc.name)
               name == bc.name
    <3>1. renamed \in {<<>>, If(condition, Warning("renamed", name))}
      BY DEF RenameWarning
    <3>2. "renamed" \notin SkipKinds
      BY DEF SkipKinds
    <3> HIDE DEF condition, name, renamed
    <3>3. QED
      BY <3>1, <3>2, OthersUnskipped, AppendedSequences
  <2>4. IsSequence(associations) /\ Unskipped(associations)
    <3> DEFINE condition == NamesServiceAccount
               account == bc.serviceAccount
    <3>1. associations = If(condition, Warning("associations", account))
      OBVIOUS
    <3>2. "associations" \notin SkipKinds
      BY DEF SkipKinds
    <3> HIDE DEF condition, account, associations
    <3>3. QED
      BY <3>1, <3>2, OthersUnskipped
  <2> HIDE DEF linked, renamed, associations
  <2>5. IsSequence(linked \o renamed) /\ Unskipped(linked \o renamed)
    BY <2>2, <2>3, JoinedUnskipped
  <2>6. QED
    BY <2>1, <2>4, <2>5, JoinedUnskipped
<1>5. QED
  BY <1>1, <1>3, <1>4

\* No conversion in progress has said that it is skipped.
NotSkippedYet == step # "idle" => Unskipped(Own)

\* At the start it has said nothing; a call it goes on from says nothing of it.
LEMMA NotSkippedKept ==
  /\ Init => NotSkippedYet
  /\ ConverterInv => \A c \in SourceConfigs : Convert(c) => NotSkippedYet'
  /\ ConverterInv /\ NotSkippedYet /\ Proceed => NotSkippedYet'
<1>1. Init => NotSkippedYet
  BY DEF Init, NotSkippedYet
<1>2. ASSUME ConverterInv, NEW c \in SourceConfigs, Convert(c)
      PROVE  NotSkippedYet'
  <2>1. Len(Own') = 0 /\ DOMAIN Own' = 1..Len(Own')
    <3>1. ConverterInv'
      BY <1>2, ConvertStep
    <3>2. /\ warnings' \in Seq(WarningRecord) /\ startWarnings' \in 0..Len(warnings')
          /\ startWarnings' = Len(warnings')
      BY <1>2, <3>1 DEF ConverterInv, TypeOK, Convert
    <3>3. QED
      BY <3>2, SuffixByPosition DEF Own
  <2>2. DOMAIN Own' = {}
    BY <2>1
  <2>3. QED
    BY <2>2 DEF NotSkippedYet, Unskipped, MentionsKind
<1>3. ASSUME ConverterInv, NotSkippedYet, Proceed, step' # "idle"
      PROVE  Unskipped(Own')
  <2>1. PICK ws : IsSequence(ws) /\ Warn(ws) /\ Unskipped(ws)
    BY <1>3, GoesOnUnskipped
  <2>2. \A kind : MentionsKind(Own', kind) <=> MentionsKind(Own, kind) \/ MentionsKind(ws, kind)
    BY <1>3, <2>1, OwnGrows
  <2>3. Unskipped(Own)
    BY <1>3, ProceedFacts DEF NotSkippedYet
  <2>4. QED
    BY <2>1, <2>2, <2>3 DEF Unskipped
<1>4. QED
  BY <1>1, <1>2, <1>3 DEF NotSkippedYet

\* What the source's call records before it fails.
LEMMA SourceFailureReports ==
  ASSUME FailSource
  PROVE  \E ws : /\ IsSequence(ws) /\ Warn(ws)
                 /\ \A kind : MentionsKind(ws, kind) => kind \in {"source secret", "image as"}
<1>1. /\ IsSequence(SourceSecretWarning)
      /\ \A kind : MentionsKind(SourceSecretWarning, kind) => kind = "source secret"
  <2> DEFINE condition == "git" \notin SourceTypes /\ bc.source.secret \notin {Nil, Empty}
             w == Warning("source secret", bc.source.secret)
  <2>1. SourceSecretWarning = If(condition, w) /\ w.kind = "source secret"
    BY DEF SourceSecretWarning, Warning
  <2> HIDE DEF condition, w
  <2>2. QED
    BY <2>1, MentionsShort, AppendedSequences
<1>2. /\ IsSequence(ImageAsWarning)
      /\ \A kind : MentionsKind(ImageAsWarning, kind) => kind = "image as"
  <2> DEFINE condition == SoleImage.as
             w == Warning("image as", SoleImage.from.name)
  <2>1. ImageAsWarning = If(condition, w) /\ w.kind = "image as"
    BY DEF ImageAsWarning, Warning
  <2> HIDE DEF condition, w
  <2>2. QED
    BY <2>1, MentionsShort, AppendedSequences
<1>3. Warn(SourceSecretWarning) \/ Warn(SourceSecretWarning \o ImageAsWarning)
  BY DEF FailSource
<1>4. /\ IsSequence(SourceSecretWarning \o ImageAsWarning)
      /\ \A kind : MentionsKind(SourceSecretWarning \o ImageAsWarning, kind) =>
           kind \in {"source secret", "image as"}
  <2>1. IsSequence(SourceSecretWarning \o ImageAsWarning)
    BY <1>1, <1>2, ConcatPositions DEF Concatenates
  <2>2. QED
    BY <1>1, <1>2, <2>1, MentionsConcat
<1>5. QED
  BY <1>1, <1>3, <1>4

\* A call that fails leaves its reason in the outcome.
LEMMA FailureReason ==
  \A reason : Return(OutcomeFailed(reason)) => outcome'.reason = reason
<1>1. \A result : Return(result) => outcome' = result
  BY DEF Return
<1>2. \A reason : OutcomeFailed(reason).reason = reason
  BY DEF OutcomeFailed
<1>3. QED
  BY <1>1, <1>2, Zenon

\* A refusal reports no more than its reason and what was reported before it.
LEMMA RefusalReports ==
  ASSUME ConverterInv, WarnedSoFar, NotSkippedYet, Proceed
  PROVE  RefusalsReportNoLaterStep'
<1> DEFINE upTo == WarningsUpTo(outcome'.reason)
<1> SUFFICES ASSUME step' = "idle", outcome'.state \in {"skipped", "failed"},
                    NEW k \in DOMAIN Own'
             PROVE  Own'[k].kind \in upTo
  BY DEF RefusalsReportNoLaterStep, Concluded
<1>1. warnings \o <<>> = warnings
  <2>1. warnings \in Seq(WarningRecord)
    BY DEF ConverterInv, TypeOK
  <2>2. QED
    BY <2>1
<1>2. \A kind, about : Warning(kind, about).kind = kind
  BY DEF Warning
<1>3. \E ws : /\ IsSequence(ws) /\ Warn(ws)
              /\ \A kind : MentionsKind(ws, kind) => kind \in upTo
              /\ \/ step = "strategy" /\ "renamed" \in upTo
                 \/ step = "gate" /\ StrategyWarnings \subseteq upTo
                 \/ step = "source" /\ upTo = WarningsUpTo("source")
  <2>1. CASE SkipUnsupportedStrategy
    <3> DEFINE w == Warning("strategy skipped", bc.name)
    <3>1. Warn(<<w>>) /\ step = "strategy" /\ upTo = {"renamed", "strategy skipped"}
      BY <2>1 DEF SkipUnsupportedStrategy, Skip, Return, OutcomeSkipped, WarningsUpTo
    <3>2. IsSequence(<<w>>) /\ w.kind = "strategy skipped"
      BY <1>2, AppendedSequences
    <3> HIDE DEF w, upTo
    <3>3. QED
      BY <3>1, <3>2, MentionsShort
  <2>2. CASE FailUnknownStrategy \/ FailStrategyImage
    <3>1. /\ UNCHANGED warnings /\ step = "strategy"
          /\ \/ Return(OutcomeFailed("unknown strategy"))
             \/ Return(OutcomeFailed("strategy image"))
      BY <2>2 DEF FailUnknownStrategy, FailStrategyImage
    <3>2. outcome'.reason \in {"unknown strategy", "strategy image"}
      BY <3>1, FailureReason
    <3>3. upTo = {"renamed"}
      BY <3>2 DEF WarningsUpTo
    <3>4. Warn(<<>>)
      BY <1>1, <3>1 DEF Warn
    <3> HIDE DEF upTo
    <3>5. QED
      BY <3>1, <3>3, <3>4, MentionsShort, AppendedSequences
  <2>3. CASE SkipWithoutOutput
    <3> DEFINE w == Warning("output skipped", bc.name)
    <3>1. /\ Warn(<<w>>) /\ step = "gate"
          /\ upTo = StrategyWarnings \union {"output skipped"}
      BY <2>3 DEF SkipWithoutOutput, Skip, Return, OutcomeSkipped, WarningsUpTo
    <3>2. IsSequence(<<w>>) /\ w.kind = "output skipped"
      BY <1>2, AppendedSequences
    <3> HIDE DEF w, upTo
    <3>3. QED
      BY <3>1, <3>2, MentionsShort
  <2>4. CASE FailSource
    <3>1. step = "source" /\ Return(OutcomeFailed("source"))
      BY <2>4 DEF FailSource
    <3>2. upTo = WarningsUpTo("source")
      BY <3>1, FailureReason
    <3> HIDE DEF upTo
    <3>3. {"source secret", "image as"} \subseteq WarningsUpTo("source")
      BY DEF WarningsUpTo
    <3>4. QED
      BY <2>4, <3>1, <3>2, <3>3, SourceFailureReports
  <2>5. outcome'.state \notin ConvertedStates
    BY DEF ConvertedStates
  <2>6. QED
    BY <2>1, <2>2, <2>3, <2>4, <2>5, Refusals
<1> HIDE DEF upTo
<1>4. PICK ws : /\ IsSequence(ws) /\ Warn(ws)
                /\ \A kind : MentionsKind(ws, kind) => kind \in upTo
                /\ \/ step = "strategy" /\ "renamed" \in upTo
                   \/ step = "gate" /\ StrategyWarnings \subseteq upTo
                   \/ step = "source" /\ upTo = WarningsUpTo("source")
  BY <1>3
<1>5. MentionsKind(Own, Own'[k].kind) \/ MentionsKind(ws, Own'[k].kind)
  <2>1. MentionsKind(Own', Own'[k].kind)
    BY DEF MentionsKind
  <2>2. QED
    BY <1>4, <2>1, OwnGrows
<1>6. CASE MentionsKind(Own, Own'[k].kind)
  <2>1. PICK call \in Calls :
          Own'[k].kind \in KindsAt(call) /\ Place(call) < Place(step)
    BY <1>4, <1>6 DEF WarnedSoFar, MentionsKind, Loops
  <2>2. Own'[k].kind \notin SkipKinds
    BY <1>4, <1>6 DEF NotSkippedYet, Unskipped
  <2>3. QED
    BY <1>4, <2>1, <2>2, EarlierKinds
<1>7. QED
  BY <1>4, <1>5, <1>6

\* A BuildConfig that is refused is reported on by the steps up to the one that
\* refused it and by no later one, for every BuildConfig and whatever a Converter
\* has converted before: an unsupported strategy is skipped before anything was
\* reported, the output gate behind the strategy step alone, and an unusable
\* source fails before anything is said of mounts, output or triggers
\* (docs/architecture.md rule 4 and 155-158).
THEOREM LaterStepsSilent ==
  Spec => []RefusalsReportNoLaterStep
<1> DEFINE Inv == WarnedSoFar /\ NotSkippedYet /\ RefusalsReportNoLaterStep
<1>1. Init => Inv
  <2>1. Init => outcome = NoOutcome
    BY DEF Init
  <2>2. NoOutcome.state = "none"
    BY DEF NoOutcome
  <2>3. Init => RefusalsReportNoLaterStep
    BY <2>1, <2>2 DEF RefusalsReportNoLaterStep, Concluded
  <2>4. QED
    BY <2>3, NothingWarned, NotSkippedKept
<1>2. ASSUME ConverterInv, Inv, [Next]_vars
      PROVE  Inv'
  <2>1. CASE Proceed
    BY <1>2, <2>1, ProceedWarns, NotSkippedKept, RefusalReports
  <2>2. ASSUME NEW c \in SourceConfigs, Convert(c)
        PROVE  Inv'
    <3>1. RefusalsReportNoLaterStep'
      BY <2>2 DEF Convert, RefusalsReportNoLaterStep, Concluded
    <3>2. QED
      BY <1>2, <2>2, <3>1, NothingWarned, NotSkippedKept
  <2>3. CASE UNCHANGED vars
    <3>1. Own' = Own /\ step' = step /\ outcome' = outcome
      BY <2>3 DEF Own, vars
    <3>2. WarnedSoFar'
      BY <1>2, <3>1 DEF WarnedSoFar
    <3>3. NotSkippedYet'
      BY <1>2, <3>1 DEF NotSkippedYet
    <3>4. RefusalsReportNoLaterStep'
      BY <1>2, <3>1 DEF RefusalsReportNoLaterStep, Concluded
    <3>5. QED
      BY <3>2, <3>3, <3>4
  <2>4. QED
    BY <1>2, <2>1, <2>2, <2>3 DEF Next
<1>3. Inv => RefusalsReportNoLaterStep
  OBVIOUS
<1>4. QED
  BY <1>1, <1>2, <1>3, Invariance, PTL DEF Spec

-----------------------------------------------------------------------------
(* The rest of the spec: deadline, limits, node selector, policy, hook,      *)
(* resources and triggers                                                    *)

TriggerKinds ==
  {"webhook trigger", "image trigger", "image trigger, run order",
   "config trigger, template", "config trigger, by hand", "unknown trigger"}
ResourceKinds == {"step names unknown", "resources in template"}

LimitsLeftOut ==
  Cardinality({l \in {1} : bc.succeededLimit # b.succeededLimit})
  + Cardinality({l \in {1} : bc.failedLimit # b.failedLimit})

DeadlineSettled ==
  bc.deadline # <<>> /\ b.timeout = <<>> => MentionsKind(Own, "deadline")
NodeSelectorSettled ==
  bc.nodeSelector # b.nodeSelector => b.nodeSelector = {} /\ MentionsKind(Own, "nodeSelector")
RunPolicySettled == bc.runPolicy # "Parallel" => MentionsKind(Own, "run policy")
PostCommitSettled == bc.postCommit # {} => MentionsKind(Own, "postCommit")
HistorySettled == Tally(Own, {"history limit"}) = LimitsLeftOut
TriggersSettled ==
  /\ Tally(Own, TriggerKinds) = Len(bc.triggers)
  /\ bc.triggers # <<>> =>
       /\ TriggersAnnotation \in DOMAIN b.annotations
       /\ b.annotations[TriggersAnnotation] = [triggers |-> bc.triggers]
ResourcesSettled == bc.resources => Tally(Own, ResourceKinds) = 1

\* Each promise holds from its call on; the node selector is written only when
\* it is valid, so that it has to be empty until then.
SpecInv ==
  /\ Past("deadline") => DeadlineSettled
  /\ step \in Calls /\ Place(step) <= Place("nodeSelector") => b.nodeSelector = {}
  /\ Past("nodeSelector") => NodeSelectorSettled
  /\ Past("runPolicy") => RunPolicySettled
  /\ Past("postCommit") => PostCommitSettled
  /\ Past("history") => HistorySettled
  /\ Past("triggers") => TriggersSettled
  /\ Past("resources") => ResourcesSettled

\* Which call records a kind that is counted.
LEMMA KindWriters ==
  ASSUME NEW call \in Calls
  PROVE  /\ "history limit" \in KindsAt(call) => call = "history"
         /\ "webhook trigger" \in KindsAt(call) => call = "triggers"
         /\ "image trigger" \in KindsAt(call) => call = "triggers"
         /\ "image trigger, run order" \in KindsAt(call) => call = "triggers"
         /\ "config trigger, template" \in KindsAt(call) => call = "triggers"
         /\ "config trigger, by hand" \in KindsAt(call) => call = "triggers"
         /\ "unknown trigger" \in KindsAt(call) => call = "triggers"
         /\ "step names unknown" \in KindsAt(call) => call = "resources"
         /\ "resources in template" \in KindsAt(call) => call = "resources"
         /\ "no source" \in KindsAt(call) => call = "source"
         /\ "source configMap" \in KindsAt(call) => call = "source"
         /\ "source mount secret" \in KindsAt(call) => call = "source"
         /\ "volume undeclared" \in KindsAt(call) => call = "volumes"
         /\ "volume skipped" \in KindsAt(call) => call = "volumes"
BY DEF KindsAt, Calls, Steps

\* The kinds that the promises count are each recorded by one call.
LEMMA CountedKinds ==
  /\ RecordedOnlyBy("history", {"history limit"})
  /\ RecordedOnlyBy("triggers", TriggerKinds)
  /\ RecordedOnlyBy("resources", ResourceKinds)
BY KindWriters DEF RecordedOnlyBy, TriggerKinds, ResourceKinds

\* A warning recorded under a condition.
LEMMA WarnsIf ==
  ASSUME ConverterInv, Proceed, NEW condition, NEW kind, NEW about,
         Warn(If(condition, Warning(kind, about))), condition
  PROVE  MentionsKind(Own', kind) /\ Mentions(Own', kind, about)
<1> DEFINE w == Warning(kind, about)
           ws == If(condition, w)
<1>1. w.kind = kind /\ w.about = about
  BY DEF Warning
<1>2. IsSequence(ws) /\ Warn(ws)
  BY AppendedSequences
<1>3. ws = <<w>>
  BY DEF If
<1> HIDE DEF w, ws
<1>4. MentionsKind(<<w>>, kind) /\ Mentions(<<w>>, kind, about)
  BY <1>1, MentionsShort
<1>5. QED
  BY <1>2, <1>3, <1>4, OwnGrows

\* One and none, as sets count them.
LEMMA CountOfOne ==
  \A condition \in BOOLEAN : Cardinality({l \in {1} : condition}) = IF condition THEN 1 ELSE 0
<1> SUFFICES ASSUME NEW condition \in BOOLEAN
             PROVE  Cardinality({l \in {1} : condition}) = IF condition THEN 1 ELSE 0
  OBVIOUS
<1>1. CASE condition
  <2>1. {l \in {1} : condition} = {1}
    BY <1>1
  <2>2. QED
    BY <1>1, <2>1, FS_Singleton
<1>2. CASE ~condition
  <2>1. {l \in {1} : condition} = {}
    BY <1>2
  <2>2. QED
    BY <1>2, <2>1, FS_EmptySet
<1>3. QED
  BY <1>1, <1>2

\* The deadline is on the Build or reported.
LEMMA DeadlineStep ==
  ASSUME ConverterInv, SpecInv, Proceed, Past("deadline")'
  PROVE  DeadlineSettled'
<1>0. bc' = bc
  BY ProceedFacts DEF fixed
<1>1. CASE Past("deadline")
  <2>1. b'.timeout = b.timeout
    BY <1>1, PastIsOver, FieldsStay DEF Calls, Steps
  <2>2. QED
    BY <1>0, <1>1, <2>1, OwnKeeps DEF SpecInv, DeadlineSettled
<1>2. CASE step = "deadline"
  <2> DEFINE usable == bc.deadline # <<>> /\ UsableDeadline(bc.deadline[1])
  <2>1. /\ b' = IF usable THEN [b EXCEPT !.timeout = <<Wrap(bc.deadline[1] * Second)>>] ELSE b
        /\ Warn(If(bc.deadline # <<>> /\ ~usable, Warning("deadline", bc.name)))
    BY <1>2, ActionAtStep DEF ProcessCompletionDeadline
  <2>2. usable => b'.timeout # <<>>
    BY <2>1 DEF ConverterInv, TypeOK, EmptyBuild
  <2> HIDE DEF usable
  <2>3. bc.deadline # <<>> /\ ~usable => MentionsKind(Own', "deadline")
    BY <2>1, WarnsIf
  <2>4. QED
    BY <1>0, <2>2, <2>3 DEF DeadlineSettled
<1>3. QED
  BY <1>1, <1>2, Onward DEF Calls, Steps

\* Where a call that is not a loop is still ahead after the step, it was before.
LEMMA NotYet ==
  ASSUME ConverterInv, Proceed, NEW call \in Calls, call \notin Loops,
         step' \in Calls, Place(step') <= Place(call)
  PROVE  step \in Calls /\ Place(step) <= Place(call) /\ step # call
<1>1. step \in Calls /\ step # "idle" /\ step' # "idle"
  BY ProceedFacts DEF ConverterInv, TypeOK, Calls
<1>2. Place(step) \in 1..19 /\ Place(step') \in 1..19 /\ Place(call) \in 1..19
  BY <1>1, PlaceValues
<1>3. ~GivesUp /\ ~Classify
  BY <1>1 DEF GivesUp, Classify
<1>4. CASE Iterates
  BY <1>1, <1>4 DEF Iterates
<1>5. CASE HandsOver
  <2>1. Place(step) < Place(step')
    BY <1>2, <1>5, PlaceValues DEF HandsOver
  <2>2. QED
    BY <1>1, <1>2, <2>1
<1>6. QED
  BY <1>3, <1>4, <1>5, StepAdvances

\* Nothing selects nodes before the node selector's call.
LEMMA NodeSelectorFresh ==
  ASSUME ConverterInv, SpecInv, Proceed, step' \in Calls, Place(step') <= Place("nodeSelector")
  PROVE  b'.nodeSelector = {}
<1>1. step \in Calls /\ Place(step) <= Place("nodeSelector") /\ step # "nodeSelector"
  BY NotYet DEF Calls, Steps, Loops
<1>2. CASE step = "skeleton"
  BY <1>2, ActionAtStep DEF MakeSkeleton, EmptyBuild
<1>3. CASE step # "skeleton"
  BY <1>1, <1>3, FieldsStay DEF SpecInv
<1>4. QED
  BY <1>2, <1>3

\* The node selector is on the Build, or left out whole and reported.
LEMMA NodeSelectorStep ==
  ASSUME ConverterInv, SpecInv, Proceed, Past("nodeSelector")'
  PROVE  NodeSelectorSettled'
<1>0. bc' = bc
  BY ProceedFacts DEF fixed
<1>1. CASE Past("nodeSelector")
  <2>1. b'.nodeSelector = b.nodeSelector
    BY <1>1, PastIsOver, FieldsStay DEF Calls, Steps
  <2>2. QED
    BY <1>0, <1>1, <2>1, OwnKeeps DEF SpecInv, NodeSelectorSettled
<1>2. CASE step = "nodeSelector"
  <2>1. /\ b' = IF ValidNodeSelector THEN [b EXCEPT !.nodeSelector = bc.nodeSelector] ELSE b
        /\ Warn(If(~ValidNodeSelector, Warning("nodeSelector", bc.name)))
    BY <1>2, ActionAtStep DEF ProcessNodeSelector
  <2>2. b.nodeSelector = {}
    BY <1>2, PlaceValues DEF SpecInv, Calls, Steps
  <2>3. ValidNodeSelector => b'.nodeSelector = bc.nodeSelector
    BY <2>1 DEF ConverterInv, TypeOK, EmptyBuild
  <2>4. ~ValidNodeSelector => MentionsKind(Own', "nodeSelector")
    BY <2>1, WarnsIf
  <2>5. QED
    BY <1>0, <2>1, <2>2, <2>3, <2>4 DEF NodeSelectorSettled
<1>3. QED
  BY <1>1, <1>2, Onward DEF Calls, Steps

\* A run policy other than Parallel is reported.
LEMMA RunPolicyStep ==
  ASSUME ConverterInv, SpecInv, Proceed, Past("runPolicy")'
  PROVE  RunPolicySettled'
<1>0. bc' = bc
  BY ProceedFacts DEF fixed
<1>1. CASE Past("runPolicy")
  BY <1>0, <1>1, OwnKeeps DEF SpecInv, RunPolicySettled
<1>2. CASE step = "runPolicy"
  <2>1. Warn(If(bc.runPolicy # "Parallel", Warning("run policy", bc.name)))
    BY <1>2, ActionAtStep DEF ProcessRunPolicy
  <2>2. QED
    BY <1>0, <2>1, WarnsIf DEF RunPolicySettled
<1>3. QED
  BY <1>1, <1>2, Onward DEF Calls, Steps

\* A hook is reported.
LEMMA PostCommitStep ==
  ASSUME ConverterInv, SpecInv, Proceed, Past("postCommit")'
  PROVE  PostCommitSettled'
<1>0. bc' = bc
  BY ProceedFacts DEF fixed
<1>1. CASE Past("postCommit")
  BY <1>0, <1>1, OwnKeeps DEF SpecInv, PostCommitSettled
<1>2. CASE step = "postCommit"
  <2> DEFINE hook == Warning("postCommit", bc.name)
             dropped == If(bc.postCommit # {}, hook)
             both == If({"script", "command"} \subseteq bc.postCommit,
                        Warning("postCommit script and command", bc.name))
  <2>1. Warn(dropped \o both)
    BY <1>2, ActionAtStep DEF ProcessPostCommit
  <2>2. IsSequence(dropped) /\ IsSequence(both)
    BY AppendedSequences
  <2>3. bc.postCommit # {} => MentionsKind(dropped, "postCommit")
    <3>1. hook.kind = "postCommit"
      BY DEF Warning
    <3>2. bc.postCommit # {} => dropped = <<hook>>
      BY DEF If
    <3> HIDE DEF dropped, hook
    <3>3. QED
      BY <3>1, <3>2, MentionsShort
  <2> HIDE DEF dropped, both
  <2>4. IsSequence(dropped \o both)
    BY <2>2, ConcatPositions DEF Concatenates
  <2>5. bc.postCommit # {} => MentionsKind(dropped \o both, "postCommit")
    BY <2>2, <2>3, MentionsConcat
  <2>6. QED
    BY <1>0, <2>1, <2>4, <2>5, OwnGrows DEF PostCommitSettled
<1>3. QED
  BY <1>1, <1>2, Onward DEF Calls, Steps

\* A history limit is warned about exactly when it is left out.
LEMMA LimitSettles ==
  ASSUME NEW limit
  PROVE  /\ IsSequence(LimitWarning(limit))
         /\ Tally(LimitWarning(limit), {"history limit"})
              = Cardinality({l \in {1} : limit # ResolveRetentionLimit(limit)})
<1> DEFINE w == Warning("history limit", bc.name)
           kinds == {"history limit"}
<1>1. IsSequence(LimitWarning(limit))
  BY AppendedSequences DEF LimitWarning
<1>2. w.kind \in kinds
  BY DEF Warning
<1>3. CASE limit # <<>> /\ ~UsableLimit(limit[1])
  <2>1. LimitWarning(limit) = <<w>> /\ limit # ResolveRetentionLimit(limit)
    BY <1>3 DEF LimitWarning, ResolveRetentionLimit, If
  <2>2. {l \in {1} : limit # ResolveRetentionLimit(limit)} = {1}
    BY <2>1
  <2> HIDE DEF w, kinds
  <2>3. Tally(<<w>>, kinds) = 1
    BY <1>2, TallyShort
  <2>4. QED
    BY <1>1, <2>1, <2>2, <2>3, FS_Singleton DEF kinds
<1>4. CASE ~(limit # <<>> /\ ~UsableLimit(limit[1]))
  <2>1. LimitWarning(limit) = <<>> /\ limit = ResolveRetentionLimit(limit)
    BY <1>4 DEF LimitWarning, ResolveRetentionLimit, If
  <2>2. {l \in {1} : limit # ResolveRetentionLimit(limit)} = {}
    BY <2>1
  <2>3. QED
    BY <1>1, <2>1, <2>2, TallyShort, FS_EmptySet
<1>5. QED
  BY <1>3, <1>4

\* There is one warning for each history limit left out.
LEMMA HistoryStep ==
  ASSUME ConverterInv, WarnedSoFar, SpecInv, Proceed, Past("history")'
  PROVE  HistorySettled'
<1>0. bc' = bc
  BY ProceedFacts DEF fixed
<1>1. CASE Past("history")
  <2>1. /\ step # "history"
        /\ b'.succeededLimit = b.succeededLimit /\ b'.failedLimit = b.failedLimit
    BY <1>1, PastIsOver, FieldsStay DEF Calls, Steps
  <2>2. Tally(Own', {"history limit"}) = Tally(Own, {"history limit"})
    BY <2>1, CountedKinds, OthersKeep
  <2>3. LimitsLeftOut' = LimitsLeftOut
    BY <1>0, <2>1 DEF LimitsLeftOut
  <2>4. QED
    BY <1>1, <2>2, <2>3 DEF SpecInv, HistorySettled
<1>2. CASE step = "history"
  <2> DEFINE succeeded == LimitWarning(bc.succeededLimit)
             failed == LimitWarning(bc.failedLimit)
             kinds == {"history limit"}
  <2>1. /\ b'.succeededLimit = ResolveRetentionLimit(bc.succeededLimit)
        /\ b'.failedLimit = ResolveRetentionLimit(bc.failedLimit)
        /\ Warn(succeeded \o failed)
    BY <1>2, ActionAtStep DEF ProcessBuildsHistoryLimits, ConverterInv, TypeOK, EmptyBuild
  <2>2. IsSequence(succeeded) /\ IsSequence(failed)
    BY LimitSettles
  <2>3. LimitsLeftOut' = Tally(succeeded, kinds) + Tally(failed, kinds)
    BY <1>0, <2>1, LimitSettles DEF LimitsLeftOut
  <2>4. Tally(Own, kinds) = 0
    BY <1>2, CountedKinds, NothingYet DEF Calls, Steps, Loops
  <2> HIDE DEF succeeded, failed, kinds
  <2>5. /\ IsSequence(succeeded \o failed)
        /\ Tally(succeeded \o failed, kinds) = Tally(succeeded, kinds) + Tally(failed, kinds)
    BY <2>2, TallyConcat, ConcatPositions DEF Concatenates
  <2>6. Tally(Own', kinds) = 0 + (Tally(succeeded, kinds) + Tally(failed, kinds))
    BY <2>1, <2>4, <2>5, OwnGrows
  <2>7. Tally(succeeded, kinds) \in Nat /\ Tally(failed, kinds) \in Nat
    BY <2>2, TallyFinite
  <2>8. Tally(Own', kinds) = LimitsLeftOut'
    BY <2>3, <2>6, <2>7
  <2>9. QED
    BY <2>8 DEF HistorySettled, kinds
<1>3. QED
  BY <1>1, <1>2, Onward DEF Calls, Steps

\* A trigger has a warning of one of the trigger kinds.
LEMMA TriggerWarningKind ==
  \A trigger : TriggerWarning(trigger).kind \in TriggerKinds
BY DEF TriggerWarning, TriggerKinds, Warning

\* Every trigger has a warning of its own and is preserved in the annotation.
LEMMA TriggersStep ==
  ASSUME ConverterInv, WarnedSoFar, SpecInv, Proceed, Past("triggers")'
  PROVE  TriggersSettled'
<1>0. bc' = bc
  BY ProceedFacts DEF fixed
<1>1. CASE Past("triggers")
  <2>1. step # "triggers" /\ step # "skeleton" /\ step \in Calls
        /\ Place("triggers") < Place(step)
    BY <1>1, PastIsOver DEF Calls, Steps
  <2>2. Tally(Own', TriggerKinds) = Tally(Own, TriggerKinds)
    BY <2>1, CountedKinds, OthersKeep
  <2>3. TriggersAnnotation \notin AnnotationsAt(step)
    BY <2>1, KeysDiffer DEF AnnotationsAt
  <2>4. /\ TriggersAnnotation \in DOMAIN b.annotations =>
             /\ TriggersAnnotation \in DOMAIN b'.annotations
             /\ b'.annotations[TriggersAnnotation] = b.annotations[TriggersAnnotation]
    BY <2>1, <2>3, AnnotationsStay
  <2>5. TriggersSettled
    BY <1>1 DEF SpecInv
  <2>6. QED
    BY <1>0, <2>2, <2>4, <2>5 DEF TriggersSettled
<1>2. CASE step = "triggers"
  <2> DEFINE each == [k \in DOMAIN bc.triggers |-> TriggerWarning(bc.triggers[k])]
             w == Warning("triggers found", bc.name)
             found == If(bc.triggers # <<>>, w)
  <2>1. Warn(each \o found)
    BY <1>2, ActionAtStep DEF ProcessTriggers
  <2>2. bc.triggers # <<>> =>
          /\ TriggersAnnotation \in DOMAIN b'.annotations
          /\ b'.annotations[TriggersAnnotation] = [triggers |-> bc.triggers]
    <3>1. ASSUME bc.triggers # <<>>
          PROVE  b'.annotations =
                   With(b.annotations, TriggersAnnotation, [triggers |-> bc.triggers])
      BY <1>2, <3>1, ActionAtStep DEF ProcessTriggers, ConverterInv, TypeOK, EmptyBuild
    <3>2. QED
      BY <3>1 DEF With
  <2>3. bc.triggers \in Seq(Trigger)
    BY ProceedFacts DEF IsBuildConfig
  <2>4. Tally(Own, TriggerKinds) = 0
    BY <1>2, CountedKinds, NothingYet DEF Calls, Steps, Loops
  <2>5. IsSequence(found) /\ Tally(found, TriggerKinds) = 0
    <3>1. w.kind \notin TriggerKinds
      BY DEF Warning, TriggerKinds
    <3>2. found \in {<<>>, <<w>>}
      BY DEF If
    <3> HIDE DEF w, found
    <3>3. QED
      BY <3>1, <3>2, TallyShort, AppendedSequences
  <2>6. IsSequence(each) /\ Tally(each, TriggerKinds) = Len(bc.triggers)
    <3>1. /\ Len(bc.triggers) \in Nat /\ DOMAIN bc.triggers = 1..Len(bc.triggers)
          /\ DOMAIN each = DOMAIN bc.triggers
      BY <2>3
    <3> DEFINE S == {TriggerWarning(bc.triggers[k]) : k \in DOMAIN bc.triggers}
    <3>2. each \in Seq(S) /\ Len(each) = Len(bc.triggers)
      <4>1. each \in [1..Len(bc.triggers) -> S]
        BY <3>1
      <4> HIDE DEF each, S
      <4>2. QED
        BY <3>1, <4>1
    <3>3. \A k \in DOMAIN each : each[k].kind \in TriggerKinds
      BY TriggerWarningKind
    <3> HIDE DEF each, S
    <3>4. IsSequence(each)
      BY <3>2 DEF IsSequence
    <3>5. QED
      BY <3>2, <3>3, <3>4, TallyAll
  <2> HIDE DEF each, found
  <2>a. IsSequence(each \o found)
    BY <2>5, <2>6, ConcatPositions DEF Concatenates
  <2>b. Tally(each \o found, TriggerKinds)
          = Tally(each, TriggerKinds) + Tally(found, TriggerKinds)
    BY <2>5, <2>6, TallyConcat
  <2>7. /\ IsSequence(each \o found)
        /\ Tally(each \o found, TriggerKinds) = Len(bc.triggers) + 0
    BY <2>5, <2>6, <2>a, <2>b
  <2>8. Tally(Own', TriggerKinds) = 0 + (Len(bc.triggers) + 0)
    BY <2>1, <2>4, <2>7, OwnGrows
  <2>9. Tally(Own', TriggerKinds) = Len(bc.triggers)
    BY <2>3, <2>8
  <2>10. QED
    BY <1>0, <2>2, <2>9 DEF TriggersSettled
<1>3. QED
  BY <1>1, <1>2, Onward DEF Calls, Steps

\* Requests and limits are warned about once.
LEMMA ResourcesStep ==
  ASSUME ConverterInv, WarnedSoFar, SpecInv, Proceed, Past("resources")'
  PROVE  ResourcesSettled'
<1>0. bc' = bc
  BY ProceedFacts DEF fixed
<1>1. CASE Past("resources")
  <2>1. step # "resources"
    BY <1>1, PastIsOver DEF Calls, Steps
  <2>2. Tally(Own', ResourceKinds) = Tally(Own, ResourceKinds)
    BY <2>1, CountedKinds, OthersKeep
  <2>3. QED
    BY <1>0, <1>1, <2>2 DEF SpecInv, ResourcesSettled
<1>2. CASE step = "resources"
  <2> DEFINE w == Warning(IF StepNames = <<>> THEN "step names unknown"
                          ELSE "resources in template", bc.name)
             ws == If(bc.resources, w)
  <2>1. Warn(ws)
    BY <1>2, ActionAtStep DEF ProcessResources
  <2>2. Tally(Own, ResourceKinds) = 0
    BY <1>2, CountedKinds, NothingYet DEF Calls, Steps, Loops
  <2>3. w.kind \in ResourceKinds
    BY DEF Warning, ResourceKinds
  <2>4. bc.resources => ws = <<w>>
    BY DEF If
  <2> HIDE DEF w, ws
  <2>5. ASSUME bc.resources
        PROVE  Tally(Own', ResourceKinds) = 1
    <3>1. Tally(<<w>>, ResourceKinds) = 1 /\ IsSequence(<<w>>)
      BY <2>3, TallyShort, AppendedSequences
    <3>2. Tally(Own', ResourceKinds) = 0 + 1
      BY <2>1, <2>2, <2>4, <2>5, <3>1, OwnGrows
    <3>3. QED
      BY <3>2
  <2>6. QED
    BY <1>0, <2>5 DEF ResourcesSettled
<1>3. QED
  BY <1>1, <1>2, Onward DEF Calls, Steps

\* Every step of Convert's body keeps the promises about the rest of the spec.
LEMMA SpecStep ==
  ASSUME ConverterInv, WarnedSoFar, SpecInv, Proceed
  PROVE  SpecInv'
BY DeadlineStep, NodeSelectorFresh, NodeSelectorStep, RunPolicyStep, PostCommitStep,
   HistoryStep, TriggersStep, ResourcesStep DEF SpecInv

\* Where nothing moves, whatever was settled is.
LEMMA NothingMoves ==
  ASSUME UNCHANGED vars
  PROVE  /\ Own' = Own /\ b' = b /\ bc' = bc /\ step' = step /\ item' = item
         /\ outcome' = outcome
         /\ \A call \in Calls : Past(call)' <=> Past(call)
BY DEF vars, Own, Past, Converted, Concluded

\* What the theorems about one conversion build on.
LEMMA Background ==
  Spec => [](ConverterInv /\ ConversionInv /\ WarnedSoFar)
<1>1. Init => ConversionInv /\ WarnedSoFar
  BY InitiallyNothing, NothingWarned
<1>2. ASSUME ConverterInv, ConversionInv, WarnedSoFar, [Next]_vars
      PROVE  ConversionInv' /\ WarnedSoFar'
  <2>1. ConversionInv'
    BY <1>2, ConversionInductive
  <2>2. CASE Proceed
    BY <1>2, <2>1, <2>2, ProceedWarns
  <2>3. ASSUME NEW c \in SourceConfigs, Convert(c)
        PROVE  WarnedSoFar'
    BY <1>2, <2>3, NothingWarned
  <2>4. CASE UNCHANGED vars
    BY <1>2, <2>1, <2>4, NothingMoves DEF WarnedSoFar
  <2>5. QED
    BY <1>2, <2>1, <2>2, <2>3, <2>4 DEF Next
<1>3. QED
  BY <1>1, <1>2, Invariance, PTL DEF Spec

\* A new Converter and a new conversion owe nothing yet.
LEMMA SpecStarts ==
  /\ Init => SpecInv
  /\ \A c \in SourceConfigs : Convert(c) => SpecInv'
<1>1. Init => step = "idle"
  BY DEF Init
<1>2. EmptyBuild.nodeSelector = {}
  BY DEF EmptyBuild
<1>3. \A c \in SourceConfigs : Convert(c) => b' = EmptyBuild
  BY DEF Convert
<1>4. {"deadline", "nodeSelector", "runPolicy", "postCommit", "history", "triggers",
       "resources"} \subseteq Calls
  BY DEF Calls, Steps
<1>5. QED
  BY <1>1, <1>2, <1>3, <1>4, NothingPast DEF SpecInv, Calls

\* Where nothing moves, nothing is owed that was not.
LEMMA SpecStutters ==
  ASSUME SpecInv, UNCHANGED vars
  PROVE  SpecInv'
<1>1. {"deadline", "nodeSelector", "runPolicy", "postCommit", "history", "triggers",
       "resources"} \subseteq Calls
  BY DEF Calls, Steps
<1>2. Own' = Own /\ b' = b /\ bc' = bc /\ step' = step
  BY NothingMoves
<1>3. /\ DeadlineSettled' <=> DeadlineSettled
      /\ NodeSelectorSettled' <=> NodeSelectorSettled
      /\ RunPolicySettled' <=> RunPolicySettled
      /\ PostCommitSettled' <=> PostCommitSettled
      /\ HistorySettled' <=> HistorySettled
      /\ TriggersSettled' <=> TriggersSettled
      /\ ResourcesSettled' <=> ResourcesSettled
  BY <1>2
  DEF DeadlineSettled, NodeSelectorSettled, RunPolicySettled, PostCommitSettled,
      HistorySettled, LimitsLeftOut, TriggersSettled, ResourcesSettled
<1>4. \A call \in Calls : Past(call)' <=> Past(call)
  BY NothingMoves
<1>5. QED
  BY <1>1, <1>2, <1>3, <1>4 DEF SpecInv

\* Of the deadline, the history limits, the node selector, the run policy, the
\* hook, the resources and the triggers, nothing is lost in silence, whatever
\* the BuildConfig: each is on the Build or in a warning, as often as it occurs.
THEOREM SpecLosses ==
  Spec => []SpecLossesDeclared
<1>1. Init => SpecInv
  BY SpecStarts
<1>2. ASSUME ConverterInv, WarnedSoFar, SpecInv, [Next]_vars
      PROVE  SpecInv'
  BY <1>2, SpecStep, SpecStarts, SpecStutters DEF Next
<1>3. ASSUME ConversionInv, SpecInv, Converted
      PROVE  SpecLossesDeclared
  <2>1. Build = b
    BY <1>3, ShippedResources
  <2>2. \A call \in Calls : Past(call)
    BY <1>3 DEF Past, Converted, Concluded
  <2>3. /\ DeadlineSettled /\ NodeSelectorSettled /\ RunPolicySettled /\ PostCommitSettled
        /\ HistorySettled /\ TriggersSettled /\ ResourcesSettled
    BY <1>3, <2>2 DEF SpecInv, Calls, Steps
  <2>4. /\ \A kind : RecordedKind(kind) <=> MentionsKind(Own, kind)
        /\ \A kinds : CountKinds(kinds) = Tally(Own, kinds)
    BY DEF RecordedKind, MentionsKind, CountKinds, Tally
  <2>5. QED
    BY <2>1, <2>3, <2>4
    DEF SpecLossesDeclared, DeadlineSettled, NodeSelectorSettled, RunPolicySettled,
        PostCommitSettled, HistorySettled, LimitsLeftOut, TriggersSettled, TriggerKinds,
        ResourcesSettled, ResourceKinds
<1>4. ConversionInv /\ SpecInv => SpecLossesDeclared
  BY <1>3 DEF SpecLossesDeclared
<1>5. QED
  BY <1>1, <1>2, <1>4, Background, PTL DEF Spec

-----------------------------------------------------------------------------
(* Loops *)

\* An iteration that has been made after the step had been made before it, or
\* is the one the step makes, or the step ends the loop or leaves it out.
LEMMA LoopOnward ==
  ASSUME ConverterInv, Proceed, NEW call \in Calls, NEW k \in Nat \ {0}, Reached(call, k)'
  PROVE  \/ Reached(call, k)
         \/ step = call /\ step' = call /\ item' = item + 1 /\ k = item
         \/ step = call /\ step' # call
         \/ step = "strategy" /\ call = "buildArgs" /\ (~HasBlock \/ bc.type = "Source")
         \/ step = "strategy" /\ call = "volumes" /\ ~HasBlock
<1>1. CASE Past(call)'
  BY <1>1, Onward DEF Reached
<1>2. CASE step' = call /\ k < item'
  <2>1. step' # "idle" /\ item \in Nat
    BY <1>2 DEF Calls, ConverterInv, TypeOK
  <2>2. Iterates \/ HandsOver
    BY <2>1, StepAdvances DEF GivesUp, Classify
  <2>3. ~HandsOver
    BY <1>2 DEF HandsOver
  <2>4. step = call /\ item' = item + 1
    BY <1>2, <2>2, <2>3 DEF Iterates
  <2>5. k < item \/ k = item
    BY <1>2, <2>1, <2>4
  <2>6. QED
    BY <1>2, <2>4, <2>5 DEF Reached
<1>3. QED
  BY <1>1, <1>2 DEF Reached

-----------------------------------------------------------------------------
(* Output *)

OutputSettled ==
  /\ bc.output.to.kind = "ImageStreamTag" /\ ~OnInternalRegistry(b.image) =>
       MentionsKind(Own, "output redirected")
  /\ b.pushSecret = Nil => MentionsKind(Own, "no push secret")

LabelSettled(label) ==
  \/ label.name \in DOMAIN b.imageLabels /\ b.imageLabels[label.name] = label.value
  \/ Mentions(Own, "image label overridden", label.name)
  \/ Mentions(Own, "image label skipped", label.name)

OutputInv ==
  /\ Past("output") => OutputSettled
  /\ \A k \in DOMAIN bc.output.labels :
       Reached("imageLabels", k) => LabelSettled(bc.output.labels[k])

\* The reference keeps its kind and its name when its namespace is defaulted.
LEMMA DefaultedReference ==
  ASSUME NEW ref \in ObjectReference
  PROVE  WithDefaultNamespace(ref).kind = ref.kind /\ WithDefaultNamespace(ref).name = ref.name
BY DEF WithDefaultNamespace, ObjectReference

\* A push that leaves the internal registry, and one without a credential, are
\* reported.
LEMMA OutputStep ==
  ASSUME ConverterInv, OutputInv, Proceed, Past("output")'
  PROVE  OutputSettled'
<1>0. bc' = bc
  BY ProceedFacts DEF fixed
<1>1. CASE Past("output")
  <2>1. b'.image = b.image /\ b'.pushSecret = b.pushSecret
    BY <1>1, PastIsOver, FieldsStay DEF Calls, Steps
  <2>2. QED
    BY <1>0, <1>1, <2>1, OwnKeeps DEF OutputInv, OutputSettled
<1>2. CASE step = "output"
  <2> DEFINE to == WithDefaultNamespace(bc.output.to)
             image == OutputImage(to.kind, to.name, to.ns, opts)
             isTag == to.kind = "ImageStreamTag"
             hasPushSecret == bc.output.pushSecret \notin {Nil, Empty}
             fallback == If(isTag /\ ~OutputIsMapped(to.ns, to.name, opts),
                            Warning("output fallback", to.name))
             leaves == isTag /\ ~OnInternalRegistry(image)
             redirected == If(leaves, Warning("output redirected", to.name))
             unsecured == If(~hasPushSecret, Warning("no push secret", bc.name))
  <2>1. /\ b' = [b EXCEPT !.image = image,
                          !.pushSecret = IF hasPushSecret THEN bc.output.pushSecret ELSE Nil]
        /\ Warn(fallback \o redirected \o unsecured)
    BY <1>2, ActionAtStep DEF ProcessOutput
  <2>2. b'.image = image /\ (b'.pushSecret = Nil => ~hasPushSecret)
    BY <2>1 DEF ConverterInv, TypeOK, EmptyBuild
  <2>3. isTag <=> bc.output.to.kind = "ImageStreamTag"
    <3>1. bc.output.to \in ObjectReference
      BY ProceedFacts DEF IsBuildConfig, BuildOutput
    <3>2. QED
      BY <3>1, DefaultedReference
  <2>4. leaves => MentionsKind(redirected, "output redirected")
    <3> DEFINE w == Warning("output redirected", to.name)
    <3>1. w.kind = "output redirected"
      BY DEF Warning
    <3>2. leaves => redirected = <<w>>
      BY DEF If
    <3> HIDE DEF w, redirected, leaves
    <3>3. MentionsKind(<<w>>, "output redirected")
      BY <3>1, MentionsShort
    <3>4. QED
      BY <3>2, <3>3
  <2>5. ~hasPushSecret => MentionsKind(unsecured, "no push secret")
    <3> DEFINE w == Warning("no push secret", bc.name)
    <3>1. w.kind = "no push secret"
      BY DEF Warning
    <3>2. ~hasPushSecret => unsecured = <<w>>
      BY DEF If
    <3> HIDE DEF w, unsecured, hasPushSecret
    <3>3. MentionsKind(<<w>>, "no push secret")
      BY <3>1, MentionsShort
    <3>4. QED
      BY <3>2, <3>3
  <2>6. IsSequence(fallback) /\ IsSequence(redirected) /\ IsSequence(unsecured)
    BY AppendedSequences
  <2>7. leaves <=> isTag /\ ~OnInternalRegistry(image)
    OBVIOUS
  <2> HIDE DEF fallback, redirected, unsecured, leaves, isTag, image, hasPushSecret
  <2>8. IsSequence(fallback \o redirected) /\ IsSequence(fallback \o redirected \o unsecured)
    BY <2>6, ConcatPositions DEF Concatenates
  <2>9. \A kind : MentionsKind(redirected, kind) \/ MentionsKind(unsecured, kind) =>
          MentionsKind(fallback \o redirected \o unsecured, kind)
    BY <2>6, <2>8, MentionsConcat
  <2>10. \A kind : MentionsKind(redirected, kind) \/ MentionsKind(unsecured, kind) =>
           MentionsKind(Own', kind)
    BY <2>1, <2>8, <2>9, OwnGrows
  <2>11. QED
    BY <1>0, <2>2, <2>3, <2>4, <2>5, <2>7, <2>10 DEF OutputSettled
<1>3. QED
  BY <1>1, <1>2, Onward DEF Calls, Steps

\* A label that was settled stays so, until another value replaces it with a
\* warning.
LEMMA LabelStaysSettled ==
  ASSUME ConverterInv, Proceed, step # "skeleton", NEW label, LabelSettled(label)
  PROVE  LabelSettled(label)'
<1>1. CASE step # "imageLabels"
  BY <1>1, FieldsStay, OwnKeeps DEF LabelSettled
<1>2. CASE FinishOutput
  BY <1>2, OwnKeeps DEF FinishOutput, LabelSettled
<1>3. CASE ConvertImageLabel
  <2> DEFINE next == bc.output.labels[item]
  <2>1. /\ b' = IF next.name = Empty THEN b
                ELSE [b EXCEPT !.imageLabels = With(@, next.name, next.value)]
        /\ Warn(ImageLabelWarnings(next))
    BY <1>3 DEF ConvertImageLabel
  <2>2. \/ b'.imageLabels = b.imageLabels
        \/ /\ next.name # Empty
           /\ b'.imageLabels = With(b.imageLabels, next.name, next.value)
    BY <2>1 DEF ConverterInv, TypeOK, EmptyBuild
  <2> HIDE DEF next
  <2>3. ASSUME label.name \in DOMAIN b.imageLabels, b.imageLabels[label.name] = label.value,
               b'.imageLabels[label.name] # label.value, next.name # Empty,
               b'.imageLabels = With(b.imageLabels, next.name, next.value)
        PROVE  Mentions(Own', "image label overridden", label.name)
    <3>1. next.name = label.name /\ next.value # label.value
      BY <2>3 DEF With
    <3>2. ImageLabelConflicts(next)
      BY <2>3, <3>1 DEF ImageLabelConflicts
    <3>3. Warn(If(ImageLabelConflicts(next), Warning("image label overridden", label.name)))
      BY <2>1, <2>3, <3>1 DEF ImageLabelWarnings
    <3>4. QED
      BY <3>2, <3>3, WarnsIf
  <2>4. CASE b'.imageLabels = b.imageLabels
    BY <2>4, OwnKeeps DEF LabelSettled
  <2>5. CASE next.name # Empty /\ b'.imageLabels = With(b.imageLabels, next.name, next.value)
    <3>1. DOMAIN b.imageLabels \subseteq DOMAIN b'.imageLabels
      BY <2>5 DEF With
    <3>2. QED
      BY <2>3, <2>5, <3>1, OwnKeeps DEF LabelSettled
  <2>6. QED
    BY <2>2, <2>4, <2>5
<1>4. QED
  BY <1>1, <1>2, <1>3, ActionAtStep

\* The label of an iteration is settled by it.
LEMMA LabelSettles ==
  ASSUME ConverterInv, ConvertImageLabel, Proceed,
         NEW next, next = bc.output.labels[item]
  PROVE  LabelSettled(next)'
<1>1. /\ b' = IF next.name = Empty THEN b
              ELSE [b EXCEPT !.imageLabels = With(@, next.name, next.value)]
      /\ Warn(ImageLabelWarnings(next))
  BY DEF ConvertImageLabel
<1>2. next.name # Empty => b'.imageLabels = With(b.imageLabels, next.name, next.value)
  BY <1>1 DEF ConverterInv, TypeOK, EmptyBuild
<1>3. CASE next.name # Empty
  BY <1>2, <1>3 DEF LabelSettled, With
<1>4. CASE next.name = Empty
  <2>1. Warn(If(TRUE, Warning("image label skipped", next.name)))
    BY <1>1, <1>4 DEF ImageLabelWarnings, If
  <2>2. Mentions(Own', "image label skipped", next.name)
    BY <2>1, WarnsIf
  <2>3. QED
    BY <2>2 DEF LabelSettled
<1>5. QED
  BY <1>3, <1>4

\* Every label behind the loop is settled.
LEMMA LabelsStep ==
  ASSUME ConverterInv, OutputInv, Proceed,
         NEW k \in DOMAIN bc.output.labels, Reached("imageLabels", k)'
  PROVE  LabelSettled(bc.output.labels[k])'
<1>0. bc' = bc /\ step # "idle" /\ item \in Nat
  BY ProceedFacts DEF fixed, ConverterInv, TypeOK
<1>1. bc.output.labels \in Seq(ImageLabel)
  BY ProceedFacts DEF IsBuildConfig, BuildOutput
<1>2. /\ Len(bc.output.labels) \in Nat
      /\ k \in 1..Len(bc.output.labels) /\ k \in Nat \ {0}
  BY <1>1
<1>3. PICK label : label = bc.output.labels[k]
  OBVIOUS
<1>4. CASE Reached("imageLabels", k)
  <2>1. step # "skeleton"
    BY <1>0, <1>4, PastIsOver DEF Reached, Calls, Steps
  <2>2. LabelSettled(label)
    BY <1>3, <1>4 DEF OutputInv
  <2>3. LabelSettled(label)'
    BY <2>1, <2>2, LabelStaysSettled
  <2>4. QED
    BY <1>0, <1>3, <2>3 DEF LabelSettled
<1>5. CASE step = "imageLabels" /\ step' = "imageLabels" /\ item' = item + 1 /\ k = item
  <2>1. ConvertImageLabel
    BY <1>5, ActionAtStep DEF FinishOutput, Continue
  <2>2. LabelSettled(label)'
    BY <1>3, <1>5, <2>1, LabelSettles
  <2>3. QED
    BY <1>0, <1>3, <2>2 DEF LabelSettled
<1>6. CASE step = "imageLabels" /\ step' # "imageLabels"
  <2>1. FinishOutput
    BY <1>6, ActionAtStep DEF ConvertImageLabel, Repeat
  <2>2. k < item
    BY <1>0, <1>2, <2>1 DEF FinishOutput
  <2>3. QED
    BY <1>4, <1>6, <2>2 DEF Reached
<1>7. QED
  BY <1>2, <1>4, <1>5, <1>6, LoopOnward DEF Calls, Steps

\* A new Converter and a new conversion owe nothing about the output.
LEMMA OutputStarts ==
  /\ Init => OutputInv
  /\ \A c \in SourceConfigs : Convert(c) => OutputInv'
<1>1. /\ Init => step = "idle"
      /\ \A c \in SourceConfigs : Convert(c) => step' = "skeleton"
  BY DEF Init, Convert
<1>2. "output" \in Calls /\ "imageLabels" \in Calls
  BY DEF Calls, Steps
<1>3. QED
  BY <1>1, <1>2, NothingPast DEF OutputInv, Reached

\* Where nothing moves, nothing is owed about the output that was not.
LEMMA OutputStutters ==
  ASSUME OutputInv, UNCHANGED vars
  PROVE  OutputInv'
<1>1. Own' = Own /\ b' = b /\ bc' = bc /\ step' = step /\ item' = item
  BY NothingMoves
<1>2. /\ OutputSettled' <=> OutputSettled
      /\ \A k \in DOMAIN bc.output.labels :
           LabelSettled(bc.output.labels[k])' <=> LabelSettled(bc.output.labels[k])
  BY <1>1 DEF OutputSettled, LabelSettled
<1>3. "output" \in Calls /\ "imageLabels" \in Calls
  BY DEF Calls, Steps
<1>4. /\ Past("output")' <=> Past("output")
      /\ \A k : Reached("imageLabels", k)' <=> Reached("imageLabels", k)
  BY <1>1, <1>3, NothingMoves DEF Reached
<1>5. QED
  BY <1>1, <1>2, <1>4 DEF OutputInv

\* Whatever the image labels, their order and their repetitions, each is on the
\* Build with its value or in a warning; a push that leaves the internal
\* registry and one without a credential are reported (processOutput,
\* resolveOutputImage and the loop over imageLabels; BUILD-2316).
THEOREM OutputLosses ==
  Spec => []OutputLossesDeclared
<1>1. Init => OutputInv
  BY OutputStarts
<1>2. ASSUME ConverterInv, OutputInv, [Next]_vars
      PROVE  OutputInv'
  <2>1. CASE Proceed
    <3>1. bc' = bc
      BY <2>1, ProceedFacts, <1>2 DEF fixed
    <3>2. Past("output")' => OutputSettled'
      BY <1>2, <2>1, OutputStep
    <3>3. ASSUME NEW k \in DOMAIN bc.output.labels, Reached("imageLabels", k)'
          PROVE  LabelSettled(bc.output.labels[k])'
      BY <1>2, <2>1, <3>3, LabelsStep
    <3>4. QED
      BY <3>1, <3>2, <3>3 DEF OutputInv
  <2>2. QED
    BY <1>2, <2>1, OutputStarts, OutputStutters DEF Next
<1>3. ASSUME ConversionInv, OutputInv, Converted
      PROVE  OutputLossesDeclared
  <2>1. Build = b
    BY <1>3, ShippedResources
  <2>2. \A call \in Calls : Past(call)
    BY <1>3 DEF Past, Converted, Concluded
  <2>3. OutputSettled /\ \A k \in DOMAIN bc.output.labels : LabelSettled(bc.output.labels[k])
    BY <1>3, <2>2 DEF OutputInv, Reached, Calls, Steps
  <2>4. /\ \A kind : RecordedKind(kind) <=> MentionsKind(Own, kind)
        /\ \A kind, about : Recorded(kind, about) <=> Mentions(Own, kind, about)
    BY DEF RecordedKind, MentionsKind, Recorded, Mentions
  <2>5. QED
    BY <2>1, <2>3, <2>4 DEF OutputLossesDeclared, OutputSettled, LabelSettled
<1>4. ConversionInv /\ OutputInv => OutputLossesDeclared
  BY <1>3 DEF OutputLossesDeclared
<1>5. QED
  BY <1>1, <1>2, <1>4, Background, PTL DEF Spec

-----------------------------------------------------------------------------
(* Source *)

SourceCounts == {"no source", "source configMap", "source mount secret"}

ImageSettled(image) ==
  /\ image.as => Mentions(Own, "image as", image.from.name)
  /\ image.paths => \/ Mentions(Own, "image paths", image.from.name)
                    \/ Mentions(Own, "image paths, run order", image.from.name)

SourceSettled ==
  /\ b.source.type = "none" <=> MentionsKind(Own, "no source")
  /\ bc.source.secret \notin {Nil, Empty} =>
       b.source.secret = bc.source.secret \/ Mentions(Own, "source secret", bc.source.secret)
  /\ b.source.type # "none" =>
       /\ b.source.contextDir = bc.source.contextDir
       /\ Tally(Own, {"source configMap"}) = Len(bc.source.configMaps)
       /\ Tally(Own, {"source mount secret"}) = Len(bc.source.secrets)
       /\ \A k \in DOMAIN bc.source.images : ImageSettled(bc.source.images[k])

DockerfileSettled == HasInlineDockerfile => MentionsKind(Own, "inline dockerfile")

SourceInv ==
  /\ step \in Calls /\ Place(step) <= Place("source") => b.source.type = "none"
  /\ Past("dockerfile") => DockerfileSettled
  /\ Past("source") => SourceSettled

\* The kinds that the promises about the source count are the source's own.
LEMMA SourceKinds ==
  /\ RecordedOnlyBy("source", SourceCounts)
  /\ RecordedOnlyBy("source", {"source configMap"})
  /\ RecordedOnlyBy("source", {"source mount secret"})
BY KindWriters DEF RecordedOnlyBy, SourceCounts

\* The Build has no source before the source's call.
LEMMA SourceFresh ==
  ASSUME ConverterInv, SourceInv, Proceed, step' \in Calls, Place(step') <= Place("source")
  PROVE  b'.source.type = "none"
<1>1. step \in Calls /\ Place(step) <= Place("source") /\ step # "source"
  BY NotYet DEF Calls, Steps, Loops
<1>2. CASE step = "skeleton"
  <2>0. "source" \in DOMAIN EmptyBuild
    BY DEF EmptyBuild
  <2>1. b'.source = EmptyBuild.source
    BY <1>2, <2>0, ActionAtStep DEF MakeSkeleton
  <2>2. EmptyBuild.source.type = "none"
    BY DEF EmptyBuild, NoSource
  <2>3. QED
    BY <2>1, <2>2
<1>3. CASE step # "skeleton"
  BY <1>1, <1>3, FieldsStay DEF SourceInv
<1>4. QED
  BY <1>2, <1>3

\* An inline Dockerfile is reported, preserved or not.
LEMMA DockerfileStep ==
  ASSUME ConverterInv, SourceInv, Proceed, Past("dockerfile")'
  PROVE  DockerfileSettled'
<1>0. bc' = bc
  BY ProceedFacts DEF fixed
<1>1. CASE Past("dockerfile")
  BY <1>0, <1>1, OwnKeeps DEF SourceInv, DockerfileSettled, HasInlineDockerfile
<1>2. CASE step = "dockerfile"
  <2> DEFINE preserved == HasInlineDockerfile /\ bc.type = "Docker"
             renaming == IF preserved THEN RenameWarning(DockerfileOriginalName) ELSE <<>>
             w == Warning("inline dockerfile", bc.name)
             reported == If(HasInlineDockerfile, w)
  <2>1. Warn(renaming \o reported)
    BY <1>2, ActionAtStep DEF ProcessInlineDockerfile
  <2>2. IsSequence(renaming) /\ IsSequence(reported)
    BY AppendedSequences DEF RenameWarning
  <2>3. HasInlineDockerfile => reported = <<w>>
    BY DEF If
  <2>4. w.kind = "inline dockerfile"
    BY DEF Warning
  <2> HIDE DEF renaming, w, reported
  <2>5. IsSequence(renaming \o reported)
    BY <2>2, ConcatPositions DEF Concatenates
  <2>6. MentionsKind(<<w>>, "inline dockerfile")
    BY <2>4, MentionsShort
  <2>7. HasInlineDockerfile => MentionsKind(renaming \o reported, "inline dockerfile")
    BY <2>2, <2>3, <2>6, MentionsConcat
  <2>8. QED
    BY <1>0, <2>1, <2>5, <2>7, OwnGrows DEF DockerfileSettled, HasInlineDockerfile
<1>3. QED
  BY <1>1, <1>2, Onward DEF Calls, Steps

\* A function on the positions of a sequence, as a sequence of as many elements.
LEMMA OnPositions ==
  ASSUME NEW S, NEW s \in Seq(S), NEW f, DOMAIN f = DOMAIN s,
         f = [k \in DOMAIN f |-> f[k]]
  PROVE  IsSequence(f) /\ Len(f) = Len(s)
<1> DEFINE T == {f[k] : k \in DOMAIN f}
<1>1. DOMAIN s = 1..Len(s) /\ Len(s) \in Nat
  OBVIOUS
<1>2. f \in [1..Len(s) -> T]
  BY <1>1
<1> HIDE DEF T
<1>3. f \in Seq(T) /\ Len(f) = Len(s)
  BY <1>1, <1>2
<1>4. QED
  BY <1>3 DEF IsSequence

\* Nothing on top of a count.
LEMMA NothingAdded ==
  \A n \in Nat : n + 0 = n /\ 0 + n = n /\ 0 + (0 + n) = n
OBVIOUS

\* Source ConfigMaps and Secrets are reported one by one.
LEMMA MountsCounted ==
  ASSUME bc.source \in BuildSource
  PROVE  /\ IsSequence(MountWarnings)
         /\ Tally(MountWarnings, {"source configMap"}) = Len(bc.source.configMaps)
         /\ Tally(MountWarnings, {"source mount secret"}) = Len(bc.source.secrets)
         /\ ~MentionsKind(MountWarnings, "no source")
<1> DEFINE configMap(k) == Warning("source configMap", bc.source.configMaps[k])
           secret(k) == Warning("source mount secret", bc.source.secrets[k])
           configMaps == [k \in DOMAIN bc.source.configMaps |-> configMap(k)]
           secrets == [k \in DOMAIN bc.source.secrets |-> secret(k)]
<1>1. MountWarnings = configMaps \o secrets
  BY DEF MountWarnings
<1>2. bc.source.configMaps \in Seq(Text) /\ bc.source.secrets \in Seq(Text)
  BY DEF BuildSource
<1>3. /\ \A k \in DOMAIN configMaps : configMaps[k].kind = "source configMap"
      /\ \A k \in DOMAIN secrets : secrets[k].kind = "source mount secret"
  BY DEF Warning
<1>4. IsSequence(configMaps) /\ Len(configMaps) = Len(bc.source.configMaps)
  BY <1>2, OnPositions
<1>5. IsSequence(secrets) /\ Len(secrets) = Len(bc.source.secrets)
  BY <1>2, OnPositions
<1> HIDE DEF configMaps, secrets
<1>6. /\ Tally(configMaps, {"source configMap"}) = Len(bc.source.configMaps)
      /\ Tally(configMaps, {"source mount secret"}) = 0
  BY <1>3, <1>4, TallyAll, TallyNone
<1>7. /\ Tally(secrets, {"source mount secret"}) = Len(bc.source.secrets)
      /\ Tally(secrets, {"source configMap"}) = 0
  BY <1>3, <1>5, TallyAll, TallyNone
<1>8. ~MentionsKind(configMaps, "no source") /\ ~MentionsKind(secrets, "no source")
  BY <1>3 DEF MentionsKind
<1>9. /\ \A kinds : Tally(MountWarnings, kinds) = Tally(configMaps, kinds) + Tally(secrets, kinds)
      /\ ~MentionsKind(MountWarnings, "no source")
  BY <1>1, <1>4, <1>5, <1>8, TallyConcat, MentionsConcat
<1>10. Len(bc.source.configMaps) \in Nat /\ Len(bc.source.secrets) \in Nat
  BY <1>2
<1>11. IsSequence(MountWarnings)
  BY <1>1, <1>4, <1>5, ConcatPositions DEF Concatenates
<1>12. Tally(MountWarnings, {"source configMap"}) = Len(bc.source.configMaps) + 0
  BY <1>6, <1>7, <1>9
<1>13. Tally(MountWarnings, {"source mount secret"}) = 0 + Len(bc.source.secrets)
  BY <1>6, <1>7, <1>9
<1>14. /\ Tally(MountWarnings, {"source configMap"}) = Len(bc.source.configMaps)
       /\ Tally(MountWarnings, {"source mount secret"}) = Len(bc.source.secrets)
  BY <1>10, <1>12, <1>13, NothingAdded
<1>15. QED
  BY <1>9, <1>11, <1>14

\* A source that is on the Build is not said to be absent, and its mounts are
\* counted.
LEMMA SourceCounted ==
  ASSUME ConverterInv, WarnedSoFar, Proceed, step = "source", NEW ws, IsSequence(ws),
         \A k \in DOMAIN ws : ws[k].kind \notin SourceCounts,
         Warn(ws \o MountWarnings)
  PROVE  /\ ~MentionsKind(Own', "no source")
         /\ Tally(Own', {"source configMap"}) = Len(bc.source.configMaps)
         /\ Tally(Own', {"source mount secret"}) = Len(bc.source.secrets)
         /\ \A kind, about : Mentions(ws, kind, about) => Mentions(Own', kind, about)
<1>1. bc.source \in BuildSource
  BY ProceedFacts DEF IsBuildConfig
<1>2. IsSequence(MountWarnings) /\ IsSequence(ws \o MountWarnings)
  BY <1>1, MountsCounted, ConcatPositions DEF Concatenates
<1>3. step \in Calls /\ step \notin Loops /\ "source" \in Calls
  BY DEF Calls, Steps, Loops
<1>4. /\ ~MentionsKind(Own, "no source")
      /\ Tally(Own, {"source configMap"}) = 0
      /\ Tally(Own, {"source mount secret"}) = 0
  BY <1>3, SourceKinds, NothingYet DEF SourceCounts
<1>5. /\ ~MentionsKind(ws, "no source")
      /\ Tally(ws, {"source configMap"}) = 0
      /\ Tally(ws, {"source mount secret"}) = 0
  BY TallyNone DEF SourceCounts, MentionsKind
<1>6. /\ \A kinds : Tally(ws \o MountWarnings, kinds) = Tally(ws, kinds) + Tally(MountWarnings, kinds)
      /\ ~MentionsKind(ws \o MountWarnings, "no source")
      /\ \A kind, about : Mentions(ws, kind, about) => Mentions(ws \o MountWarnings, kind, about)
  BY <1>1, <1>2, <1>5, TallyConcat, MentionsConcat, MountsCounted
<1>7. /\ \A kinds : Tally(Own', kinds) = Tally(Own, kinds) + Tally(ws \o MountWarnings, kinds)
      /\ ~MentionsKind(Own', "no source")
      /\ \A kind, about : Mentions(ws, kind, about) => Mentions(Own', kind, about)
  BY <1>2, <1>4, <1>6, OwnGrows
<1>8. Len(bc.source.configMaps) \in Nat /\ Len(bc.source.secrets) \in Nat
  BY <1>1 DEF BuildSource
<1>9. /\ Tally(MountWarnings, {"source configMap"}) = Len(bc.source.configMaps)
      /\ Tally(MountWarnings, {"source mount secret"}) = Len(bc.source.secrets)
  BY <1>1, MountsCounted
<1>10. Tally(Own', {"source configMap"}) = 0 + (0 + Len(bc.source.configMaps))
  BY <1>4, <1>5, <1>6, <1>7, <1>9
<1>11. Tally(Own', {"source mount secret"}) = 0 + (0 + Len(bc.source.secrets))
  BY <1>4, <1>5, <1>6, <1>7, <1>9
<1>12. /\ Tally(Own', {"source configMap"}) = Len(bc.source.configMaps)
       /\ Tally(Own', {"source mount secret"}) = Len(bc.source.secrets)
  BY <1>8, <1>10, <1>11, NothingAdded
<1>13. QED
  BY <1>7, <1>12

\* A source on the Build: its kinds of loss are settled by the call's warnings.
LEMMA PresentSourceSettles ==
  ASSUME ConverterInv, WarnedSoFar, Proceed, step = "source", bc' = bc,
         NEW ws, IsSequence(ws), \A k \in DOMAIN ws : ws[k].kind \notin SourceCounts,
         Warn(ws \o MountWarnings),
         b'.source.type # "none", b'.source.contextDir = bc.source.contextDir,
         bc.source.secret \notin {Nil, Empty} =>
           \/ b'.source.secret = bc.source.secret
           \/ Mentions(ws, "source secret", bc.source.secret),
         \A k \in DOMAIN bc.source.images :
           LET image == bc.source.images[k]
           IN  /\ image.as => Mentions(ws, "image as", image.from.name)
               /\ image.paths => \/ Mentions(ws, "image paths", image.from.name)
                                 \/ Mentions(ws, "image paths, run order", image.from.name)
  PROVE  SourceSettled'
<1>1. /\ ~MentionsKind(Own', "no source")
      /\ Tally(Own', {"source configMap"}) = Len(bc.source.configMaps)
      /\ Tally(Own', {"source mount secret"}) = Len(bc.source.secrets)
      /\ \A kind, about : Mentions(ws, kind, about) => Mentions(Own', kind, about)
  BY SourceCounted
<1>2. \A k \in DOMAIN bc.source.images : ImageSettled(bc.source.images[k])'
  BY <1>1 DEF ImageSettled
<1>3. QED
  BY <1>1, <1>2 DEF SourceSettled

\* A warning under a condition, as a short sequence.
LEMMA ShortWarning ==
  ASSUME NEW condition, NEW kind, NEW about
  PROVE  LET ws == If(condition, Warning(kind, about))
         IN  /\ IsSequence(ws)
             /\ \A k \in DOMAIN ws : ws[k].kind = kind
             /\ condition => Mentions(ws, kind, about)
<1> DEFINE w == Warning(kind, about)
           ws == If(condition, w)
<1>1. w.kind = kind /\ w.about = about
  BY DEF Warning
<1>2. IsSequence(ws)
  BY AppendedSequences
<1>3. ws \in {<<>>, <<w>>} /\ (condition => ws = <<w>>)
  BY DEF If
<1> HIDE DEF w, ws
<1>4. Mentions(<<w>>, kind, about)
  BY <1>1, MentionsShort
<1>5. DOMAIN <<w>> = {1} /\ <<w>>[1] = w /\ DOMAIN <<>> = {}
  OBVIOUS
<1>6. \A k \in DOMAIN ws : ws[k].kind = kind
  BY <1>1, <1>3, <1>5
<1>7. condition => Mentions(ws, kind, about)
  BY <1>3, <1>4
<1>8. QED
  BY <1>2, <1>6, <1>7 DEF ws, w

\* The elements of two sequences are those of their concatenation.
LEMMA KindsOfConcat ==
  ASSUME NEW s, IsSequence(s), NEW t, IsSequence(t), NEW kinds,
         \A k \in DOMAIN s : s[k].kind \notin kinds,
         \A k \in DOMAIN t : t[k].kind \notin kinds
  PROVE  /\ IsSequence(s \o t)
         /\ \A k \in DOMAIN (s \o t) : (s \o t)[k].kind \notin kinds
<1>1. IsSequence(s \o t)
  BY ConcatPositions DEF Concatenates
<1>2. ASSUME NEW k \in DOMAIN (s \o t)
      PROVE  (s \o t)[k].kind \notin kinds
  <2>1. MentionsKind(s \o t, (s \o t)[k].kind)
    BY DEF MentionsKind
  <2>2. MentionsKind(s, (s \o t)[k].kind) \/ MentionsKind(t, (s \o t)[k].kind)
    BY <2>1, MentionsConcat
  <2>3. QED
    BY <2>2 DEF MentionsKind
<1>3. QED
  BY <1>1, <1>2

\* A source without image inputs lists none.
LEMMA ImagesListed ==
  "images" \notin SourceTypes => bc.source.images = <<>>
BY DEF SourceTypes

\* A git source.
LEMMA GitSettles ==
  ASSUME ConverterInv, WarnedSoFar, Proceed, bc' = bc, GitSource
  PROVE  SourceSettled'
<1>1. step = "source" /\ Warn(MountWarnings) /\ SourceTypes = {"git"}
  BY DEF GitSource
<1>2. b'.source = Source("Git", bc.source.git, bc.source.ref, bc.source.secret)
  BY DEF GitSource, ConverterInv, TypeOK, EmptyBuild
<1>3. bc.source \in BuildSource
  BY ProceedFacts DEF IsBuildConfig
<1>4. bc.source.images = <<>>
  BY <1>1, ImagesListed
<1>5. MountWarnings = <<>> \o MountWarnings
  <2>1. PICK S : MountWarnings \in Seq(S)
    BY <1>3, MountsCounted DEF IsSequence
  <2>2. QED
    BY <2>1
<1>6. IsSequence(<<>>) /\ DOMAIN <<>> = {}
  BY AppendedSequences
<1>7. Warn(<<>> \o MountWarnings)
  BY <1>1, <1>5
<1>8. /\ b'.source.type # "none" /\ b'.source.contextDir = bc.source.contextDir
      /\ b'.source.secret = bc.source.secret
  BY <1>2 DEF Source
<1>9. QED
  BY <1>1, <1>4, <1>6, <1>7, <1>8, PresentSourceSettles

\* The source secret of a source that is not git.
LEMMA SecretWarned ==
  ASSUME "git" \notin SourceTypes
  PROVE  /\ IsSequence(SourceSecretWarning)
         /\ \A k \in DOMAIN SourceSecretWarning : SourceSecretWarning[k].kind \notin SourceCounts
         /\ bc.source.secret \notin {Nil, Empty} =>
              Mentions(SourceSecretWarning, "source secret", bc.source.secret)
<1> DEFINE condition == "git" \notin SourceTypes /\ bc.source.secret \notin {Nil, Empty}
           ws == If(condition, Warning("source secret", bc.source.secret))
<1>1. SourceSecretWarning = ws
  BY DEF SourceSecretWarning
<1>2. bc.source.secret \notin {Nil, Empty} => condition
  OBVIOUS
<1>3. /\ IsSequence(ws)
      /\ \A k \in DOMAIN ws : ws[k].kind = "source secret"
      /\ condition => Mentions(ws, "source secret", bc.source.secret)
  <2> HIDE DEF condition
  <2>1. QED
    BY ShortWarning
<1> HIDE DEF ws, condition
<1>4. "source secret" \notin SourceCounts
  BY DEF SourceCounts
<1>5. QED
  BY <1>1, <1>2, <1>3, <1>4

\* A binary source.
LEMMA BinarySettles ==
  ASSUME ConverterInv, WarnedSoFar, Proceed, bc' = bc, BinarySource
  PROVE  SourceSettled'
<1>1. step = "source" /\ Warn(SourceSecretWarning \o MountWarnings) /\ SourceTypes = {"binary"}
  BY DEF BinarySource
<1>2. b'.source = Source("Local", <<"local-copy">>, Empty, Nil)
  BY DEF BinarySource, ConverterInv, TypeOK, EmptyBuild
<1>3. bc.source.images = <<>>
  BY <1>1, ImagesListed
<1>4. b'.source.type # "none" /\ b'.source.contextDir = bc.source.contextDir
  BY <1>2 DEF Source
<1>5. /\ IsSequence(SourceSecretWarning)
      /\ \A k \in DOMAIN SourceSecretWarning : SourceSecretWarning[k].kind \notin SourceCounts
      /\ bc.source.secret \notin {Nil, Empty} =>
           Mentions(SourceSecretWarning, "source secret", bc.source.secret)
  BY <1>1, SecretWarned
<1>6. DOMAIN <<>> = {}
  OBVIOUS
<1>7. QED
  BY <1>1, <1>3, <1>4, <1>5, <1>6, PresentSourceSettles

\* The image an image source takes its stage name from.
LEMMA StageNameWarned ==
  /\ IsSequence(ImageAsWarning)
  /\ \A k \in DOMAIN ImageAsWarning : ImageAsWarning[k].kind \notin SourceCounts
  /\ SoleImage.as => Mentions(ImageAsWarning, "image as", SoleImage.from.name)
<1>1. /\ IsSequence(ImageAsWarning)
      /\ \A k \in DOMAIN ImageAsWarning : ImageAsWarning[k].kind = "image as"
      /\ SoleImage.as => Mentions(ImageAsWarning, "image as", SoleImage.from.name)
  <2> DEFINE condition == SoleImage.as
             about == SoleImage.from.name
  <2>1. ImageAsWarning = If(condition, Warning("image as", about))
    BY DEF ImageAsWarning
  <2> HIDE DEF condition, about
  <2>2. /\ IsSequence(If(condition, Warning("image as", about)))
        /\ \A k \in DOMAIN If(condition, Warning("image as", about)) :
             If(condition, Warning("image as", about))[k].kind = "image as"
        /\ condition => Mentions(If(condition, Warning("image as", about)), "image as", about)
    BY ShortWarning
  <2>3. QED
    BY <2>1, <2>2 DEF condition, about
<1>2. "image as" \notin SourceCounts
  BY DEF SourceCounts
<1>3. QED
  BY <1>1, <1>2

\* The paths copied out of an image source, with or without the run order.
LEMMA PathsWarned ==
  /\ IsSequence(ImagePathsWarning)
  /\ \A k \in DOMAIN ImagePathsWarning : ImagePathsWarning[k].kind \notin SourceCounts
  /\ SoleImage.paths => \/ Mentions(ImagePathsWarning, "image paths", SoleImage.from.name)
                        \/ Mentions(ImagePathsWarning, "image paths, run order", SoleImage.from.name)
<1> DEFINE kind == IF ChainCandidate(WithDefaultNamespace(SoleImage.from))
                   THEN "image paths, run order" ELSE "image paths"
           condition == SoleImage.paths
           about == SoleImage.from.name
           ws == If(condition, Warning(kind, about))
<1>1. ImagePathsWarning = ws
  BY DEF ImagePathsWarning
<1>2. kind \in {"image paths", "image paths, run order"}
  OBVIOUS
<1>3. /\ IsSequence(ws)
      /\ \A k \in DOMAIN ws : ws[k].kind = kind
      /\ condition => Mentions(ws, kind, about)
  <2> HIDE DEF kind, condition, about
  <2>1. QED
    BY ShortWarning
<1>4. condition <=> SoleImage.paths
  OBVIOUS
<1>5. about = SoleImage.from.name
  OBVIOUS
<1> HIDE DEF kind, condition, about, ws
<1>6. kind \notin SourceCounts
  BY <1>2 DEF SourceCounts
<1>7. QED
  BY <1>1, <1>2, <1>3, <1>4, <1>5, <1>6

\* An image source.
LEMMA ImageSettles ==
  ASSUME ConverterInv, WarnedSoFar, Proceed, bc' = bc, ImageSourceStep
  PROVE  SourceSettled'
<1> DEFINE image == Resolve(SoleImage.from)
           doubt == If(image.doubtful, Warning("doubtful image", SoleImage.from.name))
           ws == SourceSecretWarning \o ImageAsWarning \o doubt \o ImagePathsWarning
<1>1. step = "source" /\ Warn(ws \o MountWarnings) /\ SourceTypes = {"images"}
  BY DEF ImageSourceStep
<1>2. b'.source = Source("OCI", image.image, Empty, SoleImage.pullSecret)
  BY DEF ImageSourceStep, ConverterInv, TypeOK, EmptyBuild
<1>3. b'.source.type # "none" /\ b'.source.contextDir = bc.source.contextDir
  BY <1>2 DEF Source
<1>4. \A k \in DOMAIN bc.source.images : bc.source.images[k] = SoleImage
  <2>1. Len(bc.source.images) = 1
    BY DEF ImageSourceStep
  <2>2. bc.source.images \in Seq(ImageSource)
    BY ProceedFacts DEF IsBuildConfig, BuildSource
  <2>3. DOMAIN bc.source.images = 1..1
    BY <2>1, <2>2
  <2>4. \A k \in DOMAIN bc.source.images : k = 1
    BY <2>3
  <2>5. QED
    BY <2>4 DEF SoleImage
<1>5. /\ IsSequence(SourceSecretWarning)
      /\ \A k \in DOMAIN SourceSecretWarning : SourceSecretWarning[k].kind \notin SourceCounts
      /\ bc.source.secret \notin {Nil, Empty} =>
           Mentions(SourceSecretWarning, "source secret", bc.source.secret)
  BY <1>1, SecretWarned
<1>6. IsSequence(doubt) /\ \A k \in DOMAIN doubt : doubt[k].kind \notin SourceCounts
  <2> DEFINE condition == image.doubtful
             about == SoleImage.from.name
  <2>1. doubt = If(condition, Warning("doubtful image", about))
    OBVIOUS
  <2> HIDE DEF doubt, condition, about
  <2>2. /\ IsSequence(If(condition, Warning("doubtful image", about)))
        /\ \A k \in DOMAIN If(condition, Warning("doubtful image", about)) :
             If(condition, Warning("doubtful image", about))[k].kind = "doubtful image"
    BY ShortWarning
  <2>3. "doubtful image" \notin SourceCounts
    BY DEF SourceCounts
  <2>4. QED
    BY <2>1, <2>2, <2>3
<1> HIDE DEF doubt, image
<1> DEFINE first == SourceSecretWarning \o ImageAsWarning
           second == first \o doubt
<1>7. /\ IsSequence(first)
      /\ \A k \in DOMAIN first : first[k].kind \notin SourceCounts
      /\ \A kind, about : Mentions(SourceSecretWarning, kind, about)
                            \/ Mentions(ImageAsWarning, kind, about) => Mentions(first, kind, about)
  BY <1>5, StageNameWarned, KindsOfConcat, MentionsConcat
<1> HIDE DEF first
<1>8. /\ IsSequence(second)
      /\ \A k \in DOMAIN second : second[k].kind \notin SourceCounts
      /\ \A kind, about : Mentions(first, kind, about) => Mentions(second, kind, about)
  BY <1>6, <1>7, KindsOfConcat, MentionsConcat
<1> HIDE DEF second
<1>9. ws = second \o ImagePathsWarning
  BY DEF second, first
<1>10. /\ IsSequence(ws)
       /\ \A k \in DOMAIN ws : ws[k].kind \notin SourceCounts
       /\ \A kind, about : Mentions(second, kind, about)
                             \/ Mentions(ImagePathsWarning, kind, about) => Mentions(ws, kind, about)
  BY <1>8, <1>9, PathsWarned, KindsOfConcat, MentionsConcat
<1> HIDE DEF ws
<1>11. bc.source.secret \notin {Nil, Empty} => Mentions(ws, "source secret", bc.source.secret)
  BY <1>5, <1>7, <1>8, <1>10
<1>12. /\ SoleImage.as => Mentions(ws, "image as", SoleImage.from.name)
       /\ SoleImage.paths => \/ Mentions(ws, "image paths", SoleImage.from.name)
                             \/ Mentions(ws, "image paths, run order", SoleImage.from.name)
  BY <1>7, <1>8, <1>10, StageNameWarned, PathsWarned
<1>13. QED
  BY <1>1, <1>3, <1>4, <1>10, <1>11, <1>12, PresentSourceSettles

\* No source at all.
LEMMA AbsenceSettles ==
  ASSUME ConverterInv, SourceInv, Proceed, bc' = bc, SourceAbsent
  PROVE  SourceSettled'
<1> DEFINE w == Warning("no source", bc.name)
<1>1. Warn(SourceSecretWarning \o <<w>>) /\ b' = b /\ SourceTypes = {} /\ step = "source"
  BY DEF SourceAbsent
<1>2. b'.source.type = "none"
  <2>0. Place("source") = 7 /\ Place(step) = 7
    BY <1>1, PlaceValues
  <2>1. step \in Calls /\ Place(step) <= Place("source")
    <3>1. step \in Calls
      BY <1>1 DEF Calls, Steps
    <3>2. QED
      BY <2>0, <3>1
  <2>2. b.source.type = "none"
    BY <2>1 DEF SourceInv
  <2>3. QED
    BY <1>1, <2>2
<1>3. /\ IsSequence(SourceSecretWarning)
      /\ bc.source.secret \notin {Nil, Empty} =>
           Mentions(SourceSecretWarning, "source secret", bc.source.secret)
  BY <1>1, SecretWarned
<1>4. w.kind = "no source"
  BY DEF Warning
<1> HIDE DEF w
<1>5. IsSequence(<<w>>) /\ MentionsKind(<<w>>, "no source")
  BY <1>4, AppendedSequences, MentionsShort
<1>6. /\ IsSequence(SourceSecretWarning \o <<w>>)
      /\ MentionsKind(SourceSecretWarning \o <<w>>, "no source")
      /\ \A kind, about : Mentions(SourceSecretWarning, kind, about) =>
           Mentions(SourceSecretWarning \o <<w>>, kind, about)
  BY <1>3, <1>5, MentionsConcat, ConcatPositions DEF Concatenates
<1>7. /\ MentionsKind(Own', "no source")
      /\ \A kind, about : Mentions(SourceSecretWarning, kind, about) => Mentions(Own', kind, about)
  BY <1>1, <1>6, OwnGrows
<1>8. QED
  BY <1>2, <1>3, <1>7 DEF SourceSettled

\* Where the source's call ends, whatever it found is settled.
LEMMA SourceStep ==
  ASSUME ConverterInv, WarnedSoFar, SourceInv, Proceed, Past("source")'
  PROVE  SourceSettled'
<1>0. bc' = bc
  BY ProceedFacts DEF fixed
<1>1. CASE Past("source")
  <2>1. b'.source = b.source /\ step # "source"
    BY <1>1, PastIsOver, FieldsStay DEF Calls, Steps
  <2>2. /\ MentionsKind(Own', "no source") <=> MentionsKind(Own, "no source")
        /\ Tally(Own', {"source configMap"}) = Tally(Own, {"source configMap"})
        /\ Tally(Own', {"source mount secret"}) = Tally(Own, {"source mount secret"})
    <3>1. "no source" \in SourceCounts
      BY DEF SourceCounts
    <3>2. MentionsKind(Own', "no source") <=> MentionsKind(Own, "no source")
      BY <2>1, <3>1, SourceKinds, OthersKeep
    <3>3. /\ Tally(Own', {"source configMap"}) = Tally(Own, {"source configMap"})
          /\ Tally(Own', {"source mount secret"}) = Tally(Own, {"source mount secret"})
      BY <2>1, SourceKinds, OthersKeep
    <3>4. QED
      BY <3>2, <3>3
  <2>3. \A kind, about : Mentions(Own, kind, about) => Mentions(Own', kind, about)
    BY OwnKeeps
  <2>4. \A k \in DOMAIN bc.source.images :
          ImageSettled(bc.source.images[k]) => ImageSettled(bc.source.images[k])'
    BY <1>0, <2>3 DEF ImageSettled
  <2>5. SourceSettled
    BY <1>1 DEF SourceInv
  <2>6. QED
    BY <1>0, <2>1, <2>2, <2>3, <2>4, <2>5 DEF SourceSettled
<1>2. CASE step = "source"
  <2>1. SourceAbsent \/ GitSource \/ BinarySource \/ ImageSourceStep \/ FailSource
    BY <1>2, ActionAtStep
  <2>2. ~FailSource
    <3>1. \A reason : ~Return(OutcomeFailed(reason))
      BY DEF Past, Converted, Concluded, ConvertedStates, Return, OutcomeFailed
    <3>2. QED
      BY <3>1 DEF FailSource
  <2>3. QED
    BY <1>0, <2>1, <2>2, GitSettles, BinarySettles, ImageSettles, AbsenceSettles
<1>3. QED
  BY <1>1, <1>2, Onward DEF Calls, Steps

\* A new Converter and a new conversion owe nothing about the source.
LEMMA SourceStarts ==
  /\ Init => SourceInv
  /\ \A c \in SourceConfigs : Convert(c) => SourceInv'
<1>1. /\ Init => step = "idle"
      /\ \A c \in SourceConfigs : Convert(c) => step' = "skeleton" /\ b' = EmptyBuild
  BY DEF Init, Convert
<1>2. EmptyBuild.source.type = "none"
  BY DEF EmptyBuild, NoSource
<1>3. "dockerfile" \in Calls /\ "source" \in Calls /\ "idle" \notin Calls
  BY DEF Calls, Steps
<1>4. QED
  BY <1>1, <1>2, <1>3, NothingPast DEF SourceInv

\* Where nothing moves, nothing is owed about the source that was not.
LEMMA SourceStutters ==
  ASSUME SourceInv, UNCHANGED vars
  PROVE  SourceInv'
<1>1. Own' = Own /\ b' = b /\ bc' = bc /\ step' = step
  BY NothingMoves
<1>2. /\ SourceSettled' <=> SourceSettled
      /\ DockerfileSettled' <=> DockerfileSettled
  BY <1>1 DEF SourceSettled, ImageSettled, DockerfileSettled, HasInlineDockerfile
<1>3. "dockerfile" \in Calls /\ "source" \in Calls
  BY DEF Calls, Steps
<1>4. /\ Past("dockerfile")' <=> Past("dockerfile")
      /\ Past("source")' <=> Past("source")
  BY <1>3, NothingMoves
<1>5. QED
  BY <1>1, <1>2, <1>4 DEF SourceInv

\* Whatever kind of source a BuildConfig has: the Build has one or its absence
\* is reported; the secret, the context directory, the mounts (as many warnings
\* as entries), the stage name and the paths of an image input, and an inline
\* Dockerfile are on the Build or in a warning (processSource and the functions
\* it calls, processInlineDockerfile).
THEOREM SourceLosses ==
  Spec => []SourceLossesDeclared
<1>1. Init => SourceInv
  BY SourceStarts
<1>2. ASSUME ConverterInv, WarnedSoFar, SourceInv, [Next]_vars
      PROVE  SourceInv'
  <2>1. CASE Proceed
    BY <1>2, <2>1, SourceFresh, DockerfileStep, SourceStep DEF SourceInv
  <2>2. QED
    BY <1>2, <2>1, SourceStarts, SourceStutters DEF Next
<1>3. ASSUME ConversionInv, SourceInv, Converted
      PROVE  SourceLossesDeclared
  <2>1. Build = b
    BY <1>3, ShippedResources
  <2>2. \A call \in Calls : Past(call)
    BY <1>3 DEF Past, Converted, Concluded
  <2>3. SourceSettled /\ DockerfileSettled
    BY <1>3, <2>2 DEF SourceInv, Calls, Steps
  <2>4. /\ \A kind : RecordedKind(kind) <=> MentionsKind(Own, kind)
        /\ \A kind, about : Recorded(kind, about) <=> Mentions(Own, kind, about)
        /\ \A kinds : CountKinds(kinds) = Tally(Own, kinds)
    BY DEF RecordedKind, MentionsKind, Recorded, Mentions, CountKinds, Tally
  <2>5. QED
    BY <2>1, <2>3, <2>4
    DEF SourceLossesDeclared, SourceSettled, ImageSettled, DockerfileSettled
<1>4. ConversionInv /\ SourceInv => SourceLossesDeclared
  BY <1>3 DEF SourceLossesDeclared
<1>5. QED
  BY <1>1, <1>2, <1>4, Background, PTL DEF Spec

-----------------------------------------------------------------------------
(* Strategy: build args and volumes *)

VolumeKinds == {"volume undeclared", "volume skipped"}

ArgSettled(arg) ==
  \/ Contains(b.buildArgs, [name |-> arg.name, from |-> arg.from])
  \/ Mentions(Own, "build arg skipped", arg.name)

VolumeUsable(volume) ==
  volume.name # Empty /\ volume.type \in {"Secret", "ConfigMap"} /\ volume.set

VolumeSettled(volume) ==
  /\ \/ Contains(b.volumes, [name |-> volume.name, type |-> volume.type])
     \/ Mentions(Own, "volume skipped", volume.name)
  /\ VolumeUsable(volume) => VolumeSeen(volume)

\* The names on the Build are unique and each is warned about.
VolumesListed ==
  /\ IsSequence(b.volumes)
  /\ \A j, k \in DOMAIN b.volumes : b.volumes[j].name = b.volumes[k].name => j = k
  /\ \A k \in DOMAIN b.volumes : Mentions(Own, "volume undeclared", b.volumes[k].name)

\* The loop has reported each entry behind it once.
VolumesCounted ==
  HasBlock =>
    /\ step = "volumes" => /\ item <= Len(Block.volumes) + 1
                           /\ Tally(Own, VolumeKinds) = item - 1
    /\ Past("volumes") => Tally(Own, VolumeKinds) = Len(Block.volumes)

StrategyInv ==
  /\ IsSequence(b.buildArgs)
  /\ VolumesListed
  /\ VolumesCounted
  /\ HasBlock => \A k \in DOMAIN Block.buildArgs :
       Reached("buildArgs", k) => ArgSettled(Block.buildArgs[k])
  /\ HasBlock => \A k \in DOMAIN Block.volumes :
       Reached("volumes", k) => VolumeSettled(Block.volumes[k])

\* "longer" is s with e at its end.
OneMore(s, longer, e) ==
  /\ IsSequence(longer)
  /\ Len(s) \in Nat /\ DOMAIN s = 1..Len(s)
  /\ DOMAIN longer = 1..(Len(s) + 1) /\ Len(longer) = Len(s) + 1
  /\ \A k \in DOMAIN s : longer[k] = s[k]
  /\ longer[Len(s) + 1] = e
  /\ \A x : Contains(s, x) => Contains(longer, x)
  /\ Contains(longer, e)

\* Appending one element under a condition.
LEMMA AppendsOne ==
  ASSUME NEW s, IsSequence(s), NEW condition, NEW e
  PROVE  /\ condition => OneMore(s, s \o If(condition, e), e)
         /\ ~condition => s \o If(condition, e) = s
<1> DEFINE longer == s \o <<e>>
<1>1. /\ IsSequence(longer)
      /\ Len(s) \in Nat /\ DOMAIN s = 1..Len(s)
      /\ DOMAIN longer = 1..(Len(s) + 1) /\ Len(longer) = Len(s) + 1
      /\ \A k \in DOMAIN s : longer[k] = s[k]
      /\ longer[Len(s) + 1] = e
  <2>1. Concatenates(s, <<e>>)
    BY AppendedSequences, ConcatPositions
  <2>2. Len(<<e>>) = 1 /\ 1 \in DOMAIN <<e>> /\ <<e>>[1] = e
    OBVIOUS
  <2>3. QED
    BY <2>1, <2>2 DEF Concatenates, Beyond
<1>2. s \o <<>> = s
  <2>1. PICK S : s \in Seq(S)
    BY DEF IsSequence
  <2>2. QED
    BY <2>1
<1>3. condition => If(condition, e) = <<e>>
  BY DEF If
<1>4. ~condition => If(condition, e) = <<>>
  BY DEF If
<1> HIDE DEF longer
<1>5. ASSUME NEW x, Contains(s, x)
      PROVE  Contains(longer, x)
  <2>1. PICK k \in 1..Len(s) : s[k] = x
    BY <1>5 DEF Contains
  <2>2. k \in 1..(Len(s) + 1) /\ longer[k] = x
    BY <1>1, <2>1
  <2>3. QED
    BY <1>1, <2>2 DEF Contains
<1>6. Contains(longer, e)
  <2>1. Len(s) + 1 \in 1..(Len(s) + 1)
    BY <1>1
  <2>2. QED
    BY <1>1, <2>1 DEF Contains
<1>7. OneMore(s, longer, e)
  BY <1>1, <1>5, <1>6 DEF OneMore
<1>8. QED
  BY <1>2, <1>3, <1>4, <1>7 DEF longer

\* The fields of the Build that the strategy's loops write.
LEMMA StrategyFields ==
  {"buildArgs", "volumes", "params"} \subseteq DOMAIN EmptyBuild
    /\ EmptyBuild.buildArgs = <<>> /\ EmptyBuild.volumes = <<>>
BY DEF EmptyBuild

\* The skeleton has no build args and no volumes.
LEMMA SkeletonIsBare ==
  ASSUME Proceed, step = "skeleton"
  PROVE  b'.buildArgs = <<>> /\ b'.volumes = <<>>
<1>1. MakeSkeleton
  BY ActionAtStep
<1>2. b'.buildArgs = EmptyBuild.buildArgs /\ b'.volumes = EmptyBuild.volumes
  BY <1>1, StrategyFields DEF MakeSkeleton
<1>3. QED
  BY <1>2, StrategyFields

\* What the iterations of the two loops do.
LEMMA LoopBodies ==
  ASSUME ConverterInv
  PROVE  /\ ConvertBuildArg =>
              LET arg == Block.buildArgs[item]
              IN  /\ b'.buildArgs = b.buildArgs \o If(BuildArgConverts(arg),
                                                     [name |-> arg.name, from |-> arg.from])
                  /\ Warn(BuildArgWarnings(arg))
         /\ FinishDockerStrategy => b'.buildArgs = b.buildArgs /\ UNCHANGED warnings
         /\ ConvertVolume =>
              LET volume == Block.volumes[item]
              IN  /\ b'.volumes = b.volumes \o If(VolumeConverts(volume),
                                                 [name |-> volume.name, type |-> volume.type])
                  /\ Warn(<<Warning(IF VolumeConverts(volume)
                                    THEN "volume undeclared" ELSE "volume skipped",
                                    volume.name)>>)
         /\ FinishVolumes => b' = b
<1>1. DOMAIN b = DOMAIN EmptyBuild
  BY DEF ConverterInv, TypeOK
<1>2. QED
  BY <1>1, StrategyFields DEF ConvertBuildArg, FinishDockerStrategy, ConvertVolume, FinishVolumes

\* The warning of a volume entry.
LEMMA VolumeWarned ==
  ASSUME ConverterInv, Proceed, ConvertVolume, NEW volume, volume = Block.volumes[item]
  PROVE  /\ VolumeConverts(volume) => Mentions(Own', "volume undeclared", volume.name)
         /\ ~VolumeConverts(volume) => Mentions(Own', "volume skipped", volume.name)
         /\ Tally(Own', VolumeKinds) = Tally(Own, VolumeKinds) + 1
<1> DEFINE w == Warning(IF VolumeConverts(volume) THEN "volume undeclared" ELSE "volume skipped",
                        volume.name)
<1>1. Warn(<<w>>)
  BY LoopBodies
<1>2. /\ w.about = volume.name
      /\ VolumeConverts(volume) => w.kind = "volume undeclared"
      /\ ~VolumeConverts(volume) => w.kind = "volume skipped"
  BY DEF Warning
<1> HIDE DEF w
<1>3. w.kind \in VolumeKinds
  BY <1>2 DEF VolumeKinds
<1>4. IsSequence(<<w>>) /\ Mentions(<<w>>, w.kind, w.about) /\ Tally(<<w>>, VolumeKinds) = 1
  BY <1>3, AppendedSequences, MentionsShort, TallyShort
<1>5. Mentions(Own', w.kind, w.about)
  BY <1>1, <1>4, OwnGrows
<1>6. Tally(Own', VolumeKinds) = Tally(Own, VolumeKinds) + 1
  <2>1. Tally(Own', VolumeKinds) = Tally(Own, VolumeKinds) + Tally(<<w>>, VolumeKinds)
    BY <1>1, <1>4, OwnGrows
  <2>2. QED
    BY <1>4, <2>1
<1>7. QED
  BY <1>2, <1>5, <1>6

\* The volumes an iteration leaves on the Build.
LEMMA VolumeAppended ==
  ASSUME ConverterInv, ConvertVolume, IsSequence(b.volumes),
         NEW volume, volume = Block.volumes[item],
         NEW entry, entry = [name |-> volume.name, type |-> volume.type]
  PROVE  /\ VolumeConverts(volume) => OneMore(b.volumes, b'.volumes, entry)
         /\ ~VolumeConverts(volume) => b'.volumes = b.volumes
<1>1. b'.volumes = b.volumes \o If(VolumeConverts(volume), entry)
  BY LoopBodies
<1> DEFINE condition == VolumeConverts(volume)
           old == b.volumes
<1>2. b'.volumes = old \o If(condition, entry) /\ IsSequence(old)
  BY <1>1
<1> HIDE DEF condition, old
<1>3. /\ condition => OneMore(old, old \o If(condition, entry), entry)
      /\ ~condition => old \o If(condition, entry) = old
  BY <1>2, AppendsOne
<1>4. QED
  BY <1>2, <1>3 DEF condition, old

\* Volume names stay unique and warned about.
LEMMA VolumesStayListed ==
  ASSUME ConverterInv, VolumesListed, Proceed
  PROVE  VolumesListed'
<1>0. \A kind, about : Mentions(Own, kind, about) => Mentions(Own', kind, about)
  BY OwnKeeps
<1>1. CASE step = "skeleton"
  <2>1. DOMAIN <<>> = {} /\ IsSequence(<<>>)
    BY AppendedSequences
  <2>2. QED
    BY <1>1, <2>1, SkeletonIsBare DEF VolumesListed
<1>2. CASE step # "skeleton" /\ b'.volumes = b.volumes
  BY <1>0, <1>2 DEF VolumesListed
<1>3. ASSUME ConvertVolume
      PROVE  VolumesListed'
  <2>1. PICK volume : volume = Block.volumes[item]
    OBVIOUS
  <2>2. PICK entry : entry = [name |-> volume.name, type |-> volume.type]
    OBVIOUS
  <2>3. /\ VolumeConverts(volume) => OneMore(b.volumes, b'.volumes, entry)
        /\ ~VolumeConverts(volume) => b'.volumes = b.volumes
    BY <1>3, <2>1, <2>2, VolumeAppended DEF VolumesListed
  <2>4. CASE ~VolumeConverts(volume)
    BY <1>0, <2>3, <2>4 DEF VolumesListed
  <2>5. CASE VolumeConverts(volume)
    <3>1. \A k \in DOMAIN b.volumes : b.volumes[k].name # volume.name
      BY <2>5 DEF VolumeConverts, VolumeSeen
    <3>2. Mentions(Own', "volume undeclared", volume.name)
      BY <1>3, <2>1, <2>5, VolumeWarned
    <3> DEFINE old == b.volumes
               new == b'.volumes
    <3>3. /\ IsSequence(new)
          /\ Len(old) \in Nat /\ DOMAIN old = 1..Len(old) /\ DOMAIN new = 1..(Len(old) + 1)
          /\ \A k \in DOMAIN old : new[k] = old[k]
          /\ new[Len(old) + 1] = entry
      BY <2>3, <2>5 DEF OneMore
    <3>4. entry.name = volume.name
      BY <2>2
    <3>5. /\ \A j, k \in DOMAIN old : old[j].name = old[k].name => j = k
          /\ \A k \in DOMAIN old : Mentions(Own', "volume undeclared", old[k].name)
      BY <1>0 DEF VolumesListed
    <3>6. \A k \in DOMAIN old : old[k].name # volume.name
      BY <3>1
    <3>7. b'.volumes = new
      OBVIOUS
    <3> HIDE DEF old, new
    <3>8. \A k \in DOMAIN new : k \in DOMAIN old \/ k = Len(old) + 1
      BY <3>3
    <3>9. \A j, k \in DOMAIN new : new[j].name = new[k].name => j = k
      BY <3>3, <3>4, <3>5, <3>6, <3>8
    <3>10. \A k \in DOMAIN new : Mentions(Own', "volume undeclared", new[k].name)
      BY <3>2, <3>3, <3>4, <3>5, <3>8
    <3>11. QED
      BY <3>3, <3>7, <3>9, <3>10 DEF VolumesListed
  <2>6. QED
    BY <2>4, <2>5
<1>4. CASE step # "skeleton" /\ step # "volumes"
  BY <1>2, <1>4, FieldsStay
<1>5. CASE step = "volumes"
  <2>1. ConvertVolume \/ FinishVolumes
    BY <1>5, ActionAtStep
  <2>2. FinishVolumes => b' = b
    BY LoopBodies
  <2>3. QED
    BY <1>2, <1>3, <1>5, <2>1, <2>2
<1>6. QED
  BY <1>1, <1>4, <1>5

\* A volume that was settled stays so.
LEMMA VolumeStaysSettled ==
  ASSUME ConverterInv, VolumesListed, Proceed, step # "skeleton",
         NEW volume, VolumeSettled(volume)
  PROVE  VolumeSettled(volume)'
<1>0. \A kind, about : Mentions(Own, kind, about) => Mentions(Own', kind, about)
  BY OwnKeeps
<1>1. CASE b'.volumes = b.volumes
  BY <1>0, <1>1 DEF VolumeSettled, VolumeSeen
<1>2. ASSUME ConvertVolume
      PROVE  VolumeSettled(volume)'
  <2>1. PICK next : next = Block.volumes[item]
    OBVIOUS
  <2>2. PICK entry : entry = [name |-> next.name, type |-> next.type]
    OBVIOUS
  <2>3. /\ VolumeConverts(next) => OneMore(b.volumes, b'.volumes, entry)
        /\ ~VolumeConverts(next) => b'.volumes = b.volumes
    BY <1>2, <2>1, <2>2, VolumeAppended DEF VolumesListed
  <2>4. CASE VolumeConverts(next)
    <3>1. \A x : Contains(b.volumes, x) => Contains(b'.volumes, x)
      BY <2>3, <2>4 DEF OneMore
    <3>2. VolumeSeen(volume) => VolumeSeen(volume)'
      <4>1. /\ DOMAIN b.volumes \subseteq DOMAIN b'.volumes
            /\ \A k \in DOMAIN b.volumes : b'.volumes[k] = b.volumes[k]
        BY <2>3, <2>4 DEF OneMore
      <4>2. QED
        BY <4>1 DEF VolumeSeen
    <3>3. QED
      BY <1>0, <3>1, <3>2 DEF VolumeSettled, VolumeUsable
  <2>5. QED
    BY <1>1, <2>3, <2>4
<1>3. CASE step # "volumes"
  BY <1>1, <1>3, FieldsStay
<1>4. CASE step = "volumes"
  <2>1. ConvertVolume \/ FinishVolumes
    BY <1>4, ActionAtStep
  <2>2. FinishVolumes => b' = b
    BY LoopBodies
  <2>3. QED
    BY <1>1, <1>2, <2>1, <2>2
<1>5. QED
  BY <1>3, <1>4

\* The volume of an iteration is settled by it.
LEMMA VolumeSettles ==
  ASSUME ConverterInv, VolumesListed, Proceed, ConvertVolume,
         NEW volume, volume = Block.volumes[item]
  PROVE  VolumeSettled(volume)'
<1>1. PICK entry : entry = [name |-> volume.name, type |-> volume.type]
  OBVIOUS
<1>2. /\ VolumeConverts(volume) => OneMore(b.volumes, b'.volumes, entry)
      /\ ~VolumeConverts(volume) => b'.volumes = b.volumes
  BY <1>1, VolumeAppended DEF VolumesListed
<1>3. CASE VolumeConverts(volume)
  <2>1. Contains(b'.volumes, entry)
    BY <1>2, <1>3 DEF OneMore
  <2>2. VolumeSeen(volume)'
    <3>1. /\ Len(b.volumes) \in Nat
          /\ DOMAIN b'.volumes = 1..(Len(b.volumes) + 1)
          /\ b'.volumes[Len(b.volumes) + 1] = entry
      BY <1>2, <1>3 DEF OneMore
    <3>2. Len(b.volumes) + 1 \in 1..(Len(b.volumes) + 1)
      BY <3>1
    <3>3. entry.name = volume.name
      BY <1>1
    <3>4. QED
      BY <3>1, <3>2, <3>3 DEF VolumeSeen
  <2>3. QED
    BY <1>1, <2>1, <2>2 DEF VolumeSettled
<1>4. CASE ~VolumeConverts(volume)
  <2>1. Mentions(Own', "volume skipped", volume.name)
    BY <1>4, VolumeWarned
  <2>2. VolumeUsable(volume) => VolumeSeen(volume)
    BY <1>4 DEF VolumeUsable, VolumeConverts
  <2>3. VolumeSeen(volume) => VolumeSeen(volume)'
    BY <1>2, <1>4 DEF VolumeSeen
  <2>4. QED
    BY <2>1, <2>2, <2>3 DEF VolumeSettled, VolumeUsable
<1>5. QED
  BY <1>3, <1>4

\* Every volume behind the loop is settled.
LEMMA VolumesStep ==
  ASSUME ConverterInv, StrategyInv, Proceed, HasBlock,
         NEW k \in DOMAIN Block.volumes, Reached("volumes", k)'
  PROVE  VolumeSettled(Block.volumes[k])'
<1>0. bc' = bc /\ step # "idle" /\ item \in Nat
  BY ProceedFacts DEF fixed, ConverterInv, TypeOK
<1>1. Block.volumes \in Seq(BuildVolume)
  BY ProceedFacts DEF IsBuildConfig, IsMap, HasBlock, Block, StrategyBlock
<1>2. /\ Len(Block.volumes) \in Nat
      /\ k \in 1..Len(Block.volumes) /\ k \in Nat \ {0}
  BY <1>1
<1>3. PICK volume : volume = Block.volumes[k]
  OBVIOUS
<1>4. Block' = Block
  BY <1>0 DEF Block
<1>5. CASE Reached("volumes", k)
  <2>1. step # "skeleton"
    BY <1>0, <1>5, PastIsOver DEF Reached, Calls, Steps
  <2>2. VolumeSettled(volume) /\ VolumesListed
    BY <1>3, <1>5 DEF StrategyInv
  <2>3. VolumeSettled(volume)'
    BY <2>1, <2>2, VolumeStaysSettled
  <2>4. QED
    BY <1>3, <1>4, <2>3
<1>6. CASE step = "volumes" /\ step' = "volumes" /\ item' = item + 1 /\ k = item
  <2>1. ConvertVolume
    BY <1>6, ActionAtStep DEF FinishVolumes, Continue
  <2>2. VolumeSettled(volume)'
    BY <1>3, <1>6, <2>1, VolumeSettles DEF StrategyInv
  <2>3. QED
    BY <1>3, <1>4, <2>2
<1>7. CASE step = "volumes" /\ step' # "volumes"
  <2>1. FinishVolumes
    BY <1>7, ActionAtStep DEF ConvertVolume, Repeat
  <2>2. k < item
    <3>1. item > Len(Block.volumes)
      BY <2>1 DEF FinishVolumes
    <3>2. QED
      BY <1>0, <1>2, <3>1
  <2>3. QED
    BY <1>5, <1>7, <2>2 DEF Reached
<1>8. QED
  BY <1>2, <1>5, <1>6, <1>7, LoopOnward DEF Calls, Steps

\* A build arg that does not convert is reported skipped.
LEMMA ArgWarned ==
  ASSUME ConverterInv, Proceed, ConvertBuildArg, NEW arg, arg = Block.buildArgs[item],
         ~BuildArgConverts(arg)
  PROVE  Mentions(Own', "build arg skipped", arg.name)
<1> DEFINE w == Warning("build arg skipped", arg.name)
           before == If(arg.from # "value" /\ arg.literal, Warning("literal ignored", arg.name))
           skipped == If(~BuildArgConverts(arg), w)
           behind == If(BuildArgConverts(arg) /\ arg.from # "value" /\ arg.optional,
                        Warning("optional key", arg.name))
<1>1. Warn(BuildArgWarnings(arg))
  BY LoopBodies
<1>2. w.kind = "build arg skipped" /\ w.about = arg.name
  BY DEF Warning
<1>3. skipped = <<w>>
  BY DEF If
<1>4. IsSequence(before) /\ IsSequence(behind)
  BY AppendedSequences
<1>5. \/ BuildArgWarnings(arg) = <<w>>
      \/ BuildArgWarnings(arg) = before \o skipped \o behind
  BY DEF BuildArgWarnings
<1> HIDE DEF w, before, skipped, behind
<1>6. IsSequence(<<w>>) /\ Mentions(<<w>>, "build arg skipped", arg.name)
  BY <1>2, AppendedSequences, MentionsShort
<1>7. /\ IsSequence(before \o skipped)
      /\ Mentions(before \o skipped, "build arg skipped", arg.name)
  BY <1>3, <1>4, <1>6, MentionsConcat, ConcatPositions DEF Concatenates
<1>8. /\ IsSequence(before \o skipped \o behind)
      /\ Mentions(before \o skipped \o behind, "build arg skipped", arg.name)
  BY <1>4, <1>7, MentionsConcat, ConcatPositions DEF Concatenates
<1>9. QED
  BY <1>1, <1>5, <1>6, <1>8, OwnGrows

\* The build args an iteration leaves on the Build.
LEMMA ArgAppended ==
  ASSUME ConverterInv, ConvertBuildArg, IsSequence(b.buildArgs),
         NEW arg, arg = Block.buildArgs[item],
         NEW entry, entry = [name |-> arg.name, from |-> arg.from]
  PROVE  /\ BuildArgConverts(arg) => OneMore(b.buildArgs, b'.buildArgs, entry)
         /\ ~BuildArgConverts(arg) => b'.buildArgs = b.buildArgs
<1> DEFINE condition == BuildArgConverts(arg)
           old == b.buildArgs
<1>1. b'.buildArgs = old \o If(condition, entry) /\ IsSequence(old)
  BY LoopBodies
<1> HIDE DEF condition, old
<1>2. /\ condition => OneMore(old, old \o If(condition, entry), entry)
      /\ ~condition => old \o If(condition, entry) = old
  BY <1>1, AppendsOne
<1>3. QED
  BY <1>1, <1>2 DEF condition, old

\* The list of build args only grows once there is a Build.
LEMMA ArgsGrow ==
  ASSUME ConverterInv, IsSequence(b.buildArgs), Proceed
  PROVE  /\ IsSequence(b'.buildArgs)
         /\ step # "skeleton" =>
              \A x : Contains(b.buildArgs, x) => Contains(b'.buildArgs, x)
<1>1. CASE step = "skeleton"
  BY <1>1, SkeletonIsBare, AppendedSequences
<1>2. CASE step # "skeleton" /\ step # "buildArgs"
  BY <1>2, FieldsStay
<1>3. CASE step = "buildArgs"
  <2>1. ConvertBuildArg \/ FinishDockerStrategy
    BY <1>3, ActionAtStep
  <2>2. FinishDockerStrategy => b'.buildArgs = b.buildArgs
    BY LoopBodies
  <2>3. ASSUME ConvertBuildArg
        PROVE  \/ b'.buildArgs = b.buildArgs
               \/ \E entry : OneMore(b.buildArgs, b'.buildArgs, entry)
    BY <2>3, ArgAppended
  <2>4. QED
    BY <2>1, <2>2, <2>3 DEF OneMore
<1>4. QED
  BY <1>1, <1>2, <1>3

\* Every build arg behind the loop is settled.
LEMMA ArgsStep ==
  ASSUME ConverterInv, StrategyInv, Proceed, HasBlock,
         NEW k \in DOMAIN Block.buildArgs, Reached("buildArgs", k)'
  PROVE  ArgSettled(Block.buildArgs[k])'
<1>0. bc' = bc /\ step # "idle" /\ item \in Nat
  BY ProceedFacts DEF fixed, ConverterInv, TypeOK
<1>1. Block.buildArgs \in Seq(BuildArg)
  BY ProceedFacts DEF IsBuildConfig, IsMap, HasBlock, Block, StrategyBlock
<1>2. /\ Len(Block.buildArgs) \in Nat
      /\ k \in 1..Len(Block.buildArgs) /\ k \in Nat \ {0}
  BY <1>1
<1>3. PICK arg : arg = Block.buildArgs[k]
  OBVIOUS
<1>4. Block' = Block
  BY <1>0 DEF Block
<1>5. IsSequence(b.buildArgs)
  BY DEF StrategyInv
<1>6. CASE Reached("buildArgs", k)
  <2>1. step # "skeleton"
    BY <1>0, <1>6, PastIsOver DEF Reached, Calls, Steps
  <2>2. ArgSettled(arg)
    BY <1>3, <1>6 DEF StrategyInv
  <2>3. ArgSettled(arg)'
    BY <1>5, <2>1, <2>2, ArgsGrow, OwnKeeps DEF ArgSettled
  <2>4. QED
    BY <1>3, <1>4, <2>3
<1>7. CASE step = "buildArgs" /\ step' = "buildArgs" /\ item' = item + 1 /\ k = item
  <2>1. ConvertBuildArg
    BY <1>7, ActionAtStep DEF FinishDockerStrategy, Continue
  <2>2. PICK entry : entry = [name |-> arg.name, from |-> arg.from]
    OBVIOUS
  <2>3. BuildArgConverts(arg) => OneMore(b.buildArgs, b'.buildArgs, entry)
    BY <1>3, <1>5, <1>7, <2>1, <2>2, ArgAppended
  <2>4. ~BuildArgConverts(arg) => Mentions(Own', "build arg skipped", arg.name)
    BY <1>3, <1>7, <2>1, ArgWarned
  <2>5. ArgSettled(arg)'
    BY <2>2, <2>3, <2>4 DEF ArgSettled, OneMore
  <2>6. QED
    BY <1>3, <1>4, <2>5
<1>8. CASE step = "buildArgs" /\ step' # "buildArgs"
  <2>1. FinishDockerStrategy
    BY <1>8, ActionAtStep DEF ConvertBuildArg, Repeat
  <2>2. k < item
    BY <1>0, <1>2, <2>1 DEF FinishDockerStrategy
  <2>3. QED
    BY <1>6, <1>8, <2>2 DEF Reached
<1>9. bc.type # "Source"
  <2>1. bc.type = "Source" => Block.buildArgs = <<>>
    BY ProceedFacts DEF IsBuildConfig, HasBlock, Block
  <2>2. DOMAIN <<>> = {}
    OBVIOUS
  <2>3. QED
    BY <2>1, <2>2
<1>10. QED
  BY <1>2, <1>6, <1>7, <1>8, <1>9, LoopOnward DEF Calls, Steps

\* The kinds counted for volumes are the volume loop's own.
LEMMA VolumeCounts ==
  RecordedOnlyBy("volumes", VolumeKinds)
BY KindWriters DEF RecordedOnlyBy, VolumeKinds

\* The loop reports one volume per iteration, and nothing else does.
LEMMA VolumesStayCounted ==
  ASSUME ConverterInv, WarnedSoFar, VolumesCounted, Proceed
  PROVE  VolumesCounted'
<1>0. bc' = bc /\ step \in Calls /\ item \in Nat \ {0}
  BY ProceedFacts DEF fixed, ConverterInv, TypeOK, Calls
<1>1. Block' = Block /\ (HasBlock' <=> HasBlock)
  BY <1>0 DEF Block, HasBlock
<1> SUFFICES ASSUME HasBlock
             PROVE  /\ step' = "volumes" => /\ item' <= Len(Block.volumes) + 1
                                            /\ Tally(Own', VolumeKinds) = item' - 1
                    /\ Past("volumes")' => Tally(Own', VolumeKinds) = Len(Block.volumes)
  BY <1>1 DEF VolumesCounted
<1> DEFINE n == Len(Block.volumes)
<1>2. n \in Nat
  <2>1. Block.volumes \in Seq(BuildVolume)
    BY ProceedFacts DEF IsBuildConfig, IsMap, HasBlock, Block, StrategyBlock
  <2>2. QED
    BY <2>1
<1> HIDE DEF n
<1>3. "volumes" \in Calls
  BY DEF Calls, Steps
<1>4. CASE step # "volumes"
  <2>1. Tally(Own', VolumeKinds) = Tally(Own, VolumeKinds)
    BY <1>4, VolumeCounts, OthersKeep
  <2>2. ASSUME step' = "volumes"
        PROVE  item' = 1 /\ Tally(Own, VolumeKinds) = 0
    <3>1. HandsOver
      BY <1>4, <2>2, StepAdvances DEF GivesUp, Classify, Iterates
    <3>2. Place(step) < Place("volumes")
      BY <1>0, <2>2, <3>1, PlaceValues DEF HandsOver
    <3>3. Tally(Own, VolumeKinds) = 0
      BY <1>0, <1>3, <3>2, VolumeCounts, NothingYet
    <3>4. QED
      BY <3>1, <3>3 DEF HandsOver
  <2>3. Past("volumes")' => Past("volumes")
    BY <1>3, <1>4, Onward
  <2>4. Past("volumes") => Tally(Own, VolumeKinds) = n
    BY DEF VolumesCounted, n
  <2>5. step' = "volumes" => item' <= n + 1 /\ Tally(Own', VolumeKinds) = item' - 1
    BY <1>2, <2>1, <2>2
  <2>6. QED
    BY <2>1, <2>3, <2>4, <2>5 DEF n
<1>5. CASE step = "volumes"
  <2>1. item <= n + 1 /\ Tally(Own, VolumeKinds) = item - 1
    BY <1>5 DEF VolumesCounted, n
  <2>2. CASE ConvertVolume
    <3>1. PICK volume : volume = Block.volumes[item]
      OBVIOUS
    <3>2. Tally(Own', VolumeKinds) = Tally(Own, VolumeKinds) + 1
      BY <2>2, <3>1, VolumeWarned
    <3>3. step' = "volumes" /\ item' = item + 1 /\ item <= n
      BY <1>5, <2>2 DEF ConvertVolume, Repeat, n
    <3>4. ~Past("volumes")'
      <4>1. Place("volumes") = 4 /\ Place(step') = 4
        BY <3>3, PlaceValues
      <4>2. QED
        BY <3>3, <4>1 DEF Past
    <3>5. item' <= n + 1 /\ Tally(Own', VolumeKinds) = item' - 1
      BY <1>0, <1>2, <2>1, <3>2, <3>3
    <3>6. QED
      BY <3>4, <3>5 DEF n
  <2>3. CASE FinishVolumes
    <3> DEFINE w == Warning("volumes rejected", bc.name)
               ws == If(b.volumes # <<>>, w)
    <3>1. Warn(ws) /\ step' = "gate" /\ item > n
      BY <2>3 DEF FinishVolumes, Continue, n
    <3>2. w.kind \notin VolumeKinds
      BY DEF Warning, VolumeKinds
    <3>3. ws \in {<<>>, <<w>>} /\ IsSequence(ws)
      BY AppendedSequences DEF If
    <3> HIDE DEF w, ws
    <3>4. Tally(ws, VolumeKinds) = 0
      BY <3>2, <3>3, TallyShort
    <3>5. Tally(Own', VolumeKinds) = Tally(Own, VolumeKinds) + 0
      BY <3>1, <3>3, <3>4, OwnGrows
    <3>6. Tally(Own', VolumeKinds) = n
      BY <1>0, <1>2, <2>1, <3>1, <3>5
    <3>7. QED
      BY <3>1, <3>6 DEF n
  <2>4. QED
    BY <1>5, <2>2, <2>3, ActionAtStep
<1>6. QED
  BY <1>4, <1>5

\* Every step of Convert's body keeps the promises about the strategy.
LEMMA StrategyStep ==
  ASSUME ConverterInv, WarnedSoFar, StrategyInv, Proceed
  PROVE  StrategyInv'
<1>0. bc' = bc
  BY ProceedFacts DEF fixed
<1>1. Block' = Block /\ (HasBlock' <=> HasBlock)
  BY <1>0 DEF Block, HasBlock
<1>2. IsSequence(b'.buildArgs)
  BY ArgsGrow DEF StrategyInv
<1>3. VolumesListed' /\ VolumesCounted'
  BY VolumesStayListed, VolumesStayCounted DEF StrategyInv
<1>4. ASSUME HasBlock, NEW k \in DOMAIN Block.buildArgs, Reached("buildArgs", k)'
      PROVE  ArgSettled(Block.buildArgs[k])'
  BY <1>4, ArgsStep
<1>5. ASSUME HasBlock, NEW k \in DOMAIN Block.volumes, Reached("volumes", k)'
      PROVE  VolumeSettled(Block.volumes[k])'
  BY <1>5, VolumesStep
<1>6. QED
  BY <1>1, <1>2, <1>3, <1>4, <1>5 DEF StrategyInv

\* A new Converter and a new conversion owe nothing about the strategy.
LEMMA StrategyStarts ==
  /\ Init => StrategyInv
  /\ \A c \in SourceConfigs : Convert(c) => StrategyInv'
<1>1. /\ Init => step = "idle" /\ b = EmptyBuild
      /\ \A c \in SourceConfigs : Convert(c) => step' = "skeleton" /\ b' = EmptyBuild
  BY DEF Init, Convert
<1>2. IsSequence(<<>>) /\ DOMAIN <<>> = {}
  BY AppendedSequences
<1>3. "buildArgs" \in Calls /\ "volumes" \in Calls
  BY DEF Calls, Steps
<1>4. ASSUME Init
      PROVE  StrategyInv
  <2>1. VolumesListed
    BY <1>1, <1>2, <1>4, StrategyFields DEF VolumesListed
  <2>2. ~Past("buildArgs") /\ ~Past("volumes")
    BY <1>3, <1>4, NothingPast
  <2>3. QED
    BY <1>1, <1>2, <1>4, <2>1, <2>2, StrategyFields DEF StrategyInv, VolumesCounted, Reached
<1>5. ASSUME NEW c \in SourceConfigs, Convert(c)
      PROVE  StrategyInv'
  <2>1. VolumesListed'
    BY <1>1, <1>2, <1>5, StrategyFields DEF VolumesListed
  <2>2. ~Past("buildArgs")' /\ ~Past("volumes")'
    BY <1>3, <1>5, NothingPast
  <2>3. QED
    BY <1>1, <1>2, <1>5, <2>1, <2>2, StrategyFields DEF StrategyInv, VolumesCounted, Reached
<1>6. QED
  BY <1>4, <1>5

\* Where nothing moves, nothing is owed about the strategy that was not.
LEMMA StrategyStutters ==
  ASSUME StrategyInv, UNCHANGED vars
  PROVE  StrategyInv'
<1>1. Own' = Own /\ b' = b /\ bc' = bc /\ step' = step /\ item' = item
  BY NothingMoves
<1>2. Block' = Block /\ (HasBlock' <=> HasBlock)
  BY <1>1 DEF Block, HasBlock
<1>3. "buildArgs" \in Calls /\ "volumes" \in Calls
  BY DEF Calls, Steps
<1>4. /\ Past("buildArgs")' <=> Past("buildArgs")
      /\ Past("volumes")' <=> Past("volumes")
  BY <1>3, NothingMoves
<1>5. /\ \A k : Reached("buildArgs", k)' <=> Reached("buildArgs", k)
      /\ \A k : Reached("volumes", k)' <=> Reached("volumes", k)
  BY <1>1, <1>4 DEF Reached
<1>6. /\ \A arg : ArgSettled(arg)' <=> ArgSettled(arg)
      /\ \A volume : VolumeSettled(volume)' <=> VolumeSettled(volume)
  BY <1>1 DEF ArgSettled, VolumeSettled, VolumeUsable, VolumeSeen
<1>7. /\ VolumesListed' <=> VolumesListed
      /\ VolumesCounted' <=> VolumesCounted
  BY <1>1, <1>2, <1>4 DEF VolumesListed, VolumesCounted
<1>8. QED
  BY <1>1, <1>2, <1>5, <1>6, <1>7 DEF StrategyInv

\* Whatever a strategy block lists and in which order: each build arg and each
\* volume is on the Build or reported, a usable volume gives way only to one of
\* its name, volume names on the Build are unique and warned about, and there
\* are as many volume warnings as entries (convertBuildArgs and
\* processStrategyVolumes; ADR-0007).
THEOREM StrategyLosses ==
  Spec => []StrategyLossesDeclared
<1>1. Init => StrategyInv
  BY StrategyStarts
<1>2. ASSUME ConverterInv, WarnedSoFar, StrategyInv, [Next]_vars
      PROVE  StrategyInv'
  BY <1>2, StrategyStep, StrategyStarts, StrategyStutters DEF Next
<1>3. ASSUME ConversionInv, StrategyInv, Converted
      PROVE  StrategyLossesDeclared
  <2>1. Build = b
    BY <1>3, ShippedResources
  <2>2. Past("buildArgs") /\ Past("volumes")
    BY <1>3 DEF Past, Converted, Concluded
  <2>3. HasBlock =>
          /\ \A k \in DOMAIN Block.buildArgs : ArgSettled(Block.buildArgs[k])
          /\ \A k \in DOMAIN Block.volumes : VolumeSettled(Block.volumes[k])
          /\ Tally(Own, VolumeKinds) = Len(Block.volumes)
    BY <1>3, <2>2 DEF StrategyInv, Reached, VolumesCounted
  <2>4. VolumesListed
    BY <1>3 DEF StrategyInv
  <2>5. /\ \A kind, about : Recorded(kind, about) <=> Mentions(Own, kind, about)
        /\ CountKinds({"volume undeclared", "volume skipped"}) = Tally(Own, VolumeKinds)
    BY DEF Recorded, Mentions, CountKinds, Tally, VolumeKinds
  <2>6. QED
    BY <2>1, <2>3, <2>4, <2>5
    DEF StrategyLossesDeclared, ArgSettled, VolumeSettled, VolumeUsable, VolumeSeen,
        VolumesListed
<1>4. ConversionInv /\ StrategyInv => StrategyLossesDeclared
  BY <1>3 DEF StrategyLossesDeclared
<1>5. QED
  BY <1>1, <1>2, <1>4, Background, PTL DEF Spec

-----------------------------------------------------------------------------
(* Annotations *)

\* The keys the calls write are not each other's, nor the skeleton's.
LEMMA OneWriterPerKey ==
  ASSUME NEW call \in Calls, NEW other \in Calls,
         NEW key, key \in AnnotationsAt(call), key \in AnnotationsAt(other)
  PROVE  call = other
BY KeysDiffer DEF AnnotationsAt

\* An annotation of the Build is a copied one or one of a call made so far.
KnownKey(key) ==
  \/ key \in DOMAIN bc.annotations
  \/ key = ConvertedFromAnnotation
  \/ \E call \in Calls : key \in AnnotationsAt(call) /\ Past(call)

KeysInv == step # "idle" => \A key \in DOMAIN b.annotations : KnownKey(key)

\* What has been passed stays so until the conversion ends.
LEMMA PastStays ==
  ASSUME ConverterInv, Proceed, step' # "idle", NEW call \in Calls
  PROVE  /\ Past(call) => Past(call)'
         /\ call = step /\ step' # step => Past(call)'
<1>1. step \in Calls /\ step # "idle"
  BY ProceedFacts DEF ConverterInv, TypeOK, Calls
<1>2. Iterates \/ HandsOver
  BY StepAdvances DEF GivesUp, Classify
<1>3. step' = step \/ Place(step) < Place(step')
  <2>1. CASE Iterates
    BY <2>1 DEF Iterates
  <2>2. CASE HandsOver
    BY <1>1, <2>2, PlaceValues DEF HandsOver
  <2>3. QED
    BY <1>2, <2>1, <2>2
<1>4. step' \in Calls
  BY <1>1, <1>2 DEF Iterates, HandsOver
<1>5. Place(call) \in 1..19 /\ Place(step) \in 1..19 /\ Place(step') \in 1..19
  BY <1>1, <1>4, PlaceValues
<1>6. QED
  BY <1>1, <1>3, <1>5 DEF Past

\* A step adds no annotation but its call's.
LEMMA KeysStep ==
  ASSUME ConverterInv, KeysInv, Proceed
  PROVE  KeysInv'
<1> SUFFICES ASSUME step' # "idle", NEW key \in DOMAIN b'.annotations
             PROVE  KnownKey(key)'
  BY DEF KeysInv
<1>0. bc' = bc /\ step \in Calls /\ step # "idle"
  BY ProceedFacts DEF fixed, ConverterInv, TypeOK, Calls
<1>1. CASE step = "skeleton"
  <2>1. MakeSkeleton
    BY <1>1, ActionAtStep
  <2>2. b'.annotations = With(CopyAnnotations(bc.annotations),
                              ConvertedFromAnnotation, [text |-> bc.name])
    BY <2>1 DEF MakeSkeleton, EmptyBuild
  <2>3. key \in DOMAIN CopyAnnotations(bc.annotations) \/ key = ConvertedFromAnnotation
    BY <2>2 DEF With
  <2>4. DOMAIN CopyAnnotations(bc.annotations) \subseteq DOMAIN bc.annotations
    BY DEF CopyAnnotations
  <2>5. QED
    BY <1>0, <2>3, <2>4 DEF KnownKey
<1>2. CASE step # "skeleton"
  <2>1. key \in DOMAIN b.annotations \/ key \in AnnotationsAt(step)
    BY <1>2, AnnotationsStay
  <2>2. CASE key \in DOMAIN b.annotations
    <3>1. KnownKey(key)
      BY <1>0, <2>2 DEF KeysInv
    <3>2. \A call \in Calls : Past(call) => Past(call)'
      BY PastStays
    <3>3. QED
      BY <1>0, <3>1, <3>2 DEF KnownKey
  <2>3. CASE key \in AnnotationsAt(step)
    <3>1. step \notin Loops
      BY <2>3 DEF AnnotationsAt, Loops
    <3>2. step' # step
      <4>1. Iterates \/ HandsOver
        BY StepAdvances DEF GivesUp, Classify
      <4>2. HandsOver
        BY <3>1, <4>1 DEF Iterates
      <4>3. CASE step = "strategy"
        BY <4>2, <4>3 DEF HandsOver
      <4>4. CASE step # "strategy"
        <5>1. Place(step') = Place(step) + 1 /\ Place(step) \in 1..19
          BY <1>0, <4>2, <4>4, PlaceValues DEF HandsOver
        <5>2. QED
          BY <5>1
      <4>5. QED
        BY <4>3, <4>4
    <3>3. \A call \in Calls : call = step => Past(call)'
      BY <1>0, <3>2, PastStays
    <3>4. QED
      BY <1>0, <2>3, <3>3 DEF KnownKey
  <2>4. QED
    BY <2>1, <2>2, <2>3
<1>3. QED
  BY <1>1, <1>2

\* Until its call has been made, a key is on the Build only if it was copied.
LEMMA KeyNotYet ==
  ASSUME KeysInv, NEW call \in Calls, step \in Calls, ~Past(call),
         NEW key \in AnnotationsAt(call), key \in DOMAIN b.annotations
  PROVE  key \in DOMAIN bc.annotations
<1>1. step # "idle"
  BY DEF Calls
<1>2. KnownKey(key)
  BY <1>1 DEF KeysInv
<1>3. key # ConvertedFromAnnotation
  BY KeysDiffer DEF AnnotationsAt
<1>4. \A other \in Calls : key \in AnnotationsAt(other) => other = call
  BY OneWriterPerKey
<1>5. QED
  BY <1>2, <1>3, <1>4 DEF KnownKey

\* A new Converter and a new conversion have annotated nothing.
LEMMA KeysStart ==
  /\ Init => KeysInv
  /\ \A c \in SourceConfigs : Convert(c) => KeysInv'
<1>1. DOMAIN EmptyBuild.annotations = {}
  BY DEF EmptyBuild
<1>2. QED
  BY <1>1 DEF Init, Convert, KeysInv

\* Every step adds known keys only.
LEMMA KeysNext ==
  ASSUME ConverterInv, KeysInv, [Next]_vars
  PROVE  KeysInv'
<1>1. CASE Proceed
  BY <1>1, KeysStep
<1>2. ASSUME NEW c \in SourceConfigs, Convert(c)
      PROVE  KeysInv'
  BY <1>2, KeysStart
<1>3. CASE UNCHANGED vars
  <2>1. b' = b /\ bc' = bc /\ step' = step
        /\ \A call \in Calls : Past(call)' <=> Past(call)
    BY <1>3, NothingMoves
  <2>2. \A key : KnownKey(key) => KnownKey(key)'
    BY <2>1 DEF KnownKey
  <2>3. QED
    BY <2>1, <2>2 DEF KeysInv
<1>4. QED
  BY <1>1, <1>2, <1>3 DEF Next

\* The keys of the annotations are known throughout.
LEMMA KeysAlways ==
  Spec => []KeysInv
<1>1. Init => KeysInv
  BY KeysStart
<1>2. ConverterInv /\ KeysInv /\ [Next]_vars => KeysInv'
  BY KeysNext
<1>3. QED
  BY <1>1, <1>2, Invariance, PTL DEF Spec

\* No step rewrites an annotation that the conversion has written: each key
\* has one writer, and the writer comes once (ADR-0003).
THEOREM AnnotationsStayWritten ==
  Spec => AnnotationsWrittenOnce
<1> DEFINE kept ==
      step \notin {"idle", "skeleton"} =>
        \A key \in DOMAIN b.annotations :
          /\ key \in DOMAIN b'.annotations
          /\ key \notin DOMAIN bc.annotations => b'.annotations[key] = b.annotations[key]
<1>1. ASSUME ConverterInv, KeysInv, [Next]_vars
      PROVE  [kept]_vars
  <2> SUFFICES ASSUME Next, step \notin {"idle", "skeleton"}, NEW key \in DOMAIN b.annotations
               PROVE  /\ key \in DOMAIN b'.annotations
                      /\ key \notin DOMAIN bc.annotations =>
                           b'.annotations[key] = b.annotations[key]
    BY <1>1
  <2>1. Proceed
    BY DEF Next, Convert
  <2>2. step \in Calls
    BY <1>1 DEF ConverterInv, TypeOK, Calls
  <2>3. ~Past(step)
    <3>1. Place(step) \in 1..19
      BY <2>2, PlaceValues
    <3>2. QED
      BY <3>1 DEF Past
  <2>4. key \in AnnotationsAt(step) => key \in DOMAIN bc.annotations
    BY <1>1, <2>2, <2>3, KeyNotYet
  <2>5. QED
    BY <1>1, <2>1, <2>4, AnnotationsStay
<1>2. QED
  BY <1>1, KeysAlways, Invariance, PTL DEF Spec, AnnotationsWrittenOnce

-----------------------------------------------------------------------------
(* The warnings annotation *)

\* A set of naturals up to n that holds 0 has a largest element.
LEMMA Largest ==
  ASSUME NEW n \in Nat, NEW S \in SUBSET (0..n), 0 \in S
  PROVE  \E k \in S : \A j \in (k + 1)..n : j \notin S
<1> DEFINE gaps == {n - k : k \in S}
<1>1. gaps \subseteq Nat /\ gaps # {}
  <2>1. \A k \in S : n - k \in Nat
    OBVIOUS
  <2>2. n - 0 \in gaps
    OBVIOUS
  <2>3. QED
    BY <2>1, <2>2
<1>2. PICK gap \in gaps : \A other \in gaps : gap <= other
  BY <1>1, LeastNatural
<1>3. PICK k \in S : gap = n - k
  OBVIOUS
<1>4. ASSUME NEW j \in (k + 1)..n, j \in S PROVE FALSE
  <2>1. n - j \in gaps
    BY <1>4
  <2>2. gap <= n - j
    BY <1>2, <2>1
  <2>3. k \in 0..n
    OBVIOUS
  <2>4. QED
    BY <1>3, <1>4, <2>2, <2>3
<1>5. QED
  BY <1>4

\* The annotation keeps as many warnings as there are, or fewer.
LEMMA KeptCountInRange ==
  ASSUME NEW lengths, Len(lengths) \in Nat
  PROVE  KeptCount(lengths) \in 0..Len(lengths)
<1> DEFINE n == Len(lengths)
           fits(j) == \/ j = 0
                      \/ JoinedLengths(lengths)[j] + ReservedLength(lengths)
                           <= MaxConversionWarningsBytes
           last(k) == fits(k) /\ \A j \in (k + 1)..n : ~fits(j)
           S == {j \in 0..n : fits(j)}
<1>1. KeptCount(lengths) = IF WithinCap(lengths) THEN n ELSE CHOOSE k \in 0..n : last(k)
  BY DEF KeptCount
<1>2. 0 \in S /\ S \in SUBSET (0..n)
  OBVIOUS
<1>3. PICK k \in S : \A j \in (k + 1)..n : j \notin S
  BY <1>2, Largest
<1>4. last(k) /\ k \in 0..n
  <2>1. k \in 0..n /\ fits(k)
    OBVIOUS
  <2>2. ASSUME NEW j \in (k + 1)..n PROVE ~fits(j)
    <3>1. j \in 0..n /\ j \notin S
      BY <1>3, <2>1
    <3>2. QED
      BY <3>1
  <2>3. QED
    BY <2>1, <2>2
<1> HIDE DEF last, fits, S
<1>5. (CHOOSE m \in 0..n : last(m)) \in 0..n
  BY <1>4
<1>6. QED
  BY <1>1, <1>5

\* How the annotation and the warnings of the conversion belong together.
Accounts(annotation) ==
  LET truncated == annotation.omitted > 0
  IN  /\ IsPrefix(annotation.kept, Own)
      /\ Len(annotation.kept) + annotation.omitted + (IF truncated THEN 1 ELSE 0) = Len(Own)
      /\ truncated <=> MentionsKind(Own, "annotation truncated")

AnnotationInv ==
  Converted /\ WarningsAnnotationKey \in DOMAIN b.annotations
    /\ WarningsAnnotationKey \notin DOMAIN bc.annotations =>
    Accounts(b.annotations[WarningsAnnotationKey])

\* What the annotation holds of a list of warnings.
LEMMA BoundedParts ==
  ASSUME NEW own \in Seq(WarningRecord)
  PROVE  \E k \in 0..Len(own) :
           BoundedWarnings(own) = [kept |-> SubSeq(own, 1, k), omitted |-> Len(own) - k]
<1> DEFINE lengths == [k \in DOMAIN own |-> WarningLength(own[k])]
<1>1. Len(lengths) = Len(own)
  <2>1. DOMAIN lengths = DOMAIN own /\ lengths = [k \in DOMAIN lengths |-> lengths[k]]
    OBVIOUS
  <2> HIDE DEF lengths
  <2>2. QED
    BY <2>1, OnPositions
<1>2. BoundedWarnings(own) = [kept |-> SubSeq(own, 1, KeptCount(lengths)),
                              omitted |-> Len(own) - KeptCount(lengths)]
  BY DEF BoundedWarnings
<1> HIDE DEF lengths
<1>3. KeptCount(lengths) \in 0..Len(own)
  BY <1>1, KeptCountInRange
<1>4. QED
  BY <1>2, <1>3

\* A prefix of a sequence is one of a longer sequence.
LEMMA PrefixGrows ==
  ASSUME NEW S, NEW s \in Seq(S), NEW t \in Seq(S), NEW k \in 0..Len(s)
  PROVE  IsPrefix(SubSeq(s, 1, k), s \o t) /\ Len(SubSeq(s, 1, k)) = k
<1>1. /\ SubSeq(s, 1, k) \in Seq(S) /\ Len(SubSeq(s, 1, k)) = k
      /\ \A j \in 1..k : SubSeq(s, 1, k)[j] = s[j]
  OBVIOUS
<1>2. /\ s \o t \in Seq(S) /\ Len(s \o t) = Len(s) + Len(t)
      /\ \A j \in 1..Len(s) : (s \o t)[j] = s[j]
  OBVIOUS
<1> DEFINE head == SubSeq(s, 1, k)
           all == s \o t
<1> HIDE DEF head, all
<1>3. /\ head \in Seq(S) /\ Len(head) = k /\ all \in Seq(S) /\ k <= Len(all) /\ k \in Nat
      /\ \A j \in 1..k : head[j] = all[j]
  BY <1>1, <1>2 DEF head, all
<1>4. SubSeq(head, 1, k) = SubSeq(all, 1, k)
  BY <1>3
<1>5. QED
  BY <1>1, <1>3, <1>4 DEF IsPrefix, head, all

\* Only the last call records that the annotation was cut.
LEMMA NoticeWriter ==
  ASSUME NEW call \in Calls
  PROVE  "annotation truncated" \in KindsAt(call) => call = "outcome"
BY DEF KindsAt, Calls, Steps

\* The last step makes the annotation account for the warnings.
LEMMA ClassifyAccounts ==
  ASSUME ConverterInv, WarnedSoFar, KeysInv, Classify
  PROVE  AnnotationInv'
<1> SUFFICES ASSUME WarningsAnnotationKey \in DOMAIN b'.annotations,
                    WarningsAnnotationKey \notin DOMAIN bc.annotations
             PROVE  Accounts(b.annotations[WarningsAnnotationKey])'
  BY DEF AnnotationInv, Classify, fixed
<1>0. Proceed /\ step = "outcome" /\ step \in Calls
  BY DEF Proceed, Classify, Calls, Steps
<1>1. Own \in Seq(WarningRecord) /\ Own' \in Seq(WarningRecord)
  <2>1. TypeOK /\ TypeOK'
    BY <1>0, ProceedKeepsTypes DEF ConverterInv
  <2>2. QED
    BY <2>1, SuffixByPosition DEF TypeOK, Own
<1> DEFINE annotated == IF Own # <<>>
                        THEN With(b.annotations, WarningsAnnotationKey, BoundedWarnings(Own))
                        ELSE b.annotations
           value == [text |-> <<IF Own # <<>> THEN "converted-with-warnings" ELSE "converted">>]
<1>2. b'.annotations = With(annotated, OutcomeAnnotation, value)
  BY DEF Classify, OwnWarnings, Own, ConverterInv, TypeOK, EmptyBuild
<1>3. WarningsAnnotationKey # OutcomeAnnotation
  BY KeysDiffer
<1>4. WarningsAnnotationKey \notin DOMAIN b.annotations
  <2>1. ~Past("outcome")
    <3>1. Place("outcome") = 19
      BY PlaceValues
    <3>2. QED
      BY <1>0, <3>1 DEF Past
  <2>2. WarningsAnnotationKey \in AnnotationsAt("outcome")
    BY DEF AnnotationsAt
  <2>3. QED
    BY <1>0, <2>1, <2>2, KeyNotYet
<1>5. Own # <<>> /\ b'.annotations[WarningsAnnotationKey] = BoundedWarnings(Own)
  BY <1>2, <1>3, <1>4 DEF With
<1> HIDE DEF annotated, value
<1>6. PICK k \in 0..Len(Own) :
        BoundedWarnings(Own) = [kept |-> SubSeq(Own, 1, k), omitted |-> Len(Own) - k]
  BY <1>1, BoundedParts
<1> DEFINE notice == Warning("annotation truncated", bc.name)
           ws == If(Len(Own) - k > 0, notice)
<1>7. Warn(ws) /\ warnings' = warnings \o ws
  <2>1. BoundedWarnings(Own).omitted = Len(Own) - k
    BY <1>6
  <2>2. Warn(TruncationWarning(Own))
    BY DEF Classify, OwnWarnings, Own
  <2>3. QED
    BY <2>1, <2>2 DEF TruncationWarning, Warn
<1>8. /\ IsSequence(ws)
      /\ Len(ws) = IF Len(Own) - k > 0 THEN 1 ELSE 0
      /\ MentionsKind(ws, "annotation truncated") <=> Len(Own) - k > 0
  <2>1. notice.kind = "annotation truncated"
    BY DEF Warning
  <2>2. CASE Len(Own) - k > 0
    <3>1. ws = <<notice>>
      BY <2>2 DEF If
    <3> HIDE DEF ws, notice
    <3>2. QED
      BY <2>1, <2>2, <3>1, MentionsShort, AppendedSequences
  <2>3. CASE ~(Len(Own) - k > 0)
    <3>1. ws = <<>>
      BY <2>3 DEF If
    <3> HIDE DEF ws, notice
    <3>2. QED
      BY <2>3, <3>1, MentionsShort, AppendedSequences
  <2>4. QED
    BY <2>2, <2>3
<1> HIDE DEF ws, notice
<1>9. Own' = Own \o ws
  BY <1>0, <1>7, <1>8, OwnAppends
<1>10. ~MentionsKind(Own, "annotation truncated")
  <2>1. RecordedOnlyBy("outcome", {"annotation truncated"})
    BY NoticeWriter DEF RecordedOnlyBy
  <2>2. QED
    BY <1>0, <2>1, NothingYet DEF Loops
<1>11. MentionsKind(Own', "annotation truncated") <=> Len(Own) - k > 0
  BY <1>0, <1>7, <1>8, <1>10, OwnGrows
<1>12. ws \in Seq(WarningRecord) /\ Len(Own') = Len(Own) + Len(ws)
  <2>1. IsSequence(Own)
    BY <1>1 DEF IsSequence
  <2>2. Concatenates(Own, ws)
    BY <1>8, <2>1, ConcatPositions
  <2>3. Len(Own') = Len(Own) + Len(ws)
    BY <1>9, <2>2 DEF Concatenates
  <2>4. ws \in [1..Len(ws) -> WarningRecord] /\ Len(ws) \in Nat
    <3>1. PICK T : ws \in Seq(T)
      BY <1>8 DEF IsSequence
    <3>2. Len(ws) \in Nat /\ DOMAIN ws = 1..Len(ws) /\ ws = [j \in 1..Len(ws) |-> ws[j]]
      BY <3>1
    <3>3. ASSUME NEW j \in 1..Len(ws) PROVE ws[j] \in WarningRecord
      <4>1. ws[j] = Own'[Beyond(Own, j)] /\ Beyond(Own, j) \in 1..Len(Own')
        BY <1>1, <1>9, <2>2, <2>3, <3>2 DEF Concatenates, Beyond
      <4>2. QED
        BY <1>1, <4>1
    <3>4. QED
      BY <3>2, <3>3
  <2>5. QED
    BY <2>3, <2>4
<1>13. IsPrefix(SubSeq(Own, 1, k), Own') /\ Len(SubSeq(Own, 1, k)) = k
  BY <1>1, <1>9, <1>12, PrefixGrows
<1>14. k + (Len(Own) - k) + (IF Len(Own) - k > 0 THEN 1 ELSE 0) = Len(Own')
  <2>1. PICK n \in Nat : n = Len(Own)
    BY <1>1
  <2>2. k \in Int /\ k + (n - k) = n
    BY <2>1
  <2>3. Len(Own') = n + (IF n - k > 0 THEN 1 ELSE 0)
    BY <1>8, <1>12, <2>1
  <2>4. QED
    BY <2>1, <2>2, <2>3
<1>15. PICK annotation : /\ annotation = b'.annotations[WarningsAnnotationKey]
                         /\ annotation = BoundedWarnings(Own)
  BY <1>5
<1>16. annotation.kept = SubSeq(Own, 1, k) /\ annotation.omitted = Len(Own) - k
  BY <1>6, <1>15
<1>17. Accounts(annotation)'
  BY <1>11, <1>13, <1>14, <1>16 DEF Accounts
<1>18. QED
  BY <1>15, <1>17

\* Every step of Convert's body keeps that.
LEMMA AnnotationStep ==
  ASSUME ConverterInv, WarnedSoFar, KeysInv, Proceed
  PROVE  AnnotationInv'
<1>1. CASE Classify
  BY <1>1, ClassifyAccounts
<1>2. CASE GivesUp \/ Iterates \/ HandsOver
  <2>1. ~Converted'
    BY <1>2 DEF GivesUp, Iterates, HandsOver, Converted, Concluded, ConvertedStates,
                Calls, Loops
  <2>2. QED
    BY <2>1 DEF AnnotationInv
<1>3. QED
  BY <1>1, <1>2, StepAdvances

\* What the annotation keeps is the head of the warnings, its count makes up
\* for the rest, and the notice of that is recorded exactly when something is
\* left out, for every cap (boundedWarnings, converter.go:333-366).
THEOREM AnnotationAccounts ==
  Spec => []AnnotationAccountsForWarnings
<1>1. Init => AnnotationInv
  <2>1. NoOutcome.state = "none"
    BY DEF NoOutcome
  <2>2. QED
    BY <2>1 DEF Init, AnnotationInv, Converted, Concluded
<1>2. ASSUME ConverterInv, WarnedSoFar, KeysInv, AnnotationInv, [Next]_vars
      PROVE  AnnotationInv'
  <2>1. CASE Proceed
    BY <1>2, <2>1, AnnotationStep
  <2>2. ASSUME NEW c \in SourceConfigs, Convert(c)
        PROVE  AnnotationInv'
    BY <2>2 DEF Convert, AnnotationInv, Converted, Concluded
  <2>3. CASE UNCHANGED vars
    <3>1. Own' = Own /\ b' = b /\ bc' = bc /\ step' = step /\ outcome' = outcome
      BY <2>3, NothingMoves
    <3>2. QED
      BY <1>2, <3>1 DEF AnnotationInv, Accounts, Converted, Concluded
  <2>4. QED
    BY <1>2, <2>1, <2>2, <2>3 DEF Next
<1>3. ASSUME ConversionInv, AnnotationInv
      PROVE  AnnotationAccountsForWarnings
  <2>1. \A kind : RecordedKind(kind) <=> MentionsKind(Own, kind)
    BY DEF RecordedKind, MentionsKind
  <2>2. Converted => Build = b
    BY <1>3, ShippedResources
  <2>3. QED
    BY <1>3, <2>1, <2>2 DEF AnnotationInv, Accounts, AnnotationAccountsForWarnings
<1>4. QED
  BY <1>1, <1>2, <1>3, KeysAlways, Background, PTL DEF Spec

-----------------------------------------------------------------------------
(* The push *)

\* The parameter the strategies read insecure registries from is among these.
Declares(params) == \E k \in DOMAIN params : params[k].name = "registries-insecure"

PushSettled ==
  opts.insecure # <<>> =>
    IF b.strategy = <<"source-to-image">>
    THEN /\ ~Declares(b.params)
         /\ b.insecure <=> \E k \in DOMAIN opts.insecure :
                             opts.insecure[k] = ImageRegistryHost(b.image)
    ELSE Declares(b.params) /\ ~b.insecure

PushInv ==
  /\ IsSequence(b.params)
  /\ step \in Calls /\ Place(step) <= Place("registries") =>
       ~Declares(b.params) /\ ~b.insecure
  /\ Past("registries") => PushSettled

\* A parameter in a concatenation.
LEMMA DeclaresConcat ==
  ASSUME NEW s, IsSequence(s), NEW t, IsSequence(t)
  PROVE  /\ IsSequence(s \o t)
         /\ Declares(s \o t) <=> Declares(s) \/ Declares(t)
<1>1. Concatenates(s, t)
  BY ConcatPositions
<1>2. Declares(s) => Declares(s \o t)
  BY <1>1 DEF Concatenates, Declares
<1>3. Declares(t) => Declares(s \o t)
  <2>1. ASSUME NEW k \in DOMAIN t PROVE Beyond(s, k) \in DOMAIN (s \o t)
    BY <1>1 DEF Concatenates, Beyond
  <2>2. QED
    BY <1>1, <2>1 DEF Concatenates, Declares
<1>4. Declares(s \o t) => Declares(s) \/ Declares(t)
  BY ConcatElements DEF Declares
<1>5. QED
  BY <1>1, <1>2, <1>3, <1>4 DEF Concatenates

\* A parameter under a condition.
LEMMA DeclaresIf ==
  ASSUME NEW condition, NEW name, NEW value
  PROVE  /\ IsSequence(If(condition, Param(name, value)))
         /\ Declares(If(condition, Param(name, value))) <=>
              condition /\ name = "registries-insecure"
<1> DEFINE p == Param(name, value)
           ps == If(condition, p)
<1>1. p.name = name
  BY DEF Param
<1>2. IsSequence(ps)
  BY AppendedSequences
<1>3. (condition => ps = <<p>>) /\ (~condition => ps = <<>>)
  BY DEF If
<1> HIDE DEF p, ps
<1>4. DOMAIN <<p>> = {1} /\ <<p>>[1] = p /\ DOMAIN <<>> = {}
  OBVIOUS
<1>5. Declares(<<p>>) <=> name = "registries-insecure"
  BY <1>1, <1>4 DEF Declares
<1>6. ~Declares(<<>>)
  BY <1>4 DEF Declares
<1>7. Declares(ps) <=> condition /\ name = "registries-insecure"
  BY <1>3, <1>5, <1>6
<1>8. QED
  BY <1>2, <1>7 DEF p, ps

\* The parameters of the strategy's fields are others.
LEMMA StrategyParams ==
  ASSUME NEW name, name # "registries-insecure"
  PROVE  /\ IsSequence(ImageParam(name)) /\ ~Declares(ImageParam(name))
         /\ IsSequence(SwitchParam(name)) /\ ~Declares(SwitchParam(name))
BY DeclaresIf DEF ImageParam, SwitchParam

\* The strategy's calls append such parameters.
LEMMA StrategyAppends ==
  ASSUME ConverterInv, Proceed, IsSequence(b.params), step \in {"strategy", "buildArgs"}
  PROVE  /\ IsSequence(b'.params)
         /\ Declares(b'.params) => Declares(b.params)
<1> DEFINE harmless(s) == IsSequence(s) /\ ~Declares(s)
           params == b.params
<1>0. \A name : name # "registries-insecure" =>
        harmless(ImageParam(name)) /\ harmless(SwitchParam(name))
  BY StrategyParams
<1>1. \A s, t : harmless(t) /\ IsSequence(s) =>
        /\ IsSequence(s \o t)
        /\ Declares(s \o t) => Declares(s)
  BY DeclaresConcat
<1>2. CASE b' = b
  BY <1>2
<1>3. CASE ProcessDockerStrategy
  <2>1. b'.params = params \o ImageParam("runtime-stage-from") \o SwitchParam("no-cache")
                           \o SwitchParam("pull") \o SwitchParam("dockerfile")
    BY <1>3 DEF ProcessDockerStrategy, ConverterInv, TypeOK, EmptyBuild
  <2>2. /\ harmless(ImageParam("runtime-stage-from")) /\ harmless(SwitchParam("no-cache"))
        /\ harmless(SwitchParam("pull")) /\ harmless(SwitchParam("dockerfile"))
    BY <1>0
  <2> HIDE DEF params, harmless
  <2>3. QED
    BY <1>1, <2>1, <2>2 DEF params
<1>4. CASE ProcessSourceStrategy
  <2>1. b'.params = params \o ImageParam("builder-image") \o SwitchParam("scripts-url")
                           \o SwitchParam("incremental") \o SwitchParam("pull-policy")
    BY <1>4 DEF ProcessSourceStrategy, ConverterInv, TypeOK, EmptyBuild
  <2>2. /\ harmless(ImageParam("builder-image")) /\ harmless(SwitchParam("scripts-url"))
        /\ harmless(SwitchParam("incremental")) /\ harmless(SwitchParam("pull-policy"))
    BY <1>0
  <2> HIDE DEF params, harmless
  <2>3. QED
    BY <1>1, <2>1, <2>2 DEF params
<1>5. CASE FinishDockerStrategy
  <2>1. b'.params = params \o SwitchParam("squash")
    BY <1>5 DEF FinishDockerStrategy, ConverterInv, TypeOK, EmptyBuild
  <2>2. harmless(SwitchParam("squash"))
    BY <1>0
  <2> HIDE DEF params, harmless
  <2>3. QED
    BY <1>1, <2>1, <2>2 DEF params
<1>6. CASE StrategyWithoutBlock \/ ConvertBuildArg
  <2>1. b'.params = b.params
    BY <1>6 DEF StrategyWithoutBlock, ConvertBuildArg, ConverterInv, TypeOK, EmptyBuild
  <2>2. QED
    BY <2>1
<1>7. CASE SkipUnsupportedStrategy \/ FailUnknownStrategy \/ FailStrategyImage
  BY <1>2, <1>7 DEF SkipUnsupportedStrategy, FailUnknownStrategy, FailStrategyImage, Skip, Return
<1>8. QED
  BY <1>3, <1>4, <1>5, <1>6, <1>7, ActionAtStep

\* The parameters and the insecure flag before the registries' call.
LEMMA PushFresh ==
  ASSUME ConverterInv, PushInv, Proceed
  PROVE  /\ IsSequence(b'.params)
         /\ step' \in Calls /\ Place(step') <= Place("registries") =>
              ~Declares(b'.params) /\ ~b'.insecure
<1>0. step \in Calls
  BY ProceedFacts DEF ConverterInv, TypeOK, Calls
<1>1. step' \in Calls /\ Place(step') <= Place("registries") =>
        Place(step) <= Place("registries") /\ step # "registries"
  BY NotYet DEF Calls, Steps, Loops
<1>2. CASE step = "skeleton"
  <2>1. b'.params = <<>> /\ b'.insecure = FALSE
    BY <1>2, ActionAtStep DEF MakeSkeleton, EmptyBuild
  <2>2. DOMAIN <<>> = {}
    OBVIOUS
  <2>3. QED
    BY <2>1, <2>2, AppendedSequences DEF Declares
<1>3. CASE step \in {"strategy", "buildArgs"}
  BY <1>0, <1>1, <1>3, StrategyAppends, FieldsStay DEF PushInv
<1>4. CASE step = "registries"
  <2> DEFINE params == b.params
             search == If(opts.search # <<>>, Param("registries-search", opts.search))
             block == If(opts.block # <<>>, Param("registries-block", opts.block))
  <2>1. b'.params = params \o search \o InsecureParam \o block
    BY <1>4, ActionAtStep DEF AddRegistries, ConverterInv, TypeOK, EmptyBuild
  <2>2. IsSequence(params) /\ IsSequence(search) /\ IsSequence(InsecureParam) /\ IsSequence(block)
    BY DeclaresIf DEF PushInv, InsecureParam
  <2> HIDE DEF params, search, block
  <2>3. \A s, t : IsSequence(s) /\ IsSequence(t) => IsSequence(s \o t)
    BY DeclaresConcat
  <2>4. QED
    BY <1>1, <1>4, <2>1, <2>2, <2>3
<1>5. CASE step \notin {"skeleton", "strategy", "buildArgs", "registries"}
  <2>1. b'.params = b.params /\ b'.insecure = b.insecure
    BY <1>5, FieldsStay
  <2>2. QED
    BY <1>0, <1>1, <2>1 DEF PushInv
<1>6. QED
  BY <1>2, <1>3, <1>4, <1>5

\* The registries' call declares them where the push of the strategy looks.
LEMMA RegistriesSettle ==
  ASSUME ConverterInv, PushInv, AddRegistries
  PROVE  PushSettled'
<1>0. /\ Proceed /\ step = "registries" /\ opts' = opts
      /\ b'.strategy = b.strategy /\ b'.image = b.image
  <2>1. Proceed /\ step = "registries"
    BY DEF Proceed, AddRegistries
  <2>2. QED
    BY <2>1, ProceedFacts, FieldsStay DEF fixed
<1>1. ~Declares(b.params) /\ IsSequence(b.params)
  BY <1>0, PlaceValues DEF PushInv, Calls, Steps
<1> DEFINE params == b.params
           search == If(opts.search # <<>>, Param("registries-search", opts.search))
           block == If(opts.block # <<>>, Param("registries-block", opts.block))
<1>2. /\ b'.params = params \o search \o InsecureParam \o block
      /\ b'.insecure = (ShipwrightPushes /\ Contains(opts.insecure, ImageRegistryHost(b.image)))
  BY DEF AddRegistries, ConverterInv, TypeOK, EmptyBuild
<1>3. /\ IsSequence(search) /\ ~Declares(search)
      /\ IsSequence(block) /\ ~Declares(block)
      /\ IsSequence(InsecureParam)
      /\ Declares(InsecureParam) <=> opts.insecure # <<>> /\ ~ShipwrightPushes
  <2>1. IsSequence(search) /\ (Declares(search) <=> opts.search # <<>>
                                 /\ "registries-search" = "registries-insecure")
    BY DeclaresIf
  <2>2. IsSequence(block) /\ (Declares(block) <=> opts.block # <<>>
                                /\ "registries-block" = "registries-insecure")
    BY DeclaresIf
  <2> DEFINE condition == opts.insecure # <<>> /\ ~ShipwrightPushes
             param == If(condition, Param("registries-insecure", opts.insecure))
  <2>3. IsSequence(param) /\ (Declares(param) <=> condition
                                /\ "registries-insecure" = "registries-insecure")
    <3> HIDE DEF condition
    <3>1. QED
      BY DeclaresIf
  <2>4. InsecureParam = param
    BY DEF InsecureParam
  <2> HIDE DEF search, block, param
  <2>5. QED
    BY <2>1, <2>2, <2>3, <2>4
<1>4. ShipwrightPushes <=> b.strategy = <<"source-to-image">>
  BY DEF ShipwrightPushes, DefaultStrategy
<1>5. Contains(opts.insecure, ImageRegistryHost(b.image)) <=>
        \E k \in DOMAIN opts.insecure : opts.insecure[k] = ImageRegistryHost(b.image)
  <2>1. opts.insecure \in Seq(Text)
    BY ConverterAssumption DEF ConverterInv, TypeOK, IsOptions
  <2>2. QED
    BY <2>1 DEF Contains
<1>6. params = b.params
  OBVIOUS
<1> HIDE DEF params, search, block
<1>7. /\ IsSequence(params \o search) /\ ~Declares(params \o search)
      /\ IsSequence(params \o search \o InsecureParam)
      /\ Declares(params \o search \o InsecureParam) <=> Declares(InsecureParam)
  BY <1>1, <1>3, <1>6, DeclaresConcat
<1>8. Declares(b'.params) <=> opts.insecure # <<>> /\ ~ShipwrightPushes
  BY <1>2, <1>3, <1>7, DeclaresConcat
<1>9. QED
  BY <1>0, <1>2, <1>4, <1>5, <1>8 DEF PushSettled

\* Every step of Convert's body keeps that.
LEMMA PushStep ==
  ASSUME ConverterInv, PushInv, Proceed
  PROVE  PushInv'
<1>1. ASSUME Past("registries")'
      PROVE  PushSettled'
  <2>1. CASE Past("registries")
    <3>1. step \notin {"skeleton", "strategy", "buildArgs", "output", "registries"}
      <4>1. step \in Calls /\ Place("registries") < Place(step)
        BY <2>1, PastIsOver DEF Calls, Steps
      <4>2. QED
        BY <4>1, PlaceValues
    <3>2. /\ b'.params = b.params /\ b'.insecure = b.insecure
          /\ b'.strategy = b.strategy /\ b'.image = b.image
      BY <3>1, FieldsStay
    <3>3. opts' = opts
      BY ProceedFacts DEF fixed
    <3>4. QED
      BY <2>1, <3>2, <3>3 DEF PushInv, PushSettled
  <2>2. CASE step = "registries"
    BY <2>2, ActionAtStep, RegistriesSettle
  <2>3. QED
    BY <1>1, <2>1, <2>2, Onward DEF Calls, Steps
<1>2. QED
  BY <1>1, PushFresh DEF PushInv

\* An insecure registry is declared where the push of the Build's strategy
\* looks for it, and nowhere else: on the output for source-to-image, as a
\* parameter for every other strategy, whichever flag or type chose the strategy
\* (addRegistries, converter.go:1183-1204).
THEOREM InsecurePushes ==
  Spec => []InsecureReachesThePush
<1>0. EmptyBuild.params = <<>> /\ EmptyBuild.insecure = FALSE /\ DOMAIN <<>> = {}
  BY DEF EmptyBuild
<1>1. Init => PushInv
  <2> SUFFICES ASSUME Init PROVE PushInv
    OBVIOUS
  <2>1. b = EmptyBuild /\ step = "idle"
    BY DEF Init
  <2>2. QED
    BY <1>0, <2>1, NothingPast, AppendedSequences DEF PushInv, Declares, Calls, Steps
<1>2. ASSUME ConverterInv, PushInv, [Next]_vars
      PROVE  PushInv'
  <2>1. CASE Proceed
    BY <1>2, <2>1, PushStep
  <2>2. ASSUME NEW c \in SourceConfigs, Convert(c)
        PROVE  PushInv'
    <3>1. b' = EmptyBuild
      BY <2>2 DEF Convert
    <3>2. ~Past("registries")'
      BY <2>2, NothingPast DEF Calls, Steps
    <3>3. QED
      BY <1>0, <3>1, <3>2, AppendedSequences DEF PushInv, Declares
  <2>3. CASE UNCHANGED vars
    <3>1. b' = b /\ step' = step /\ opts' = opts /\ (Past("registries")' <=> Past("registries"))
      BY <2>3, NothingMoves DEF vars, Calls, Steps
    <3>2. QED
      BY <1>2, <3>1 DEF PushInv, PushSettled, Declares, IsSequence
  <2>4. QED
    BY <1>2, <2>1, <2>2, <2>3 DEF Next
<1>3. ASSUME ConversionInv, PushInv
      PROVE  InsecureReachesThePush
  <2> SUFFICES ASSUME Converted, opts.insecure # <<>>
               PROVE  InsecureReachesThePush
    BY DEF InsecureReachesThePush
  <2>1. Build = b
    BY <1>3, ShippedResources
  <2>2. Past("registries")
    BY DEF Past, Converted, Concluded
  <2>3. QED
    BY <1>3, <2>1, <2>2 DEF PushInv, PushSettled, Declares, InsecureReachesThePush
<1>4. QED
  BY <1>1, <1>2, <1>3, Background, PTL DEF Spec

-----------------------------------------------------------------------------
(* What goes with the Build *)

\* The resources and the generated account change in their calls only.
LEMMA ExtrasKept ==
  ASSUME Proceed
  PROVE  /\ ~ProcessCredentials => generatedSA' = generatedSA
         /\ ~ProcessCredentials /\ ~ProcessInlineDockerfile => newResources' = newResources
<1>1. \A result : Return(result) => UNCHANGED <<newResources, generatedSA>>
  BY DEF Return
<1>2. CASE SkipUnsupportedStrategy \/ FailUnknownStrategy \/ FailStrategyImage
             \/ SkipWithoutOutput \/ FailSource
  BY <1>1, <1>2 DEF SkipUnsupportedStrategy, FailUnknownStrategy, FailStrategyImage,
                    SkipWithoutOutput, FailSource, Skip
<1>3. CASE MakeSkeleton \/ StrategyWithoutBlock \/ ProcessDockerStrategy
             \/ ProcessSourceStrategy \/ FinishDockerStrategy \/ FinishVolumes
             \/ ConvertBuildArg \/ ConvertVolume \/ ConvertImageLabel
  BY <1>3 DEF MakeSkeleton, StrategyWithoutBlock, ProcessDockerStrategy,
              ProcessSourceStrategy, FinishDockerStrategy, FinishVolumes, ConvertBuildArg,
              ConvertVolume, ConvertImageLabel, UnchangedExtras
<1>4. CASE SourceAbsent \/ GitSource \/ BinarySource \/ ImageSourceStep
             \/ ProcessOutput \/ FinishOutput \/ ProcessChainInput \/ FinishChainCandidates
  BY <1>4 DEF SourceAbsent, GitSource, BinarySource, ImageSourceStep, ProcessOutput,
              FinishOutput, ProcessChainInput, FinishChainCandidates, UnchangedExtras
<1>5. CASE ProcessCompletionDeadline \/ ProcessNodeSelector \/ ProcessRunPolicy
             \/ ProcessPostCommit \/ ProcessBuildsHistoryLimits \/ AddRegistries
             \/ ProcessTriggers \/ ProcessResources
  BY <1>5
  DEF ProcessCompletionDeadline, ProcessNodeSelector, ProcessRunPolicy, ProcessPostCommit,
      ProcessBuildsHistoryLimits, AddRegistries, ProcessTriggers, ProcessResources,
      UnchangedExtras
<1>6. CASE Classify
  BY <1>6 DEF Classify
<1>7. CASE ProcessInlineDockerfile
  BY <1>7 DEF ProcessInlineDockerfile
<1>8. QED
  BY <1>2, <1>3, <1>4, <1>5, <1>6, <1>7 DEF Proceed

\* The actions that return without a Build.
LEMMA Givers ==
  ASSUME Proceed, GivesUp
  PROVE  \/ SkipUnsupportedStrategy \/ FailUnknownStrategy \/ FailStrategyImage
         \/ SkipWithoutOutput \/ FailSource
<1>1. step' = "idle" /\ outcome'.state \notin ConvertedStates
  BY DEF GivesUp, ConvertedStates
<1>2. ~Classify
  <2>1. ASSUME Classify PROVE outcome'.state \in ConvertedStates
    BY <2>1 DEF Classify, ConvertedStates
  <2>2. QED
    BY <1>1, <2>1
<1>3. ~MakeSkeleton /\ ~StrategyWithoutBlock /\ ~ProcessDockerStrategy /\ ~ProcessSourceStrategy
      /\ ~ProcessCredentials /\ ~ProcessInlineDockerfile
  BY <1>1 DEF MakeSkeleton, StrategyWithoutBlock, ProcessDockerStrategy, ProcessSourceStrategy,
              ProcessCredentials, ProcessInlineDockerfile, Continue
<1>4. ~ConvertBuildArg /\ ~FinishDockerStrategy /\ ~ConvertVolume /\ ~FinishVolumes
      /\ ~ConvertImageLabel /\ ~FinishOutput /\ ~ProcessChainInput /\ ~FinishChainCandidates
  BY <1>1 DEF ConvertBuildArg, FinishDockerStrategy, ConvertVolume, FinishVolumes,
              ConvertImageLabel, FinishOutput, ProcessChainInput, FinishChainCandidates,
              Continue, Repeat
<1>5. ~SourceAbsent /\ ~GitSource /\ ~BinarySource /\ ~ImageSourceStep /\ ~ProcessOutput
  BY <1>1 DEF SourceAbsent, GitSource, BinarySource, ImageSourceStep, ProcessOutput, Continue
<1>6. /\ ~ProcessCompletionDeadline /\ ~ProcessNodeSelector /\ ~ProcessRunPolicy
      /\ ~ProcessPostCommit /\ ~ProcessBuildsHistoryLimits /\ ~AddRegistries
      /\ ~ProcessTriggers /\ ~ProcessResources
  BY <1>1 DEF ProcessCompletionDeadline, ProcessNodeSelector, ProcessRunPolicy,
              ProcessPostCommit, ProcessBuildsHistoryLimits, AddRegistries, ProcessTriggers,
              ProcessResources, Continue
<1>7. QED
  BY <1>2, <1>3, <1>4, <1>5, <1>6 DEF Proceed

IsMapResource(r) == r.kind = "ConfigMap"

\* The account that goes with the Build is the generated one, or there is none.
AccountsSettled ==
  /\ GeneratesServiceAccount =>
       /\ generatedSA = UniqueName(bc.name)
       /\ \E k \in DOMAIN newResources : IsAccount(newResources[k])
  /\ ~GeneratesServiceAccount => generatedSA = Empty
  /\ \A k \in DOMAIN newResources :
       IsAccount(newResources[k]) =>
         /\ GeneratesServiceAccount
         /\ newResources[k].name = generatedSA /\ newResources[k].secret = PullSecret

PreservesDockerfile == HasInlineDockerfile /\ bc.type = "Docker"

\* The annotation and the ConfigMap belong together, and come for a Dockerfile.
DockerfileKept ==
  /\ \A k \in DOMAIN newResources :
       IsMapResource(newResources[k]) =>
         /\ DockerfileAnnotation \in DOMAIN b.annotations
         /\ b.annotations[DockerfileAnnotation].text = newResources[k].name
         /\ PreservesDockerfile
         /\ newResources[k].name = UniqueName(DockerfileOriginalName)
         /\ newResources[k].content = bc.source.dockerfile
  /\ PreservesDockerfile => \E k \in DOMAIN newResources : IsMapResource(newResources[k])
  /\ DockerfileAnnotation \in DOMAIN b.annotations
       /\ DockerfileAnnotation \notin DOMAIN bc.annotations =>
       \E k \in DOMAIN newResources :
         /\ IsMapResource(newResources[k])
         /\ newResources[k].name = b.annotations[DockerfileAnnotation].text

PartsInv ==
  /\ b.kind = "Build"
  /\ Past("skeleton") => b.ns = bc.ns /\ b.name = UniqueName(bc.name)
  /\ \A k \in DOMAIN newResources :
       /\ newResources[k].ns = bc.ns
       /\ IsAccount(newResources[k]) \/ IsMapResource(newResources[k])
  /\ step \in Calls /\ Place(step) <= Place("gate") =>
       newResources = <<>> /\ generatedSA = Empty
  /\ step \in Calls /\ Place(step) <= Place("dockerfile") =>
       \A k \in DOMAIN newResources : ~IsMapResource(newResources[k])
  /\ Past("gate") => AccountsSettled
  /\ Past("dockerfile") => DockerfileKept
  /\ step = "idle" /\ outcome.state \notin ConvertedStates => outcome.resources = <<>>

\* The Build has the BuildConfig's namespace, and a name made of its name.
LEMMA IdentityStep ==
  ASSUME ConverterInv, PartsInv, Proceed
  PROVE  /\ b'.kind = "Build"
         /\ Past("skeleton")' => b'.ns = bc'.ns /\ b'.name = UniqueName(bc'.name)
<1>0. bc' = bc
  BY ProceedFacts DEF fixed
<1>1. CASE step = "skeleton"
  BY <1>0, <1>1, ActionAtStep, ZenonT(40) DEF MakeSkeleton, EmptyBuild
<1>2. CASE step # "skeleton"
  <2>1. b'.kind = b.kind /\ b'.ns = b.ns /\ b'.name = b.name
    BY <1>2, FieldsStay
  <2>2. Past("skeleton")' => Past("skeleton")
    BY <1>2, Onward DEF Calls, Steps
  <2>3. QED
    BY <1>0, <2>1, <2>2 DEF PartsInv
<1>3. QED
  BY <1>1, <1>2

\* The two parts are told apart by their kinds.
LEMMA PartKinds ==
  /\ IsAccount(ServiceAccount) /\ ~IsMapResource(ServiceAccount)
  /\ IsMapResource(DockerfileConfigMap) /\ ~IsAccount(DockerfileConfigMap)
  /\ ServiceAccount.ns = bc.ns /\ ServiceAccount.name = UniqueName(bc.name)
  /\ ServiceAccount.secret = PullSecret
  /\ DockerfileConfigMap.ns = bc.ns /\ DockerfileConfigMap.content = bc.source.dockerfile
  /\ DockerfileConfigMap.name = UniqueName(DockerfileOriginalName)
BY DEF IsAccount, IsMapResource, ServiceAccount, DockerfileConfigMap

\* The credentials' call generates the account, or none.
LEMMA AccountSettles ==
  ASSUME ConverterInv, ConversionInv, PartsInv, ProcessCredentials
  PROVE  /\ AccountsSettled'
         /\ \A k \in DOMAIN newResources' :
              /\ newResources'[k].ns = bc'.ns
              /\ IsAccount(newResources'[k]) /\ ~IsMapResource(newResources'[k])
<1>0. Proceed /\ step = "gate" /\ bc' = bc
  BY ProceedFacts DEF Proceed, ProcessCredentials, Continue, fixed
<1>1. newResources = <<>>
  BY <1>0, PlaceValues DEF PartsInv, Calls, Steps
<1>2. /\ newResources' = newResources \o If(GeneratesServiceAccount, ServiceAccount)
      /\ generatedSA' = IF GeneratesServiceAccount THEN ServiceAccount.name ELSE Empty
  BY DEF ProcessCredentials
<1>3. GeneratesServiceAccount' <=> GeneratesServiceAccount
  BY <1>0, CredentialsFixed DEF GeneratesServiceAccount
<1>4. UniqueName(bc'.name) = UniqueName(bc.name) /\ PullSecret' = PullSecret
  BY <1>0, CredentialsFixed
<1>5. CASE GeneratesServiceAccount
  <2>1. newResources' = <<ServiceAccount>>
    <3>1. newResources' = <<>> \o <<ServiceAccount>>
      BY <1>1, <1>2, <1>5 DEF If
    <3>2. QED
      BY <3>1
  <2>2. DOMAIN newResources' = {1} /\ newResources'[1] = ServiceAccount
    BY <2>1
  <2>3. QED
    BY <1>0, <1>2, <1>3, <1>4, <1>5, <2>2, PartKinds DEF AccountsSettled, IsAccount, IsMapResource
<1>6. CASE ~GeneratesServiceAccount
  <2>1. newResources' = <<>>
    <3>1. newResources' = <<>> \o <<>>
      BY <1>1, <1>2, <1>6 DEF If
    <3>2. QED
      BY <3>1
  <2>2. DOMAIN newResources' = {}
    BY <2>1
  <2>3. QED
    BY <1>2, <1>3, <1>6, <2>2 DEF AccountsSettled
<1>7. QED
  BY <1>5, <1>6

\* The Dockerfile's call writes the ConfigMap and its annotation, or neither.
LEMMA DockerfileSettles ==
  ASSUME ConverterInv, ConversionInv, KeysInv, PartsInv, ProcessInlineDockerfile
  PROVE  /\ DockerfileKept'
         /\ AccountsSettled => AccountsSettled'
         /\ \A k \in DOMAIN newResources' :
              /\ newResources'[k].ns = bc'.ns
              /\ IsAccount(newResources'[k]) \/ IsMapResource(newResources'[k])
<1>0. Proceed /\ step = "dockerfile" /\ bc' = bc /\ generatedSA' = generatedSA
  BY ProceedFacts DEF Proceed, ProcessInlineDockerfile, Continue, fixed
<1> DEFINE preserved == PreservesDockerfile
           r == DockerfileConfigMap
<1>1. /\ newResources' = newResources \o If(preserved, r)
      /\ preserved => b'.annotations = With(b.annotations, DockerfileAnnotation, [text |-> r.name])
      /\ ~preserved => b' = b
  BY DEF ProcessInlineDockerfile, PreservesDockerfile, ConverterInv, TypeOK, EmptyBuild
<1>2. IsSequence(newResources)
  BY DEF ConversionInv
<1>3. \A k \in DOMAIN newResources :
        /\ newResources[k].ns = bc.ns
        /\ IsAccount(newResources[k]) /\ ~IsMapResource(newResources[k])
  BY <1>0, PlaceValues DEF PartsInv, Calls, Steps
<1>4. GeneratesServiceAccount' <=> GeneratesServiceAccount
  BY <1>0, CredentialsFixed DEF GeneratesServiceAccount
<1>5. /\ UniqueName(bc'.name) = UniqueName(bc.name) /\ PullSecret' = PullSecret
      /\ UniqueName(DockerfileOriginalName)' = UniqueName(DockerfileOriginalName)
      /\ PreservesDockerfile' <=> PreservesDockerfile
  BY <1>0, CredentialsFixed DEF DockerfileOriginalName, PreservesDockerfile, HasInlineDockerfile
<1>6. CASE preserved
  <2>1. OneMore(newResources, newResources', r)
    BY <1>1, <1>2, <1>6, AppendsOne
  <2>2. /\ Len(newResources) \in Nat /\ DOMAIN newResources = 1..Len(newResources)
        /\ DOMAIN newResources' = 1..(Len(newResources) + 1)
        /\ \A k \in DOMAIN newResources : newResources'[k] = newResources[k]
        /\ newResources'[Len(newResources) + 1] = r
    BY <2>1 DEF OneMore
  <2>3. \A k \in DOMAIN newResources' :
          \/ k \in DOMAIN newResources /\ newResources'[k] = newResources[k]
          \/ newResources'[k] = r
    BY <2>2
  <2>4. \E k \in DOMAIN newResources' : newResources'[k] = r
    BY <2>2
  <2>5. \A k \in DOMAIN newResources :
          k \in DOMAIN newResources' /\ newResources'[k] = newResources[k]
    BY <2>2
  <2>6. /\ DockerfileAnnotation \in DOMAIN b'.annotations
        /\ b'.annotations[DockerfileAnnotation].text = r.name
    BY <1>1, <1>6 DEF With
  <2>7. /\ IsMapResource(r) /\ ~IsAccount(r) /\ r.ns = bc.ns /\ r.content = bc.source.dockerfile
        /\ r.name = UniqueName(DockerfileOriginalName)
    BY PartKinds
  <2>11. PreservesDockerfile
    BY <1>6
  <2> HIDE DEF r, preserved
  <2>8. DockerfileKept'
    <3>1. \A k \in DOMAIN newResources' : IsMapResource(newResources'[k]) => newResources'[k] = r
      BY <1>3, <2>3
    <3>2. QED
      BY <1>0, <1>5, <2>4, <2>6, <2>7, <2>11, <3>1 DEF DockerfileKept, IsMapResource
  <2>9. AccountsSettled => AccountsSettled'
    BY <1>0, <1>4, <1>5, <2>3, <2>5, <2>7 DEF AccountsSettled, IsAccount
  <2>10. QED
    BY <1>0, <1>3, <2>3, <2>7, <2>8, <2>9
<1>7. CASE ~preserved
  <2>1. newResources' = newResources
    BY <1>1, <1>2, <1>7, AppendsOne
  <2>2. b' = b
    BY <1>1, <1>7
  <2>3. DockerfileAnnotation \in DOMAIN b.annotations => DockerfileAnnotation \in DOMAIN bc.annotations
    <3>1. ~Past("dockerfile") /\ "dockerfile" \in Calls
      <4>1. Place("dockerfile") = 6
        BY PlaceValues
      <4>2. QED
        BY <1>0, <4>1 DEF Past, Calls, Steps
    <3>2. DockerfileAnnotation \in AnnotationsAt("dockerfile")
      BY DEF AnnotationsAt
    <3>3. QED
      BY <1>0, <3>1, <3>2, KeyNotYet
  <2>4. DockerfileKept'
    BY <1>0, <1>3, <1>5, <1>7, <2>1, <2>2, <2>3 DEF DockerfileKept, IsMapResource
  <2>5. AccountsSettled => AccountsSettled'
    BY <1>0, <1>4, <1>5, <2>1 DEF AccountsSettled, IsAccount
  <2>6. QED
    BY <1>0, <1>3, <2>1, <2>4, <2>5
<1>8. QED
  BY <1>6, <1>7

\* Every step of Convert's body keeps the parts together.
LEMMA PartsStep ==
  ASSUME ConverterInv, ConversionInv, KeysInv, PartsInv, Proceed
  PROVE  PartsInv'
<1>0. bc' = bc /\ step \in Calls /\ step # "idle"
  BY ProceedFacts DEF fixed, ConverterInv, TypeOK, Calls
<1>1. GeneratesServiceAccount' <=> GeneratesServiceAccount
  BY <1>0, CredentialsFixed DEF GeneratesServiceAccount
<1>2. /\ UniqueName(bc'.name) = UniqueName(bc.name) /\ PullSecret' = PullSecret
      /\ UniqueName(DockerfileOriginalName)' = UniqueName(DockerfileOriginalName)
      /\ PreservesDockerfile' <=> PreservesDockerfile
  BY <1>0, CredentialsFixed DEF DockerfileOriginalName, PreservesDockerfile, HasInlineDockerfile
<1>3. \A k \in DOMAIN newResources' :
        /\ newResources'[k].ns = bc'.ns
        /\ IsAccount(newResources'[k]) \/ IsMapResource(newResources'[k])
  <2>1. CASE ProcessCredentials
    BY <2>1, AccountSettles
  <2>2. CASE ProcessInlineDockerfile
    BY <2>2, DockerfileSettles
  <2>3. CASE ~ProcessCredentials /\ ~ProcessInlineDockerfile
    BY <1>0, <2>3, ExtrasKept DEF PartsInv, IsAccount, IsMapResource
  <2>4. QED
    BY <2>1, <2>2, <2>3
<1>4. ASSUME step' \in Calls, Place(step') <= Place("gate")
      PROVE  newResources' = <<>> /\ generatedSA' = Empty
  <2>1. Place(step) <= Place("gate") /\ step # "gate"
    BY <1>4, NotYet DEF Calls, Steps, Loops
  <2>2. ~ProcessCredentials /\ ~ProcessInlineDockerfile
    BY <2>1, Guards, PlaceValues
  <2>3. QED
    BY <1>0, <2>1, <2>2, ExtrasKept DEF PartsInv
<1>5. ASSUME step' \in Calls, Place(step') <= Place("dockerfile")
      PROVE  \A k \in DOMAIN newResources' : ~IsMapResource(newResources'[k])
  <2>1. Place(step) <= Place("dockerfile") /\ step # "dockerfile"
    BY <1>5, NotYet DEF Calls, Steps, Loops
  <2>2. ~ProcessInlineDockerfile
    BY <2>1, Guards
  <2>3. CASE ProcessCredentials
    BY <2>3, AccountSettles
  <2>4. CASE ~ProcessCredentials
    BY <1>0, <2>1, <2>2, <2>4, ExtrasKept DEF PartsInv
  <2>5. QED
    BY <2>3, <2>4
<1>6. ASSUME Past("gate")'
      PROVE  AccountsSettled'
  <2>1. CASE Past("gate")
    <3>1. AccountsSettled
      BY <2>1 DEF PartsInv
    <3>2. CASE ProcessInlineDockerfile
      BY <3>1, <3>2, DockerfileSettles
    <3>3. CASE ~ProcessInlineDockerfile
      <4>1. ~ProcessCredentials
        BY <2>1, PastIsOver, Guards DEF Calls, Steps
      <4>2. newResources' = newResources /\ generatedSA' = generatedSA
        BY <3>3, <4>1, ExtrasKept
      <4>3. QED
        BY <1>0, <1>1, <1>2, <3>1, <4>2 DEF AccountsSettled, IsAccount
    <3>4. QED
      BY <3>2, <3>3
  <2>2. CASE step = "gate" /\ step' # "gate"
    <3>1. CASE ProcessCredentials
      BY <3>1, AccountSettles
    <3>2. CASE SkipWithoutOutput
      <4>1. ~Past("gate")'
        BY <3>2 DEF SkipWithoutOutput, Skip, Return, OutcomeSkipped, Past, Converted,
                    Concluded, ConvertedStates
      <4>2. QED
        BY <1>6, <4>1
    <3>3. QED
      BY <2>2, <3>1, <3>2, ActionAtStep
  <2>3. QED
    BY <1>6, <2>1, <2>2, Onward DEF Calls, Steps
<1>7. ASSUME Past("dockerfile")'
      PROVE  DockerfileKept'
  <2>1. CASE Past("dockerfile")
    <3>1. step \notin {"gate", "dockerfile", "skeleton"}
      <4>1. Place("dockerfile") < Place(step)
        BY <2>1, PastIsOver DEF Calls, Steps
      <4>2. QED
        BY <4>1, PlaceValues
    <3>2. newResources' = newResources
      BY <3>1, ExtrasKept, Guards
    <3>3. DockerfileAnnotation \notin AnnotationsAt(step)
      BY <3>1, KeysDiffer DEF AnnotationsAt
    <3>4. /\ DockerfileAnnotation \in DOMAIN b'.annotations <=>
               DockerfileAnnotation \in DOMAIN b.annotations
          /\ DockerfileAnnotation \in DOMAIN b.annotations =>
               b'.annotations[DockerfileAnnotation] = b.annotations[DockerfileAnnotation]
      BY <3>1, <3>3, AnnotationsStay
    <3>5. DockerfileKept
      BY <2>1 DEF PartsInv
    <3>6. QED
      BY <1>0, <1>2, <3>2, <3>4, <3>5 DEF DockerfileKept, IsMapResource
  <2>2. CASE step = "dockerfile"
    BY <2>2, ActionAtStep, DockerfileSettles
  <2>3. QED
    BY <1>7, <2>1, <2>2, Onward DEF Calls, Steps
<1>8. step' = "idle" /\ outcome'.state \notin ConvertedStates => outcome'.resources = <<>>
  <2>1. CASE Classify
    BY <2>1 DEF Classify, ConvertedStates
  <2>2. CASE Iterates \/ HandsOver
    BY <2>2 DEF Iterates, HandsOver, Loops, Calls
  <2>3. CASE GivesUp
    <3>1. \A reason : /\ OutcomeSkipped(reason).resources = <<>>
                      /\ OutcomeFailed(reason).resources = <<>>
      BY DEF OutcomeSkipped, OutcomeFailed
    <3>2. \A reason : Return(OutcomeSkipped(reason)) \/ Return(OutcomeFailed(reason)) =>
            outcome'.resources = <<>>
      BY <3>1 DEF Return
    <3>3. \/ SkipUnsupportedStrategy \/ FailUnknownStrategy \/ FailStrategyImage
          \/ SkipWithoutOutput \/ FailSource
      BY <2>3, Givers
    <3>4. QED
      BY <3>2, <3>3 DEF SkipUnsupportedStrategy, FailUnknownStrategy, FailStrategyImage,
                        SkipWithoutOutput, FailSource, Skip
  <2>4. QED
    BY <2>1, <2>2, <2>3, StepAdvances
<1>9. QED
  BY <1>3, <1>4, <1>5, <1>6, <1>7, <1>8, IdentityStep DEF PartsInv

\* A new Converter and a new conversion have nothing that goes with the Build.
LEMMA PartsStart ==
  /\ Init => PartsInv
  /\ \A c \in SourceConfigs : Convert(c) => PartsInv'
<1>0. EmptyBuild.kind = "Build" /\ DOMAIN <<>> = {}
      /\ NoOutcome.resources = <<>> /\ NoOutcome.state = "none"
  BY DEF EmptyBuild, NoOutcome
<1>1. {"skeleton", "gate", "dockerfile"} \subseteq Calls
  BY DEF Calls, Steps
<1>2. ASSUME Init PROVE PartsInv
  <2>1. b = EmptyBuild /\ newResources = <<>> /\ generatedSA = Empty /\ outcome = NoOutcome
    BY <1>2 DEF Init
  <2>2. QED
    BY <1>0, <1>1, <1>2, <2>1, NothingPast DEF PartsInv
<1>3. ASSUME NEW c \in SourceConfigs, Convert(c) PROVE PartsInv'
  <2>1. /\ b' = EmptyBuild /\ newResources' = <<>> /\ generatedSA' = Empty
        /\ step' = "skeleton"
    BY <1>3 DEF Convert
  <2>2. ~Past("skeleton")' /\ ~Past("gate")' /\ ~Past("dockerfile")'
    BY <1>1, <1>3, NothingPast
  <2>3. QED
    BY <1>0, <2>1, <2>2 DEF PartsInv
<1>4. QED
  BY <1>2, <1>3

\* Every step keeps the parts together.
LEMMA PartsNext ==
  ASSUME ConverterInv, ConversionInv, KeysInv, PartsInv, [Next]_vars
  PROVE  PartsInv'
<1>1. CASE Proceed
  BY <1>1, PartsStep
<1>2. ASSUME NEW c \in SourceConfigs, Convert(c)
      PROVE  PartsInv'
  BY <1>2, PartsStart
<1>3. CASE UNCHANGED vars
  <2>1. /\ b' = b /\ bc' = bc /\ step' = step /\ outcome' = outcome
        /\ newResources' = newResources /\ generatedSA' = generatedSA
    BY <1>3 DEF vars
  <2>2. \A call \in {"skeleton", "gate", "dockerfile"} : Past(call)' <=> Past(call)
    BY <1>3, NothingMoves DEF Calls, Steps
  <2>3. /\ GeneratesServiceAccount' <=> GeneratesServiceAccount
        /\ PullSecret' = PullSecret
    BY <1>3, CredentialsFixed DEF GeneratesServiceAccount, vars
  <2>4. AccountsSettled' <=> AccountsSettled
    BY <2>1, <2>3 DEF AccountsSettled
  <2>5. DockerfileKept' <=> DockerfileKept
    BY <2>1 DEF DockerfileKept, DockerfileOriginalName, PreservesDockerfile, HasInlineDockerfile
  <2>6. QED
    BY <2>1, <2>2, <2>4, <2>5 DEF PartsInv
<1>4. QED
  BY <1>1, <1>2, <1>3 DEF Next

\* The parts stay together in every reachable state.
LEMMA PartsAlways ==
  Spec => []PartsInv
<1>1. Init => PartsInv
  BY PartsStart
<1>2. ConverterInv /\ ConversionInv /\ KeysInv /\ PartsInv /\ [Next]_vars => PartsInv'
  BY PartsNext
<1>3. QED
  BY <1>1, <1>2, KeysAlways, Background, PTL DEF Spec

\* Resources come out with a Build and never without one, in its namespace, and
\* the ConfigMap emitted and the one the Dockerfile annotation names are the
\* same (processInlineDockerfile, converter.go:1067-1111).
THEOREM PartsComeTogether ==
  Spec => []EmittedTogether
<1>1. ASSUME ConversionInv, PartsInv
      PROVE  EmittedTogether
  <2> SUFFICES ASSUME Concluded
               PROVE  EmittedTogether
    BY DEF EmittedTogether
  <2>1. CASE ~Converted
    <3>1. outcome.state \notin ConvertedStates /\ outcome.resources = <<>>
      BY <1>1, <2>1 DEF Converted, Concluded, PartsInv
    <3>2. QED
      BY <2>1, <3>1 DEF EmittedTogether
  <2>2. CASE Converted
    <3>1. Build = b /\ Others = {newResources[k] : k \in DOMAIN newResources}
      BY <1>1, <2>2, ShippedResources
    <3>2. outcome.resources # <<>>
      <4>1. PICK S : newResources \in Seq(S)
        BY <1>1 DEF ConversionInv, IsSequence
      <4>2. <<b>> \in Seq(S \union {b}) /\ newResources \in Seq(S \union {b})
            /\ Len(<<b>>) = 1 /\ Len(newResources) \in Nat
        BY <4>1
      <4>3. Len(<<b>> \o newResources) = 1 + Len(newResources)
        BY <4>2
      <4>4. outcome.resources = <<b>> \o newResources
        BY <1>1, <2>2 DEF ConversionInv
      <4>5. Len(outcome.resources) # 0
        BY <4>2, <4>3, <4>4
      <4>6. QED
        BY <4>5
    <3>3. Past("skeleton") /\ Past("gate") /\ Past("dockerfile")
      BY <2>2 DEF Past, Converted, Concluded
    <3>4. /\ b.kind = "Build" /\ b.ns = bc.ns /\ DockerfileKept
          /\ \A k \in DOMAIN newResources : newResources[k].ns = bc.ns
      BY <1>1, <3>3 DEF PartsInv
    <3>5. \A r \in Others : r.ns = Build.ns
      BY <3>1, <3>4
    <3> DEFINE maps == {r.name : r \in OthersOfKind("ConfigMap")}
               pointed == IF DockerfileAnnotation \in DOMAIN Build.annotations
                          THEN {Build.annotations[DockerfileAnnotation].text} ELSE {}
    <3>6. \A r \in OthersOfKind("ConfigMap") :
            \E k \in DOMAIN newResources : r = newResources[k] /\ IsMapResource(newResources[k])
      BY <3>1 DEF OthersOfKind, IsMapResource
    <3>7. \A r \in OthersOfKind("ConfigMap") :
            r.content = bc.source.dockerfile /\ r.name \in pointed
      BY <3>1, <3>4, <3>6 DEF DockerfileKept
    <3>8. maps \subseteq pointed
      BY <3>7
    <3>9. DockerfileAnnotation \notin DOMAIN bc.annotations => pointed \subseteq maps
      <4> SUFFICES ASSUME DockerfileAnnotation \notin DOMAIN bc.annotations,
                          NEW name \in pointed
                   PROVE  name \in maps
        OBVIOUS
      <4>1. /\ DockerfileAnnotation \in DOMAIN b.annotations
            /\ name = b.annotations[DockerfileAnnotation].text
        BY <3>1
      <4>2. PICK k \in DOMAIN newResources :
              IsMapResource(newResources[k]) /\ newResources[k].name = name
        BY <3>4, <4>1 DEF DockerfileKept
      <4>3. newResources[k] \in OthersOfKind("ConfigMap")
        BY <3>1, <4>2 DEF OthersOfKind, IsMapResource
      <4>4. QED
        BY <4>2, <4>3
    <3>10. DockerfileAnnotation \notin DOMAIN bc.annotations => maps = pointed
      BY <3>8, <3>9
    <3>11. \A r \in OthersOfKind("ConfigMap") : r.content = bc.source.dockerfile
      BY <3>7
    <3>12. outcome.state \in ConvertedStates
      BY <2>2 DEF Converted
    <3> HIDE DEF maps, pointed
    <3>13. /\ maps \subseteq pointed
           /\ (DockerfileAnnotation \notin DOMAIN bc.annotations => maps = pointed)
      BY <3>8, <3>10
    <3>14. QED
      BY <2>2, <3>2, <3>4, <3>1, <3>5, <3>11, <3>12, <3>13 DEF EmittedTogether, maps, pointed
  <2>3. QED
    BY <2>1, <2>2
<1>2. QED
  BY <1>1, PartsAlways, Background, PTL

-----------------------------------------------------------------------------
(* The BuildRun template *)

\* The template of the resources' call, with what it names.
TemplateSettled ==
  TemplateAnnotation \in DOMAIN b.annotations /\ TemplateAnnotation \notin DOMAIN bc.annotations =>
    b.annotations[TemplateAnnotation] =
      [build |-> b.name, sa |-> TemplateServiceAccount, steps |-> StepNames]

\* A generated account has a name, by which the template knows it from none.
TemplateInv ==
  /\ Past("skeleton") => UniqueName(bc.name) # Empty
  /\ Past("resources") => TemplateSettled

\* What the template names does not change behind the strategy.
LEMMA TemplateNames ==
  ASSUME ConverterInv, Proceed, step \in {"resources", "outcome"}
  PROVE  /\ bc' = bc /\ b'.name = b.name
         /\ TemplateServiceAccount' = TemplateServiceAccount
         /\ StepNames' = StepNames
<1>1. bc' = bc
  BY ProceedFacts DEF fixed
<1>2. b'.name = b.name /\ b'.strategy = b.strategy
  BY FieldsStay
<1>3. generatedSA' = generatedSA
  BY ExtrasKept, Guards
<1>4. QED
  BY <1>1, <1>2, <1>3 DEF TemplateServiceAccount, StepNames

\* The resources' call writes the template whole, or leaves none.
LEMMA TemplateSettles ==
  ASSUME ConverterInv, KeysInv, ProcessResources
  PROVE  TemplateSettled'
<1>0. Proceed /\ step = "resources"
  BY DEF Proceed, ProcessResources
<1>1. /\ bc' = bc /\ b'.name = b.name
      /\ TemplateServiceAccount' = TemplateServiceAccount
      /\ StepNames' = StepNames
  BY <1>0, TemplateNames
<1>2. CASE ~bc.resources
  <2>1. b' = b
    BY <1>2 DEF ProcessResources
  <2>2. TemplateAnnotation \in DOMAIN b.annotations => TemplateAnnotation \in DOMAIN bc.annotations
    <3>1. ~Past("resources") /\ "resources" \in Calls
      <4>1. Place("resources") \in 1..19
        BY PlaceValues DEF Calls, Steps
      <4>2. QED
        BY <1>0, <4>1 DEF Past, Calls, Steps
    <3>2. TemplateAnnotation \in AnnotationsAt("resources")
      BY DEF AnnotationsAt
    <3>3. QED
      BY <1>0, <3>1, <3>2, KeyNotYet
  <2>3. QED
    BY <1>1, <2>1, <2>2 DEF TemplateSettled
<1>3. CASE bc.resources
  <2> DEFINE template == [build |-> b.name, sa |-> TemplateServiceAccount, steps |-> StepNames]
  <2>1. b'.annotations = With(b.annotations, TemplateAnnotation, template)
    BY <1>3 DEF ProcessResources, ConverterInv, TypeOK, EmptyBuild
  <2>2. b'.annotations[TemplateAnnotation] = template
    BY <2>1 DEF With
  <2>3. QED
    BY <1>1, <2>2 DEF TemplateSettled
<1>4. QED
  BY <1>2, <1>3

\* Every step of Convert's body keeps the template what it is.
LEMMA TemplateStep ==
  ASSUME ConverterInv, KeysInv, TemplateInv, Proceed
  PROVE  TemplateInv'
<1>0. bc' = bc /\ IsBuildConfig(bc) /\ step \in Calls
  BY ProceedFacts DEF fixed, ConverterInv, TypeOK, Calls
<1>1. UniqueName(bc'.name) # Empty
  BY <1>0, SanitizedNotEmpty DEF IsBuildConfig, UniqueName
<1>2. ASSUME Past("resources")'
      PROVE  TemplateSettled'
  <2>1. CASE Past("resources")
    <3>1. step = "outcome"
      <4>1. Place("resources") < Place(step)
        BY <2>1, PastIsOver DEF Calls, Steps
      <4>2. QED
        BY <1>0, <4>1, PlaceValues DEF Calls, Steps
    <3>2. TemplateAnnotation \notin AnnotationsAt(step)
      BY <3>1, KeysDiffer DEF AnnotationsAt
    <3>3. /\ TemplateAnnotation \in DOMAIN b'.annotations <=>
               TemplateAnnotation \in DOMAIN b.annotations
          /\ TemplateAnnotation \in DOMAIN b.annotations =>
               b'.annotations[TemplateAnnotation] = b.annotations[TemplateAnnotation]
      BY <3>1, <3>2, AnnotationsStay
    <3>4. /\ b'.name = b.name
          /\ TemplateServiceAccount' = TemplateServiceAccount
          /\ StepNames' = StepNames
      BY <3>1, TemplateNames
    <3>5. TemplateSettled
      BY <2>1 DEF TemplateInv
    <3>6. QED
      BY <1>0, <3>3, <3>4, <3>5 DEF TemplateSettled
  <2>2. CASE step = "resources"
    BY <2>2, ActionAtStep, TemplateSettles
  <2>3. QED
    BY <1>2, <2>1, <2>2, Onward DEF Calls, Steps
<1>3. QED
  BY <1>1, <1>2 DEF TemplateInv

\* The template names what is emitted: the Build, the account that holds the
\* pull secret, and steps only of the strategy they belong to (ADR-0005).
THEOREM TemplatesCanRun ==
  Spec => []TemplateRunnable
<1>0. {"skeleton", "resources"} \subseteq Calls
  BY DEF Calls, Steps
<1>1. Init => TemplateInv
  BY <1>0, NothingPast DEF TemplateInv
<1>2. ASSUME ConverterInv, KeysInv, TemplateInv, [Next]_vars
      PROVE  TemplateInv'
  <2>1. CASE Proceed
    BY <1>2, <2>1, TemplateStep
  <2>2. ASSUME NEW c \in SourceConfigs, Convert(c)
        PROVE  TemplateInv'
    BY <1>0, <2>2, NothingPast DEF TemplateInv
  <2>3. CASE UNCHANGED vars
    <3>1. b' = b /\ bc' = bc /\ generatedSA' = generatedSA
      BY <2>3 DEF vars
    <3>2. \A call \in {"skeleton", "resources"} : Past(call)' <=> Past(call)
      BY <1>0, <2>3, NothingMoves
    <3>3. TemplateServiceAccount' = TemplateServiceAccount /\ StepNames' = StepNames
      BY <3>1 DEF TemplateServiceAccount, StepNames
    <3>4. QED
      BY <1>2, <3>1, <3>2, <3>3 DEF TemplateInv, TemplateSettled
  <2>4. QED
    BY <1>2, <2>1, <2>2, <2>3 DEF Next
<1>3. ASSUME ConversionInv, PartsInv, TemplateInv
      PROVE  TemplateRunnable
  <2> SUFFICES ASSUME Converted, TemplateAnnotation \in DOMAIN Build.annotations,
                      TemplateAnnotation \notin DOMAIN bc.annotations
               PROVE  TemplateRunnable
    BY DEF TemplateRunnable
  <2>1. Build = b /\ Others = {newResources[k] : k \in DOMAIN newResources}
    BY <1>3, ShippedResources
  <2>2. Past("skeleton") /\ Past("gate") /\ Past("resources")
    BY DEF Past, Converted, Concluded
  <2>3. UniqueName(bc.name) # Empty /\ AccountsSettled /\ TemplateSettled
    BY <1>3, <2>2 DEF PartsInv, TemplateInv
  <2> DEFINE template == Build.annotations[TemplateAnnotation]
             emitted == {r.name : r \in OthersOfKind("ServiceAccount")}
  <2>4. template = [build |-> Build.name, sa |-> TemplateServiceAccount, steps |-> StepNames]
    BY <2>1, <2>3 DEF TemplateSettled
  <2>5. /\ template.build = Build.name
        /\ template.sa = TemplateServiceAccount
        /\ template.steps = StepNames
    BY <2>4
  <2> HIDE DEF template
  <2>6. \A r \in OthersOfKind("ServiceAccount") :
          \E k \in DOMAIN newResources : r = newResources[k] /\ IsAccount(newResources[k])
    BY <2>1 DEF OthersOfKind, IsAccount
  <2>7. CASE GeneratesServiceAccount
    <3>1. generatedSA # Empty /\ ~NamesServiceAccount
      BY <2>3, <2>7 DEF AccountsSettled, GeneratesServiceAccount
    <3>2. template.sa = generatedSA
      BY <2>5, <3>1 DEF TemplateServiceAccount
    <3>3. PICK k \in DOMAIN newResources : IsAccount(newResources[k])
      BY <2>3, <2>7 DEF AccountsSettled
    <3>4. newResources[k].name = generatedSA
      BY <2>3, <3>3 DEF AccountsSettled
    <3>5. newResources[k] \in OthersOfKind("ServiceAccount")
      BY <2>1, <3>3 DEF OthersOfKind, IsAccount
    <3>6. template.sa \in emitted
      BY <3>2, <3>4, <3>5
    <3>7. template.steps # <<>> => Build.strategy = DefaultStrategy[bc.type]
      BY <2>1, <2>5 DEF StepNames
    <3>8. QED
      BY <2>5, <3>1, <3>2, <3>6, <3>7 DEF TemplateRunnable, template
  <2>8. CASE ~GeneratesServiceAccount
    <3>1. generatedSA = Empty
      BY <2>3, <2>8 DEF AccountsSettled
    <3>2. template.sa = bc.serviceAccount
      BY <2>5, <3>1 DEF TemplateServiceAccount
    <3>3. OthersOfKind("ServiceAccount") = {}
      BY <2>3, <2>6, <2>8 DEF AccountsSettled
    <3>4. emitted = {}
      BY <3>3
    <3>5. template.sa = Empty => PullSecret = Nil
      BY <2>8, <3>2 DEF GeneratesServiceAccount, NamesServiceAccount
    <3>6. template.sa # Empty => NamesServiceAccount
      BY <3>2 DEF NamesServiceAccount
    <3>7. template.steps # <<>> => Build.strategy = DefaultStrategy[bc.type]
      BY <2>1, <2>5 DEF StepNames
    <3>8. QED
      BY <2>5, <3>2, <3>4, <3>5, <3>6, <3>7 DEF TemplateRunnable, template
  <2>9. QED
    BY <2>7, <2>8
<1>4. QED
  BY <1>1, <1>2, <1>3, KeysAlways, PartsAlways, Background, PTL DEF Spec

-----------------------------------------------------------------------------
(* The contract: what decides whether there is a Build *)

\* ref has a kind, a namespace and a name.
IsReference(ref) == \E kind, ns, name : ref = [kind |-> kind, ns |-> ns, name |-> name]

\* The references that are resolved are references.
Readable(c) ==
  /\ \A type \in DOMAIN c.blocks : IsReference(c.blocks[type].from)
  /\ \A k \in DOMAIN c.source.images : IsReference(c.source.images[k].from)

\* The call that looks for the k-th reason.
JudgedAt == <<"strategy", "strategy", "strategy", "gate", "source">>

\* The k-th reason stands in the way of c, and none before it does.
Decides(k, c) ==
  /\ Contract!Stands(Contract!Reasons[k], c)
  /\ \A j \in 1..(k - 1) : ~Contract!Stands(Contract!Reasons[j], c)

\* The outcome o is the one that c gets.
Verdict(c, o) ==
  \/ /\ o.state \in ConvertedStates /\ o.reason = ""
     /\ \A k \in 1..5 : ~Contract!Stands(Contract!Reasons[k], c)
  \/ \E k \in 1..5 :
       /\ Decides(k, c)
       /\ o.state = (IF Contract!Reasons[k] \in Contract!Declined THEN "skipped" ELSE "failed")
       /\ o.reason = Contract!Reasons[k]

\* A conversion that goes on has met no reason so far, and one that returned
\* has the outcome its BuildConfig gets.
VerdictInv ==
  /\ step \in Calls =>
       \A k \in 1..5 : Place(JudgedAt[k]) < Place(step)
                         => ~Contract!Stands(Contract!Reasons[k], bc)
  /\ step = "idle" /\ outcome.state # "none" => Verdict(bc, outcome)

\* The reasons, in their order.
LEMMA ReasonsAre ==
  /\ Contract!Reasons[1] = "unsupported strategy" /\ JudgedAt[1] = "strategy"
  /\ Contract!Reasons[2] = "unknown strategy" /\ JudgedAt[2] = "strategy"
  /\ Contract!Reasons[3] = "strategy image" /\ JudgedAt[3] = "strategy"
  /\ Contract!Reasons[4] = "no output image" /\ JudgedAt[4] = "gate"
  /\ Contract!Reasons[5] = "source" /\ JudgedAt[5] = "source"
  /\ DOMAIN Contract!Reasons = 1..5
BY DEF Contract!Reasons, JudgedAt

\* Where they are looked for.
LEMMA JudgedPlaces ==
  /\ \A k \in 1..5 : JudgedAt[k] \in Calls
  /\ \A k \in {1, 2, 3} : JudgedAt[k] = "strategy" /\ Place(JudgedAt[k]) = 2
  /\ JudgedAt[4] = "gate" /\ Place(JudgedAt[4]) = 5
  /\ JudgedAt[5] = "source" /\ Place(JudgedAt[5]) = 7
<1>1. \A k \in {1, 2, 3} : JudgedAt[k] = "strategy"
  BY ReasonsAre
<1>2. Place("strategy") = 2 /\ Place("gate") = 5 /\ Place("source") = 7
  BY PlaceValues
<1>3. {"strategy", "gate", "source"} \subseteq Calls
  BY DEF Calls, Steps
<1>4. \A k \in 1..5 : k \in {1, 2, 3} \/ k = 4 \/ k = 5
  OBVIOUS
<1>5. QED
  BY <1>1, <1>2, <1>3, <1>4, ReasonsAre

\* An image resolves when it has one of the kinds that name images.
LEMMA ResolvesByKind ==
  ASSUME NEW ref, IsReference(ref)
  PROVE  Resolve(ref).ok <=> ref.kind \in Contract!ResolvableKinds
<1> DEFINE full == WithDefaultNamespace(ref)
<1>1. full.kind = ref.kind
  <2>1. PICK kind, ns, name : ref = [kind |-> kind, ns |-> ns, name |-> name]
    BY DEF IsReference
  <2>2. full = [kind |-> kind, ns |-> IF ns = Empty THEN bc.ns ELSE ns, name |-> name]
    BY <2>1 DEF WithDefaultNamespace
  <2>3. QED
    BY <2>1, <2>2
<1>2. \A kind, name, ns, flags :
        ResolveImageRef(kind, name, ns, flags).ok <=> kind \in {"DockerImage"} \union ImageStreamKinds
  BY DEF ResolveImageRef, Resolved, Unresolvable, ImageStreamKinds
<1>3. Contract!ResolvableKinds = {"DockerImage"} \union ImageStreamKinds
  BY DEF Contract!ResolvableKinds, Contract!ImageStreamKinds, ImageStreamKinds
<1>4. Resolve(ref).ok <=> full.kind \in {"DockerImage"} \union ImageStreamKinds
  BY <1>2, Zenon DEF Resolve
<1>5. QED
  BY <1>1, <1>3, <1>4

\* The strategy's image resolves unless it is what stands in the way.
LEMMA StrategyImageJudged ==
  ASSUME Readable(bc), HasBlock, NamesStrategyImage
  PROVE  StrategyImage.ok <=> ~Contract!Stands("strategy image", bc)
<1>1. IsReference(Block.from)
  BY DEF Readable, HasBlock, Block
<1> DEFINE none == ""
<1> DEFINE ref == [Block.from EXCEPT !.kind =
                     IF bc.type = "Source" /\ @ = none THEN "ImageStreamTag" ELSE @]
<1> HIDE DEF none
<1>2. IsReference(ref)
      /\ ref.kind = IF bc.type = "Source" /\ Block.from.kind = none THEN "ImageStreamTag"
                    ELSE Block.from.kind
  <2>1. PICK kind, ns, name : Block.from = [kind |-> kind, ns |-> ns, name |-> name]
    BY <1>1 DEF IsReference
  <2>2. ref = [kind |-> IF bc.type = "Source" /\ kind = none THEN "ImageStreamTag" ELSE kind,
               ns |-> ns, name |-> name]
    BY <2>1
  <2> HIDE DEF ref
  <2>3. ASSUME NEW k, ref = [kind |-> k, ns |-> ns, name |-> name]
        PROVE  IsReference(ref) /\ ref.kind = k
    <3>1. IsReference(ref)
      BY <2>3, Zenon DEF IsReference
    <3>2. ref.kind = k
      BY <2>3
    <3>3. QED
      BY <3>1, <3>2
  <2>4. QED
    BY <2>1, <2>2, <2>3
<1>3. StrategyImage.ok <=> ref.kind \in Contract!ResolvableKinds
  <2> HIDE DEF ref
  <2>1. Resolve(ref).ok <=> ref.kind \in Contract!ResolvableKinds
    BY <1>2, ResolvesByKind
  <2>2. QED
    BY <2>1, Zenon DEF StrategyImage, ref, none
<1>4. Contract!Stands("strategy image", bc) <=>
        Block.from.kind \notin Contract!StrategyImageKinds(bc)
  BY DEF Contract!Stands, Contract!Empty, Empty, HasBlock, NamesStrategyImage, Block
<1>5. ref.kind \in Contract!ResolvableKinds
        <=> Block.from.kind \in Contract!StrategyImageKinds(bc)
  <2>1. none \notin Contract!ResolvableKinds /\ "ImageStreamTag" \in Contract!ResolvableKinds
    BY DEF Contract!ResolvableKinds, Contract!ImageStreamKinds, none
  <2>2. \A kind : kind \in Contract!StrategyImageKinds(bc) <=>
          kind \in Contract!ResolvableKinds \/ (bc.type = "Source" /\ kind = none)
    BY Zenon DEF Contract!StrategyImageKinds, none
  <2>3. QED
    BY <1>2, <2>1, <2>2
<1>6. QED
  BY <1>3, <1>4, <1>5

\* The sources that are present, counted and named.
LEMMA SourcesCounted ==
  /\ Contract!SourcesOf(bc) = SourceTypes
  /\ Cardinality(SourceTypes) > 1 <=> \E one, other \in SourceTypes : one # other
<1>1. Contract!SourcesOf(bc) = SourceTypes
  BY DEF Contract!SourcesOf, SourceTypes, Contract!Nil, Nil
<1>2. IsFiniteSet(SourceTypes)
  <2>1. SourceTypes \subseteq {"git", "binary", "images"}
    BY DEF SourceTypes
  <2>2. IsFiniteSet({"git", "binary", "images"})
    <3>1. \A S, x : IsFiniteSet(S) => IsFiniteSet(S \union {x})
      BY FS_AddElement
    <3>2. IsFiniteSet({} \union {"git"} \union {"binary"} \union {"images"})
      BY <3>1, FS_EmptySet
    <3>3. {} \union {"git"} \union {"binary"} \union {"images"} = {"git", "binary", "images"}
      OBVIOUS
    <3>4. QED
      BY <3>2, <3>3
  <2>3. QED
    BY <2>1, <2>2, FS_Subset
<1>3. ASSUME NEW one \in SourceTypes, NEW other \in SourceTypes, one # other
      PROVE  Cardinality(SourceTypes) > 1
  <2> DEFINE rest == SourceTypes \ {one}
  <2>1. IsFiniteSet(rest) /\ Cardinality(rest) = Cardinality(SourceTypes) - 1
    BY <1>2, FS_RemoveElement
  <2>2. Cardinality(rest) \in Nat /\ Cardinality(SourceTypes) \in Nat /\ Cardinality(rest) # 0
    BY <1>2, <1>3, <2>1, FS_CardinalityType, FS_EmptySet
  <2>3. QED
    BY <2>1, <2>2
<1>4. ASSUME \A one, other \in SourceTypes : one = other
      PROVE  ~(Cardinality(SourceTypes) > 1)
  <2>1. SourceTypes = {} \/ \E one : SourceTypes = {one}
    BY <1>4
  <2>2. SourceTypes = {} => Cardinality(SourceTypes) = 0
    BY FS_EmptySet
  <2>3. \A one : SourceTypes = {one} => Cardinality(SourceTypes) = 1
    BY FS_Singleton
  <2>4. QED
    BY <2>1, <2>2, <2>3
<1>5. QED
  BY <1>1, <1>3, <1>4

\* No call of Convert changes the BuildConfig or the flags.
LEMMA ConfigKept ==
  ASSUME Proceed
  PROVE  UNCHANGED <<opts, bc>>
<1>1. /\ \A result : Return(result) => UNCHANGED <<opts, bc>>
      /\ \A next : Continue(next) => UNCHANGED <<opts, bc>>
      /\ Repeat => UNCHANGED <<opts, bc>>
  BY DEF Return, Continue, Repeat, fixed
<1>2. CASE SkipUnsupportedStrategy \/ FailUnknownStrategy \/ FailStrategyImage
             \/ SkipWithoutOutput \/ FailSource
  BY <1>1, <1>2 DEF SkipUnsupportedStrategy, FailUnknownStrategy, FailStrategyImage,
                    SkipWithoutOutput, FailSource, Skip
<1>3. CASE MakeSkeleton \/ StrategyWithoutBlock \/ ProcessDockerStrategy
             \/ ProcessSourceStrategy \/ FinishDockerStrategy \/ FinishVolumes
             \/ ConvertBuildArg \/ ConvertVolume \/ ConvertImageLabel
             \/ ProcessCredentials \/ ProcessInlineDockerfile
  BY <1>1, <1>3 DEF MakeSkeleton, StrategyWithoutBlock, ProcessDockerStrategy,
              ProcessSourceStrategy, FinishDockerStrategy, FinishVolumes, ConvertBuildArg,
              ConvertVolume, ConvertImageLabel, ProcessCredentials, ProcessInlineDockerfile
<1>4. CASE SourceAbsent \/ GitSource \/ BinarySource \/ ImageSourceStep
             \/ ProcessOutput \/ FinishOutput \/ ProcessChainInput \/ FinishChainCandidates
  BY <1>1, <1>4 DEF SourceAbsent, GitSource, BinarySource, ImageSourceStep, ProcessOutput,
              FinishOutput, ProcessChainInput, FinishChainCandidates
<1>5. CASE ProcessCompletionDeadline \/ ProcessNodeSelector \/ ProcessRunPolicy
             \/ ProcessPostCommit \/ ProcessBuildsHistoryLimits \/ AddRegistries
             \/ ProcessTriggers \/ ProcessResources
  BY <1>1, <1>5
  DEF ProcessCompletionDeadline, ProcessNodeSelector, ProcessRunPolicy, ProcessPostCommit,
      ProcessBuildsHistoryLimits, AddRegistries, ProcessTriggers, ProcessResources
<1>6. CASE Classify
  BY <1>6 DEF Classify, fixed
<1>7. QED
  BY <1>2, <1>3, <1>4, <1>5, <1>6 DEF Proceed

\* A source that some action of the call accepts is no reason, and one that
\* fails is.
LEMMA SourceJudged ==
  ASSUME Readable(bc)
  PROVE  /\ FailSource => Contract!Stands("source", bc)
         /\ SourceAbsent \/ GitSource \/ BinarySource \/ ImageSourceStep
              => ~Contract!Stands("source", bc)
<1>1. Contract!Stands("source", bc) <=> Contract!UnusableSource(bc)
  BY DEF Contract!Stands
<1>2. Contract!UnusableSource(bc) <=>
        \/ Cardinality(SourceTypes) > 1
        \/ SourceTypes = {"binary"} /\ bc.source.binary = Empty
        \/ SourceTypes = {"images"} /\ Len(bc.source.images) > 1
        \/ SourceTypes = {"images"} /\ SoleImage.from.kind \notin Contract!ResolvableKinds
  BY SourcesCounted DEF Contract!UnusableSource, SoleImage, Contract!Empty, Empty
<1>3. ASSUME Len(bc.source.images) = 1
      PROVE  Resolve(SoleImage.from).ok <=> SoleImage.from.kind \in Contract!ResolvableKinds
  <2>1. 1 \in DOMAIN bc.source.images
    BY <1>3
  <2>2. IsReference(SoleImage.from)
    BY <2>1 DEF Readable, SoleImage
  <2>3. QED
    BY <2>2, ResolvesByKind
<1>4. FailSource => Contract!UnusableSource(bc)
  BY <1>2, <1>3 DEF FailSource
<1>5. ASSUME SourceTypes = {} \/ \E one : SourceTypes = {one}
      PROVE  ~(Cardinality(SourceTypes) > 1)
  BY <1>5, SourcesCounted
<1>6. SourceAbsent \/ GitSource \/ BinarySource => ~Contract!UnusableSource(bc)
  BY <1>2, <1>5 DEF SourceAbsent, GitSource, BinarySource
<1>7. ImageSourceStep => ~Contract!UnusableSource(bc)
  <2> SUFFICES ASSUME ImageSourceStep
               PROVE  ~Contract!UnusableSource(bc)
    OBVIOUS
  <2>1. SourceTypes = {"images"} /\ Len(bc.source.images) = 1 /\ Resolve(SoleImage.from).ok
    BY DEF ImageSourceStep
  <2>2. QED
    BY <1>2, <1>3, <1>5, <2>1
<1>8. QED
  BY <1>1, <1>4, <1>6, <1>7

\* What the calls before the source judge.
LEMMA StrategyJudged ==
  ASSUME Readable(bc)
  PROVE  /\ SkipUnsupportedStrategy => Decides(1, bc)
         /\ FailUnknownStrategy => Decides(2, bc)
         /\ FailStrategyImage => Decides(3, bc)
         /\ StrategyWithoutBlock \/ ProcessDockerStrategy \/ ProcessSourceStrategy =>
              \A k \in 1..3 : ~Contract!Stands(Contract!Reasons[k], bc)
         /\ SkipWithoutOutput => Contract!Stands("no output image", bc)
         /\ ProcessCredentials => ~Contract!Stands("no output image", bc)
<1>1. /\ Contract!Stands("unsupported strategy", bc) <=> bc.type \in {"Custom", "JenkinsPipeline"}
      /\ Contract!Stands("unknown strategy", bc) <=> bc.type \notin {"Docker", "Source"}
      /\ Contract!Stands("no output image", bc) <=> ~HasOutput
      /\ Contract!Stands("strategy image", bc) => HasBlock /\ NamesStrategyImage
  <2>1. Contract!Stands("unsupported strategy", bc) <=> bc.type \in {"Custom", "JenkinsPipeline"}
    BY DEF Contract!Stands
  <2>2. Contract!Stands("unknown strategy", bc) <=> bc.type \notin {"Docker", "Source"}
    BY DEF Contract!Stands
  <2>3. Contract!Stands("no output image", bc) <=> ~HasOutput
    BY DEF Contract!Stands, HasOutput, Contract!Empty, Empty
  <2>4. Contract!Stands("strategy image", bc) => HasBlock /\ NamesStrategyImage
    BY DEF Contract!Stands, Contract!Empty, Empty, HasBlock, NamesStrategyImage, Block
  <2>5. QED
    BY <2>1, <2>2, <2>3, <2>4
<1>2. SkipUnsupportedStrategy => Decides(1, bc)
  <2>1. \A j \in 1..(1 - 1) : FALSE
    OBVIOUS
  <2>2. QED
    BY <1>1, <2>1, ReasonsAre DEF SkipUnsupportedStrategy, Decides
<1>3. FailUnknownStrategy => Decides(2, bc)
  <2> SUFFICES ASSUME FailUnknownStrategy
               PROVE  Decides(2, bc)
    OBVIOUS
  <2>1. \A j \in 1..(2 - 1) : j = 1
    OBVIOUS
  <2>2. QED
    BY <1>1, <2>1, ReasonsAre DEF FailUnknownStrategy, Decides
<1>4. FailStrategyImage => Decides(3, bc)
  <2> SUFFICES ASSUME FailStrategyImage
               PROVE  Decides(3, bc)
    OBVIOUS
  <2>1. Convertible /\ HasBlock /\ NamesStrategyImage /\ ~StrategyImage.ok
    BY DEF FailStrategyImage
  <2>2. Contract!Stands("strategy image", bc)
    BY <2>1, StrategyImageJudged
  <2>3. \A j \in 1..(3 - 1) : j = 1 \/ j = 2
    OBVIOUS
  <2>4. bc.type \in {"Docker", "Source"}
    BY <2>1 DEF Convertible
  <2>5. QED
    BY <1>1, <2>2, <2>3, <2>4, ReasonsAre DEF Decides
<1>5. ASSUME StrategyWithoutBlock \/ ProcessDockerStrategy \/ ProcessSourceStrategy
      PROVE  \A k \in 1..3 : ~Contract!Stands(Contract!Reasons[k], bc)
  <2>1. bc.type \in {"Docker", "Source"}
    BY <1>5 DEF StrategyWithoutBlock, ProcessDockerStrategy, ProcessSourceStrategy, Convertible
  <2>2. ~HasBlock \/ (HasBlock /\ StrategyImageUsable)
    BY <1>5 DEF StrategyWithoutBlock, ProcessDockerStrategy, ProcessSourceStrategy
  <2>3. ~Contract!Stands("strategy image", bc)
    BY <1>1, <2>2, StrategyImageJudged DEF StrategyImageUsable
  <2>4. \A k \in 1..3 : k = 1 \/ k = 2 \/ k = 3
    OBVIOUS
  <2>5. QED
    BY <1>1, <2>1, <2>3, <2>4, ReasonsAre
<1>6. QED
  BY <1>1, <1>2, <1>3, <1>4, <1>5 DEF SkipWithoutOutput, ProcessCredentials

\* A call that hands over to a later one has found no reason of its own.
LEMMA JudgedOnward ==
  ASSUME Readable(bc), Proceed, HandsOver, NEW k \in 1..5,
         ~(Place(JudgedAt[k]) < Place(step)), Place(JudgedAt[k]) < Place(step')
  PROVE  ~Contract!Stands(Contract!Reasons[k], bc)
<1>1. JudgedAt[k] = step
  <2>1. k = 1 \/ k = 2 \/ k = 3 \/ k = 4 \/ k = 5
    OBVIOUS
  <2>2. CASE step = "strategy"
    <3>1. step' \in {"buildArgs", "volumes", "gate"}
      BY <2>2 DEF HandsOver
    <3>2. Place(step) = 2 /\ Place(step') \in {3, 4, 5}
      BY <2>2, <3>1, PlaceValues
    <3>3. k \in {1, 2, 3}
      BY <2>1, <3>2, JudgedPlaces
    <3>4. QED
      BY <2>2, <3>3, JudgedPlaces
  <2>3. CASE step # "strategy"
    <3>1. Place(step') = Place(step) + 1 /\ step \in Calls
      BY <2>3 DEF HandsOver
    <3>2. Place(step) \in 1..19 /\ JudgedAt[k] \in Calls /\ Place(JudgedAt[k]) \in 1..19
      BY <3>1, JudgedPlaces, PlaceValues
    <3>3. Place(JudgedAt[k]) = Place(step)
      BY <3>1, <3>2
    <3>4. QED
      BY <3>1, <3>2, <3>3, PlaceValues
  <2>4. QED
    BY <2>2, <2>3
<1>2. step' # "idle"
  BY DEF HandsOver, Calls
<1>3. \A reason : ~Return(OutcomeSkipped(reason)) /\ ~Return(OutcomeFailed(reason))
  BY <1>2 DEF Return
<1>4. /\ ~SkipUnsupportedStrategy /\ ~FailUnknownStrategy /\ ~FailStrategyImage
      /\ ~SkipWithoutOutput /\ ~FailSource
  BY <1>3 DEF SkipUnsupportedStrategy, FailUnknownStrategy, FailStrategyImage,
              SkipWithoutOutput, FailSource, Skip
<1>5. /\ k \in 1..3 => step = "strategy"
      /\ k = 4 => step = "gate"
      /\ k = 5 => step = "source"
  <2>1. k \in 1..3 => k \in {1, 2, 3}
    OBVIOUS
  <2>2. QED
    BY <1>1, <2>1, JudgedPlaces
<1>6. CASE k \in 1..3
  BY <1>4, <1>5, <1>6, ActionAtStep, StrategyJudged
<1>7. CASE k = 4
  BY <1>4, <1>5, <1>7, ActionAtStep, StrategyJudged, ReasonsAre
<1>8. CASE k = 5
  BY <1>4, <1>5, <1>8, ActionAtStep, SourceJudged, ReasonsAre
<1>9. QED
  BY <1>6, <1>7, <1>8

\* A conversion that gives up has the outcome its BuildConfig gets.
LEMMA GivenUpVerdict ==
  ASSUME Readable(bc), VerdictInv, Proceed, GivesUp
  PROVE  Verdict(bc, outcome')
<1>1. \A reason : /\ OutcomeSkipped(reason).state = "skipped"
                  /\ OutcomeSkipped(reason).reason = reason
                  /\ OutcomeFailed(reason).state = "failed"
                  /\ OutcomeFailed(reason).reason = reason
  BY DEF OutcomeSkipped, OutcomeFailed
<1>2. ASSUME NEW k \in 1..5, Decides(k, bc),
             outcome'.state = (IF Contract!Reasons[k] \in Contract!Declined
                               THEN "skipped" ELSE "failed"),
             outcome'.reason = Contract!Reasons[k]
      PROVE  Verdict(bc, outcome')
  BY <1>2 DEF Verdict
<1>3. /\ {Contract!Reasons[1], Contract!Reasons[4]} \subseteq Contract!Declined
      /\ {Contract!Reasons[2], Contract!Reasons[3], Contract!Reasons[5]} \cap Contract!Declined = {}
  BY ReasonsAre DEF Contract!Declined
<1>4. CASE SkipUnsupportedStrategy
  <2>1. outcome' = OutcomeSkipped("unsupported strategy")
    BY <1>4 DEF SkipUnsupportedStrategy, Skip, Return
  <2>2. Decides(1, bc)
    BY <1>4, StrategyJudged
  <2>3. outcome'.state = "skipped" /\ outcome'.reason = Contract!Reasons[1]
    BY <1>1, <2>1, ReasonsAre
  <2>4. QED
    BY <1>2, <1>3, <2>2, <2>3
<1>5. CASE FailUnknownStrategy
  <2>1. outcome' = OutcomeFailed("unknown strategy")
    BY <1>5 DEF FailUnknownStrategy, Return
  <2>2. Decides(2, bc)
    BY <1>5, StrategyJudged
  <2>3. outcome'.state = "failed" /\ outcome'.reason = Contract!Reasons[2]
    BY <1>1, <2>1, ReasonsAre
  <2>4. QED
    BY <1>2, <1>3, <2>2, <2>3
<1>6. CASE FailStrategyImage
  <2>1. outcome' = OutcomeFailed("strategy image")
    BY <1>6 DEF FailStrategyImage, Return
  <2>2. Decides(3, bc)
    BY <1>6, StrategyJudged
  <2>3. outcome'.state = "failed" /\ outcome'.reason = Contract!Reasons[3]
    BY <1>1, <2>1, ReasonsAre
  <2>4. QED
    BY <1>2, <1>3, <2>2, <2>3
<1>7. CASE SkipWithoutOutput
  <2>1. outcome' = OutcomeSkipped("no output image") /\ step = "gate"
    BY <1>7 DEF SkipWithoutOutput, Skip, Return
  <2>2. Decides(4, bc)
    <3>1. \A j \in 1..(4 - 1) : Place(JudgedAt[j]) < Place(step) /\ j \in 1..5
      <4>1. \A j \in 1..(4 - 1) : j \in {1, 2, 3}
        OBVIOUS
      <4>2. Place(step) = 5 /\ Place("strategy") = 2
        BY <2>1, JudgedPlaces, PlaceValues
      <4>3. QED
        BY <4>1, <4>2, JudgedPlaces
    <3>2. step \in Calls
      BY <2>1 DEF Calls, Steps
    <3>3. QED
      BY <1>7, <3>1, <3>2, StrategyJudged, ReasonsAre DEF VerdictInv, Decides
  <2>3. outcome'.state = "skipped" /\ outcome'.reason = Contract!Reasons[4]
    BY <1>1, <2>1, ReasonsAre
  <2>4. QED
    BY <1>2, <1>3, <2>2, <2>3
<1>8. CASE FailSource
  <2>1. outcome' = OutcomeFailed("source") /\ step = "source"
    BY <1>8 DEF FailSource, Return
  <2>2. Decides(5, bc)
    <3>1. \A j \in 1..(5 - 1) : Place(JudgedAt[j]) < Place(step) /\ j \in 1..5
      <4>1. \A j \in 1..(5 - 1) : j \in {1, 2, 3, 4}
        OBVIOUS
      <4>2. Place(step) = 7 /\ Place("strategy") = 2
        BY <2>1, JudgedPlaces, PlaceValues
      <4>3. QED
        BY <4>1, <4>2, JudgedPlaces
    <3>2. step \in Calls
      BY <2>1 DEF Calls, Steps
    <3>3. QED
      BY <1>8, <3>1, <3>2, SourceJudged, ReasonsAre DEF VerdictInv, Decides
  <2>3. outcome'.state = "failed" /\ outcome'.reason = Contract!Reasons[5]
    BY <1>1, <2>1, ReasonsAre
  <2>4. QED
    BY <1>2, <1>3, <2>2, <2>3
<1>9. QED
  BY <1>4, <1>5, <1>6, <1>7, <1>8, Givers

\* A step keeps the verdict of its BuildConfig.
LEMMA VerdictStep ==
  ASSUME Readable(bc), VerdictInv, Proceed, step \in Steps
  PROVE  VerdictInv'
<1>1. bc' = bc
  BY ConfigKept
<1>2. CASE GivesUp
  <2>1. step' = "idle" /\ step' \notin Calls
    BY <1>2 DEF GivesUp, Calls
  <2>2. Verdict(bc, outcome')
    BY <1>2, GivenUpVerdict
  <2>3. QED
    BY <1>1, <2>1, <2>2 DEF VerdictInv
<1>3. CASE Classify
  <2>1. step = "outcome" /\ step' = "idle" /\ outcome'.state \in ConvertedStates
        /\ outcome'.reason = ""
    BY <1>3 DEF Classify, ConvertedStates
  <2>2. step \in Calls /\ step' \notin Calls
    BY <2>1 DEF Calls, Steps
  <2>3. \A k \in 1..5 : Place(JudgedAt[k]) < Place(step)
    <3>1. \A k \in 1..5 : k \in {1, 2, 3} \/ k = 4 \/ k = 5
      OBVIOUS
    <3>2. Place(step) = 19
      BY <2>1, PlaceValues
    <3>3. QED
      BY <3>1, <3>2, JudgedPlaces
  <2>4. QED
    BY <1>1, <2>1, <2>2, <2>3 DEF VerdictInv, Verdict
<1>4. CASE Iterates
  BY <1>1, <1>4 DEF VerdictInv, Iterates, Loops, Calls
<1>5. CASE HandsOver
  BY <1>1, <1>5, JudgedOnward DEF VerdictInv, HandsOver, Calls
<1>6. QED
  BY <1>2, <1>3, <1>4, <1>5, StepAdvances

\* It has no verdict yet when it starts.
LEMMA VerdictStarts ==
  /\ Init => VerdictInv
  /\ \A c : Convert(c) => VerdictInv'
<1>1. \A k \in 1..5 : Place(JudgedAt[k]) > 1
  <2>1. \A k \in 1..5 : k \in {1, 2, 3} \/ k = 4 \/ k = 5
    OBVIOUS
  <2>2. QED
    BY <2>1, JudgedPlaces
<1>2. ASSUME Init PROVE VerdictInv
  <2>1. step = "idle" /\ outcome = NoOutcome
    BY <1>2 DEF Init
  <2>2. step \notin Calls /\ outcome.state = "none"
    BY <2>1 DEF Calls, NoOutcome
  <2>3. QED
    BY <2>2 DEF VerdictInv
<1>3. ASSUME NEW c, Convert(c) PROVE VerdictInv'
  <2>1. step' = "skeleton" /\ Place("skeleton") = 1
    BY <1>3, PlaceValues DEF Convert
  <2>2. QED
    BY <1>1, <2>1, JudgedPlaces, PlaceValues DEF VerdictInv
<1>4. QED
  BY <1>2, <1>3

\* It stays when nothing moves.
LEMMA VerdictStutters ==
  ASSUME VerdictInv, UNCHANGED vars
  PROVE  VerdictInv'
BY DEF VerdictInv, vars

-----------------------------------------------------------------------------
(* The contract: what comes out *)

\* A reference of the API is one.
LEMMA ReferencesRead == \A ref \in ObjectReference : IsReference(ref)
<1>1. ASSUME NEW ref \in ObjectReference PROVE IsReference(ref)
  <2>1. ref = [kind |-> ref.kind, ns |-> ref.ns, name |-> ref.name]
    BY DEF ObjectReference
  <2>2. QED
    BY <2>1 DEF IsReference
<1>2. QED
  BY <1>1

\* What a Converter is given can be read.
LEMMA ConfigsReadable ==
  /\ \A c : IsBuildConfig(c) => Readable(c) /\ DOMAIN c.blocks \subseteq {"Docker", "Source"}
  /\ Readable(PlainBuildConfig) /\ DOMAIN PlainBuildConfig.blocks \subseteq {"Docker", "Source"}
<1>1. ASSUME NEW c, IsBuildConfig(c)
      PROVE  Readable(c) /\ DOMAIN c.blocks \subseteq {"Docker", "Source"}
  <2>1. IsMap(c.blocks, {"Docker", "Source"}, StrategyBlock) /\ c.source \in BuildSource
    BY <1>1 DEF IsBuildConfig
  <2>2. \A type \in DOMAIN c.blocks : IsReference(c.blocks[type].from)
    <3>1. ASSUME NEW type \in DOMAIN c.blocks PROVE IsReference(c.blocks[type].from)
      <4>1. c.blocks \in [DOMAIN c.blocks -> StrategyBlock]
        BY <2>1 DEF IsMap
      <4>2. c.blocks[type] \in StrategyBlock
        BY <4>1
      <4>3. \A block \in StrategyBlock : IsReference(block.from)
        BY ReferencesRead DEF StrategyBlock
      <4>4. QED
        BY <4>2, <4>3
    <3>2. QED
      BY <3>1
  <2>3. \A k \in DOMAIN c.source.images : IsReference(c.source.images[k].from)
    <3>1. ASSUME NEW k \in DOMAIN c.source.images
          PROVE  IsReference(c.source.images[k].from)
      <4>1. c.source.images \in Seq(ImageSource)
        BY <2>1 DEF BuildSource
      <4>2. c.source.images[k] \in ImageSource
        BY <4>1
      <4>3. \A image \in ImageSource : IsReference(image.from)
        BY ReferencesRead DEF ImageSource
      <4>4. QED
        BY <4>2, <4>3
    <3>2. QED
      BY <3>1
  <2>4. QED
    BY <2>1, <2>2, <2>3 DEF Readable, IsMap
<1>2. Readable(PlainBuildConfig) /\ DOMAIN PlainBuildConfig.blocks \subseteq {"Docker", "Source"}
  <2>1. IsReference(NoReference)
    BY DEF NoReference, IsReference
  <2>2. QED
    BY <2>1 DEF Readable, PlainBuildConfig, PlainBlock, PlainSource
<1>3. QED
  BY <1>1, <1>2

\* So can what it is converting.
LEMMA GivenReadable ==
  ASSUME ConverterInv
  PROVE  Readable(bc) /\ DOMAIN bc.blocks \subseteq {"Docker", "Source"}
<1>1. bc \in SourceConfigs \/ bc = PlainBuildConfig
  BY DEF ConverterInv, TypeOK
<1>2. QED
  BY <1>1, ConfigsReadable, ConverterAssumption

\* The parts of a Build, as the contract lists them.
PartsAgree ==
  {outcome.resources[k].kind : k \in DOMAIN outcome.resources} = Contract!Parts(bc)

LEMMA PartsListed == ConverterInv /\ ConversionInv /\ PartsInv /\ Converted => PartsAgree
<1> SUFFICES ASSUME ConverterInv, ConversionInv, PartsInv, Converted
             PROVE  PartsAgree
  OBVIOUS
<1>1. outcome.resources = <<b>> \o newResources /\ IsSequence(newResources)
  BY DEF ConversionInv
<1>2. /\ b.kind = "Build" /\ AccountsSettled /\ DockerfileKept
      /\ \A k \in DOMAIN newResources :
           IsAccount(newResources[k]) \/ IsMapResource(newResources[k])
  <2>1. Past("gate") /\ Past("dockerfile")
    BY DEF Past, Converted, Concluded
  <2>2. QED
    BY <2>1 DEF PartsInv
<1> DEFINE kinds == {newResources[k].kind : k \in DOMAIN newResources}
<1>3. {outcome.resources[k].kind : k \in DOMAIN outcome.resources} = {"Build"} \union kinds
  <2>1. \A kind : MentionsKind(<<b>> \o newResources, kind) <=>
                    MentionsKind(<<b>>, kind) \/ MentionsKind(newResources, kind)
    BY <1>1, MentionsConcat, AppendedSequences
  <2>2. \A kind : MentionsKind(<<b>>, kind) <=> kind = "Build"
    BY <1>2, MentionsShort
  <2>3. \A kind : MentionsKind(newResources, kind) <=> kind \in kinds
    BY DEF MentionsKind
  <2>4. \A kind : kind \in {outcome.resources[k].kind : k \in DOMAIN outcome.resources}
                    <=> MentionsKind(<<b>> \o newResources, kind)
    BY <1>1 DEF MentionsKind
  <2> HIDE DEF kinds
  <2>5. QED
    BY <2>1, <2>2, <2>3, <2>4
<1>4. "ServiceAccount" \in kinds <=> GeneratesServiceAccount
  BY <1>2 DEF AccountsSettled, IsAccount
<1>5. "ConfigMap" \in kinds <=> PreservesDockerfile
  BY <1>2 DEF DockerfileKept, IsMapResource
<1>6. kinds \subseteq {"ServiceAccount", "ConfigMap"}
  BY <1>2 DEF IsAccount, IsMapResource
<1>7. GeneratesServiceAccount <=>
        /\ bc.serviceAccount = Contract!Empty
        /\ \E type \in DOMAIN bc.blocks : bc.blocks[type].pullSecret # Contract!Nil
  <2>1. DOMAIN bc.blocks \subseteq {"Docker", "Source"}
    BY GivenReadable
  <2>2. \A type \in DOMAIN bc.blocks : type = "Docker" \/ type = "Source"
    BY <2>1
  <2>3. PullSecret # Nil <=> \E type \in DOMAIN bc.blocks : bc.blocks[type].pullSecret # Nil
    BY <2>1, <2>2 DEF PullSecret
  <2>4. QED
    BY <2>3 DEF GeneratesServiceAccount, NamesServiceAccount, Contract!Nil, Nil, Contract!Empty, Empty
<1>8. PreservesDockerfile <=>
        bc.type = "Docker" /\ bc.source.dockerfile \notin {Contract!Nil, Contract!Empty}
  BY DEF PreservesDockerfile, HasInlineDockerfile, Contract!Nil, Nil, Contract!Empty, Empty
<1>9. QED
  <2> HIDE DEF kinds
  <2>1. {"Build"} \union kinds = Contract!Parts(bc)
    BY <1>4, <1>5, <1>6, <1>7, <1>8 DEF Contract!Parts
  <2>2. QED
    BY <1>3, <2>1 DEF PartsAgree

\* They are the ones listed after a step as well.
LEMMA PartsListedThen ==
  ConverterInv' /\ ConversionInv' /\ PartsInv' /\ Converted' => PartsAgree'
BY PartsListed, PTL

-----------------------------------------------------------------------------
(* The contract, step by step *)

\* What the contract sees of a Converter.
Given == IF step = "idle" THEN {} ELSE {bc}
Returned == [state |-> outcome.state, reason |-> outcome.reason,
             parts |-> {outcome.resources[k].kind : k \in DOMAIN outcome.resources}]

\* A call is a call of the contract.
LEMMA ContractCall ==
  ASSUME NEW c \in SourceConfigs, Convert(c)
  PROVE  Contract!Call
<1>1. /\ Given = {} /\ Given' = {c}
      /\ Returned' = Contract!Nothing
  <2>1. /\ step = "idle" /\ step' = "skeleton" /\ bc' = c /\ outcome' = NoOutcome
    BY DEF Convert
  <2>2. {NoOutcome.resources[k].kind : k \in DOMAIN NoOutcome.resources} = {}
    BY DEF NoOutcome
  <2>3. QED
    BY <2>1, <2>2 DEF Given, Returned, Contract!Nothing, Contract!NoReason, NoOutcome
<1>2. QED
  BY <1>1 DEF Contract!Call, Given, Returned

\* A conversion that returns gives the contract's answer.
LEMMA ContractAnswer ==
  ASSUME ConverterInv, ConverterInv', ConversionInv', PartsInv', VerdictInv',
         Proceed, step' = "idle"
  PROVE  Contract!Refuse \/ Contract!Produce
<1>1. Given = {bc} /\ Given' = {} /\ bc' = bc
  BY ProceedFacts, ConfigKept DEF Given
<1>2. outcome'.state # "none"
  <2>1. ~Iterates /\ ~HandsOver
    BY DEF Iterates, HandsOver, Loops, Calls
  <2>2. GivesUp => outcome'.state # "none"
    BY DEF GivesUp
  <2>3. Classify => outcome'.state # "none"
    <3>1. ASSUME Classify PROVE outcome'.state \in ConvertedStates
      BY <3>1 DEF Classify, ConvertedStates
    <3>2. QED
      BY <3>1 DEF ConvertedStates
  <2>4. QED
    BY <2>1, <2>2, <2>3, StepAdvances
<1>3. Verdict(bc, outcome')
  BY <1>1, <1>2 DEF VerdictInv, Verdict
<1>4. ASSUME outcome'.state \in ConvertedStates, outcome'.reason = "",
             \A k \in 1..5 : ~Contract!Stands(Contract!Reasons[k], bc)
      PROVE  Contract!Produce
  <2>1. Converted'
    BY <1>2, <1>4 DEF Converted, Concluded
  <2>2. Returned'.parts = Contract!Parts(bc)
    <3>1. PartsAgree'
      BY <2>1, PartsListedThen
    <3>2. Contract!Parts(bc)' = Contract!Parts(bc)
      BY <1>1
    <3>3. QED
      BY <3>1, <3>2 DEF PartsAgree, Returned
  <2>3. QED
    <3>1. PICK state \in {"converted", "converted-with-warnings"} : outcome'.state = state
      BY <1>4 DEF ConvertedStates
    <3>2. PICK c \in Given : c = bc
      BY <1>1
    <3>3. Contract!Answer(state, Contract!NoReason, Contract!Parts(c))
      BY <1>1, <1>4, <2>2, <3>1, <3>2 DEF Contract!Answer, Contract!NoReason, Given, Returned
    <3>4. \A k \in DOMAIN Contract!Reasons : ~Contract!Stands(Contract!Reasons[k], c)
      BY <1>4, <3>2, ReasonsAre
    <3>5. QED
      BY <3>3, <3>4 DEF Contract!Produce, Given
<1>5. ASSUME NEW k \in 1..5, Decides(k, bc),
             outcome'.state = (IF Contract!Reasons[k] \in Contract!Declined
                               THEN "skipped" ELSE "failed"),
             outcome'.reason = Contract!Reasons[k]
      PROVE  Contract!Refuse
  <2>1. outcome'.resources = <<>>
    BY <1>5 DEF PartsInv, ConvertedStates
  <2>2. Returned'.parts = {}
    BY <2>1 DEF Returned
  <2>3. Contract!Answer(IF Contract!Reasons[k] \in Contract!Declined THEN "skipped" ELSE "failed",
                        Contract!Reasons[k], {})
    BY <1>1, <1>5, <2>2 DEF Contract!Answer, Given, Returned
  <2>4. k \in DOMAIN Contract!Reasons /\ bc \in Given
    BY <1>1, ReasonsAre
  <2>5. QED
    BY <1>5, <2>3, <2>4 DEF Contract!Refuse, Decides, Given
<1>6. QED
  BY <1>3, <1>4, <1>5 DEF Verdict

\* A step that goes on is none of the contract's.
LEMMA ContractStutter ==
  ASSUME ConverterInv, Proceed, step' # "idle"
  PROVE  UNCHANGED <<Given, Returned>>
<1>1. step # "idle" /\ bc' = bc /\ outcome' = outcome
  BY ProceedFacts, ConfigKept DEF GoesOn, Returns
<1>2. QED
  BY <1>1 DEF Given, Returned

\* Every conversion keeps the contract: whether there is a Build, what goes with
\* it and why there is none is decided by the BuildConfig alone, by the first
\* reason in the code's order (Convert, converter.go:100-231).
THEOREM ConverterKeepsItsContract == Spec => KeepsItsContract
<1> DEFINE Inv == ConverterInv /\ ConversionInv /\ PartsInv
           Step == Contract!Next \/ UNCHANGED <<Given, Returned>>
<1>1. Init => Contract!Init
  <2> SUFFICES ASSUME Init PROVE Contract!Init
    OBVIOUS
  <2>1. {NoOutcome.resources[k].kind : k \in DOMAIN NoOutcome.resources} = {}
    BY DEF NoOutcome
  <2>2. QED
    BY <2>1 DEF Init, Contract!Init, Contract!Nothing, Contract!NoReason, NoOutcome
<1>2. Inv /\ VerdictInv /\ [Next]_vars => VerdictInv'
  BY GivenReadable, VerdictStep, VerdictStarts, VerdictStutters DEF Next, ConverterInv, TypeOK
<1>3. Inv /\ Inv' /\ VerdictInv' /\ [Next]_vars => Step
  <2> SUFFICES ASSUME Inv, Inv', VerdictInv', [Next]_vars PROVE Step
    OBVIOUS
  <2>1. CASE Proceed
    BY <2>1, ContractAnswer, ContractStutter DEF Contract!Next
  <2>2. CASE \E c \in SourceConfigs : Convert(c)
    BY <2>2, ContractCall DEF Contract!Next
  <2>3. CASE UNCHANGED vars
    BY <2>3 DEF vars, Given, Returned
  <2>4. QED
    BY <2>1, <2>2, <2>3 DEF Next
<1>4. Init => VerdictInv
  BY VerdictStarts
<1>5. Spec => []Inv
  BY PartsAlways, Background, PTL
<1> HIDE DEF Inv
<1>6. QED
  BY <1>1, <1>2, <1>3, <1>4, <1>5, PTL
  DEF Spec, KeepsItsContract, Contract!Spec, Given, Returned

-----------------------------------------------------------------------------
(* Chained builds *)

\* A BuildConfig has the strategy block of its type, or none: the API server
\* admits no other.  With both blocks WatchedReference takes the Docker block's
\* image whatever the type, and the image of a Source strategy has no info line.
OneStrategy == DOMAIN bc.blocks \subseteq {bc.type}

\* The warnings that name an image another BuildConfig may build.
RunOrderPaths == "image paths, run order"
RunOrderTrigger == "image trigger, run order"

\* The n-th image input may be another BuildConfig's, and no warning names it.
Unnamed(n) ==
  ChainCandidate(ChainInputs[n]) /\ ChainKey(ChainInputs[n]) \notin KeysNamedByWarnings
ImageOf(n) == Resolve(ChainInputs[n]).image

NoticesSound ==
  /\ IsSequence(notices)
  /\ \A j, k \in DOMAIN notices : notices[j] = notices[k] => j = k
  /\ \A k \in DOMAIN notices : \E n \in DOMAIN ChainInputs : Unnamed(n) /\ ImageOf(n) = notices[k]

\* The warnings that name an image another BuildConfig may build are about the
\* images whose keys the chain's call takes for named.
PathsNamed ==
  \A name : name # Empty =>
    (Mentions(Own, RunOrderPaths, name)
       <=> ChainWarnedBySourceImages /\ SoleImage.from.name = name)
TriggersNamed ==
  \A name :
    Mentions(Own, RunOrderTrigger, name)
      <=> \E k \in DOMAIN bc.triggers :
            /\ ChainWatchedByTrigger(bc.triggers[k])
            /\ ImageChangeWatchedObject(bc.triggers[k].from).name = name

\* An input the loop is past has an info line unless a warning names it.
ChainInv ==
  /\ NoticesSound
  /\ \A n \in DOMAIN ChainInputs :
       Reached("chain", n) /\ Unnamed(n) => Contains(notices, ImageOf(n))
  /\ Past("source") => PathsNamed
  /\ Past("triggers") => TriggersNamed
  /\ outcome.state # "none" => bc \in SourceConfigs

\* What the chain's call reads of a BuildConfig and of the flags stays with them.
LEMMA ChainReads ==
  ASSUME UNCHANGED <<opts, bc>>
  PROVE  /\ \A ref : WithDefaultNamespace(ref)' = WithDefaultNamespace(ref)
         /\ \A ref : Resolve(ref)' = Resolve(ref)
         /\ \A from : ImageChangeWatchedObject(from)' = ImageChangeWatchedObject(from)
         /\ SoleImage' = SoleImage
         /\ ChainInputs' = ChainInputs
         /\ KeysNamedByWarnings' = KeysNamedByWarnings
         /\ ChainWarnedBySourceImages' <=> ChainWarnedBySourceImages
<1>1. \A ref : WithDefaultNamespace(ref)' = WithDefaultNamespace(ref)
  BY DEF WithDefaultNamespace
<1>2. \A ref : Resolve(ref)' = Resolve(ref)
  BY <1>1 DEF Resolve
<1>3. \A from : WatchedReference(from)' = WatchedReference(from)
  BY DEF WatchedReference
<1>4. \A from : ImageChangeWatchedObject(from)' = ImageChangeWatchedObject(from)
  <2> DEFINE none == ""
             Imaged(ref) == [ref EXCEPT !.kind = IF @ = none THEN "ImageStreamTag" ELSE @]
  <2> SUFFICES ASSUME NEW from
               PROVE  ImageChangeWatchedObject(from)' = ImageChangeWatchedObject(from)
    OBVIOUS
  <2>1. ImageChangeWatchedObject(from) =
          IF WatchedReference(from).name = Empty THEN NoReference
          ELSE Imaged(WithDefaultNamespace(WatchedReference(from)))
    BY Zenon DEF ImageChangeWatchedObject
  <2>2. ImageChangeWatchedObject(from)' =
          IF WatchedReference(from)'.name = Empty THEN NoReference
          ELSE Imaged(WithDefaultNamespace(WatchedReference(from))')
    BY Zenon DEF ImageChangeWatchedObject
  <2> HIDE DEF none, Imaged
  <2>3. /\ WatchedReference(from)' = WatchedReference(from)
        /\ WithDefaultNamespace(WatchedReference(from))' = WithDefaultNamespace(WatchedReference(from))
    BY <1>1, <1>3
  <2>4. QED
    BY <2>1, <2>2, <2>3
<1>5. SoleImage' = SoleImage
  BY DEF SoleImage
<1>6. ChainInputs' = ChainInputs
  BY <1>1, <1>4, <1>5, Zenon DEF ChainInputs
<1>7. ChainWarnedBySourceImages' <=> ChainWarnedBySourceImages
  BY <1>1, <1>5 DEF ChainWarnedBySourceImages, ChainCandidate
<1>8. KeysNamedByTriggers' = KeysNamedByTriggers
  BY <1>4 DEF KeysNamedByTriggers, ChainWatchedByTrigger, ChainKey, ChainCandidate
<1>9. KeysNamedByPaths' = KeysNamedByPaths
  BY <1>1, <1>5, <1>7 DEF KeysNamedByPaths, ChainKey
<1>10. QED
  BY <1>1, <1>2, <1>4, <1>5, <1>6, <1>7, <1>8, <1>9 DEF KeysNamedByWarnings

\* So do the inputs that no warning names and what they resolve to.
LEMMA UnnamedStays ==
  ASSUME UNCHANGED <<opts, bc>>
  PROVE  \A n : (Unnamed(n)' <=> Unnamed(n)) /\ ImageOf(n)' = ImageOf(n)
BY ChainReads DEF Unnamed, ImageOf, ChainCandidate, ChainKey

\* And so does what the warnings are expected to name.
LEMMA NamesStay ==
  ASSUME UNCHANGED <<opts, bc>>,
         \A name : Mentions(Own', RunOrderPaths, name)
                     <=> Mentions(Own, RunOrderPaths, name)
  PROVE  PathsNamed' <=> PathsNamed
BY ChainReads DEF PathsNamed

LEMMA TriggerNamesStay ==
  ASSUME UNCHANGED <<opts, bc>>,
         \A name : Mentions(Own', RunOrderTrigger, name)
                     <=> Mentions(Own, RunOrderTrigger, name)
  PROVE  TriggersNamed' <=> TriggersNamed
<1>1. \A trigger : ChainWatchedByTrigger(trigger)' <=> ChainWatchedByTrigger(trigger)
  BY ChainReads DEF ChainWatchedByTrigger, ChainCandidate
<1>2. bc'.triggers = bc.triggers
  OBVIOUS
<1>3. QED
  BY <1>1, <1>2, ChainReads DEF TriggersNamed

\* Each of the two kinds has one call.
LEMMA RunOrderKinds ==
  /\ RecordedOnlyBy("source", {RunOrderPaths})
  /\ RecordedOnlyBy("triggers", {RunOrderTrigger})
<1>1. \A call \in Calls : RunOrderPaths \in KindsAt(call) => call = "source"
  BY DEF KindsAt, Calls, Steps, RunOrderPaths
<1>2. \A call \in Calls : RunOrderTrigger \in KindsAt(call) => call = "triggers"
  BY KindWriters DEF RunOrderTrigger
<1>3. QED
  BY <1>1, <1>2 DEF RecordedOnlyBy

\* The other kinds that these two calls record.
LEMMA OtherKinds ==
  /\ RunOrderPaths \notin {"source configMap", "source mount secret", "source secret",
                            "image as", "doubtful image", "no source", "image paths"}
  /\ RunOrderTrigger \notin {"triggers found", "webhook trigger", "image trigger",
                             "unknown trigger"}
  /\ \A kind, about : Warning(kind, about).kind = kind /\ Warning(kind, about).about = about
<1>1. RunOrderPaths \notin {"source configMap", "source mount secret", "source secret",
                            "image as", "doubtful image", "no source", "image paths"}
  BY Zenon DEF RunOrderPaths
<1>2. RunOrderTrigger \notin {"triggers found", "webhook trigger", "image trigger",
                             "unknown trigger"}
  BY Zenon DEF RunOrderTrigger
<1>3. \A kind, about : Warning(kind, about).kind = kind /\ Warning(kind, about).about = about
  BY DEF Warning
<1>4. QED
  BY <1>1, <1>2, <1>3

\* Elsewhere what such a kind is about stays as it is.
LEMMA MentionsStay ==
  ASSUME ConverterInv, Proceed, NEW call, NEW kind, RecordedOnlyBy(call, {kind}), step # call
  PROVE  \A about : Mentions(Own', kind, about) <=> Mentions(Own, kind, about)
<1>1. PICK ws : /\ IsSequence(ws) /\ Warn(ws)
                /\ \A k \in DOMAIN ws : ws[k].kind \in KindsAt(step)
  BY OwnAppendsItsKinds
<1>2. kind \notin KindsAt(step)
  BY ProceedFacts DEF RecordedOnlyBy, ConverterInv, TypeOK, Calls
<1>3. \A about : ~Mentions(ws, kind, about)
  BY <1>1, <1>2 DEF Mentions
<1>4. QED
  BY <1>1, <1>3, OwnGrows

\* Info lines are written by the chain's loop only.
LEMMA NoticesKept ==
  ASSUME Proceed, ~ProcessChainInput
  PROVE  notices' = notices
<1>1. \A result : Return(result) => UNCHANGED notices
  BY DEF Return
<1>2. CASE SkipUnsupportedStrategy \/ FailUnknownStrategy \/ FailStrategyImage
             \/ SkipWithoutOutput \/ FailSource
  BY <1>1, <1>2 DEF SkipUnsupportedStrategy, FailUnknownStrategy, FailStrategyImage,
                    SkipWithoutOutput, FailSource, Skip
<1>3. CASE MakeSkeleton \/ StrategyWithoutBlock \/ ProcessDockerStrategy
             \/ ProcessSourceStrategy \/ FinishDockerStrategy \/ FinishVolumes
             \/ ConvertBuildArg \/ ConvertVolume \/ ConvertImageLabel
  BY <1>3 DEF MakeSkeleton, StrategyWithoutBlock, ProcessDockerStrategy,
              ProcessSourceStrategy, FinishDockerStrategy, FinishVolumes, ConvertBuildArg,
              ConvertVolume, ConvertImageLabel, UnchangedExtras
<1>4. CASE SourceAbsent \/ GitSource \/ BinarySource \/ ImageSourceStep
             \/ ProcessOutput \/ FinishOutput \/ FinishChainCandidates
  BY <1>4 DEF SourceAbsent, GitSource, BinarySource, ImageSourceStep, ProcessOutput,
              FinishOutput, FinishChainCandidates, UnchangedExtras
<1>5. CASE ProcessCompletionDeadline \/ ProcessNodeSelector \/ ProcessRunPolicy
             \/ ProcessPostCommit \/ ProcessBuildsHistoryLimits \/ AddRegistries
             \/ ProcessTriggers \/ ProcessResources
  BY <1>5
  DEF ProcessCompletionDeadline, ProcessNodeSelector, ProcessRunPolicy, ProcessPostCommit,
      ProcessBuildsHistoryLimits, AddRegistries, ProcessTriggers, ProcessResources,
      UnchangedExtras
<1>6. CASE Classify \/ ProcessInlineDockerfile \/ ProcessCredentials
  BY <1>6 DEF Classify, ProcessInlineDockerfile, ProcessCredentials
<1>7. QED
  BY <1>2, <1>3, <1>4, <1>5, <1>6 DEF Proceed

\* What the source's call says of mounts, of the secret and of the stage name
\* names no image.
LEMMA OtherSourceWarnings ==
  ASSUME bc.source \in BuildSource
  PROVE  /\ IsSequence(MountWarnings) /\ IsSequence(SourceSecretWarning)
         /\ IsSequence(ImageAsWarning) /\ IsSequence(ImagePathsWarning)
         /\ ~MentionsKind(MountWarnings, RunOrderPaths)
         /\ ~MentionsKind(SourceSecretWarning, RunOrderPaths)
         /\ ~MentionsKind(ImageAsWarning, RunOrderPaths)
<1> DEFINE configMaps == [k \in DOMAIN bc.source.configMaps |->
                            Warning("source configMap", bc.source.configMaps[k])]
           secrets == [k \in DOMAIN bc.source.secrets |->
                         Warning("source mount secret", bc.source.secrets[k])]
<1>1. MountWarnings = configMaps \o secrets
  BY DEF MountWarnings
<1>2. IsSequence(configMaps) /\ IsSequence(secrets)
  <2>1. bc.source.configMaps \in Seq(Text) /\ bc.source.secrets \in Seq(Text)
    BY DEF BuildSource
  <2>2. /\ DOMAIN configMaps = DOMAIN bc.source.configMaps
        /\ configMaps = [k \in DOMAIN configMaps |-> configMaps[k]]
        /\ DOMAIN secrets = DOMAIN bc.source.secrets
        /\ secrets = [k \in DOMAIN secrets |-> secrets[k]]
    OBVIOUS
  <2> HIDE DEF configMaps, secrets
  <2>3. QED
    BY <2>1, <2>2, OnPositions
<1>3. /\ ~MentionsKind(configMaps, RunOrderPaths)
      /\ ~MentionsKind(secrets, RunOrderPaths)
  <2>1. /\ \A k \in DOMAIN configMaps : configMaps[k].kind = "source configMap"
        /\ \A k \in DOMAIN secrets : secrets[k].kind = "source mount secret"
    BY OtherKinds
  <2> HIDE DEF configMaps, secrets
  <2>2. QED
    BY <2>1, OtherKinds DEF MentionsKind
<1> HIDE DEF configMaps, secrets
<1>4. /\ IsSequence(MountWarnings)
      /\ ~MentionsKind(MountWarnings, RunOrderPaths)
  BY <1>1, <1>2, <1>3, MentionsConcat, ConcatPositions DEF Concatenates
<1>6. /\ IsSequence(SourceSecretWarning) /\ IsSequence(ImageAsWarning)
      /\ IsSequence(ImagePathsWarning)
  BY AppendedSequences DEF SourceSecretWarning, ImageAsWarning, ImagePathsWarning
<1>7. ~MentionsKind(SourceSecretWarning, RunOrderPaths)
  <2> DEFINE condition == "git" \notin SourceTypes /\ bc.source.secret \notin {Nil, Empty}
             w == Warning("source secret", bc.source.secret)
  <2>1. SourceSecretWarning = If(condition, w) /\ w.kind = "source secret"
    BY OtherKinds DEF SourceSecretWarning
  <2> HIDE DEF condition, w
  <2>2. QED
    BY <2>1, MentionsShort, OtherKinds
<1>8. ~MentionsKind(ImageAsWarning, RunOrderPaths)
  <2> DEFINE w == Warning("image as", SoleImage.from.name)
  <2>1. ImageAsWarning = If(SoleImage.as, w) /\ w.kind = "image as"
    BY OtherKinds DEF ImageAsWarning
  <2> HIDE DEF w
  <2>2. QED
    BY <2>1, MentionsShort, OtherKinds
<1>9. QED
  BY <1>4, <1>6, <1>7, <1>8

\* The paths warning names the image that the chain's call takes for named.
LEMMA PathsWarningNames ==
  ASSUME Len(bc.source.images) = 1
  PROVE  \A name : name # Empty =>
           (Mentions(ImagePathsWarning, RunOrderPaths, name)
              <=> ChainWarnedBySourceImages /\ SoleImage.from.name = name)
<1> DEFINE candidate == ChainCandidate(WithDefaultNamespace(SoleImage.from))
           kind == IF candidate THEN RunOrderPaths ELSE "image paths"
           w == Warning(kind, SoleImage.from.name)
<1>1. ImagePathsWarning = If(SoleImage.paths, w)
  BY Zenon DEF ImagePathsWarning, RunOrderPaths
<1>2. w.kind = kind /\ w.about = SoleImage.from.name
  BY DEF Warning
<1>3. ChainWarnedBySourceImages <=> SoleImage.paths /\ SoleImage.from.name # Empty /\ candidate
  BY DEF ChainWarnedBySourceImages
<1>4. kind = RunOrderPaths <=> candidate
  BY OtherKinds
<1> HIDE DEF w, kind, candidate
<1>5. \A name : Mentions(ImagePathsWarning, RunOrderPaths, name)
                  <=> SoleImage.paths /\ kind = RunOrderPaths
                      /\ SoleImage.from.name = name
  BY <1>1, <1>2, MentionsShort
<1>6. QED
  BY <1>3, <1>4, <1>5

\* A source whose warnings name no image, and which has no image input.
LEMMA NoImageNamed ==
  ASSUME ConverterInv, Proceed, bc' = bc, opts' = opts, bc.source.images = <<>>,
         ~MentionsKind(Own, RunOrderPaths),
         NEW ws, IsSequence(ws), Warn(ws), ~MentionsKind(ws, RunOrderPaths)
  PROVE  PathsNamed'
<1>1. \A name : ~Mentions(Own', RunOrderPaths, name)
  BY OwnGrows DEF Mentions, MentionsKind
<1>2. Len(bc.source.images) = 0
  OBVIOUS
<1>3. ~ChainWarnedBySourceImages
  BY <1>2 DEF ChainWarnedBySourceImages
<1>4. ~ChainWarnedBySourceImages'
  BY <1>3, ChainReads
<1>5. QED
  BY <1>1, <1>4 DEF PathsNamed

\* The source's call names in a paths warning what the chain's call will expect.
LEMMA PathsStep ==
  ASSUME ConverterInv, WarnedSoFar, ChainInv, Proceed, Past("source")'
  PROVE  PathsNamed'
<1>0. UNCHANGED <<opts, bc>>
  BY ConfigKept
<1>1. CASE Past("source")
  <2>1. step # "source" /\ "source" \in Calls
    BY <1>1, PastIsOver DEF Calls, Steps
  <2>2. PathsNamed
    BY <1>1 DEF ChainInv
  <2>3. QED
    BY <1>0, <2>1, <2>2, MentionsStay, RunOrderKinds, NamesStay
<1>2. CASE step = "source"
  <2>1. ~MentionsKind(Own, RunOrderPaths)
    BY <1>2, RunOrderKinds, NothingYet DEF Calls, Steps, Loops
  <2>2. bc.source \in BuildSource
    BY ProceedFacts DEF IsBuildConfig
  <2>3. ~FailSource
    <3>1. \A reason : ~Return(OutcomeFailed(reason))
      BY DEF Past, Converted, Concluded, ConvertedStates, Return, OutcomeFailed
    <3>2. QED
      BY <3>1 DEF FailSource
  <2>4. CASE GitSource
    <3>1. Warn(MountWarnings) /\ bc.source.images = <<>>
      BY <2>4, ImagesListed DEF GitSource
    <3>2. QED
      BY <1>0, <2>1, <2>2, <3>1, OtherSourceWarnings, NoImageNamed
  <2>5. CASE BinarySource
    <3>1. Warn(SourceSecretWarning \o MountWarnings) /\ bc.source.images = <<>>
      BY <2>5, ImagesListed DEF BinarySource
    <3>2. /\ IsSequence(SourceSecretWarning \o MountWarnings)
          /\ ~MentionsKind(SourceSecretWarning \o MountWarnings, RunOrderPaths)
      BY <2>2, OtherSourceWarnings, MentionsConcat, ConcatPositions DEF Concatenates
    <3>3. QED
      BY <1>0, <2>1, <3>1, <3>2, NoImageNamed
  <2>6. CASE SourceAbsent
    <3> DEFINE w == Warning("no source", bc.name)
    <3>1. Warn(SourceSecretWarning \o <<w>>) /\ bc.source.images = <<>>
      BY <2>6, ImagesListed DEF SourceAbsent
    <3>2. w.kind # RunOrderPaths
      BY OtherKinds
    <3> HIDE DEF w
    <3>3. IsSequence(<<w>>) /\ ~MentionsKind(<<w>>, RunOrderPaths)
      BY <3>2, AppendedSequences, MentionsShort
    <3>4. /\ IsSequence(SourceSecretWarning \o <<w>>)
          /\ ~MentionsKind(SourceSecretWarning \o <<w>>, RunOrderPaths)
      BY <2>2, <3>3, OtherSourceWarnings, MentionsConcat, ConcatPositions DEF Concatenates
    <3>5. QED
      BY <1>0, <2>1, <3>1, <3>4, NoImageNamed
  <2>7. CASE ImageSourceStep
    <3> DEFINE w == Warning("doubtful image", SoleImage.from.name)
               doubt == If(Resolve(SoleImage.from).doubtful, w)
    <3>1. /\ Warn(SourceSecretWarning \o ImageAsWarning \o doubt \o ImagePathsWarning
                  \o MountWarnings)
          /\ Len(bc.source.images) = 1
      BY <2>7 DEF ImageSourceStep
    <3>2. w.kind # RunOrderPaths
      BY OtherKinds
    <3> HIDE DEF w
    <3>3. IsSequence(doubt) /\ ~MentionsKind(doubt, RunOrderPaths)
      BY <3>2, AppendedSequences, MentionsShort
    <3> HIDE DEF doubt
    <3> DEFINE one == SourceSecretWarning \o ImageAsWarning
               two == one \o doubt
               three == two \o ImagePathsWarning
               four == three \o MountWarnings
    <3>4. IsSequence(one) /\ ~MentionsKind(one, RunOrderPaths)
      BY <2>2, OtherSourceWarnings, MentionsConcat, ConcatPositions DEF Concatenates
    <3> HIDE DEF one
    <3>5. IsSequence(two) /\ ~MentionsKind(two, RunOrderPaths)
      BY <3>3, <3>4, MentionsConcat, ConcatPositions DEF Concatenates
    <3> HIDE DEF two
    <3>6. /\ IsSequence(three)
          /\ \A name : Mentions(three, RunOrderPaths, name)
                         <=> Mentions(ImagePathsWarning, RunOrderPaths, name)
      <4>1. \A name : ~Mentions(two, RunOrderPaths, name)
        BY <3>5 DEF Mentions, MentionsKind
      <4>2. QED
        BY <2>2, <3>5, <4>1, OtherSourceWarnings, MentionsConcat, ConcatPositions DEF Concatenates
    <3> HIDE DEF three
    <3>7. /\ IsSequence(four)
          /\ \A name : Mentions(four, RunOrderPaths, name)
                         <=> Mentions(ImagePathsWarning, RunOrderPaths, name)
      <4>1. \A name : ~Mentions(MountWarnings, RunOrderPaths, name)
        BY <2>2, OtherSourceWarnings DEF Mentions, MentionsKind
      <4>2. QED
        BY <2>2, <3>6, <4>1, OtherSourceWarnings, MentionsConcat, ConcatPositions DEF Concatenates
    <3>8. Warn(four)
      BY <3>1 DEF four, three, two, one
    <3> HIDE DEF four
    <3>9. \A name : Mentions(Own', RunOrderPaths, name)
                      <=> Mentions(ImagePathsWarning, RunOrderPaths, name)
      <4>1. \A name : ~Mentions(Own, RunOrderPaths, name)
        BY <2>1 DEF Mentions, MentionsKind
      <4>2. QED
        BY <3>7, <3>8, <4>1, OwnGrows
    <3>10. /\ ChainWarnedBySourceImages' <=> ChainWarnedBySourceImages
           /\ SoleImage' = SoleImage
      BY <1>0, ChainReads
    <3>11. QED
      BY <3>1, <3>9, <3>10, PathsWarningNames DEF PathsNamed
  <2>8. QED
    BY <1>2, <2>3, <2>4, <2>5, <2>6, <2>7, ActionAtStep
<1>3. QED
  BY <1>1, <1>2, Onward DEF Calls, Steps

\* An image trigger's warning names what it watches.
LEMMA TriggerWarningNames ==
  \A trigger :
    /\ TriggerWarning(trigger).kind = RunOrderTrigger
         <=> ChainWatchedByTrigger(trigger)
    /\ ChainWatchedByTrigger(trigger) =>
         TriggerWarning(trigger).about = ImageChangeWatchedObject(trigger.from).name
<1> SUFFICES ASSUME NEW trigger
             PROVE  /\ TriggerWarning(trigger).kind = RunOrderTrigger
                         <=> ChainWatchedByTrigger(trigger)
                    /\ ChainWatchedByTrigger(trigger) =>
                         TriggerWarning(trigger).about
                           = ImageChangeWatchedObject(trigger.from).name
  OBVIOUS
<1> DEFINE type == CanonicalTriggerType(trigger.type)
<1>1. ChainWatchedByTrigger(trigger) => type = "ImageChange"
  BY DEF ChainWatchedByTrigger
<1>2. /\ type = "ImageChange" =>
           /\ TriggerWarning(trigger).kind =
                IF ChainWatchedByTrigger(trigger) THEN RunOrderTrigger ELSE "image trigger"
           /\ TriggerWarning(trigger).about = ImageChangeWatchedObject(trigger.from).name
      /\ type # "ImageChange" => TriggerWarning(trigger).kind # RunOrderTrigger
  <2> HIDE DEF type
  <2>1. QED
    BY Zenon DEF TriggerWarning, Warning, type, RunOrderTrigger
<1> HIDE DEF type
<1>3. QED
  BY <1>1, <1>2, OtherKinds

\* The triggers' call names in its warnings what the chain's call will expect.
LEMMA TriggerNamesStep ==
  ASSUME ConverterInv, WarnedSoFar, ChainInv, Proceed, Past("triggers")'
  PROVE  TriggersNamed'
<1>0. UNCHANGED <<opts, bc>>
  BY ConfigKept
<1>1. CASE Past("triggers")
  <2>1. step # "triggers" /\ "triggers" \in Calls
    BY <1>1, PastIsOver DEF Calls, Steps
  <2>2. TriggersNamed
    BY <1>1 DEF ChainInv
  <2>3. QED
    BY <1>0, <2>1, <2>2, MentionsStay, RunOrderKinds, TriggerNamesStay
<1>2. CASE step = "triggers"
  <2> DEFINE each == [k \in DOMAIN bc.triggers |-> TriggerWarning(bc.triggers[k])]
             w == Warning("triggers found", bc.name)
             found == If(bc.triggers # <<>>, w)
  <2>1. Warn(each \o found)
    BY <1>2, ActionAtStep DEF ProcessTriggers
  <2>2. \A name : ~Mentions(Own, RunOrderTrigger, name)
    <3>1. ~MentionsKind(Own, RunOrderTrigger)
      BY <1>2, RunOrderKinds, NothingYet DEF Calls, Steps, Loops
    <3>2. QED
      BY <3>1 DEF Mentions, MentionsKind
  <2>3. IsSequence(each)
    <3>1. bc.triggers \in Seq(Trigger)
      BY ProceedFacts DEF IsBuildConfig
    <3>2. DOMAIN each = DOMAIN bc.triggers /\ each = [k \in DOMAIN each |-> each[k]]
      OBVIOUS
    <3> HIDE DEF each
    <3>3. QED
      BY <3>1, <3>2, OnPositions
  <2>4. \A name : Mentions(each, RunOrderTrigger, name)
                    <=> \E k \in DOMAIN bc.triggers :
                          /\ ChainWatchedByTrigger(bc.triggers[k])
                          /\ ImageChangeWatchedObject(bc.triggers[k].from).name = name
    <3>1. \A k \in DOMAIN bc.triggers : each[k] = TriggerWarning(bc.triggers[k])
      OBVIOUS
    <3>2. DOMAIN each = DOMAIN bc.triggers
      OBVIOUS
    <3> HIDE DEF each
    <3>3. \A k \in DOMAIN bc.triggers :
            /\ each[k].kind = RunOrderTrigger <=> ChainWatchedByTrigger(bc.triggers[k])
            /\ ChainWatchedByTrigger(bc.triggers[k]) =>
                 each[k].about = ImageChangeWatchedObject(bc.triggers[k].from).name
      BY <3>1, TriggerWarningNames
    <3>4. QED
      BY <3>2, <3>3 DEF Mentions
  <2>5. IsSequence(found) /\ \A name : ~Mentions(found, RunOrderTrigger, name)
    <3>1. w.kind # RunOrderTrigger
      BY OtherKinds
    <3> HIDE DEF w
    <3>2. QED
      BY <3>1, AppendedSequences, MentionsShort
  <2> HIDE DEF each, found
  <2>6. /\ IsSequence(each \o found)
        /\ \A name : Mentions(each \o found, RunOrderTrigger, name)
                       <=> Mentions(each, RunOrderTrigger, name)
    BY <2>3, <2>5, MentionsConcat, ConcatPositions DEF Concatenates
  <2>7. \A name : Mentions(Own', RunOrderTrigger, name)
                    <=> Mentions(each, RunOrderTrigger, name)
    BY <2>1, <2>2, <2>6, OwnGrows
  <2>8. \A trigger : ChainWatchedByTrigger(trigger)' <=> ChainWatchedByTrigger(trigger)
    BY <1>0, ChainReads DEF ChainWatchedByTrigger, ChainCandidate
  <2>9. bc'.triggers = bc.triggers
    BY <1>0
  <2>10. QED
    BY <1>0, <2>4, <2>7, <2>8, <2>9, ChainReads DEF TriggersNamed
<1>3. QED
  BY <1>1, <1>2, Onward DEF Calls, Steps

\* What follows one prefix is told apart by it no more.
LEMMA PrefixCancels ==
  ASSUME NEW S, NEW p \in Seq(S), NEW s \in Seq(S), NEW t \in Seq(S), p \o s = p \o t
  PROVE  s = t
<1>1. Len(p \o s) = Len(p) + Len(s) /\ Len(p \o t) = Len(p) + Len(t)
  OBVIOUS
<1>2. Len(s) = Len(t) /\ Len(s) \in Nat /\ Len(p) \in Nat
  BY <1>1
<1>3. ASSUME NEW k \in 1..Len(s) PROVE s[k] = t[k]
  <2>1. (p \o s)[Len(p) + k] = s[k] /\ (p \o t)[Len(p) + k] = t[k]
    BY <1>2
  <2>2. QED
    BY <2>1
<1>4. QED
  BY <1>2, <1>3

\* A reference of the API: its namespace and its name are texts.
TextReference(ref) == IsReference(ref) /\ ref.ns \in Text /\ ref.name \in Text

LEMMA TextReferences == \A ref \in ObjectReference : TextReference(ref)
BY ReferencesRead DEF TextReference, ObjectReference

\* Of two images of the namespace that a BuildConfig may build, the keys differ
\* when the names do, and the references when the keys do.
LEMMA KeysTellNames ==
  ASSUME bc.ns \in Text, NEW ref, TextReference(ref), ChainCandidate(ref),
         NEW other, TextReference(other), ChainCandidate(other)
  PROVE  /\ ChainKey(ref) = ChainKey(other) <=> ref.name = other.name
         /\ ChainKey(ref) = ChainKey(other) => ref = other
<1>1. ref.kind = other.kind /\ ref.ns = bc.ns /\ other.ns = bc.ns
  BY DEF ChainCandidate
<1> DEFINE head == bc.ns \o <<Slash>>
<1>2. ChainKey(ref) = head \o ref.name /\ ChainKey(other) = head \o other.name
  BY <1>1 DEF ChainKey, ImageKey
<1>3. head \in Seq(Tokens) /\ ref.name \in Seq(Tokens) /\ other.name \in Seq(Tokens)
  BY TokensAssumption DEF TextReference, Text
<1> HIDE DEF head
<1>4. ChainKey(ref) = ChainKey(other) <=> ref.name = other.name
  BY <1>2, <1>3, PrefixCancels
<1>5. ref.name = other.name => ref = other
  <2>1. PICK kind, ns, name : ref = [kind |-> kind, ns |-> ns, name |-> name]
    BY DEF TextReference, IsReference
  <2>2. PICK kind2, ns2, name2 : other = [kind |-> kind2, ns |-> ns2, name |-> name2]
    BY DEF TextReference, IsReference
  <2>3. QED
    BY <1>1, <2>1, <2>2
<1>6. QED
  BY <1>4, <1>5

\* The namespace that is filled in is the BuildConfig's; the rest stays.
LEMMA DefaultedRead ==
  ASSUME bc.ns \in Text, NEW ref, TextReference(ref)
  PROVE  /\ TextReference(WithDefaultNamespace(ref))
         /\ WithDefaultNamespace(ref).name = ref.name
         /\ WithDefaultNamespace(ref).kind = ref.kind
         /\ WithDefaultNamespace(ref) =
              [kind |-> ref.kind, ns |-> IF ref.ns = Empty THEN bc.ns ELSE ref.ns,
               name |-> ref.name]
<1>1. PICK kind, ns, name : ref = [kind |-> kind, ns |-> ns, name |-> name]
  BY DEF TextReference, IsReference
<1>2. WithDefaultNamespace(ref) =
        [kind |-> kind, ns |-> IF ns = Empty THEN bc.ns ELSE ns, name |-> name]
  BY <1>1 DEF WithDefaultNamespace
<1>3. /\ ref.kind = kind /\ ref.ns = ns /\ ref.name = name
      /\ WithDefaultNamespace(ref).kind = kind /\ WithDefaultNamespace(ref).name = name
      /\ WithDefaultNamespace(ref).ns = IF ns = Empty THEN bc.ns ELSE ns
  BY <1>1, <1>2
<1>4. IsReference(WithDefaultNamespace(ref))
  BY <1>2 DEF IsReference
<1>5. QED
  BY <1>2, <1>3, <1>4 DEF TextReference

\* A nil reference has no name.
LEMMA NoReferenceNamed == NoReference.name = Empty
BY Zenon DEF NoReference

\* What a trigger watches is a named image.
LEMMA WatchedRead ==
  ASSUME IsBuildConfig(bc), NEW from, from.name # Empty => TextReference(from),
         ImageChangeWatchedObject(from) # NoReference
  PROVE  /\ TextReference(ImageChangeWatchedObject(from))
         /\ ImageChangeWatchedObject(from).name # Empty
<1> DEFINE none == ""
           seen == WatchedReference(from)
           full == WithDefaultNamespace(seen)
           watched == [full EXCEPT !.kind = IF @ = none THEN "ImageStreamTag" ELSE @]
<1>1. seen.name # Empty /\ ImageChangeWatchedObject(from) = watched
  BY Zenon DEF ImageChangeWatchedObject
<1>2. TextReference(seen)
  <2>1. \A type \in DOMAIN bc.blocks : TextReference(bc.blocks[type].from)
    <3>1. bc.blocks \in [DOMAIN bc.blocks -> StrategyBlock]
      BY DEF IsBuildConfig, IsMap
    <3>2. \A block \in StrategyBlock : TextReference(block.from)
      BY TextReferences DEF StrategyBlock
    <3>3. QED
      BY <3>1, <3>2
  <2>2. \/ seen = from /\ from.name # Empty
        \/ "Docker" \in DOMAIN bc.blocks /\ seen = bc.blocks["Docker"].from
        \/ "Source" \in DOMAIN bc.blocks /\ seen = bc.blocks["Source"].from
        \/ seen = NoReference
    BY DEF WatchedReference
  <2> HIDE DEF seen
  <2>3. QED
    BY <1>1, <2>1, <2>2, NoReferenceNamed
<1>3. bc.ns \in Text
  BY DEF IsBuildConfig
<1> HIDE DEF seen, none
<1>4. TextReference(full) /\ full.name # Empty
  BY <1>1, <1>2, <1>3, DefaultedRead
<1> HIDE DEF full
<1>5. TextReference(watched) /\ watched.name = full.name
  <2>1. PICK kind, ns, name : full = [kind |-> kind, ns |-> ns, name |-> name]
    BY <1>4 DEF TextReference, IsReference
  <2>2. watched = [kind |-> IF kind = none THEN "ImageStreamTag" ELSE kind,
                   ns |-> ns, name |-> name]
    BY <2>1
  <2>3. watched.ns = full.ns /\ watched.name = full.name
    BY <2>1, <2>2
  <2>4. IsReference(watched)
    BY <2>2 DEF IsReference
  <2>5. QED
    BY <1>4, <2>3, <2>4 DEF TextReference
<1>6. QED
  BY <1>1, <1>4, <1>5

\* The chain's call is about the strategy's image and about the source's, when
\* they are named and the source's has no paths.
StrategyInput == ImageChangeWatchedObject(NoReference)
NamesPathlessImage ==
  Len(bc.source.images) = 1 /\ ~SoleImage.paths /\ SoleImage.from.name # Empty

LEMMA InputsListed ==
  /\ IsSequence(ChainInputs)
  /\ \A n \in DOMAIN ChainInputs :
       \/ StrategyInput # NoReference /\ ChainInputs[n] = StrategyInput
       \/ NamesPathlessImage /\ ChainInputs[n] = WithDefaultNamespace(SoleImage.from)
  /\ StrategyInput # NoReference =>
       \E n \in DOMAIN ChainInputs : ChainInputs[n] = StrategyInput
  /\ NamesPathlessImage =>
       \E n \in DOMAIN ChainInputs : ChainInputs[n] = WithDefaultNamespace(SoleImage.from)
<1> DEFINE first == StrategyInput # NoReference
           second == NamesPathlessImage
           last == WithDefaultNamespace(SoleImage.from)
           s == If(first, StrategyInput)
           t == If(second, last)
<1>1. ChainInputs = s \o t
  BY DEF ChainInputs, StrategyInput, NamesPathlessImage
<1>2. IsSequence(s) /\ IsSequence(t)
  BY AppendedSequences
<1>3. /\ DOMAIN <<>> = {}
      /\ \A e : DOMAIN <<e>> = {1} /\ <<e>>[1] = e
  OBVIOUS
<1>4. /\ s = IF first THEN <<StrategyInput>> ELSE <<>>
      /\ t = IF second THEN <<last>> ELSE <<>>
  BY DEF If
<1> HIDE DEF first, second, last, s, t
<1>5. /\ \A k \in DOMAIN s : first /\ s[k] = StrategyInput
      /\ \A k \in DOMAIN t : second /\ t[k] = last
      /\ first => 1 \in DOMAIN s /\ s[1] = StrategyInput
      /\ second => 1 \in DOMAIN t /\ t[1] = last
  BY <1>3, <1>4
<1>6. IsSequence(s \o t)
  BY <1>2, ConcatPositions DEF Concatenates
<1>7. \A n \in DOMAIN (s \o t) :
        \/ first /\ (s \o t)[n] = StrategyInput
        \/ second /\ (s \o t)[n] = last
  BY <1>2, <1>5, ConcatElements
<1>8. /\ first => \E n \in DOMAIN (s \o t) : (s \o t)[n] = StrategyInput
      /\ second => \E n \in DOMAIN (s \o t) : (s \o t)[n] = last
  <2>1. /\ \A k \in DOMAIN s : k \in DOMAIN (s \o t) /\ (s \o t)[k] = s[k]
        /\ \A k \in DOMAIN t : Beyond(s, k) \in DOMAIN (s \o t) /\ (s \o t)[Beyond(s, k)] = t[k]
    <3>1. Concatenates(s, t)
      BY <1>2, ConcatPositions
    <3>2. /\ Len(s) \in Nat /\ DOMAIN s = 1..Len(s)
          /\ Len(t) \in Nat /\ DOMAIN t = 1..Len(t)
          /\ DOMAIN (s \o t) = 1..(Len(s) + Len(t))
          /\ \A k \in DOMAIN s : (s \o t)[k] = s[k]
          /\ \A k \in DOMAIN t : (s \o t)[Beyond(s, k)] = t[k]
      BY <3>1 DEF Concatenates
    <3>3. /\ \A k \in 1..Len(s) : k \in 1..(Len(s) + Len(t))
          /\ \A k \in 1..Len(t) : Beyond(s, k) \in 1..(Len(s) + Len(t))
      BY <3>2 DEF Beyond
    <3>4. QED
      BY <3>2, <3>3
  <2>2. QED
    BY <1>5, <2>1
<1>9. QED
  BY <1>1, <1>6, <1>7, <1>8 DEF first, second, last

LEMMA InputsRead ==
  ASSUME IsBuildConfig(bc)
  PROVE  \A n \in DOMAIN ChainInputs :
           TextReference(ChainInputs[n]) /\ ChainInputs[n].name # Empty
<1>1. bc.ns \in Text
  BY DEF IsBuildConfig
<1>2. ASSUME StrategyInput # NoReference
      PROVE  TextReference(StrategyInput) /\ StrategyInput.name # Empty
  BY <1>2, WatchedRead, NoReferenceNamed DEF StrategyInput
<1>3. ASSUME NamesPathlessImage
      PROVE  /\ TextReference(WithDefaultNamespace(SoleImage.from))
             /\ WithDefaultNamespace(SoleImage.from).name # Empty
  <2>1. SoleImage.from \in ObjectReference
    <3>1. bc.source.images \in Seq(ImageSource)
      BY DEF IsBuildConfig, BuildSource
    <3>2. SoleImage \in ImageSource
      BY <1>3, <3>1 DEF NamesPathlessImage, SoleImage
    <3>3. QED
      BY <3>2 DEF ImageSource
  <2>2. TextReference(SoleImage.from)
    BY <2>1, TextReferences
  <2>3. QED
    BY <1>1, <1>3, <2>2, DefaultedRead DEF NamesPathlessImage
<1>4. QED
  BY <1>2, <1>3, InputsListed

\* An iteration prints a line when none was about the image and no warning and
\* no earlier input has its key, so that afterwards each of the inputs so far has
\* its line or its warning.
LEMMA InputProcessed ==
  ASSUME ConverterInv, ChainInv, Proceed, ProcessChainInput
  PROVE  /\ NoticesSound'
         /\ \A n \in DOMAIN ChainInputs :
              n <= item /\ Unnamed(n) => Contains(notices', ImageOf(n))
<1>1. /\ step = "chain" /\ item <= Len(ChainInputs)
      /\ notices' = notices \o If(NeedsNotice(item), ImageOf(item))
  BY DEF ProcessChainInput, ImageOf
<1>2. /\ item \in Nat \ {0} /\ item \in DOMAIN ChainInputs
      /\ DOMAIN ChainInputs \subseteq Nat \ {0}
  <2>1. PICK S : ChainInputs \in Seq(S)
    BY InputsListed DEF IsSequence
  <2>2. QED
    BY <1>1, <2>1 DEF ConverterInv, TypeOK
<1>3. UNCHANGED <<opts, bc>>
  BY ConfigKept
<1>4. NoticesSound
  BY DEF ChainInv
<1>5. \A n \in DOMAIN ChainInputs : n < item /\ Unnamed(n) => Contains(notices, ImageOf(n))
  BY <1>1 DEF ChainInv, Reached
<1>6. ASSUME NeedsNotice(item)
      PROVE  Unnamed(item) /\ ~Contains(notices, ImageOf(item))
  BY <1>6 DEF NeedsNotice, Unnamed, ImageOf, KeysSeenBefore
<1>7. ASSUME Unnamed(item), ~NeedsNotice(item)
      PROVE  Contains(notices, ImageOf(item))
  <2>1. \/ Contains(notices, ImageOf(item))
        \/ ChainKey(ChainInputs[item]) \in KeysSeenBefore(item)
    BY <1>7 DEF NeedsNotice, Unnamed, ImageOf
  <2>2. ASSUME ChainKey(ChainInputs[item]) \in KeysSeenBefore(item)
        PROVE  Contains(notices, ImageOf(item))
    <3>1. PICK n \in 1..(item - 1) :
            ChainCandidate(ChainInputs[n]) /\ ChainKey(ChainInputs[n]) = ChainKey(ChainInputs[item])
      BY <1>7, <2>2 DEF KeysSeenBefore, Unnamed
    <3>2. n < item /\ n \in DOMAIN ChainInputs
      <4>1. PICK S : ChainInputs \in Seq(S)
        BY InputsListed DEF IsSequence
      <4>2. QED
        BY <1>1, <1>2, <4>1
    <3>3. /\ TextReference(ChainInputs[n]) /\ TextReference(ChainInputs[item])
          /\ bc.ns \in Text
      BY <1>2, <3>2, InputsRead, ProceedFacts DEF IsBuildConfig
    <3>4. ChainInputs[n] = ChainInputs[item]
      BY <1>7, <3>1, <3>3, KeysTellNames DEF Unnamed
    <3>5. Unnamed(n) /\ ImageOf(n) = ImageOf(item)
      BY <1>7, <3>4 DEF Unnamed, ImageOf
    <3>6. QED
      BY <1>5, <3>2, <3>5
  <2>3. QED
    BY <2>1, <2>2
<1>8. CASE NeedsNotice(item)
  <2>1. OneMore(notices, notices', ImageOf(item))
    <3> DEFINE condition == NeedsNotice(item)
               e == ImageOf(item)
    <3>1. condition /\ notices' = notices \o If(condition, e) /\ IsSequence(notices)
      BY <1>1, <1>4, <1>8 DEF NoticesSound
    <3> HIDE DEF condition, e
    <3>2. OneMore(notices, notices', e)
      BY <3>1, AppendsOne
    <3>3. QED
      BY <3>2 DEF e
  <2>2. /\ IsSequence(notices')
        /\ Len(notices) \in Nat /\ DOMAIN notices = 1..Len(notices)
        /\ DOMAIN notices' = 1..(Len(notices) + 1)
        /\ \A k \in DOMAIN notices : notices'[k] = notices[k]
        /\ notices'[Len(notices) + 1] = ImageOf(item)
        /\ \A x : Contains(notices, x) => Contains(notices', x)
        /\ Contains(notices', ImageOf(item))
    BY <2>1 DEF OneMore
  <2>3. \A k \in DOMAIN notices : notices[k] # ImageOf(item)
    <3>1. ~Contains(notices, ImageOf(item))
      BY <1>6, <1>8
    <3>2. QED
      BY <2>2, <3>1 DEF Contains
  <2>4. \A k \in DOMAIN notices' : k \in DOMAIN notices \/ k = Len(notices) + 1
    BY <2>2
  <2>5. \A j, k \in DOMAIN notices' : notices'[j] = notices'[k] => j = k
    BY <1>4, <2>2, <2>3, <2>4 DEF NoticesSound
  <2>6. \A k \in DOMAIN notices' :
          \E n \in DOMAIN ChainInputs : Unnamed(n) /\ ImageOf(n) = notices'[k]
    BY <1>2, <1>4, <1>6, <1>8, <2>2, <2>4 DEF NoticesSound
  <2>7. NoticesSound'
    BY <1>3, <2>2, <2>5, <2>6, ChainReads, UnnamedStays DEF NoticesSound
  <2>8. ASSUME NEW n \in DOMAIN ChainInputs, n <= item, Unnamed(n)
        PROVE  Contains(notices', ImageOf(n))
    <3>1. n < item \/ n = item
      BY <1>2, <2>8
    <3>2. QED
      BY <1>5, <2>2, <2>8, <3>1
  <2>9. QED
    BY <2>7, <2>8
<1>9. CASE ~NeedsNotice(item)
  <2>1. notices' = notices
    <3> DEFINE condition == NeedsNotice(item)
               e == ImageOf(item)
    <3>1. ~condition /\ notices' = notices \o If(condition, e) /\ IsSequence(notices)
      BY <1>1, <1>4, <1>9 DEF NoticesSound
    <3> HIDE DEF condition, e
    <3>2. QED
      BY <3>1, AppendsOne
  <2>2. NoticesSound'
    BY <1>3, <1>4, <2>1, ChainReads, UnnamedStays DEF NoticesSound
  <2>3. ASSUME NEW n \in DOMAIN ChainInputs, n <= item, Unnamed(n)
        PROVE  Contains(notices', ImageOf(n))
    <3>1. n < item \/ n = item
      BY <1>2, <2>3
    <3>2. QED
      BY <1>5, <1>7, <1>9, <2>1, <2>3, <3>1
  <2>4. QED
    BY <2>2, <2>3
<1>10. QED
  BY <1>8, <1>9

\* Every step of a conversion keeps the invariant.
LEMMA ChainStep ==
  ASSUME ConverterInv, WarnedSoFar, ChainInv, Proceed
  PROVE  ChainInv'
<1>1. UNCHANGED <<opts, bc>>
  BY ConfigKept
<1>2. bc \in SourceConfigs
  BY ProceedFacts DEF ConverterInv, CallInProgress
<1>3. NoticesSound'
  <2>1. CASE ProcessChainInput
    BY <2>1, InputProcessed
  <2>2. CASE ~ProcessChainInput
    <3>1. notices' = notices /\ NoticesSound
      BY <2>2, NoticesKept DEF ChainInv
    <3>2. QED
      BY <1>1, <3>1, ChainReads, UnnamedStays DEF NoticesSound
  <2>3. QED
    BY <2>1, <2>2
<1>4. ASSUME NEW n \in DOMAIN ChainInputs, Reached("chain", n)', Unnamed(n)
      PROVE  Contains(notices', ImageOf(n))
  <2>1. n \in Nat \ {0}
    <3>1. PICK S : ChainInputs \in Seq(S)
      BY InputsListed DEF IsSequence
    <3>2. QED
      BY <3>1
  <2>2. \/ Reached("chain", n)
        \/ step = "chain" /\ step' = "chain" /\ item' = item + 1 /\ n = item
        \/ step = "chain" /\ step' # "chain"
    BY <1>4, <2>1, LoopOnward DEF Calls, Steps
  <2>3. CASE ProcessChainInput
    <3>1. step = "chain" /\ step' = "chain" /\ item \in Nat
      BY <2>3 DEF ProcessChainInput, Repeat, ConverterInv, TypeOK
    <3>2. n <= item
      <4>1. CASE Reached("chain", n)
        BY <2>1, <3>1, <4>1, PlaceValues DEF Reached, Past
      <4>2. CASE n = item
        BY <2>1, <4>2
      <4>3. QED
        BY <2>2, <3>1, <4>1, <4>2
    <3>3. QED
      BY <1>4, <2>3, <3>2, InputProcessed
  <2>4. CASE ~ProcessChainInput
    <3>1. notices' = notices
      BY <2>4, NoticesKept
    <3>2. Reached("chain", n)
      <4>1. CASE step = "chain"
        <5>1. FinishChainCandidates
          BY <2>4, <4>1, ActionAtStep
        <5>2. PICK S : ChainInputs \in Seq(S)
          BY InputsListed DEF IsSequence
        <5>3. n < item
          BY <1>4, <5>1, <5>2 DEF FinishChainCandidates, ConverterInv, TypeOK
        <5>4. QED
          BY <4>1, <5>3 DEF Reached
      <4>2. CASE step # "chain"
        BY <2>2, <4>2
      <4>3. QED
        BY <4>1, <4>2
    <3>3. QED
      BY <1>4, <3>1, <3>2 DEF ChainInv
  <2>5. QED
    BY <2>3, <2>4
<1>5. \A n \in DOMAIN ChainInputs' :
        Reached("chain", n)' /\ Unnamed(n)' => Contains(notices', ImageOf(n)')
  BY <1>1, <1>4, ChainReads, UnnamedStays
<1>6. bc' \in SourceConfigs
  BY <1>1, <1>2
<1>7. QED
  BY <1>3, <1>5, <1>6, PathsStep, TriggerNamesStep DEF ChainInv, Contains

\* A new Converter and a new conversion have noticed nothing.
LEMMA ChainStarts ==
  /\ Init => ChainInv
  /\ \A c \in SourceConfigs : Convert(c) => ChainInv'
<1>1. /\ Init => step = "idle" /\ notices = <<>> /\ outcome = NoOutcome
      /\ \A c \in SourceConfigs :
           Convert(c) => step' = "skeleton" /\ notices' = <<>> /\ outcome' = NoOutcome
  BY DEF Init, Convert
<1>2. NoOutcome.state = "none" /\ NoOutcome.state \notin ConvertedStates
  BY DEF NoOutcome, ConvertedStates
<1>3. IsSequence(<<>>) /\ DOMAIN <<>> = {}
  BY AppendedSequences
<1>4. {"source", "triggers", "chain"} \subseteq Calls
  BY DEF Calls, Steps
<1>5. ASSUME Init PROVE ChainInv
  <2>1. \A call \in Calls : ~Past(call)
    BY <1>1, <1>2, <1>5 DEF Past, Converted
  <2>2. NoticesSound
    BY <1>1, <1>3, <1>5 DEF NoticesSound
  <2>3. \A n : ~Reached("chain", n)
    BY <1>1, <1>4, <1>5, <2>1 DEF Reached
  <2>4. QED
    BY <1>1, <1>2, <1>4, <1>5, <2>1, <2>2, <2>3 DEF ChainInv
<1>6. ASSUME NEW c \in SourceConfigs, Convert(c) PROVE ChainInv'
  <2>1. \A call \in Calls : ~Past(call)'
    BY <1>6, NothingPast
  <2>2. NoticesSound'
    BY <1>1, <1>3, <1>6 DEF NoticesSound
  <2>3. \A n : ~Reached("chain", n)'
    BY <1>1, <1>4, <1>6, <2>1 DEF Reached
  <2>4. QED
    BY <1>1, <1>2, <1>4, <1>6, <2>1, <2>2, <2>3 DEF ChainInv
<1>7. QED
  BY <1>5, <1>6

LEMMA ChainStutters ==
  ASSUME ChainInv, UNCHANGED vars
  PROVE  ChainInv'
<1>1. UNCHANGED <<opts, bc>> /\ notices' = notices /\ step' = step /\ item' = item
      /\ outcome' = outcome /\ Own' = Own
  BY DEF vars, Own
<1>2. "source" \in Calls /\ "triggers" \in Calls /\ "chain" \in Calls
  BY DEF Calls, Steps
<1>3. /\ Past("source")' <=> Past("source")
      /\ Past("triggers")' <=> Past("triggers")
      /\ Past("chain")' <=> Past("chain")
  BY <1>2, NothingMoves
<1>4. \A n : Reached("chain", n)' <=> Reached("chain", n)
  BY <1>1, <1>3 DEF Reached
<1>5. NoticesSound' <=> NoticesSound
  BY <1>1, ChainReads, UnnamedStays DEF NoticesSound
<1>6. (PathsNamed' <=> PathsNamed) /\ (TriggersNamed' <=> TriggersNamed)
  BY <1>1, NamesStay, TriggerNamesStay
<1>7. \A n \in DOMAIN ChainInputs' :
        Reached("chain", n)' /\ Unnamed(n)' => Contains(notices', ImageOf(n)')
  BY <1>1, <1>4, ChainReads, UnnamedStays DEF ChainInv
<1>8. QED
  BY <1>1, <1>3, <1>5, <1>6, <1>7 DEF ChainInv, Contains

\* The only image of a source.
LEMMA SoleImageRead ==
  ASSUME IsBuildConfig(bc), Len(bc.source.images) = 1
  PROVE  /\ bc.ns \in Text
         /\ TextReference(SoleImage.from)
         /\ DOMAIN bc.source.images = {1}
<1>1. bc.ns \in Text /\ bc.source.images \in Seq(ImageSource)
  BY DEF IsBuildConfig, BuildSource
<1>2. SoleImage \in ImageSource /\ DOMAIN bc.source.images = {1}
  BY <1>1 DEF SoleImage
<1>3. SoleImage.from \in ObjectReference
  BY <1>2 DEF ImageSource
<1>4. QED
  BY <1>1, <1>2, <1>3, TextReferences

\* Warnings name an input exactly when the chain's call takes its key for named.
LEMMA NamedByKey ==
  ASSUME IsBuildConfig(bc), PathsNamed, TriggersNamed,
         NEW ref, TextReference(ref), ref.name # Empty, ChainCandidate(ref)
  PROVE  NamedByWarning(ref) <=> ChainKey(ref) \in KeysNamedByWarnings
<1>0. bc.ns \in Text
  BY DEF IsBuildConfig
<1>1. NamedByWarning(ref) <=> \/ Mentions(Own, RunOrderTrigger, ref.name)
                              \/ Mentions(Own, RunOrderPaths, ref.name)
  BY Zenon DEF NamedByWarning, Recorded, Mentions, RunOrderTrigger, RunOrderPaths
<1>2. Mentions(Own, RunOrderTrigger, ref.name) <=> ChainKey(ref) \in KeysNamedByTriggers
  <2>1. ASSUME NEW k \in DOMAIN bc.triggers, ChainWatchedByTrigger(bc.triggers[k])
        PROVE  ImageChangeWatchedObject(bc.triggers[k].from).name = ref.name
                 <=> ChainKey(ref) = ChainKey(ImageChangeWatchedObject(bc.triggers[k].from))
    <3> DEFINE watched == ImageChangeWatchedObject(bc.triggers[k].from)
    <3>1. watched # NoReference /\ ChainCandidate(watched)
      BY <2>1 DEF ChainWatchedByTrigger
    <3>2. TextReference(bc.triggers[k].from)
      <4>1. bc.triggers \in Seq(Trigger)
        BY DEF IsBuildConfig
      <4>2. bc.triggers[k] \in Trigger
        BY <4>1
      <4>3. bc.triggers[k].from \in ObjectReference
        BY <4>2 DEF Trigger
      <4>4. QED
        BY <4>3, TextReferences
    <3>3. TextReference(watched)
      BY <3>1, <3>2, WatchedRead
    <3> HIDE DEF watched
    <3>4. watched.name = ref.name <=> ChainKey(ref) = ChainKey(watched)
      BY <1>0, <3>1, <3>3, KeysTellNames
    <3>5. QED
      BY <3>4 DEF watched
  <2>2. Mentions(Own, RunOrderTrigger, ref.name)
          <=> \E k \in DOMAIN bc.triggers :
                /\ ChainWatchedByTrigger(bc.triggers[k])
                /\ ImageChangeWatchedObject(bc.triggers[k].from).name = ref.name
    BY DEF TriggersNamed
  <2>3. ChainKey(ref) \in KeysNamedByTriggers
          <=> \E k \in DOMAIN bc.triggers :
                /\ ChainWatchedByTrigger(bc.triggers[k])
                /\ ChainKey(ref) = ChainKey(ImageChangeWatchedObject(bc.triggers[k].from))
    BY DEF KeysNamedByTriggers
  <2>4. QED
    BY <2>1, <2>2, <2>3
<1>3. Mentions(Own, RunOrderPaths, ref.name) <=> ChainKey(ref) \in KeysNamedByPaths
  <2> DEFINE input == WithDefaultNamespace(SoleImage.from)
  <2>1. Mentions(Own, RunOrderPaths, ref.name)
          <=> ChainWarnedBySourceImages /\ SoleImage.from.name = ref.name
    BY DEF PathsNamed
  <2>2. ChainKey(ref) \in KeysNamedByPaths
          <=> ChainWarnedBySourceImages /\ ChainKey(ref) = ChainKey(input)
    BY DEF KeysNamedByPaths
  <2>3. ASSUME ChainWarnedBySourceImages
        PROVE  SoleImage.from.name = ref.name <=> ChainKey(ref) = ChainKey(input)
    <3>1. Len(bc.source.images) = 1 /\ ChainCandidate(input)
      BY <2>3 DEF ChainWarnedBySourceImages
    <3>2. TextReference(SoleImage.from)
      BY <3>1, SoleImageRead
    <3>3. TextReference(input) /\ input.name = SoleImage.from.name
      BY <1>0, <3>2, DefaultedRead
    <3> HIDE DEF input
    <3>4. QED
      BY <1>0, <3>1, <3>3, KeysTellNames
  <2>4. QED
    BY <2>1, <2>2, <2>3
<1>4. QED
  BY <1>1, <1>2, <1>3 DEF KeysNamedByWarnings

\* A source that can be used has one image or none.
LEMMA OneImage ==
  ASSUME IsBuildConfig(bc), ~Contract!Stands("source", bc), NEW k \in DOMAIN bc.source.images
  PROVE  Len(bc.source.images) = 1 /\ k = 1
<1> DEFINE size == Len(bc.source.images)
<1>1. size \in Nat /\ k \in 1..size /\ bc.source.images # <<>>
  <2>1. bc.source.images \in Seq(ImageSource)
    BY DEF IsBuildConfig, BuildSource
  <2>2. QED
    BY <2>1
<1>2. /\ \A one, other \in SourceTypes : one = other
      /\ ~(SourceTypes = {"images"} /\ size > 1)
  BY SourcesCounted DEF Contract!Stands, Contract!UnusableSource
<1>3. "images" \in SourceTypes
  BY <1>1 DEF SourceTypes
<1>4. SourceTypes = {"images"}
  BY <1>2, <1>3
<1> HIDE DEF size
<1>5. size = 1 /\ k = 1
  BY <1>1, <1>2, <1>4
<1>6. QED
  BY <1>5 DEF size

\* The strategy image as the strategy's call reads it, and as the chain's does.
NoKind == ""
StrategyReference ==
  [Block.from EXCEPT !.kind =
     IF bc.type = "Source" /\ @ = NoKind THEN "ImageStreamTag" ELSE @]
Imaged(ref) == [ref EXCEPT !.kind = IF @ = NoKind THEN "ImageStreamTag" ELSE @]

\* An empty kind stands for a tag with both strategies here, and with Source only
\* there; but with Docker it is a reason against the conversion.
LEMMA StrategyReadAlike ==
  ASSUME IsBuildConfig(bc), HasBlock,
         NamesStrategyImage => Block.from.kind # NoKind \/ bc.type = "Source"
  PROVE  /\ WithDefaultNamespace(StrategyReference).name = Block.from.name
         /\ NamesStrategyImage =>
              WithDefaultNamespace(StrategyReference) = Imaged(WithDefaultNamespace(Block.from))
<1>1. TextReference(Block.from)
  <2>1. bc.blocks \in [DOMAIN bc.blocks -> StrategyBlock]
    BY DEF IsBuildConfig, IsMap
  <2>2. \A block \in StrategyBlock : TextReference(block.from)
    BY TextReferences DEF StrategyBlock
  <2>3. QED
    BY <2>1, <2>2 DEF HasBlock, Block
<1>2. PICK kind, ns, name : Block.from = [kind |-> kind, ns |-> ns, name |-> name]
  BY <1>1 DEF TextReference, IsReference
<1> DEFINE full == IF ns = Empty THEN bc.ns ELSE ns
           known == IF kind = NoKind THEN "ImageStreamTag" ELSE kind
           given == IF bc.type = "Source" /\ kind = NoKind THEN "ImageStreamTag" ELSE kind
<1>3. WithDefaultNamespace(Block.from) = [kind |-> kind, ns |-> full, name |-> name]
  BY <1>2 DEF WithDefaultNamespace
<1>4. StrategyReference = [kind |-> given, ns |-> ns, name |-> name]
  BY <1>2 DEF StrategyReference
<1>5. Imaged([kind |-> kind, ns |-> full, name |-> name])
        = [kind |-> known, ns |-> full, name |-> name]
  BY DEF Imaged
<1>6. Block.from.kind = kind /\ Block.from.name = name
  BY <1>2
<1>7. NamesStrategyImage => given = known
  BY <1>6
<1> HIDE DEF given, known
<1>8. WithDefaultNamespace(StrategyReference) = [kind |-> given, ns |-> full, name |-> name]
  BY <1>4 DEF WithDefaultNamespace
<1>9. WithDefaultNamespace(StrategyReference).name = name
  BY <1>8
<1>10. QED
  BY <1>3, <1>5, <1>6, <1>7, <1>8, <1>9

\* With one strategy block, and no reason against the conversion, the chain's
\* call takes the strategy image for an input when it has a name.
LEMMA StrategyInputRead ==
  ASSUME IsBuildConfig(bc), OneStrategy, ~Contract!Stands("strategy image", bc)
  PROVE  /\ StrategyInput # NoReference => HasBlock /\ NamesStrategyImage
         /\ HasBlock /\ NamesStrategyImage =>
              /\ StrategyInput # NoReference
              /\ StrategyInput = WithDefaultNamespace(StrategyReference)
         /\ HasBlock => WithDefaultNamespace(StrategyReference).name = Block.from.name
<1>1. WatchedReference(NoReference) = IF HasBlock THEN Block.from ELSE NoReference
  <2>1. DOMAIN bc.blocks \subseteq {"Docker", "Source"}
    BY DEF IsBuildConfig, IsMap
  <2>2. CASE HasBlock
    <3>1. DOMAIN bc.blocks = {bc.type} /\ (bc.type = "Docker" \/ bc.type = "Source")
      BY <2>1, <2>2 DEF OneStrategy, HasBlock
    <3>2. QED
      BY <2>2, <3>1, NoReferenceNamed DEF WatchedReference, Block
  <2>3. CASE ~HasBlock
    <3>1. DOMAIN bc.blocks = {}
      BY <2>3 DEF OneStrategy, HasBlock
    <3>2. QED
      BY <2>3, <3>1, NoReferenceNamed DEF WatchedReference
  <2>4. QED
    BY <2>2, <2>3
<1>2. StrategyInput = IF WatchedReference(NoReference).name = Empty THEN NoReference
                      ELSE Imaged(WithDefaultNamespace(WatchedReference(NoReference)))
  BY Zenon DEF StrategyInput, ImageChangeWatchedObject, Imaged, NoKind
<1>3. HasBlock /\ NamesStrategyImage => Block.from.kind # NoKind \/ bc.type = "Source"
  <2>1. HasBlock /\ NamesStrategyImage =>
          Block.from.kind \in Contract!StrategyImageKinds(bc)
    BY DEF Contract!Stands, Contract!Empty, Empty, HasBlock, NamesStrategyImage, Block
  <2>2. NoKind \notin Contract!ResolvableKinds
    BY DEF Contract!ResolvableKinds, Contract!ImageStreamKinds, NoKind
  <2>3. bc.type # "Source" => \A kind \in Contract!StrategyImageKinds(bc) :
                                kind \in Contract!ResolvableKinds
    BY Zenon DEF Contract!StrategyImageKinds
  <2>4. QED
    BY <2>1, <2>2, <2>3
<1>4. StrategyInput # NoReference => HasBlock /\ NamesStrategyImage
  BY <1>1, <1>2, NoReferenceNamed DEF NamesStrategyImage
<1>5. HasBlock => WithDefaultNamespace(StrategyReference).name = Block.from.name
  BY <1>3, StrategyReadAlike
<1>6. HasBlock /\ NamesStrategyImage =>
        /\ StrategyInput # NoReference
        /\ StrategyInput = WithDefaultNamespace(StrategyReference)
  BY <1>1, <1>2, <1>3, <1>5, StrategyReadAlike, NoReferenceNamed DEF NamesStrategyImage
<1>7. QED
  BY <1>4, <1>5, <1>6

\* The inputs that ADR-0009 is about.
LEMMA ImageInputsAre ==
  \A ref : ref \in ImageInputs <=>
    \/ HasBlock /\ ref = WithDefaultNamespace(StrategyReference)
    \/ \E k \in DOMAIN bc.source.images :
         ref = WithDefaultNamespace(bc.source.images[k].from)
<1> DEFINE strategies == IF HasBlock THEN {StrategyReference} ELSE {}
           sources == {bc.source.images[k].from : k \in DOMAIN bc.source.images}
<1>1. ImageInputs = {WithDefaultNamespace(ref) : ref \in strategies \union sources}
  BY Zenon DEF ImageInputs, StrategyReference, NoKind
<1>2. /\ \A r : r \in strategies <=> HasBlock /\ r = StrategyReference
      /\ \A r : r \in sources <=> \E k \in DOMAIN bc.source.images : r = bc.source.images[k].from
  OBVIOUS
<1> HIDE DEF strategies, sources
<1>3. \A ref : ref \in ImageInputs
                 <=> \E r : (r \in strategies \/ r \in sources) /\ ref = WithDefaultNamespace(r)
  BY <1>1
<1>4. QED
  BY <1>2, <1>3

\* With one strategy block, and no reason against the conversion, the chain's
\* call goes through the named image inputs that have no paths.
LEMMA InputsMatch ==
  ASSUME IsBuildConfig(bc), OneStrategy,
         ~Contract!Stands("strategy image", bc), ~Contract!Stands("source", bc)
  PROVE  /\ \A n \in DOMAIN ChainInputs : ChainInputs[n] \in ImageInputs
         /\ \A ref \in ImageInputs : ref.name # Empty =>
              \/ \E n \in DOMAIN ChainInputs : ChainInputs[n] = ref
              \/ /\ Len(bc.source.images) = 1 /\ SoleImage.paths
                 /\ ref = WithDefaultNamespace(SoleImage.from)
<1>1. ASSUME NEW n \in DOMAIN ChainInputs
      PROVE  ChainInputs[n] \in ImageInputs
  <2>1. CASE StrategyInput # NoReference /\ ChainInputs[n] = StrategyInput
    <3>1. HasBlock /\ ChainInputs[n] = WithDefaultNamespace(StrategyReference)
      BY <2>1, StrategyInputRead
    <3>2. QED
      BY <3>1, ImageInputsAre
  <2>2. CASE NamesPathlessImage /\ ChainInputs[n] = WithDefaultNamespace(SoleImage.from)
    <3>1. 1 \in DOMAIN bc.source.images /\ SoleImage.from = bc.source.images[1].from
      BY <2>2, SoleImageRead DEF NamesPathlessImage, SoleImage
    <3>2. QED
      BY <2>2, <3>1, ImageInputsAre
  <2>3. QED
    BY <2>1, <2>2, InputsListed
<1>2. ASSUME NEW ref \in ImageInputs, ref.name # Empty
      PROVE  \/ \E n \in DOMAIN ChainInputs : ChainInputs[n] = ref
             \/ /\ Len(bc.source.images) = 1 /\ SoleImage.paths
                /\ ref = WithDefaultNamespace(SoleImage.from)
  <2>1. CASE HasBlock /\ ref = WithDefaultNamespace(StrategyReference)
    <3>1. NamesStrategyImage
      BY <1>2, <2>1, StrategyInputRead DEF NamesStrategyImage
    <3>2. QED
      BY <2>1, <3>1, StrategyInputRead, InputsListed
  <2>2. ASSUME NEW k \in DOMAIN bc.source.images,
               ref = WithDefaultNamespace(bc.source.images[k].from)
        PROVE  \/ \E n \in DOMAIN ChainInputs : ChainInputs[n] = ref
               \/ /\ Len(bc.source.images) = 1 /\ SoleImage.paths
                  /\ ref = WithDefaultNamespace(SoleImage.from)
    <3>1. Len(bc.source.images) = 1 /\ k = 1
      BY OneImage
    <3>2. bc.ns \in Text /\ TextReference(SoleImage.from)
      BY <3>1, SoleImageRead
    <3>3. ref = WithDefaultNamespace(SoleImage.from)
      BY <2>2, <3>1 DEF SoleImage
    <3>4. SoleImage.from.name # Empty
      BY <1>2, <3>2, <3>3, DefaultedRead
    <3>5. CASE SoleImage.paths
      BY <3>1, <3>3, <3>5
    <3>6. CASE ~SoleImage.paths
      BY <3>1, <3>3, <3>4, <3>6, InputsListed DEF NamesPathlessImage
    <3>7. QED
      BY <3>5, <3>6
  <2>3. QED
    BY <2>1, <2>2, ImageInputsAre
<1>3. QED
  BY <1>1, <1>2

\* Where every input has been processed, each is noticed, and none twice.
LEMMA NoticedOnce ==
  ASSUME ConverterInv, ChainInv, VerdictInv, OneStrategy, Converted
  PROVE  ChainNoticedOnce
<1>1. IsBuildConfig(bc)
  <2>1. bc \in SourceConfigs
    BY DEF ChainInv, Converted, Concluded
  <2>2. QED
    BY <2>1, ConverterAssumption
<1>2. PathsNamed /\ TriggersNamed /\ \A n : Reached("chain", n)
  BY DEF ChainInv, Past, Reached, Converted, Concluded
<1>3. ~Contract!Stands("strategy image", bc) /\ ~Contract!Stands("source", bc)
  <2>1. Verdict(bc, outcome) /\ outcome.state \in ConvertedStates
    BY DEF VerdictInv, Converted, Concluded
  <2>2. outcome.state \notin {"skipped", "failed"}
    BY <2>1 DEF ConvertedStates
  <2>3. \A k \in 1..5 : ~Contract!Stands(Contract!Reasons[k], bc)
    BY <2>1, <2>2 DEF Verdict
  <2>4. 3 \in 1..5 /\ 5 \in 1..5
    OBVIOUS
  <2>5. ~Contract!Stands(Contract!Reasons[3], bc) /\ ~Contract!Stands(Contract!Reasons[5], bc)
    BY <2>3, <2>4, Zenon
  <2>6. QED
    BY <2>5, ReasonsAre
<1>4. /\ \A n \in DOMAIN ChainInputs : ChainInputs[n] \in ImageInputs
      /\ \A ref \in ImageInputs : ref.name # Empty =>
           \/ \E n \in DOMAIN ChainInputs : ChainInputs[n] = ref
           \/ /\ Len(bc.source.images) = 1 /\ SoleImage.paths
              /\ ref = WithDefaultNamespace(SoleImage.from)
  BY <1>1, <1>3, InputsMatch
<1>5. \A n \in DOMAIN ChainInputs :
        TextReference(ChainInputs[n]) /\ ChainInputs[n].name # Empty
  BY <1>1, InputsRead
<1>6. \A n \in DOMAIN ChainInputs :
        Unnamed(n) <=> ChainCandidate(ChainInputs[n]) /\ ~NamedByWarning(ChainInputs[n])
  BY <1>1, <1>2, <1>5, NamedByKey DEF Unnamed
<1>7. ASSUME NEW ref \in ChainedInputs
      PROVE  NamedByWarning(ref) \/ Contains(notices, Resolve(ref).image)
  <2>1. ref \in ImageInputs /\ ref.name # Empty /\ ChainCandidate(ref)
    BY DEF ChainedInputs
  <2>2. ASSUME NEW n \in DOMAIN ChainInputs, ChainInputs[n] = ref
        PROVE  NamedByWarning(ref) \/ Contains(notices, Resolve(ref).image)
    BY <1>2, <1>6, <2>1, <2>2 DEF ChainInv, ImageOf
  <2>3. ASSUME Len(bc.source.images) = 1, SoleImage.paths,
               ref = WithDefaultNamespace(SoleImage.from)
        PROVE  NamedByWarning(ref)
    <3>1. TextReference(SoleImage.from) /\ bc.ns \in Text
      BY <1>1, <2>3, SoleImageRead
    <3>2. ref.name = SoleImage.from.name
      BY <2>3, <3>1, DefaultedRead
    <3>3. ChainWarnedBySourceImages
      BY <2>1, <2>3, <3>2 DEF ChainWarnedBySourceImages
    <3>4. Mentions(Own, RunOrderPaths, ref.name)
      BY <1>2, <2>1, <3>2, <3>3 DEF PathsNamed
    <3>5. QED
      BY <3>4, Zenon DEF NamedByWarning, Recorded, Mentions, RunOrderPaths
  <2>4. QED
    BY <1>4, <2>1, <2>2, <2>3
<1>8. ASSUME NEW k \in DOMAIN notices
      PROVE  \E ref \in ChainedInputs :
               ~NamedByWarning(ref) /\ Resolve(ref).image = notices[k]
  <2>1. PICK n \in DOMAIN ChainInputs : Unnamed(n) /\ ImageOf(n) = notices[k]
    BY DEF ChainInv, NoticesSound
  <2>2. ChainInputs[n] \in ChainedInputs /\ ~NamedByWarning(ChainInputs[n])
    BY <1>4, <1>5, <1>6, <2>1 DEF ChainedInputs
  <2>3. QED
    BY <2>1, <2>2 DEF ImageOf
<1>9. QED
  BY <1>7, <1>8 DEF ChainNoticedOnce, ChainInv, NoticesSound

\* For a BuildConfig with the strategy block of its type or none (as the API
\* server accepts them): an image input that another BuildConfig of the namespace
\* may build is named by a warning or has an info line, no image has two, and none
\* that a warning names has one (processChainCandidates against processTriggers
\* and processImageSource, which decide at three places, of the flags, the
\* triggers and the mounts whatever they are).
THEOREM ChainsNoticed ==
  Spec => [](OneStrategy => ChainNoticedOnce)
<1>1. Init => VerdictInv /\ ChainInv
  BY VerdictStarts, ChainStarts
<1>2. ConverterInv /\ WarnedSoFar /\ VerdictInv /\ ChainInv /\ [Next]_vars
        => VerdictInv' /\ ChainInv'
  BY GivenReadable, VerdictStep, VerdictStarts, VerdictStutters, ChainStep, ChainStarts,
     ChainStutters DEF Next, ConverterInv, TypeOK
<1>3. ConverterInv /\ VerdictInv /\ ChainInv => (OneStrategy => ChainNoticedOnce)
  <2>1. ASSUME ~Converted PROVE ChainNoticedOnce
    BY <2>1 DEF ChainNoticedOnce
  <2>2. QED
    BY <2>1, NoticedOnce
<1>4. QED
  BY <1>1, <1>2, <1>3, Background, PTL DEF Spec

=============================================================================
