-------------------------- MODULE MigrationProofs --------------------------
(***************************************************************************)
(* Every migration keeps what Fates promises, for any exports, BuildConfigs*)
(* and flags: each resource is decided once, with its Build in the same    *)
(* step, and only a BuildConfig that does not decode stops the migration.  *)
(* What passes through is what was exported and says why.  Where names     *)
(* stay apart, nothing vanishes and each Build finds its own parts.  Run   *)
(* over its own output, a migration changes nothing.                       *)
(*                                                                         *)
(* The argument: a conversion carries the identity of its BuildConfig in   *)
(* the Build from the first step to the last (ProceedDelivers), the patch  *)
(* of a pass-through always applies (DispositionApplies), and no name      *)
(* belongs to two exported BuildConfigs.  The Converter's invariants hold  *)
(* in a migration as well (SideInv); so what is written is either passed   *)
(* through or a part of one BuildConfig's conversion (WrittenInv), and a   *)
(* key that only one of them can have brings out that one.  What is passed *)
(* through is refused again for the same reason, since no annotation       *)
(* decides that (ConverterKeepsItsContract, RunInv).                       *)
(***************************************************************************)
EXTENDS Remigration, ConversionProofs

-----------------------------------------------------------------------------
(* The Build and its BuildConfig *)

\* build says that it was converted from the BuildConfig c.
Identified(build, c) ==
  /\ DOMAIN build = DOMAIN EmptyBuild
  /\ build.kind = "Build"
  /\ build.ns = c.ns
  /\ ConvertedFromAnnotation \in DOMAIN build.annotations
  /\ build.annotations[ConvertedFromAnnotation].text = c.name

\* What goes with a Build is never a Build, and no BuildConfig.
OnlyExtras(resources) ==
  \E S : resources \in Seq(S) /\ \A r \in S : r.kind \notin {"Build", "BuildConfig"}

\* A step that leaves the identity alone.
KeepsIdentity ==
  /\ DOMAIN b' = DOMAIN b
  /\ b'.kind = b.kind
  /\ b'.ns = b.ns
  /\ b'.annotations = b.annotations

\* An annotation under another key leaves it alone as well.
LEMMA AnnotatingKeepsIdentity ==
  ASSUME NEW build, NEW c, NEW key, NEW value, Identified(build, c),
         key # ConvertedFromAnnotation
  PROVE  Identified([build EXCEPT !.annotations = With(@, key, value)], c)
<1> DEFINE old == build.annotations
<1>1. /\ ConvertedFromAnnotation \in DOMAIN With(old, key, value)
      /\ With(old, key, value)[ConvertedFromAnnotation] = old[ConvertedFromAnnotation]
  BY DEF With, Identified
<1> DEFINE new == With(old, key, value)
<1> HIDE DEF new
<1>2. Identified([build EXCEPT !.annotations = new], c)
  BY <1>1 DEF Identified, EmptyBuild, new
<1>3. QED
  BY <1>2 DEF new

\* The keys the converter writes are different ones.
LEMMA KeysOfItsOwn ==
  /\ DockerfileAnnotation # ConvertedFromAnnotation
  /\ TriggersAnnotation # ConvertedFromAnnotation
  /\ TemplateAnnotation # ConvertedFromAnnotation
  /\ WarningsAnnotationKey # ConvertedFromAnnotation
  /\ OutcomeAnnotation # ConvertedFromAnnotation
<1>1. \A x, y : <<x>> = <<y>> => x = y
  OBVIOUS
<1>2. \A x, y, z, w : <<x, y, z>> # <<w>>
  <2>1. \A x, y, z, w : Len(<<x, y, z>>) = 3 /\ Len(<<w>>) = 1
    OBVIOUS
  <2>2. QED
    BY <2>1
<1>3. /\ "inline-dockerfile-configmap" # "converted-from"
      /\ "original-triggers" # "converted-from"
      /\ "buildrun-template" # "converted-from"
      /\ "conversion-warnings" # "converted-from"
  OBVIOUS
<1>4. QED
  BY <1>1, <1>2, <1>3
  DEF DockerfileAnnotation, TriggersAnnotation, TemplateAnnotation, WarningsAnnotationKey,
      OutcomeAnnotation, ConvertedFromAnnotation

\* A conversion starts with nothing beside its Build.
LEMMA NoExtras == OnlyExtras(<<>>)
<1> DEFINE Holds(S) == <<>> \in Seq(S) /\ \A r \in S : r.kind \notin {"Build", "BuildConfig"}
<1>1. Holds({})
  OBVIOUS
<1>2. \E S : Holds(S)
  <2> HIDE DEF Holds
  <2>1. QED
    BY <1>1
<1>3. QED
  BY <1>2 DEF OnlyExtras

\* One more resource of another kind.
LEMMA ExtrasGrow ==
  ASSUME NEW resources, OnlyExtras(resources), NEW r, r.kind \notin {"Build", "BuildConfig"},
         NEW condition
  PROVE  OnlyExtras(resources \o If(condition, r))
<1>1. PICK S : resources \in Seq(S) /\ \A x \in S : x.kind \notin {"Build", "BuildConfig"}
  BY DEF OnlyExtras
<1> DEFINE T == S \union {r}
<1>2. /\ resources \in Seq(T) /\ If(condition, r) \in Seq(T)
      /\ \A x \in T : x.kind \notin {"Build", "BuildConfig"}
  <2>1. resources \in Seq(T)
    <3>1. \A k \in 1..Len(resources) : resources[k] \in S
      BY <1>1
    <3>2. QED
      BY <1>1, <3>1
  <2>2. <<r>> \in Seq(T) /\ <<>> \in Seq(T)
    OBVIOUS
  <2>3. \A x \in T : x.kind \notin {"Build", "BuildConfig"}
    BY <1>1
  <2>4. QED
    BY <2>1, <2>2, <2>3 DEF If
<1> HIDE DEF T
<1>3. resources \o If(condition, r) \in Seq(T)
  BY <1>2
<1>4. QED
  BY <1>2, <1>3 DEF OnlyExtras

\* The call goes on, or has returned with nothing, or with the Build and what
\* goes with it.
Delivers ==
  /\ step' # "skeleton"
  /\ step' = "idle" /\ outcome'.state \in ConvertedStates =>
       outcome'.resources = <<b'>> \o newResources'

\* From its first step on, Convert's body keeps the identity of the Build.
LEMMA ProceedDelivers ==
  ASSUME Proceed, step # "skeleton" => Identified(b, bc), OnlyExtras(newResources)
  PROVE  /\ UNCHANGED bc
         /\ Identified(b', bc)
         /\ OnlyExtras(newResources')
         /\ Delivers
<1> DEFINE Goal == UNCHANGED bc /\ Identified(b', bc) /\ OnlyExtras(newResources') /\ Delivers
<1>1. CASE MakeSkeleton
  <2>1. /\ bc' = bc /\ newResources' = newResources /\ step' = "strategy"
        /\ b' = [EmptyBuild EXCEPT
             !.ns = bc.ns,
             !.name = UniqueName(bc.name),
             !.annotations = With(CopyAnnotations(bc.annotations),
                                  ConvertedFromAnnotation, [text |-> bc.name]),
             !.labels = CopyLabels(bc.labels)]
    BY <1>1 DEF MakeSkeleton, Continue, fixed, UnchangedExtras
  <2> DEFINE copied == CopyAnnotations(bc.annotations)
             new == With(copied, ConvertedFromAnnotation, [text |-> bc.name])
  <2>2. ConvertedFromAnnotation \in DOMAIN new /\ new[ConvertedFromAnnotation].text = bc.name
    BY DEF With
  <2> HIDE DEF new
  <2>3. b'.annotations = new /\ b'.kind = "Build" /\ b'.ns = bc.ns /\ DOMAIN b' = DOMAIN EmptyBuild
    BY <2>1 DEF EmptyBuild, new
  <2>4. QED
    BY <2>1, <2>2, <2>3 DEF Identified, Delivers
<1>2. CASE step # "skeleton" /\ KeepsIdentity /\ UNCHANGED <<bc, newResources>> /\ Delivers
  BY <1>2 DEF KeepsIdentity, Identified
<1>3. ASSUME step # "skeleton", NEW result, Return(result), result.state \notin ConvertedStates
      PROVE  Goal
  BY <1>3 DEF Return, fixed, Identified, Delivers
<1>4. CASE \/ SkipUnsupportedStrategy \/ FailUnknownStrategy \/ FailStrategyImage
           \/ SkipWithoutOutput \/ FailSource
  <2>1. \A reason : /\ OutcomeFailed(reason).state \notin ConvertedStates
                    /\ OutcomeSkipped(reason).state \notin ConvertedStates
    BY DEF OutcomeFailed, OutcomeSkipped, ConvertedStates
  <2>2. step # "skeleton"
    BY <1>4 DEF SkipUnsupportedStrategy, FailUnknownStrategy, FailStrategyImage,
                SkipWithoutOutput, FailSource
  <2>3. \E reason : Return(OutcomeFailed(reason)) \/ Return(OutcomeSkipped(reason))
    BY <1>4 DEF SkipUnsupportedStrategy, FailUnknownStrategy, FailStrategyImage,
                SkipWithoutOutput, FailSource, Skip
  <2>4. QED
    BY <1>3, <2>1, <2>2, <2>3
<1>5. CASE \/ StrategyWithoutBlock \/ ProcessDockerStrategy \/ ProcessSourceStrategy
           \/ ConvertBuildArg \/ FinishDockerStrategy \/ ConvertVolume \/ FinishVolumes
  <2>1. step # "skeleton" /\ UNCHANGED <<bc, newResources>> /\ Delivers
    BY <1>5 DEF StrategyWithoutBlock, ProcessDockerStrategy, ProcessSourceStrategy,
                ConvertBuildArg, FinishDockerStrategy, ConvertVolume, FinishVolumes,
                Continue, Repeat, fixed, UnchangedExtras, Delivers
  <2>2. KeepsIdentity
    BY <1>5, <2>1, ZenonT(40)
      DEF StrategyWithoutBlock, ProcessDockerStrategy, ProcessSourceStrategy,
                ConvertBuildArg, FinishDockerStrategy, ConvertVolume, FinishVolumes,
                KeepsIdentity, Identified, EmptyBuild
  <2>3. QED
    BY <1>2, <2>1, <2>2
<1>6. CASE \/ SourceAbsent \/ GitSource \/ BinarySource \/ ImageSourceStep
           \/ ProcessOutput \/ FinishOutput \/ ConvertImageLabel
  <2>1. step # "skeleton" /\ UNCHANGED <<bc, newResources>> /\ Delivers
    BY <1>6 DEF SourceAbsent, GitSource, BinarySource, ImageSourceStep, ProcessOutput,
                FinishOutput, ConvertImageLabel,
                Continue, Repeat, fixed, UnchangedExtras, Delivers
  <2>2. KeepsIdentity
    BY <1>6, <2>1, ZenonT(40)
      DEF SourceAbsent, GitSource, BinarySource, ImageSourceStep, ProcessOutput,
                FinishOutput, ConvertImageLabel,
                KeepsIdentity, Identified, EmptyBuild
  <2>3. QED
    BY <1>2, <2>1, <2>2
<1>7. CASE \/ ProcessCompletionDeadline \/ ProcessNodeSelector \/ ProcessRunPolicy
           \/ ProcessPostCommit \/ ProcessBuildsHistoryLimits \/ AddRegistries
           \/ ProcessChainInput \/ FinishChainCandidates
  <2>1. step # "skeleton" /\ UNCHANGED <<bc, newResources>> /\ Delivers
    BY <1>7 DEF ProcessCompletionDeadline, ProcessNodeSelector, ProcessRunPolicy,
                ProcessPostCommit, ProcessBuildsHistoryLimits, AddRegistries,
                ProcessChainInput, FinishChainCandidates,
                Continue, Repeat, fixed, UnchangedExtras, Delivers
  <2>2. KeepsIdentity
    BY <1>7, <2>1 DEF ProcessCompletionDeadline, ProcessNodeSelector, ProcessRunPolicy,
                ProcessPostCommit, ProcessBuildsHistoryLimits, AddRegistries,
                ProcessChainInput, FinishChainCandidates,
                KeepsIdentity, Identified, EmptyBuild
  <2>3. QED
    BY <1>2, <2>1, <2>2
<1>8. CASE ProcessCredentials
  <2>1. /\ step # "skeleton" /\ UNCHANGED <<bc, b>> /\ Delivers
        /\ newResources' = newResources \o If(GeneratesServiceAccount, ServiceAccount)
    BY <1>8 DEF ProcessCredentials, Continue, fixed, Delivers
  <2>2. ServiceAccount.kind \notin {"Build", "BuildConfig"}
    BY DEF ServiceAccount
  <2>3. QED
    BY <2>1, <2>2, ExtrasGrow
<1>9. CASE ProcessInlineDockerfile
  <2> DEFINE preserved == HasInlineDockerfile /\ bc.type = "Docker"
             value == [text |-> DockerfileConfigMap.name]
  <2>1. /\ step # "skeleton" /\ UNCHANGED bc /\ Delivers
        /\ newResources' = newResources \o If(preserved, DockerfileConfigMap)
        /\ b' = IF preserved
                THEN [b EXCEPT !.annotations = With(@, DockerfileAnnotation, value)]
                ELSE b
    BY <1>9 DEF ProcessInlineDockerfile, Continue, fixed, Delivers
  <2>2. DockerfileConfigMap.kind \notin {"Build", "BuildConfig"}
    BY DEF DockerfileConfigMap
  <2>3. OnlyExtras(newResources')
    BY <2>1, <2>2, ExtrasGrow
  <2>4. Identified([b EXCEPT !.annotations = With(@, DockerfileAnnotation, value)], bc)
    BY <2>1, KeysOfItsOwn, AnnotatingKeepsIdentity
  <2> HIDE DEF preserved, value
  <2>5. Identified(b', bc)
    BY <2>1, <2>4
  <2>6. QED
    BY <2>1, <2>3, <2>5
<1>10. CASE ProcessTriggers
  <2> DEFINE value == [triggers |-> bc.triggers]
  <2>1. /\ step # "skeleton" /\ UNCHANGED <<bc, newResources>> /\ Delivers
        /\ b' = IF bc.triggers = <<>> THEN b
                ELSE [b EXCEPT !.annotations = With(@, TriggersAnnotation, value)]
    BY <1>10 DEF ProcessTriggers, Continue, fixed, UnchangedExtras, Delivers
  <2>2. Identified([b EXCEPT !.annotations = With(@, TriggersAnnotation, value)], bc)
    BY <2>1, KeysOfItsOwn, AnnotatingKeepsIdentity
  <2> HIDE DEF value
  <2>3. Identified(b', bc)
    BY <2>1, <2>2
  <2>4. QED
    BY <2>1, <2>3
<1>11. CASE ProcessResources
  <2> DEFINE value == [build |-> b.name, sa |-> TemplateServiceAccount, steps |-> StepNames]
  <2>1. /\ step # "skeleton" /\ UNCHANGED <<bc, newResources>> /\ Delivers
        /\ b' = IF ~bc.resources THEN b
                ELSE [b EXCEPT !.annotations = With(@, TemplateAnnotation, value)]
    BY <1>11 DEF ProcessResources, Continue, fixed, UnchangedExtras, Delivers
  <2>2. Identified([b EXCEPT !.annotations = With(@, TemplateAnnotation, value)], bc)
    BY <2>1, KeysOfItsOwn, AnnotatingKeepsIdentity
  <2> HIDE DEF value
  <2>3. Identified(b', bc)
    BY <2>1, <2>2
  <2>4. QED
    BY <2>1, <2>3
<1>12. CASE Classify
  <2> DEFINE own == OwnWarnings(warnings)
             lossy == own # <<>>
             state == IF lossy THEN "converted-with-warnings" ELSE "converted"
             annotated == IF lossy
                          THEN With(b.annotations, WarningsAnnotationKey, BoundedWarnings(own))
                          ELSE b.annotations
             value == [text |-> <<state>>]
             noted == [b EXCEPT !.annotations =
                         With(@, WarningsAnnotationKey, BoundedWarnings(own))]
             earlier == IF lossy THEN noted ELSE b
  <2>1. /\ step # "skeleton" /\ UNCHANGED <<bc, newResources>>
        /\ b' = [b EXCEPT !.annotations = With(annotated, OutcomeAnnotation, value)]
        /\ outcome'.resources = <<b'>> \o newResources
        /\ step' = "idle"
    BY <1>12 DEF Classify, fixed
  <2>2. Identified(noted, bc)
    BY <2>1, KeysOfItsOwn, AnnotatingKeepsIdentity
  <2>3. Identified(earlier, bc)
    BY <2>1, <2>2
  <2>4. Identified([earlier EXCEPT !.annotations = With(@, OutcomeAnnotation, value)], bc)
    BY <2>3, KeysOfItsOwn, AnnotatingKeepsIdentity
  <2>5. [earlier EXCEPT !.annotations = With(@, OutcomeAnnotation, value)]
          = [b EXCEPT !.annotations = With(annotated, OutcomeAnnotation, value)]
    <3> HIDE DEF own, value
    <3>1. CASE lossy
      BY <2>1, <3>1 DEF Identified, EmptyBuild
    <3>2. CASE ~lossy
      BY <3>2
    <3>3. QED
      BY <3>1, <3>2
  <2> HIDE DEF own, lossy, state, annotated, value, noted, earlier
  <2>6. Identified(b', bc)
    BY <2>1, <2>4, <2>5
  <2>7. QED
    BY <2>1, <2>6 DEF Delivers
<1>13. QED
  BY <1>1, <1>4, <1>5, <1>6, <1>7, <1>8, <1>9, <1>10, <1>11, <1>12 DEF Proceed

-----------------------------------------------------------------------------
(* The patch of a pass-through *)

\* A sequence of two, put together.
LEMMA TwoTogether ==
  ASSUME NEW x, NEW y
  PROVE  <<x>> \o <<y>> = <<x, y>>
<1> DEFINE T == {x, y}
           whole == <<x>> \o <<y>>
<1>1. <<x>> \in Seq(T) /\ Len(<<x>>) = 1 /\ <<x>>[1] = x
  OBVIOUS
<1>2. <<y>> \in Seq(T) /\ Len(<<y>>) = 1 /\ <<y>>[1] = y
  OBVIOUS
<1>3. <<x, y>> \in Seq(T) /\ Len(<<x, y>>) = 2 /\ <<x, y>>[1] = x /\ <<x, y>>[2] = y
  OBVIOUS
<1> HIDE DEF T
<1>4. /\ whole \in Seq(T)
      /\ Len(whole) = Len(<<x>>) + Len(<<y>>)
      /\ \A k \in 1..(Len(<<x>>) + Len(<<y>>)) :
           whole[k] = IF k <= Len(<<x>>) THEN <<x>>[k] ELSE <<y>>[k - Len(<<x>>)]
  BY <1>1, <1>2, ConcatProperties, Zenon
<1> HIDE DEF whole
<1>5. Len(whole) = 2 /\ whole[1] = x /\ whole[2] = y
  BY <1>1, <1>2, <1>4
<1>6. whole = <<x, y>>
  BY <1>3, <1>4, <1>5
<1>7. QED
  BY <1>6 DEF whole

\* One more after a pair.
LEMMA ThreeTogether ==
  ASSUME NEW x, NEW y, NEW z
  PROVE  <<x, y>> \o <<z>> = <<x, y, z>>
<1> DEFINE T == {x, y, z}
           whole == <<x, y>> \o <<z>>
<1>1. <<x, y>> \in Seq(T) /\ Len(<<x, y>>) = 2 /\ <<x, y>>[1] = x /\ <<x, y>>[2] = y
  OBVIOUS
<1>2. <<z>> \in Seq(T) /\ Len(<<z>>) = 1 /\ <<z>>[1] = z
  OBVIOUS
<1>3. /\ <<x, y, z>> \in Seq(T) /\ Len(<<x, y, z>>) = 3
      /\ <<x, y, z>>[1] = x /\ <<x, y, z>>[2] = y /\ <<x, y, z>>[3] = z
  OBVIOUS
<1> HIDE DEF T
<1>4. /\ whole \in Seq(T)
      /\ Len(whole) = Len(<<x, y>>) + Len(<<z>>)
      /\ \A k \in 1..(Len(<<x, y>>) + Len(<<z>>)) :
           whole[k] = IF k <= Len(<<x, y>>) THEN <<x, y>>[k] ELSE <<z>>[k - Len(<<x, y>>)]
  BY <1>1, <1>2, ConcatProperties, Zenon
<1> HIDE DEF whole
<1>5. Len(whole) = 3 /\ whole[1] = x /\ whole[2] = y /\ whole[3] = z
  BY <1>1, <1>2, <1>4
<1>6. whole = <<x, y, z>>
  BY <1>3, <1>4, <1>5
<1>7. QED
  BY <1>6 DEF whole

\* A flattened sequence of three sequences.
LEMMA FlattenThree ==
  \A x, y, z, xy, xyz :
    xy = x \o y /\ xyz = xy \o z => FlattenSeq(<<x, y, z>>) = xyz
<1> SUFFICES ASSUME NEW x, NEW y, NEW z, NEW xy, NEW xyz, xy = x \o y, xyz = xy \o z
             PROVE  FlattenSeq(<<x, y, z>>) = xyz
  OBVIOUS
<1> DEFINE seqs == <<x, y, z>>
           body(f) == [i \in 1..3 |-> IF i = 1 THEN seqs[i] ELSE f[i - 1] \o seqs[i]]
           flatten == CHOOSE f : f = body(f)
           g == [i \in 1..3 |-> IF i = 1 THEN x ELSE IF i = 2 THEN xy ELSE xy \o z]
<1>1. Len(seqs) = 3 /\ seqs[1] = x /\ seqs[2] = y /\ seqs[3] = z
  OBVIOUS
<1>2. FlattenSeq(seqs) = flatten[3]
  BY <1>1 DEF FlattenSeq
<1> HIDE DEF seqs
<1>3. g = body(g)
  BY <1>1
<1>4. flatten = body(flatten)
  BY <1>3
<1> HIDE DEF flatten
<1>5. flatten[1] = x /\ flatten[2] = flatten[1] \o y /\ flatten[3] = flatten[2] \o z
  <2>1. \A i \in 1..3 : flatten[i] = IF i = 1 THEN seqs[i] ELSE flatten[i - 1] \o seqs[i]
    BY <1>4
  <2> HIDE DEF body
  <2>2. 1 \in 1..3 /\ 2 \in 1..3 /\ 3 \in 1..3 /\ 2 - 1 = 1 /\ 3 - 1 = 2 /\ 2 # 1 /\ 3 # 1
    OBVIOUS
  <2>3. /\ flatten[1] = seqs[1]
        /\ flatten[2] = flatten[2 - 1] \o seqs[2]
        /\ flatten[3] = flatten[3 - 1] \o seqs[3]
    BY <2>1, <2>2, Zenon
  <2>4. QED
    BY <1>1, <2>2, <2>3, Zenon
<1>6. QED
  BY <1>2, <1>5 DEF seqs


\* A sequence in front of one more, and of two.
LEMMA OneAndTwo ==
  ASSUME NEW x, NEW y, NEW z
  PROVE  <<x>> \o <<y, z>> = <<x, y, z>>
<1> DEFINE T == {x, y, z}
           whole == <<x>> \o <<y, z>>
<1>1. <<x>> \in Seq(T) /\ Len(<<x>>) = 1 /\ <<x>>[1] = x
  OBVIOUS
<1>2. <<y, z>> \in Seq(T) /\ Len(<<y, z>>) = 2 /\ <<y, z>>[1] = y /\ <<y, z>>[2] = z
  OBVIOUS
<1>3. /\ <<x, y, z>> \in Seq(T) /\ Len(<<x, y, z>>) = 3
      /\ <<x, y, z>>[1] = x /\ <<x, y, z>>[2] = y /\ <<x, y, z>>[3] = z
  OBVIOUS
<1> HIDE DEF T
<1>4. /\ whole \in Seq(T)
      /\ Len(whole) = Len(<<x>>) + Len(<<y, z>>)
      /\ \A k \in 1..(Len(<<x>>) + Len(<<y, z>>)) :
           whole[k] = IF k <= Len(<<x>>) THEN <<x>>[k] ELSE <<y, z>>[k - Len(<<x>>)]
  BY <1>1, <1>2, ConcatProperties, Zenon
<1> HIDE DEF whole
<1>5. Len(whole) = 3 /\ whole[1] = x /\ whole[2] = y /\ whole[3] = z
  BY <1>1, <1>2, <1>4
<1>6. whole = <<x, y, z>>
  BY <1>3, <1>4, <1>5
<1>7. QED
  BY <1>6 DEF whole

\* One more after three.
LEMMA ThreeAndOne ==
  ASSUME NEW x, NEW y, NEW z, NEW w
  PROVE  <<x, y, z>> \o <<w>> = <<x, y, z, w>>
<1> DEFINE T == {x, y, z, w}
           whole == <<x, y, z>> \o <<w>>
<1>1. /\ <<x, y, z>> \in Seq(T) /\ Len(<<x, y, z>>) = 3
      /\ <<x, y, z>>[1] = x /\ <<x, y, z>>[2] = y /\ <<x, y, z>>[3] = z
  OBVIOUS
<1>2. <<w>> \in Seq(T) /\ Len(<<w>>) = 1 /\ <<w>>[1] = w
  OBVIOUS
<1>3. /\ <<x, y, z, w>> \in Seq(T) /\ Len(<<x, y, z, w>>) = 4
      /\ <<x, y, z, w>>[1] = x /\ <<x, y, z, w>>[2] = y
      /\ <<x, y, z, w>>[3] = z /\ <<x, y, z, w>>[4] = w
  OBVIOUS
<1> HIDE DEF T
<1>4. /\ whole \in Seq(T)
      /\ Len(whole) = Len(<<x, y, z>>) + Len(<<w>>)
      /\ \A k \in 1..(Len(<<x, y, z>>) + Len(<<w>>)) :
           whole[k] = IF k <= Len(<<x, y, z>>) THEN <<x, y, z>>[k]
                      ELSE <<w>>[k - Len(<<x, y, z>>)]
  BY <1>1, <1>2, ConcatProperties, Zenon
<1> HIDE DEF whole
<1>5. Len(whole) = 4 /\ whole[1] = x /\ whole[2] = y /\ whole[3] = z /\ whole[4] = w
  BY <1>1, <1>2, <1>4
<1>6. whole = <<x, y, z, w>>
  BY <1>3, <1>4, <1>5
<1>7. QED
  BY <1>6 DEF whole

\* A flattened sequence of four sequences.
LEMMA FlattenFour ==
  \A x, y, z, w, xy, xyz, xyzw :
    xy = x \o y /\ xyz = xy \o z /\ xyzw = xyz \o w => FlattenSeq(<<x, y, z, w>>) = xyzw
<1> TAKE x, y, z, w, xy, xyz, xyzw
<1> HAVE xy = x \o y /\ xyz = xy \o z /\ xyzw = xyz \o w
<1> DEFINE seqs == <<x, y, z, w>>
           body(f) == [i \in 1..4 |-> IF i = 1 THEN seqs[i] ELSE f[i - 1] \o seqs[i]]
           flatten == CHOOSE f : f = body(f)
           g == [i \in 1..4 |-> IF i = 1 THEN x ELSE IF i = 2 THEN xy
                                 ELSE IF i = 3 THEN xyz ELSE xyz \o w]
<1>1. Len(seqs) = 4 /\ seqs[1] = x /\ seqs[2] = y /\ seqs[3] = z /\ seqs[4] = w
  OBVIOUS
<1>2. FlattenSeq(seqs) = flatten[4]
  BY <1>1 DEF FlattenSeq
<1> HIDE DEF seqs
<1>3. g = body(g)
  <2>1. g[1] = x /\ g[2] = xy /\ g[3] = xyz
    OBVIOUS
  <2>2. \A i \in 1..4 : i = 1 \/ i = 2 \/ i = 3 \/ i = 4
    OBVIOUS
  <2>3. \A i \in 1..4 : g[i] = IF i = 1 THEN seqs[i] ELSE g[i - 1] \o seqs[i]
    <3>1. g[4] = xyz \o w
      OBVIOUS
    <3> HIDE DEF g
    <3>2. 2 - 1 = 1 /\ 3 - 1 = 2 /\ 4 - 1 = 3
      OBVIOUS
    <3>3. QED
      BY <1>1, <2>1, <2>2, <3>1, <3>2
  <2>4. QED
    BY <2>3
<1>4. flatten = body(flatten)
  BY <1>3
<1> HIDE DEF flatten
<1>5. /\ flatten[1] = x /\ flatten[2] = flatten[1] \o y
      /\ flatten[3] = flatten[2] \o z /\ flatten[4] = flatten[3] \o w
  <2>1. \A i \in 1..4 : flatten[i] = IF i = 1 THEN seqs[i] ELSE flatten[i - 1] \o seqs[i]
    BY <1>4
  <2> HIDE DEF body
  <2>2. /\ 1 \in 1..4 /\ 2 \in 1..4 /\ 3 \in 1..4 /\ 4 \in 1..4
        /\ 2 - 1 = 1 /\ 3 - 1 = 2 /\ 4 - 1 = 3 /\ 2 # 1 /\ 3 # 1 /\ 4 # 1
    OBVIOUS
  <2>3. /\ flatten[1] = seqs[1]
        /\ flatten[2] = flatten[2 - 1] \o seqs[2]
        /\ flatten[3] = flatten[3 - 1] \o seqs[3]
        /\ flatten[4] = flatten[4 - 1] \o seqs[4]
    BY <2>1, <2>2, Zenon
  <2>4. QED
    BY <1>1, <2>2, <2>3, Zenon
<1>6. QED
  BY <1>2, <1>5 DEF seqs

\* Four entries are a sequence.
LEMMA FourAreSequence ==
  ASSUME NEW S, NEW f \in [1..4 -> S]
  PROVE  f \in Seq(S) /\ Len(f) = 4
<1>1. 4 \in Nat
  OBVIOUS
<1>2. QED
  BY <1>1, FunctionIsSequence, Zenon

\* The keys have a separator in the middle; escaped, they have none, and what
\* they stand for is the key again.
LEMMA KeysEscaped ==
  ASSUME NEW key \in {OutcomeAnnotation, ReasonAnnotation}
  PROVE  /\ \E S : EscapeJSONPointer(key) \in Seq(S) /\ Slash \notin S
         /\ Unescape(EscapeJSONPointer(key)) = key
<1> DEFINE plugin == "buildconfig-to-shipwright"
           one == "1"
<1>1. PICK name \in {"conversion-outcome", "conversion-reason"} : key = <<plugin, Slash, name>>
  BY DEF OutcomeAnnotation, ReasonAnnotation
<1>2. /\ plugin # Slash /\ plugin # Tilde /\ name # Slash /\ name # Tilde /\ Slash # Tilde
      /\ one # Slash /\ one # Tilde
  BY DEF Slash, Tilde
<1> HIDE DEF plugin
<1>3. Substitute(key, Tilde, <<Tilde, "0">>) = <<plugin, Slash, name>>
  <2> DEFINE parts == [k \in DOMAIN key |-> IF key[k] = Tilde THEN <<Tilde, "0">> ELSE <<key[k]>>]
             first == <<plugin>>
             second == <<Slash>>
             third == <<name>>
             both == <<plugin, Slash>>
             whole == <<plugin, Slash, name>>
  <2>1. parts = <<first, second, third>>
    BY <1>1, <1>2
  <2>2. Substitute(key, Tilde, <<Tilde, "0">>) = FlattenSeq(parts)
    BY DEF Substitute
  <2>3. both = first \o second
    BY TwoTogether
  <2>4. whole = both \o third
    BY ThreeTogether
  <2> HIDE DEF parts, first, second, third, both, whole
  <2>5. FlattenSeq(<<first, second, third>>) = whole
    BY <2>3, <2>4, FlattenThree
  <2>6. QED
    BY <2>1, <2>2, <2>5 DEF whole
<1> DEFINE s == <<plugin, Slash, name>>
           escaped == <<plugin, Tilde, one, name>>
<1>4. Substitute(s, Slash, <<Tilde, one>>) = escaped
  <2> DEFINE parts == [k \in DOMAIN s |-> IF s[k] = Slash THEN <<Tilde, one>> ELSE <<s[k]>>]
             first == <<plugin>>
             second == <<Tilde, one>>
             third == <<name>>
             both == <<plugin, Tilde, one>>
             whole == escaped
  <2> HIDE DEF one
  <2>1. parts = <<first, second, third>>
    BY <1>2
  <2>2. Substitute(s, Slash, <<Tilde, one>>) = FlattenSeq(parts)
    BY DEF Substitute
  <2>3. both = first \o second
    BY OneAndTwo
  <2>4. whole = both \o third
    BY ThreeAndOne
  <2> HIDE DEF parts, first, second, third, both, whole
  <2>5. FlattenSeq(<<first, second, third>>) = whole
    BY <2>3, <2>4, FlattenThree
  <2>6. QED
    BY <2>1, <2>2, <2>5 DEF whole
<1>5. EscapeJSONPointer(key) = escaped
  BY <1>3, <1>4 DEF EscapeJSONPointer
<1>6. escaped \in Seq({plugin, Tilde, one, name}) /\ Slash \notin {plugin, Tilde, one, name}
  BY <1>2
<1>7. Unescape(escaped) = key
  <2> DEFINE turned(k) == k > 1 /\ escaped[k - 1] = Tilde
             parts == [k \in DOMAIN escaped |->
                         IF escaped[k] = Tilde THEN <<>>
                         ELSE IF turned(k) THEN <<IF escaped[k] = "1" THEN Slash ELSE Tilde>>
                         ELSE <<escaped[k]>>]
             first == <<plugin>>
             second == <<>>
             third == <<Slash>>
             fourth == <<name>>
             both == <<plugin, Slash>>
             whole == <<plugin, Slash, name>>
  <2>1. parts = <<first, second, third, fourth>>
    <3>1. DOMAIN escaped = 1..4
      OBVIOUS
    <3>2. escaped[1] = plugin /\ escaped[2] = Tilde /\ escaped[3] = "1" /\ escaped[4] = name
      OBVIOUS
    <3>3. ~turned(1) /\ turned(3) /\ ~turned(4)
      BY <1>2, <3>2
    <3> HIDE DEF turned, escaped
    <3>4. parts[1] = first /\ parts[2] = second /\ parts[3] = third /\ parts[4] = fourth
      BY <1>2, <3>1, <3>2, <3>3
    <3>5. DOMAIN parts = 1..4
      BY <3>1
    <3> HIDE DEF parts, first, second, third, fourth
    <3>6. parts \in Seq({first, second, third, fourth}) /\ Len(parts) = 4
      <4>1. parts = [k \in 1..4 |-> parts[k]]
        BY <3>5 DEF parts
      <4>2. \A k \in 1..4 : parts[k] \in {first, second, third, fourth}
        BY <3>4
      <4>3. parts \in [1..4 -> {first, second, third, fourth}]
        BY <4>1, <4>2
      <4>4. QED
        BY <4>3, FourAreSequence, Zenon
    <3>7. QED
      BY <3>4, <3>6
  <2>2. Unescape(escaped) = FlattenSeq(parts)
    BY DEF Unescape
  <2>3. first = first \o second
    OBVIOUS
  <2>4. both = first \o third
    BY TwoTogether
  <2>5. whole = both \o fourth
    BY ThreeTogether
  <2> HIDE DEF parts, first, second, third, fourth, both, whole
  <2>6. FlattenSeq(<<first, second, third, fourth>>) = whole
    BY <2>3, <2>4, <2>5, FlattenFour
  <2>7. QED
    BY <1>1, <2>1, <2>2, <2>6 DEF whole
<1> HIDE DEF escaped
<1>8. QED
  BY <1>5, <1>6, <1>7

\* What comes after a sequence in its concatenation with another.
LEMMA TailOfConcatenation ==
  ASSUME NEW T, NEW s \in Seq(T), NEW t \in Seq(T)
  PROVE  /\ Len(s \o t) = Len(s) + Len(t)
         /\ SubSeq(s \o t, Len(s) + 1, Len(s) + Len(t)) = t
<1>1. /\ s \o t \in Seq(T)
      /\ Len(s \o t) = Len(s) + Len(t)
      /\ \A i \in 1..(Len(s) + Len(t)) : (s \o t)[i] = IF i <= Len(s) THEN s[i] ELSE t[i - Len(s)]
  BY ConcatProperties, Zenon
<1>2. QED
  BY <1>1

\* An "add" below the map adds the key, as long as there is a map.
LEMMA AddBelowMapApplies ==
  ASSUME NEW annotations, DOMAIN annotations # {},
         NEW key \in {OutcomeAnnotation, ReasonAnnotation}, NEW value
  PROVE  ApplyAdd(annotations, [path |-> AnnotationPath(key), value |-> value])
           = [ok |-> TRUE, annotations |-> With(annotations, key, value)]
<1> DEFINE path == AnnotationPath(key)
           op == [path |-> path, value |-> value]
           left == SubSeq(path, Len(AnnotationsPath) + 2, Len(path))
<1> DEFINE meta == "metadata"
           annos == "annotations"
           map == AnnotationsPath \o <<Slash>>
           escaped == EscapeJSONPointer(key)
<1>1. PICK S : escaped \in Seq(S) /\ Slash \notin S
  BY KeysEscaped
<1>12. Unescape(escaped) = key
  BY KeysEscaped
<1> DEFINE T == S \union {Slash, meta, annos}
<1>2. map \in Seq(T) /\ Len(map) = 5 /\ Len(AnnotationsPath) = 4
  <2>1. AnnotationsPath = <<Slash, meta, Slash, annos>>
    BY DEF AnnotationsPath
  <2> HIDE DEF meta, annos
  <2>2. <<Slash, meta, Slash, annos>> \in Seq(T) /\ Len(<<Slash, meta, Slash, annos>>) = 4
    OBVIOUS
  <2>3. <<Slash>> \in Seq(T) /\ Len(<<Slash>>) = 1
    OBVIOUS
  <2> HIDE DEF T
  <2>4. QED
    BY <2>1, <2>2, <2>3, ConcatProperties
<1>3. escaped \in Seq(T) /\ Len(escaped) \in Nat /\ \A k \in 1..Len(escaped) : escaped[k] # Slash
  <2> HIDE DEF escaped
  <2>1. Len(escaped) \in Nat /\ \A k \in 1..Len(escaped) : escaped[k] \in S
    BY <1>1
  <2>2. escaped \in Seq(T)
    BY <1>1, <2>1
  <2>3. QED
    BY <1>1, <2>1, <2>2
<1>4. path = map \o escaped
  BY DEF AnnotationPath
<1> HIDE DEF T, map, escaped, meta, annos, path
<1>5. /\ Len(map \o escaped) = Len(map) + Len(escaped)
      /\ SubSeq(map \o escaped, Len(map) + 1, Len(map) + Len(escaped)) = escaped
  BY <1>2, <1>3, TailOfConcatenation, Zenon
<1>6. Len(path) >= 5 /\ Len(path) = Len(map) + Len(escaped)
  BY <1>2, <1>3, <1>4, <1>5
<1>7. left = escaped
  <2>1. Len(map) + 1 = Len(AnnotationsPath) + 2
    BY <1>2
  <2>2. QED
    BY <2>1, <1>4, <1>5, <1>6, Zenon
<1>8. ~Contains(left, Slash)
  BY <1>3, <1>7 DEF Contains
<1>9. path # AnnotationsPath
  <2>1. ~(4 >= 5)
    OBVIOUS
  <2>2. QED
    BY <2>1, <1>2, <1>6, Zenon
<1>10. op.path = path /\ op.value = value
  OBVIOUS
<1> HIDE DEF left
<1>11. ApplyAdd(annotations, op) =
         [ok |-> TRUE, annotations |-> With(annotations, Unescape(left), value)]
  BY <1>8, <1>9, <1>10 DEF ApplyAdd, left
<1>13. QED
  BY <1>7, <1>11, <1>12 DEF path

\* What a pass-through's patch makes of annotations: the outcome and the reason
\* of o are there, and the rest is as it was.
Stamped(annotations, o) ==
  LET stamped == StampedAnnotations(o)
  IN  [key \in DOMAIN annotations \union DOMAIN stamped |->
         IF key \in DOMAIN stamped THEN stamped[key] ELSE annotations[key]]

\* crane can always apply the patch of a pass-through, whatever annotations the
\* BuildConfig carries, and it stamps them.
LEMMA DispositionApplies ==
  ASSUME NEW annotations, NEW o
  PROVE  /\ DispositionPatch(annotations, o) # <<>>
         /\ ApplyPatch(annotations, DispositionPatch(annotations, o)).ok
         /\ ApplyPatch(annotations, DispositionPatch(annotations, o)).annotations
              = Stamped(annotations, o)
<1> DEFINE stamped == StampedAnnotations(o)
           outcomeOp == [path |-> AnnotationPath(OutcomeAnnotation),
                         value |-> stamped[OutcomeAnnotation]]
           reasonOp == [path |-> AnnotationPath(ReasonAnnotation),
                        value |-> stamped[ReasonAnnotation]]
           wholeOp == [path |-> AnnotationsPath, value |-> stamped]
           patch == DispositionPatch(annotations, o)
           result == Stamped(annotations, o)
<1>1. /\ OutcomeAnnotation \in DOMAIN stamped
      /\ DOMAIN stamped \subseteq {OutcomeAnnotation, ReasonAnnotation}
      /\ stamped = [key \in DOMAIN stamped |-> stamped[key]]
  BY DEF StampedAnnotations
<1>0. result = [key \in DOMAIN annotations \union DOMAIN stamped |->
                  IF key \in DOMAIN stamped THEN stamped[key] ELSE annotations[key]]
  BY DEF Stamped
<1>2. CASE DOMAIN annotations = {}
  <2>1. patch = <<wholeOp>>
    BY <1>2 DEF DispositionPatch, Add
  <2>2. patch[1] = wholeOp /\ Len(patch) = 1
    BY <2>1
  <2>3. ApplyAdd(annotations, wholeOp) = [ok |-> TRUE, annotations |-> stamped]
    BY DEF ApplyAdd
  <2>4. result = stamped
    <3> HIDE DEF stamped, result
    <3>1. QED
      BY <1>0, <1>1, <1>2
  <2> HIDE DEF patch, wholeOp, stamped, result
  <2>5. ApplyPatch(annotations, patch) = [ok |-> TRUE, annotations |-> stamped]
    BY <2>2, <2>3 DEF ApplyPatch
  <2>6. patch # <<>>
    BY <2>1
  <2>7. QED
    BY <2>4, <2>5, <2>6 DEF patch, result
<1>3. CASE DOMAIN annotations # {}
  <2> DEFINE once == With(annotations, OutcomeAnnotation, stamped[OutcomeAnnotation])
             twice == With(once, ReasonAnnotation, stamped[ReasonAnnotation])
  <2>1. ApplyAdd(annotations, outcomeOp) = [ok |-> TRUE, annotations |-> once]
    BY <1>3, AddBelowMapApplies
  <2>2. DOMAIN once # {}
    BY DEF With
  <2> HIDE DEF once
  <2>3. ApplyAdd(once, reasonOp) = [ok |-> TRUE, annotations |-> twice]
    BY <2>2, AddBelowMapApplies
  <2>4. patch = <<outcomeOp>> \o (IF ReasonAnnotation \in DOMAIN stamped THEN <<reasonOp>> ELSE <<>>)
    BY <1>1, <1>3 DEF DispositionPatch, Add
  <2>5. CASE ReasonAnnotation \in DOMAIN stamped
    <3>1. patch = <<outcomeOp, reasonOp>>
      <4> HIDE DEF patch, outcomeOp, reasonOp, stamped
      <4>1. <<outcomeOp>> \o <<reasonOp>> = <<outcomeOp, reasonOp>>
        BY TwoTogether, Zenon
      <4>2. QED
        BY <2>4, <2>5, <4>1, Zenon
    <3> HIDE DEF patch, outcomeOp, reasonOp
    <3>2. patch[1] = outcomeOp /\ Len(patch) = 2 /\ patch[2] = reasonOp /\ patch # <<>>
      BY <3>1
    <3> HIDE DEF twice
    <3>3. ApplyPatch(annotations, patch) = [ok |-> TRUE, annotations |-> twice]
      BY <2>1, <2>3, <3>2 DEF ApplyPatch
    <3>4. twice = result
      <4>1. DOMAIN stamped = {OutcomeAnnotation, ReasonAnnotation}
        BY <1>1, <2>5
      <4> HIDE DEF stamped, result
      <4>2. QED
        BY <1>0, <4>1 DEF twice, once, With
    <3> HIDE DEF result
    <3>5. QED
      BY <3>2, <3>3, <3>4 DEF patch, result
  <2>6. CASE ReasonAnnotation \notin DOMAIN stamped
    <3>1. patch = <<outcomeOp>>
      <4> HIDE DEF patch, outcomeOp, reasonOp, stamped
      <4>1. <<outcomeOp>> \o <<>> = <<outcomeOp>>
        OBVIOUS
      <4>2. QED
        BY <2>4, <2>6, <4>1, Zenon
    <3> HIDE DEF patch, outcomeOp, reasonOp
    <3>2. patch[1] = outcomeOp /\ Len(patch) = 1 /\ patch # <<>>
      BY <3>1
    <3>3. ApplyPatch(annotations, patch) = [ok |-> TRUE, annotations |-> once]
      BY <2>1, <3>2 DEF ApplyPatch
    <3>4. once = result
      <4>1. DOMAIN stamped = {OutcomeAnnotation}
        BY <1>1, <2>6
      <4> HIDE DEF stamped, result
      <4>2. QED
        BY <1>0, <4>1 DEF once, With
    <3> HIDE DEF result
    <3>5. QED
      BY <3>2, <3>3, <3>4 DEF patch, result
  <2>7. QED
    BY <2>5, <2>6
<1>4. QED
  BY <1>2, <1>3

\* The response to a BuildConfig passes it through with a patch that applies, or
\* replaces it by what the outcome delivers.
LEMMA ResponseDecides ==
  ASSUME NEW u, NEW o
  PROVE  LET response == Response(u, o)
         IN  \/ /\ o.state \notin ConvertedStates
                /\ response.whiteOut = FALSE /\ response.newResources = <<>>
                /\ Applies(u, response.patch)
             \/ /\ o.state \in ConvertedStates
                /\ response.whiteOut = TRUE /\ response.newResources = o.resources
                /\ Applies(u, response.patch)
<1> DEFINE patch == DispositionPatch(u.annotations, o)
<1>1. Applies(u, patch) /\ Applies(u, <<>>)
  BY DispositionApplies DEF Applies
<1> HIDE DEF patch
<1>2. Response(u, o) = IF o.state \in {"failed", "skipped"}
                       THEN [PassThrough EXCEPT !.patch = patch]
                       ELSE IF o.state \in ConvertedStates
                       THEN [whiteOut |-> TRUE, newResources |-> o.resources, patch |-> <<>>]
                       ELSE PassThrough
  BY DEF Response, patch
<1>3. QED
  BY <1>1, <1>2 DEF PassThrough, ConvertedStates

\* A skipped or failed BuildConfig is passed through with its annotations and
\* the outcome's.
LEMMA PassedSaysWhy ==
  ASSUME NEW u, NEW o,
         {"kind", "group", "ns", "name", "annotations"} \subseteq DOMAIN u, Handled(u),
         o.state \in {"skipped", "failed"} /\ o.reason # ""
  PROVE  PassedAs(Patched(u, Response(u, o).patch), u)
<1> DEFINE patch == DispositionPatch(u.annotations, o)
           stamped == Stamped(u.annotations, o)
           r == [u EXCEPT !.annotations = stamped]
<1>1. Response(u, o).patch = patch
  BY DEF Response, PassThrough
<1>2. Patched(u, patch) = r
  BY DispositionApplies DEF Patched
<1>3. OutcomeAnnotation # ReasonAnnotation
  BY DEF OutcomeAnnotation, ReasonAnnotation
<1>4. StampedAnnotations(o) =
        [key \in {OutcomeAnnotation, ReasonAnnotation} |->
           [text |-> <<IF key = OutcomeAnnotation THEN o.state ELSE o.reason>>]]
  BY DEF StampedAnnotations
<1> DEFINE own == DOMAIN u.annotations \ {OutcomeAnnotation, ReasonAnnotation}
<1>5. /\ DOMAIN stamped = own \union {OutcomeAnnotation, ReasonAnnotation}
      /\ \A key \in own : stamped[key] = u.annotations[key]
      /\ stamped[OutcomeAnnotation].text = <<o.state>>
      /\ stamped[ReasonAnnotation].text = <<o.reason>>
  <2> DEFINE keys == {OutcomeAnnotation, ReasonAnnotation}
             stamps == StampedAnnotations(o)
  <2>1. /\ DOMAIN stamps = keys
        /\ stamps[OutcomeAnnotation].text = <<o.state>>
        /\ stamps[ReasonAnnotation].text = <<o.reason>>
    <3> DEFINE stamp(key) == [text |-> <<IF key = OutcomeAnnotation THEN o.state ELSE o.reason>>]
    <3>1. /\ stamp(OutcomeAnnotation).text = <<o.state>>
          /\ stamp(ReasonAnnotation).text = <<o.reason>>
      BY <1>3
    <3>2. stamps = [key \in keys |-> stamp(key)]
      BY <1>4
    <3> HIDE DEF stamp, stamps
    <3>3. QED
      BY <3>1, <3>2
  <2> HIDE DEF stamps
  <2>2. stamped = [key \in DOMAIN u.annotations \union keys |->
                     IF key \in keys THEN stamps[key] ELSE u.annotations[key]]
    BY <2>1 DEF Stamped, stamps
  <2> HIDE DEF stamped
  <2>3. DOMAIN stamped = own \union keys
    BY <2>2
  <2>4. \A key \in own : stamped[key] = u.annotations[key]
    BY <2>2
  <2>5. stamped[OutcomeAnnotation] = stamps[OutcomeAnnotation]
        /\ stamped[ReasonAnnotation] = stamps[ReasonAnnotation]
    BY <2>2
  <2>6. QED
    BY <2>1, <2>3, <2>4, <2>5
<1> HIDE DEF patch, stamped
<1>6. /\ Key(r) = Key(u) /\ r.annotations = stamped
      /\ r = [u EXCEPT !.annotations = r.annotations]
  BY DEF Key, Handled
<1>7. <<o.reason>> # <<"">>
  OBVIOUS
<1> HIDE DEF r
<1>8. PassedAs(r, u)
  BY <1>5, <1>6, <1>7 DEF PassedAs
<1>9. QED
  BY <1>1, <1>2, <1>8

-----------------------------------------------------------------------------
(* The invariant of a migration *)

IsSeq(s) == s \in Seq(Range(s))

\* A resource of u's name was written.
Kept(u) == \E r \in Range(output) : Key(r) = Key(u)

\* The conversion that runs is that of u, and what it will deliver is known.
Converting(u) ==
  /\ Handled(u) /\ u.decodable
  /\ bc.ns = u.ns /\ bc.name = u.name
  /\ step # "skeleton" => Identified(b, bc)
  /\ OnlyExtras(newResources)
  /\ step = "idle" /\ outcome.state \in ConvertedStates =>
       outcome.resources = <<b>> \o newResources

CraneInv ==
  /\ export \in Exports
  /\ pending \subseteq export
  /\ handling = {} \/ \E u \in export \ pending : handling = {u} /\ Converting(u) /\ ~aborted
  /\ whiteouts \subseteq Answered
  /\ IsSeq(output)
  /\ \A u \in Answered \ whiteouts : (Handled(u) /\ ~u.decodable) \/ Kept(u)
  /\ aborted \in BOOLEAN
  /\ OnlyUndecodableAborts

\* Put together, two sequences have the members of both.
LEMMA MembersOfConcatenation ==
  \A s, t, st : IsSeq(s) /\ IsSeq(t) /\ st = s \o t =>
                  IsSeq(st) /\ Range(st) = Range(s) \union Range(t)
<1> SUFFICES ASSUME NEW s, NEW t, NEW st, IsSeq(s), IsSeq(t), st = s \o t
             PROVE  IsSeq(st) /\ Range(st) = Range(s) \union Range(t)
  OBVIOUS
<1> DEFINE S == Range(s) \union Range(t)
<1>1. s \in Seq(S) /\ t \in Seq(S)
  <2>1. s \in Seq(Range(s)) /\ t \in Seq(Range(t))
    BY DEF IsSeq
  <2>2. DOMAIN s = 1..Len(s) /\ DOMAIN t = 1..Len(t) /\ Len(s) \in Nat /\ Len(t) \in Nat
    BY <2>1
  <2>3. (\A k \in 1..Len(s) : s[k] \in S) /\ (\A k \in 1..Len(t) : t[k] \in S)
    BY <2>2 DEF Range
  <2> HIDE DEF S
  <2>4. QED
    BY <2>1, <2>2, <2>3
<1> HIDE DEF S
<1>2. st \in Seq(S)
  BY <1>1, ConcatProperties, Zenon
<1>3. Range(st) = Range(s) \union Range(t)
  BY <1>1, RangeConcatenation, ZenonT(30)
<1>4. st \in Seq(Range(st))
  BY <1>2, SeqOfRange, Zenon
<1>5. QED
  BY <1>3, <1>4 DEF IsSeq

\* A sequence of at most one.
LEMMA MembersOfIf ==
  ASSUME NEW e, NEW condition \in BOOLEAN
  PROVE  IsSeq(If(condition, e)) /\ Range(If(condition, e)) = {x \in {e} : condition}
<1>1. <<e>> \in Seq({e}) /\ Len(<<e>>) = 1 /\ <<e>>[1] = e /\ DOMAIN <<e>> = {1}
  OBVIOUS
<1>2. <<>> \in Seq({}) /\ Range(<<>>) = {}
  BY DEF Range
<1>3. Range(<<e>>) = {e}
  BY <1>1 DEF Range
<1>4. QED
  BY <1>1, <1>2, <1>3 DEF If, IsSeq

\* What was written before stays, and what a response brings comes after it.
LEMMA DisposeAppends ==
  ASSUME NEW u, NEW response, Dispose(u, response), IsSeq(output),
         response.whiteOut \in BOOLEAN, IsSeq(response.newResources)
  PROVE  /\ IsSeq(output')
         /\ Range(output') =
              Range(output)
                \union {r \in {Patched(u, response.patch)} : ~response.whiteOut}
                \union Range(response.newResources)
         /\ whiteouts' = whiteouts \union {x \in {u} : response.whiteOut}
<1> DEFINE written == Patched(u, response.patch)
           own == If(~response.whiteOut, written)
           both == output \o own
           more == response.newResources
<1>1. output' = both \o more
  BY DEF Dispose
<1>2. whiteouts' = whiteouts \union {x \in {u} : response.whiteOut}
  BY DEF Dispose
<1> HIDE DEF written
<1>3. IsSeq(own) /\ Range(own) = {r \in {written} : ~response.whiteOut}
  BY MembersOfIf
<1> HIDE DEF own
<1>4. IsSeq(both) /\ Range(both) = Range(output) \union Range(own)
  BY <1>3, MembersOfConcatenation
<1>5. IsSeq(more)
  OBVIOUS
<1> HIDE DEF both, more
<1>6. IsSeq(output') /\ Range(output') = Range(both) \union Range(more)
  BY <1>1, <1>4, <1>5, MembersOfConcatenation
<1>7. QED
  BY <1>2, <1>3, <1>4, <1>6 DEF more, written

\* crane starts with nothing decided.
LEMMA CraneInvInit == MigrationInit => CraneInv
<1> SUFFICES ASSUME MigrationInit PROVE CraneInv
  OBVIOUS
<1>1. IsSeq(output)
  BY DEF MigrationInit, IsSeq, Range
<1>2. QED
  BY <1>1 DEF MigrationInit, CraneInv, Answered, OnlyUndecodableAborts

\* A BuildConfig passed through keeps its name, and is no Build.
LEMMA PatchingKeepsKey ==
  ASSUME NEW u, {"kind", "group", "ns", "name", "annotations"} \subseteq DOMAIN u, Handled(u),
         NEW patch
  PROVE  Key(Patched(u, patch)) = Key(u) /\ Patched(u, patch).kind # "Build"
<1> DEFINE new == ApplyPatch(u.annotations, patch).annotations
<1>1. Patched(u, patch) = IF patch = <<>> THEN u ELSE [u EXCEPT !.annotations = new]
  BY DEF Patched
<1> HIDE DEF new
<1>2. QED
  BY <1>1 DEF Key, Handled

\* What crane does when the plugin has nothing to say of a resource.
LEMMA PassingOther ==
  ASSUME CraneInv, NEW u \in pending, PassOther(u)
  PROVE  /\ IsSeq(output') /\ Range(output') = Range(output) \union {u}
         /\ whiteouts' = whiteouts
         /\ aborted' = FALSE /\ aborted = FALSE
         /\ handling = {} /\ handling' = {}
<1>1. /\ PassThrough.whiteOut = FALSE /\ PassThrough.newResources = <<>>
      /\ PassThrough.patch = <<>>
  BY DEF PassThrough
<1>2. IsSeq(<<>>) /\ Range(<<>>) = {}
  BY DEF IsSeq, Range
<1>3. Patched(u, PassThrough.patch) = u
  BY <1>1 DEF Patched
<1>4. Dispose(u, PassThrough) /\ IsSeq(output)
  BY DEF PassOther, CraneInv
<1>5. /\ IsSeq(output')
      /\ Range(output') =
           Range(output)
             \union {r \in {Patched(u, PassThrough.patch)} : ~PassThrough.whiteOut}
             \union Range(PassThrough.newResources)
      /\ whiteouts' = whiteouts \union {x \in {u} : PassThrough.whiteOut}
  <2>1. PassThrough.whiteOut \in BOOLEAN /\ IsSeq(PassThrough.newResources)
    BY <1>1, <1>2
  <2>2. QED
    BY <1>4, <2>1, DisposeAppends
<1>6. aborted' = FALSE
  BY <1>1, <1>4 DEF Dispose, Applies
<1>7. aborted = FALSE /\ handling = {} /\ handling' = {}
  BY DEF PassOther, Ready, CraneInv
<1>8. QED
  BY <1>1, <1>2, <1>3, <1>5, <1>6, <1>7

\* What crane does with the answer for the BuildConfig u: its outcome decides
\* whether u is kept, or the Build takes its place.
LEMMA Responding ==
  ASSUME CraneInv, NEW u \in handling, Respond
  PROVE  /\ IsSeq(output')
         /\ handling = {u} /\ handling' = {}
         /\ aborted' = FALSE /\ aborted = FALSE
         /\ \/ /\ outcome.state \notin ConvertedStates
               /\ \E r \in {Patched(u, Response(u, outcome).patch)} :
                    /\ Range(output') = Range(output) \union {r}
                    /\ Key(r) = Key(u) /\ r.kind # "Build"
               /\ whiteouts' = whiteouts
            \/ /\ outcome.state \in ConvertedStates
               /\ \E extras \in {Range(newResources)} :
                    /\ Range(output') = Range(output) \union {b} \union extras
                    /\ \A r \in extras : r.kind # "Build"
               /\ whiteouts' = whiteouts \union {u}
               /\ Identified(b, bc)
<1> DEFINE response == Response(u, outcome)
<1>1. handling = {u} /\ Converting(u) /\ aborted = FALSE /\ IsSeq(output) /\ u \in export
  BY DEF CraneInv
<1>2. step = "idle" /\ handling' = {} /\ Dispose(u, response)
  BY <1>1 DEF Respond
<1>3. Identified(b, bc)
  BY <1>1, <1>2 DEF Converting
<1>4. Applies(u, response.patch)
  BY ResponseDecides
<1>5. aborted' = FALSE
  BY <1>2, <1>4 DEF Dispose
<1>6. \/ /\ outcome.state \notin ConvertedStates
         /\ response.whiteOut = FALSE /\ response.newResources = <<>>
      \/ /\ outcome.state \in ConvertedStates
         /\ response.whiteOut = TRUE /\ response.newResources = outcome.resources
  BY ResponseDecides
<1> HIDE DEF response
<1>7. CASE /\ outcome.state \notin ConvertedStates
           /\ response.whiteOut = FALSE /\ response.newResources = <<>>
  <2> DEFINE r == Patched(u, response.patch)
  <2>1. IsSeq(<<>>) /\ Range(<<>>) = {}
    BY DEF IsSeq, Range
  <2>2. /\ IsSeq(output')
        /\ Range(output') = Range(output) \union {x \in {r} : ~response.whiteOut}
                              \union Range(response.newResources)
        /\ whiteouts' = whiteouts \union {x \in {u} : response.whiteOut}
    <3>1. response.whiteOut \in BOOLEAN /\ IsSeq(response.newResources)
      BY <1>7, <2>1
    <3>2. QED
      BY <1>1, <1>2, <3>1, DisposeAppends
  <2>3. Key(r) = Key(u) /\ r.kind # "Build"
    <3>1. {"kind", "group", "ns", "name", "annotations"} \subseteq DOMAIN u /\ Handled(u)
      BY <1>1, ExportsAssumption DEF CraneInv, Converting
    <3>2. QED
      BY <3>1, PatchingKeepsKey
  <2>4. \E x \in {r} : /\ Range(output') = Range(output) \union {x}
                       /\ Key(x) = Key(u) /\ x.kind # "Build"
    <3> HIDE DEF r
    <3>1. QED
      BY <1>7, <2>1, <2>2, <2>3
  <2>5. QED
    BY <1>1, <1>2, <1>5, <1>7, <2>2, <2>4 DEF response
<1>8. CASE /\ outcome.state \in ConvertedStates
           /\ response.whiteOut = TRUE /\ response.newResources = outcome.resources
  <2> DEFINE extras == Range(newResources)
             first == <<b>>
             more == response.newResources
  <2>1. more = first \o newResources
    BY <1>1, <1>2, <1>8 DEF Converting
  <2>2. IsSeq(newResources) /\ \A r \in extras : r.kind # "Build"
    <3>1. PICK S : newResources \in Seq(S) /\ \A r \in S : r.kind # "Build"
      BY <1>1 DEF Converting, OnlyExtras
    <3>2. newResources \in Seq(Range(newResources)) /\ Range(newResources) \subseteq S
      BY <3>1, SeqOfRange DEF Range
    <3>3. QED
      BY <3>1, <3>2 DEF IsSeq
  <2>3. IsSeq(first) /\ Range(first) = {b}
    BY DEF IsSeq, Range
  <2> HIDE DEF first, more
  <2>4. IsSeq(more) /\ Range(more) = Range(first) \union Range(newResources)
    BY <2>1, <2>2, <2>3, MembersOfConcatenation
  <2>5. /\ IsSeq(output')
        /\ Range(output') = Range(output) \union {x \in {Patched(u, response.patch)} : FALSE}
                              \union Range(more)
        /\ whiteouts' = whiteouts \union {x \in {u} : TRUE}
    BY <1>1, <1>2, <1>8, <2>4, DisposeAppends DEF more
  <2>6. Range(output') = Range(output) \union {b} \union extras
    BY <2>3, <2>4, <2>5
  <2>7. \E members \in {Range(newResources)} :
          /\ Range(output') = Range(output) \union {b} \union members
          /\ \A r \in members : r.kind # "Build"
    BY <2>2, <2>6
  <2> HIDE DEF extras
  <2>8. QED
    BY <1>1, <1>2, <1>3, <1>5, <1>8, <2>5, <2>7
<1>9. QED
  BY <1>6, <1>7, <1>8

\* Every step of crane and the plugin keeps the invariant.
LEMMA CraneInvNext == CraneInv /\ [MigrationNext]_migrationVars => CraneInv'
<1> SUFFICES ASSUME CraneInv, [MigrationNext]_migrationVars PROVE CraneInv'
  OBVIOUS
<1> USE DEF Answered
<1>1. ASSUME NEW u \in pending, PassOther(u) PROVE CraneInv'
  <2>1. /\ IsSeq(output') /\ Range(output') = Range(output) \union {u}
        /\ whiteouts' = whiteouts
        /\ aborted' = FALSE /\ aborted = FALSE
        /\ handling = {} /\ handling' = {}
    BY <1>1, PassingOther
  <2>2. export' = export /\ pending' = pending \ {u} /\ u \in export
    BY <1>1 DEF PassOther, Take, CraneInv
  <2>3. Answered' = Answered \union {u}
    BY <2>1, <2>2
  <2>4. ASSUME NEW v \in (Answered \ whiteouts)'
        PROVE  (Handled(v) /\ ~v.decodable) \/ Kept(v)'
    BY <2>1, <2>3, <2>4 DEF CraneInv, Kept
  <2>5. QED
    BY <2>1, <2>2, <2>3, <2>4 DEF CraneInv, OnlyUndecodableAborts
<1>2. ASSUME NEW u \in pending, FailToDecode(u) PROVE CraneInv'
  <2>1. /\ export' = export /\ pending' = pending \ {u} /\ u \in export
        /\ aborted' = TRUE /\ handling = {} /\ handling' = {}
        /\ whiteouts' = whiteouts /\ output' = output
        /\ Handled(u) /\ ~u.decodable
    BY <1>2 DEF FailToDecode, Take, Ready, CraneInv
  <2>2. Answered' = Answered \union {u}
    BY <2>1
  <2>3. ASSUME NEW v \in (Answered \ whiteouts)'
        PROVE  (Handled(v) /\ ~v.decodable) \/ Kept(v)'
    BY <2>1, <2>2, <2>3 DEF CraneInv, Kept
  <2>4. IsSeq(output')
    BY <2>1 DEF CraneInv
  <2>5. QED
    BY <2>1, <2>2, <2>3, <2>4 DEF CraneInv, OnlyUndecodableAborts
<1>3. ASSUME NEW u \in pending, StartConversion(u) PROVE CraneInv'
  <2>1. /\ export' = export /\ pending' = pending \ {u} /\ u \in export
        /\ handling = {} /\ handling' = {u} /\ ~aborted
        /\ whiteouts' = whiteouts /\ output' = output /\ aborted' = aborted
        /\ Handled(u) /\ u.decodable
    BY <1>3 DEF StartConversion, Take, Ready, CraneInv
  <2>2. bc' = Decoded(u) /\ step' = "skeleton" /\ newResources' = <<>>
    BY <1>3 DEF StartConversion, Convert
  <2>3. bc'.ns = u.ns /\ bc'.name = u.name
    <3>1. IsBuildConfig(Decoded(u))
      BY <2>1, MigrationAssumption, ConverterAssumption DEF CraneInv
    <3>2. DOMAIN Decoded(u) = BuildConfigFields
      BY <3>1 DEF IsBuildConfig
    <3>3. QED
      BY <2>2, <3>2 DEF Decoded, BuildConfigFields
  <2>4. OnlyExtras(newResources')
    BY <2>2, NoExtras
  <2>5. Converting(u)'
    BY <2>1, <2>2, <2>3, <2>4 DEF Converting
  <2>6. Answered' = Answered
    BY <2>1 DEF CraneInv
  <2>7. ASSUME NEW v \in (Answered \ whiteouts)'
        PROVE  (Handled(v) /\ ~v.decodable) \/ Kept(v)'
    BY <2>1, <2>6, <2>7 DEF CraneInv, Kept
  <2>8. IsSeq(output')
    BY <2>1 DEF CraneInv
  <2>9. QED
    BY <2>1, <2>5, <2>6, <2>7, <2>8 DEF CraneInv, OnlyUndecodableAborts
<1>4. ASSUME GoOn PROVE CraneInv'
  <2>1. Proceed /\ UNCHANGED craneVars /\ handling # {}
    BY <1>4 DEF GoOn
  <2>2. PICK u \in export \ pending : handling = {u} /\ Converting(u) /\ ~aborted
    BY <2>1 DEF CraneInv
  <2>3. /\ UNCHANGED bc
        /\ Identified(b', bc)
        /\ OnlyExtras(newResources')
        /\ Delivers
    BY <2>1, <2>2, ProceedDelivers DEF Converting
  <2>4. Converting(u)'
    BY <2>2, <2>3 DEF Converting, Delivers
  <2>5. IsSeq(output')
    BY <2>1 DEF CraneInv, craneVars
  <2>6. \A v : Kept(v)' = Kept(v)
    BY <2>1 DEF Kept, craneVars
  <2>7. QED
    BY <2>1, <2>2, <2>4, <2>5, <2>6 DEF CraneInv, OnlyUndecodableAborts, craneVars
<1>5. ASSUME Respond PROVE CraneInv'
  <2>1. PICK u \in handling : TRUE
    BY <1>5 DEF Respond
  <2>2. /\ IsSeq(output')
        /\ handling = {u} /\ handling' = {}
        /\ aborted' = FALSE /\ aborted = FALSE
    BY <1>5, Responding
  <2>3. \/ /\ \E r : Range(output') = Range(output) \union {r} /\ Key(r) = Key(u)
           /\ whiteouts' = whiteouts
        \/ /\ Range(output) \subseteq Range(output')
           /\ whiteouts' = whiteouts \union {u}
    BY <1>5, Responding
  <2>4. export' = export /\ pending' = pending /\ u \in export \ pending
    BY <1>5, <2>2 DEF Respond, CraneInv
  <2>5. Answered' = Answered \union {u}
    BY <2>2, <2>4
  <2>6. ASSUME NEW v \in (Answered \ whiteouts)'
        PROVE  (Handled(v) /\ ~v.decodable) \/ Kept(v)'
    BY <2>3, <2>5, <2>6 DEF CraneInv, Kept
  <2>7. whiteouts' \subseteq Answered'
    BY <2>3, <2>5 DEF CraneInv
  <2>8. QED
    BY <2>2, <2>4, <2>5, <2>6, <2>7 DEF CraneInv, OnlyUndecodableAborts
<1>6. CASE UNCHANGED migrationVars
  <2>1. IsSeq(output')
    BY <1>6 DEF CraneInv, migrationVars, craneVars
  <2>2. \A v : Kept(v)' = Kept(v) /\ Converting(v)' = Converting(v)
    BY <1>6 DEF Kept, Converting, migrationVars, craneVars, vars
  <2>3. QED
    BY <1>6, <2>1, <2>2 DEF CraneInv, OnlyUndecodableAborts, migrationVars, craneVars
<1>7. QED
  BY <1>1, <1>2, <1>3, <1>4, <1>5, <1>6 DEF MigrationNext

\* The invariant holds throughout a migration.
LEMMA CraneInvAlways == MigrationSpec => []CraneInv
<1>1. QED
  BY CraneInvInit, CraneInvNext, PTL DEF MigrationSpec

\* The migration stops only on a BuildConfig that does not decode: no failed or
\* skipped conversion stops it, and no patch of the plugin's is one that crane
\* cannot apply (plugin.go:70-145, disposition.go:31-74).
THEOREM OnlyUndecodableStops == MigrationSpec => []OnlyUndecodableAborts
<1>1. CraneInv => OnlyUndecodableAborts
  BY DEF CraneInv
<1>2. QED
  BY <1>1, CraneInvAlways, PTL

-----------------------------------------------------------------------------
(* The refinement: a migration does what Fates allows *)

\* The fates as the invariant leaves them: none is lost.
Settled(u) ==
  IF u \in pending \union handling THEN "waiting"
  ELSE IF u \in whiteouts THEN "replaced"
  ELSE IF Handled(u) /\ ~u.decodable THEN "refused"
  ELSE "kept"

Built == {u \in export : \E r \in Range(output) : Replaces(r, u)}

\* What has become of a resource, by where it is.
LEMMA FatesNow == CraneInv => \A u \in export : FateOf(u) = Settled(u)
<1> SUFFICES ASSUME CraneInv, NEW u \in export PROVE FateOf(u) = Settled(u)
  OBVIOUS
<1>1. u \in Answered \ whiteouts =>
        (Handled(u) /\ ~u.decodable) \/ \E k \in DOMAIN output : Key(output[k]) = Key(u)
  BY DEF CraneInv, Kept, Range
<1>2. u \in whiteouts => u \notin pending \union handling
  BY DEF CraneInv, Answered
<1>3. CASE u \in pending \union handling
  BY <1>3, <1>2 DEF FateOf, Settled, Answered
<1>4. CASE u \in whiteouts
  BY <1>4, <1>2 DEF FateOf, Settled, Answered
<1>5. CASE u \in Answered \ whiteouts
  BY <1>5, <1>1 DEF FateOf, Settled, Answered
<1>6. QED
  BY <1>3, <1>4, <1>5 DEF Answered

\* The same, after a step.
LEMMA FatesNext == CraneInv' => \A u \in export' : FateOf(u)' = Settled(u)'
<1> SUFFICES ASSUME CraneInv', NEW u \in export' PROVE FateOf(u)' = Settled(u)'
  OBVIOUS
<1>1. u \in (Answered \ whiteouts)' =>
        (Handled(u) /\ ~u.decodable) \/ \E k \in DOMAIN output' : Key(output'[k]) = Key(u)
  BY DEF CraneInv, Kept, Range
<1>2. u \in whiteouts' => u \notin pending' \union handling'
  BY DEF CraneInv, Answered
<1>3. CASE u \in pending' \union handling'
  BY <1>3, <1>2 DEF FateOf, Settled, Answered
<1>4. CASE u \in whiteouts'
  BY <1>4, <1>2 DEF FateOf, Settled, Answered
<1>5. CASE u \in (Answered \ whiteouts)'
  BY <1>5, <1>1 DEF FateOf, Settled, Answered
<1>6. QED
  BY <1>3, <1>4, <1>5 DEF Answered

\* Two readings of what is built.
LEMMA BuiltIs ==
  /\ {u \in export : \E k \in DOMAIN output : Replaces(output[k], u)} = Built
  /\ {u \in export : \E k \in DOMAIN output : Replaces(output[k], u)}' = Built'
  BY DEF Built, Range

\* What Fates calls the fates, the Builds and the stop, before and after a step.
LEMMA PromiseInit == MigrationInit => Promise!Init
<1> SUFFICES ASSUME MigrationInit PROVE Promise!Init
  OBVIOUS
<1>1. \A u \in export : FateOf(u) = "waiting"
  BY DEF MigrationInit, FateOf, Answered
<1>2. [u \in export |-> FateOf(u)] = [u \in export |-> "waiting"]
  BY <1>1
<1>3. {u \in export : \E k \in DOMAIN output : Replaces(output[k], u)} = {}
  BY DEF MigrationInit
<1>4. QED
  BY <1>2, <1>3 DEF Promise!Init, MigrationInit

\* How a step of the migration ends the wait of u.
KeepsOne(u) ==
  /\ Settled(u)' = "kept" /\ ~(Handled(u) /\ ~u.decodable)
  /\ Built' = Built /\ aborted' = aborted

ReplacesOne(u) ==
  /\ Settled(u)' = "replaced" /\ Handled(u) /\ u.decodable
  /\ Built' = Built \union {u} /\ aborted' = aborted

RefusesOne(u) ==
  /\ Settled(u)' = "refused" /\ Handled(u) /\ ~u.decodable
  /\ Built' = Built /\ aborted' = TRUE

DecidesOne ==
  \E u \in export :
    /\ Settled(u) = "waiting" /\ aborted = FALSE
    /\ \A v \in export \ {u} : Settled(v)' = Settled(v)
    /\ KeepsOne(u) \/ ReplacesOne(u) \/ RefusesOne(u)

DecidesNone ==
  /\ \A v \in export : Settled(v)' = Settled(v)
  /\ Built' = Built /\ aborted' = aborted

\* A step decides one resource that waited, or none.
LEMMA StepDecides ==
  ASSUME CraneInv, [MigrationNext]_migrationVars
  PROVE  export' = export /\ (DecidesOne \/ DecidesNone)
<1>1. ASSUME NEW u \in pending, PassOther(u) PROVE export' = export /\ DecidesOne
  <2>1. /\ Range(output') = Range(output) \union {u}
        /\ whiteouts' = whiteouts
        /\ aborted' = FALSE /\ aborted = FALSE
        /\ handling = {} /\ handling' = {}
    BY <1>1, PassingOther
  <2>2. export' = export /\ pending' = pending \ {u} /\ u \in export /\ ~Handled(u)
    BY <1>1 DEF PassOther, Take, CraneInv
  <2>3. u \notin whiteouts
    BY DEF CraneInv, Answered
  <2>4. Settled(u) = "waiting" /\ Settled(u)' = "kept"
    BY <2>1, <2>2, <2>3 DEF Settled
  <2>5. \A v \in export \ {u} : Settled(v)' = Settled(v)
    BY <2>1, <2>2 DEF Settled
  <2>6. \A v \in export : ~Replaces(u, v)
    BY <2>2, ExportsAssumption DEF CraneInv
  <2>7. Built' = Built
    BY <2>1, <2>2, <2>6 DEF Built
  <2>8. QED
    BY <2>1, <2>2, <2>4, <2>5, <2>7 DEF DecidesOne, KeepsOne
<1>2. ASSUME NEW u \in pending, FailToDecode(u) PROVE export' = export /\ DecidesOne
  <2>1. /\ export' = export /\ pending' = pending \ {u} /\ u \in export
        /\ aborted' = TRUE /\ aborted = FALSE /\ handling = {} /\ handling' = {}
        /\ whiteouts' = whiteouts /\ output' = output
        /\ Handled(u) /\ ~u.decodable
    BY <1>2 DEF FailToDecode, Take, Ready, CraneInv
  <2>2. u \notin whiteouts
    BY DEF CraneInv, Answered
  <2>3. Settled(u) = "waiting" /\ Settled(u)' = "refused"
    BY <2>1, <2>2 DEF Settled
  <2>4. \A v \in export \ {u} : Settled(v)' = Settled(v)
    BY <2>1 DEF Settled
  <2>5. Built' = Built
    BY <2>1 DEF Built
  <2>6. QED
    BY <2>1, <2>3, <2>4, <2>5 DEF DecidesOne, RefusesOne
<1>3. ASSUME NEW u \in pending, StartConversion(u) PROVE export' = export /\ DecidesNone
  <2>1. /\ export' = export /\ pending' = pending \ {u}
        /\ handling = {} /\ handling' = {u}
        /\ whiteouts' = whiteouts /\ output' = output /\ aborted' = aborted
    BY <1>3 DEF StartConversion, Take, Ready
  <2>2. QED
    BY <2>1 DEF DecidesNone, Settled, Built
<1>4. ASSUME GoOn \/ UNCHANGED migrationVars PROVE export' = export /\ DecidesNone
  BY <1>4 DEF GoOn, migrationVars, craneVars, DecidesNone, Settled, Built
<1>5. ASSUME Respond PROVE export' = export /\ DecidesOne
  <2>1. PICK u \in handling : TRUE
    BY <1>5 DEF Respond
  <2>2. /\ handling = {u} /\ handling' = {}
        /\ aborted' = FALSE /\ aborted = FALSE
    BY <1>5, Responding
  <2>3. /\ export' = export /\ pending' = pending /\ u \in export \ pending
        /\ u \notin whiteouts
        /\ Handled(u) /\ u.decodable /\ bc.ns = u.ns /\ bc.name = u.name
    BY <1>5, <2>2 DEF Respond, CraneInv, Answered, Converting
  <2>4. Settled(u) = "waiting"
    BY <2>2 DEF Settled
  <2>5. CASE /\ \E r : /\ Range(output') = Range(output) \union {r} /\ Key(r) = Key(u)
                       /\ r.kind # "Build"
             /\ whiteouts' = whiteouts
    <3>1. Settled(u)' = "kept"
      BY <2>2, <2>3, <2>5 DEF Settled
    <3>2. \A v \in export \ {u} : Settled(v)' = Settled(v)
      BY <2>2, <2>3, <2>5 DEF Settled
    <3>3. Built' = Built
      BY <2>3, <2>5 DEF Built, Replaces
    <3>4. QED
      BY <2>2, <2>3, <2>4, <3>1, <3>2, <3>3 DEF DecidesOne, KeepsOne
  <2>6. CASE /\ \E extras : /\ Range(output') = Range(output) \union {b} \union extras
                            /\ \A r \in extras : r.kind # "Build"
             /\ whiteouts' = whiteouts \union {u}
             /\ Identified(b, bc)
    <3>1. Settled(u)' = "replaced"
      BY <2>2, <2>3, <2>6 DEF Settled
    <3>2. \A v \in export \ {u} : Settled(v)' = Settled(v)
      BY <2>2, <2>3, <2>6 DEF Settled
    <3>3. Replaces(b, u)
      BY <2>3, <2>6 DEF Replaces, Identified
    <3>4. \A v \in export : Replaces(b, v) => v = u
      <4>1. \A v \in export : Replaces(b, v) => Handled(v) /\ v.ns = u.ns /\ v.name = u.name
        BY <2>3, <2>6 DEF Replaces, Identified
      <4>2. \A v, w \in {x \in export : Handled(x)} : v.ns = w.ns /\ v.name = w.name => v = w
        BY ExportsAssumption DEF CraneInv
      <4>3. QED
        BY <2>3, <4>1, <4>2
    <3>5. PICK extras : /\ Range(output') = Range(output) \union {b} \union extras
                        /\ \A r \in extras : r.kind # "Build"
      BY <2>6
    <3>6. \A r \in extras : \A v \in export : ~Replaces(r, v)
      BY <3>5 DEF Replaces
    <3>7. Built' = Built \union {u}
      BY <2>3, <3>3, <3>4, <3>5, <3>6 DEF Built
    <3>8. QED
      BY <2>2, <2>3, <2>4, <3>1, <3>2, <3>7 DEF DecidesOne, ReplacesOne
  <2>7. QED
    BY <1>5, <2>5, <2>6, Responding
<1>6. QED
  BY <1>1, <1>2, <1>3, <1>4, <1>5 DEF MigrationNext

\* A step decides as Fates does, or is a step Fates does not see.
LEMMA PromiseNext ==
  ASSUME CraneInv, CraneInv', [MigrationNext]_migrationVars
  PROVE  [Promise!Next]_(Promise!fates)
<1> DEFINE fate == [u \in export |-> FateOf(u)]
           built == {u \in export : \E k \in DOMAIN output : Replaces(output[k], u)}
<1>1. export' = export /\ export \in Exports
  BY StepDecides DEF CraneInv
<1>2. fate = [u \in export |-> Settled(u)] /\ fate' = [u \in export |-> Settled(u)']
  BY <1>1, FatesNow, FatesNext
<1>3. built = Built /\ built' = Built'
  BY BuiltIs
<1>4. DOMAIN fate = export
  OBVIOUS
<1>5. CASE DecidesNone
  <2>1. fate' = fate /\ built' = built /\ aborted' = aborted
    BY <1>2, <1>3, <1>5 DEF DecidesNone
  <2>2. QED
    BY <2>1 DEF Promise!fates
<1>6. CASE DecidesOne
  <2>1. PICK u \in export :
          /\ Settled(u) = "waiting" /\ aborted = FALSE
          /\ \A v \in export \ {u} : Settled(v)' = Settled(v)
          /\ KeepsOne(u) \/ ReplacesOne(u) \/ RefusesOne(u)
    BY <1>6 DEF DecidesOne
  <2>2. \A end : Settled(u)' = end => fate' = [fate EXCEPT ![u] = end]
    BY <1>2, <2>1
  <2>3. fate[u] = "waiting" /\ u \in DOMAIN fate /\ ~aborted
    BY <1>2, <2>1
  <2>4. u \in UNION Exports
    BY <1>1
  <2>5. CASE KeepsOne(u)
    <3>1. fate' = [fate EXCEPT ![u] = "kept"] /\ built' = built /\ aborted' = aborted
      BY <1>3, <2>2, <2>5 DEF KeepsOne
    <3>2. Promise!Keep(u)
      BY <2>3, <2>5, <3>1 DEF KeepsOne, Promise!Keep, Promise!Waiting, Promise!Meet
    <3>3. QED
      BY <2>3, <3>2 DEF Promise!Next
  <2>6. CASE ReplacesOne(u)
    <3>1. /\ fate' = [fate EXCEPT ![u] = "replaced"] /\ built' = built \union {u}
          /\ aborted' = aborted
      BY <1>3, <2>2, <2>6 DEF ReplacesOne
    <3>2. Promise!Replace(u)
      BY <2>3, <2>4, <2>6, <3>1 DEF ReplacesOne, Promise!Replace, Promise!Waiting, Promise!Meet
    <3>3. QED
      BY <2>3, <3>2 DEF Promise!Next
  <2>7. CASE RefusesOne(u)
    <3>1. fate' = [fate EXCEPT ![u] = "refused"] /\ built' = built /\ aborted' = TRUE
      BY <1>3, <2>2, <2>7 DEF RefusesOne
    <3>2. Promise!Stop(u)
      BY <2>3, <2>4, <2>7, <3>1 DEF RefusesOne, Promise!Stop, Promise!Waiting, Promise!Meet
    <3>3. QED
      BY <2>3, <3>2 DEF Promise!Next
  <2>8. QED
    BY <2>1, <2>5, <2>6, <2>7
<1>7. QED
  BY <1>5, <1>6, StepDecides

\* A migration implements Fates: each exported resource waits, and then it is
\* kept, or its Build takes its place in the same step, or it stops the
\* migration, for good (plugin.go:102-145, converter.go Convert).
THEOREM MigrationKeepsItsPromise == MigrationSpec => KeepsItsPromise
<1>1. CraneInv /\ CraneInv' /\ [MigrationNext]_migrationVars => [Promise!Next]_(Promise!fates)
  BY PromiseNext
<1>2. QED
  BY <1>1, PromiseInit, CraneInvAlways, PTL DEF MigrationSpec, KeepsItsPromise, Promise!Spec

-----------------------------------------------------------------------------
(* The conversions of a migration *)

\* What holds of a conversion wherever its Converter runs.
SideInv == ConverterInv /\ ConversionInv /\ KeysInv /\ PartsInv

\* A fresh Converter satisfies it.
LEMMA SideStarts == Init => SideInv
BY Initially, InitiallyNothing, KeysStart, PartsStart DEF SideInv

\* Every step of a conversion keeps it.
LEMMA SideSteps == SideInv /\ [Next]_vars => SideInv'
BY Inductive, ConversionInductive, KeysNext, PartsNext DEF SideInv

\* It is the same for the Converter that the next process starts with.
LEMMA SideStartsAgain == Init' => SideInv'
BY SideStarts, PTL

\* To a Converter, a step of the migration is one of its own, or a new start.
LEMMA ConverterMoves ==
  ASSUME SideInv, CraneInv, [MigrationNext]_migrationVars
  PROVE  [Next]_vars \/ Init'
<1>1. ASSUME NEW u \in pending, PassOther(u) PROVE UNCHANGED vars
  BY <1>1 DEF PassOther, vars
<1>2. ASSUME NEW u \in pending, FailToDecode(u) PROVE UNCHANGED vars
  BY <1>2 DEF FailToDecode, vars
<1>3. ASSUME NEW u \in pending, StartConversion(u) PROVE Next
  <2>1. Handled(u) /\ u.decodable /\ Convert(Decoded(u)) /\ u \in export
    BY <1>3 DEF StartConversion, CraneInv
  <2>2. Decoded(u) \in SourceConfigs
    BY <2>1, MigrationAssumption DEF CraneInv
  <2>3. QED
    BY <2>1, <2>2 DEF Next
<1>4. ASSUME GoOn PROVE Next
  BY <1>4 DEF GoOn, Next
<1>5. ASSUME Respond PROVE Init'
  <2>1. FreshConverter /\ opts \in FlagSets
    BY <1>5 DEF Respond, SideInv, ConverterInv, TypeOK
  <2>2. QED
    BY <2>1 DEF FreshConverter, Init
<1>6. CASE UNCHANGED migrationVars
  BY <1>6 DEF migrationVars
<1>7. QED
  BY <1>1, <1>2, <1>3, <1>4, <1>5, <1>6 DEF MigrationNext

\* Every step of a migration keeps it.
LEMMA SideNext == SideInv /\ CraneInv /\ [MigrationNext]_migrationVars => SideInv'
BY ConverterMoves, SideSteps, SideStartsAgain

\* An outcome that keeps the BuildConfig says why.
Concludes ==
  \/ outcome.state \in ConvertedStates
  \/ outcome.state \in {"skipped", "failed"} /\ outcome.reason # ""

\* A conversion returns with an outcome, and with a reason unless it converts.
LEMMA ProceedConcludes ==
  ASSUME Proceed, step' = "idle"
  PROVE  Concludes'
<1>1. CASE Classify
  <2>1. outcome'.state \in ConvertedStates
    BY <1>1 DEF Classify, ConvertedStates
  <2>2. QED
    BY <2>1 DEF Concludes
<1>2. CASE GivesUp
  <2>1. \A reason : Return(OutcomeSkipped(reason)) \/ Return(OutcomeFailed(reason)) =>
          outcome'.state \in {"skipped", "failed"} /\ outcome'.reason = reason
    BY DEF Return, OutcomeSkipped, OutcomeFailed
  <2>2. \/ SkipUnsupportedStrategy \/ FailUnknownStrategy \/ FailStrategyImage
        \/ SkipWithoutOutput \/ FailSource
    BY <1>2, Givers
  <2> DEFINE reasons == {"unsupported strategy", "unknown strategy", "strategy image",
                         "no output image", "source"}
  <2>3. \E reason \in reasons : Return(OutcomeSkipped(reason)) \/ Return(OutcomeFailed(reason))
    BY <2>2 DEF SkipUnsupportedStrategy, FailUnknownStrategy, FailStrategyImage,
                SkipWithoutOutput, FailSource, Skip
  <2>4. \A reason \in reasons : reason # ""
    OBVIOUS
  <2> HIDE DEF reasons
  <2>5. QED
    BY <2>1, <2>3, <2>4 DEF Concludes
<1>3. CASE Iterates \/ HandsOver
  <2>1. step' # "idle"
    BY <1>3 DEF Iterates, HandsOver, Loops, Calls
  <2>2. QED
    BY <2>1
<1>4. QED
  BY <1>1, <1>2, <1>3, StepAdvances

\* The conversion that runs is that of the BuildConfig crane handed over.
HandlingInv == \A u \in handling : bc = Decoded(u) /\ (step = "idle" => Concludes)

\* Every step of a migration keeps it that of the one BuildConfig.
LEMMA HandlingNext ==
  ASSUME SideInv, CraneInv, HandlingInv, [MigrationNext]_migrationVars
  PROVE  HandlingInv'
<1>1. ASSUME NEW u \in pending, PassOther(u) \/ FailToDecode(u) PROVE HandlingInv'
  BY <1>1 DEF PassOther, FailToDecode, Ready, HandlingInv
<1>2. ASSUME NEW u \in pending, StartConversion(u) PROVE HandlingInv'
  <2>1. handling' = {u} /\ bc' = Decoded(u) /\ step' = "skeleton"
    BY <1>2 DEF StartConversion, Convert
  <2>2. QED
    BY <2>1 DEF HandlingInv
<1>3. ASSUME GoOn PROVE HandlingInv'
  <2>1. Proceed /\ handling' = handling /\ bc' = bc
    BY <1>3, ProceedFacts DEF GoOn, craneVars, fixed, SideInv
  <2>2. step' = "idle" => Concludes'
    BY <2>1, ProceedConcludes
  <2>3. QED
    BY <2>1, <2>2 DEF HandlingInv
<1>4. ASSUME Respond PROVE HandlingInv'
  BY <1>4 DEF Respond, HandlingInv
<1>5. CASE UNCHANGED migrationVars
  BY <1>5 DEF migrationVars, craneVars, vars, HandlingInv, Concludes
<1>6. QED
  BY <1>1, <1>2, <1>3, <1>4, <1>5 DEF MigrationNext

\* Every variable of crane and the plugin keeps its type throughout a migration
\* (plugin.go:70-145, converter.go Convert).
THEOREM MigrationTypeCorrectness == MigrationSpec => []MigrationTypeOK
<1>1. CraneInv /\ SideInv => MigrationTypeOK
  <2> SUFFICES ASSUME CraneInv, SideInv PROVE MigrationTypeOK
    OBVIOUS
  <2>1. output \in Seq({output[k] : k \in DOMAIN output})
    BY DEF CraneInv, IsSeq, Range
  <2>2. outcome.state \in ConvertedStates \union {"skipped", "failed", "none"}
    BY DEF SideInv, ConverterInv, TypeOK, States, ConvertedStates
  <2>3. QED
    BY <2>1, <2>2 DEF CraneInv, MigrationTypeOK, Answered
<1>2. MigrationInit => SideInv
  BY SideStarts DEF MigrationInit
<1>3. QED
  BY <1>1, <1>2, SideNext, CraneInvAlways, PTL DEF MigrationSpec

-----------------------------------------------------------------------------
(* What is written, and for which resource *)

\* r is one of the resources that a conversion of u emits.
PartOf(r, u) ==
  /\ r.ns = u.ns
  /\ \/ /\ r.kind = "Build" /\ r.name = UniqueName(u.name)
        /\ Replaces(r, u)
        /\ GivesDockerfile(u) => r.annotations[DockerfileAnnotation].text = MapName(u)
     \/ /\ r.kind = "ServiceAccount" /\ r.name = UniqueName(u.name)
        /\ NeedsAccount(u) /\ r.secret \in PullSecretsOf(u)
     \/ /\ r.kind = "ConfigMap" /\ r.name = MapName(u)
        /\ GivesDockerfile(u) /\ r.content = u.spec.source.dockerfile

\* Everything a conversion of u owes is among the resources.
AllParts(u, resources) ==
  \A key \in GeneratedKeys(u) : \E r \in resources : PartOf(r, u) /\ Key(r) = key

\* A part has one of the keys that are generated for its BuildConfig.
LEMMA PartKeys ==
  ASSUME NEW r, NEW u, PartOf(r, u)
  PROVE  /\ Key(r) \in GeneratedKeys(u) /\ r.kind # "BuildConfig"
         /\ Key(r) = <<r.kind, "", r.ns, r.name>>
BY DEF PartOf, Key, GeneratedKeys

\* What a conversion of u delivers is what u needs, and nothing else.
LEMMA DeliversParts ==
  ASSUME SideInv, step = "idle", outcome.state \in ConvertedStates,
         NEW u, Handled(u), bc = Decoded(u), IsBuildConfig(Decoded(u)), Identified(b, bc)
  PROVE  /\ \A r \in {b} \union Range(newResources) : PartOf(r, u)
         /\ AllParts(u, {b} \union Range(newResources))
<1>1. /\ bc.ns = u.ns /\ bc.name = u.name /\ bc.blocks = u.spec.blocks
      /\ bc.source = u.spec.source /\ bc.type = u.spec.type
      /\ bc.serviceAccount = u.spec.serviceAccount
      /\ DOMAIN bc.blocks \subseteq {"Docker", "Source"}
  <2>1. DOMAIN u.spec = BuildConfigFields
    BY DEF IsBuildConfig, Decoded
  <2>2. QED
    BY <2>1 DEF Decoded, BuildConfigFields, IsBuildConfig, IsMap
<1>2. Past("skeleton") /\ Past("gate") /\ Past("dockerfile")
  BY DEF Past, Converted, Concluded, ConvertedStates
<1>3. /\ b.kind = "Build" /\ b.ns = bc.ns /\ b.name = UniqueName(bc.name)
      /\ AccountsSettled /\ DockerfileKept
      /\ \A r \in Range(newResources) : r.ns = bc.ns /\ (IsAccount(r) \/ IsMapResource(r))
  BY <1>2 DEF SideInv, PartsInv, Range
<1>4. PullSecret # Nil <=> PullSecretsOf(u) # {}
  BY <1>1 DEF PullSecret, PullSecretsOf
<1>5. PullSecret # Nil => PullSecret \in PullSecretsOf(u)
  BY <1>1 DEF PullSecret, PullSecretsOf
<1>6. /\ GeneratesServiceAccount <=> NeedsAccount(u)
      /\ PreservesDockerfile <=> GivesDockerfile(u)
      /\ UniqueName(DockerfileOriginalName) = MapName(u)
  BY <1>1, <1>4 DEF GeneratesServiceAccount, NamesServiceAccount, NeedsAccount,
                    PreservesDockerfile, HasInlineDockerfile, GivesDockerfile,
                    DockerfileOriginalName, MapName
<1>7. ASSUME NEW r \in Range(newResources), IsAccount(r) PROVE PartOf(r, u)
  <2>1. GeneratesServiceAccount /\ r.name = generatedSA /\ r.secret = PullSecret
        /\ generatedSA = UniqueName(bc.name)
    BY <1>3, <1>7 DEF AccountsSettled, Range
  <2>2. r.secret \in PullSecretsOf(u) /\ NeedsAccount(u)
    BY <1>5, <1>6, <2>1 DEF GeneratesServiceAccount
  <2>3. QED
    BY <1>1, <1>3, <1>7, <2>1, <2>2 DEF PartOf, IsAccount
<1>8. ASSUME NEW r \in Range(newResources), IsMapResource(r) PROVE PartOf(r, u)
  <2>1. PreservesDockerfile /\ r.name = UniqueName(DockerfileOriginalName)
        /\ r.content = bc.source.dockerfile
    BY <1>3, <1>8 DEF DockerfileKept, Range
  <2>2. QED
    BY <1>1, <1>3, <1>6, <1>8, <2>1 DEF PartOf, IsMapResource
<1>9. PartOf(b, u)
  <2>1. Replaces(b, u)
    BY <1>1 DEF Replaces, Identified
  <2>2. ASSUME GivesDockerfile(u)
        PROVE  b.annotations[DockerfileAnnotation].text = MapName(u)
    <3>1. PICK k \in DOMAIN newResources : IsMapResource(newResources[k])
      BY <1>3, <1>6, <2>2 DEF DockerfileKept
    <3>2. QED
      BY <1>3, <1>6, <3>1 DEF DockerfileKept
  <2>3. QED
    BY <1>1, <1>3, <2>1, <2>2 DEF PartOf
<1>10. \A r \in {b} \union Range(newResources) : PartOf(r, u)
  BY <1>3, <1>7, <1>8, <1>9
<1>11. ASSUME NEW key \in GeneratedKeys(u)
       PROVE  \E r \in {b} \union Range(newResources) : PartOf(r, u) /\ Key(r) = key
  <2>1. CASE key = <<"Build", "", u.ns, UniqueName(u.name)>>
    BY <1>1, <1>3, <1>9, <2>1, PartKeys, ZenonT(40)
  <2>2. CASE key = <<"ServiceAccount", "", u.ns, UniqueName(u.name)>> /\ NeedsAccount(u)
    <3>1. PICK r \in Range(newResources) : IsAccount(r) /\ r.name = UniqueName(bc.name)
      BY <1>3, <1>6, <2>2 DEF AccountsSettled, Range
    <3>2. PartOf(r, u) /\ r.kind = "ServiceAccount" /\ r.ns = u.ns
      BY <1>1, <1>3, <1>7, <3>1 DEF IsAccount
    <3>3. QED
      BY <1>1, <2>2, <3>1, <3>2, PartKeys, ZenonT(40)
  <2>3. CASE key = <<"ConfigMap", "", u.ns, MapName(u)>> /\ GivesDockerfile(u)
    <3>1. PICK r \in Range(newResources) : IsMapResource(r) /\ r.name = MapName(u)
      BY <1>3, <1>6, <2>3 DEF DockerfileKept, Range
    <3>2. PartOf(r, u) /\ r.kind = "ConfigMap" /\ r.ns = u.ns
      BY <1>1, <1>3, <1>8, <3>1 DEF IsMapResource
    <3>3. QED
      BY <2>3, <3>1, <3>2, PartKeys
  <2>4. QED
    BY <2>1, <2>2, <2>3 DEF GeneratedKeys
<1>12. QED
  BY <1>10, <1>11 DEF AllParts

\* What crane has written, for which resources, and what it has written of each.
WrittenInv ==
  /\ \A r \in Range(output) :
       \/ \E u \in Answered \ whiteouts : PassedAs(r, u)
       \/ \E u \in whiteouts : PartOf(r, u)
  /\ \A u \in Answered \ whiteouts :
       (Handled(u) /\ ~u.decodable /\ aborted) \/ \E r \in Range(output) : PassedAs(r, u)
  /\ \A u \in whiteouts : Handled(u) /\ u.decodable /\ AllParts(u, Range(output))

\* A step that adds the resources of one answer keeps the invariant.
LEMMA WrittenGrows ==
  ASSUME WrittenInv, Range(output) \subseteq Range(output'), aborted' = aborted,
         Answered \subseteq Answered',
         NEW u, Answered' \subseteq Answered \union {u}, whiteouts' \subseteq whiteouts \union {u},
         whiteouts \subseteq whiteouts', u \notin Answered, whiteouts \subseteq Answered,
         \/ /\ u \in (Answered \ whiteouts)'
            /\ \E r \in Range(output') : PassedAs(r, u)
            /\ \A r \in Range(output') \ Range(output) : PassedAs(r, u)
         \/ /\ u \in whiteouts' /\ Handled(u) /\ u.decodable
            /\ AllParts(u, Range(output'))
            /\ \A r \in Range(output') \ Range(output) : PartOf(r, u)
  PROVE  WrittenInv'
<1>1. Answered \ whiteouts \subseteq (Answered \ whiteouts)'
  OBVIOUS
<1>2. ASSUME NEW r \in Range(output')
      PROVE  \/ \E v \in (Answered \ whiteouts)' : PassedAs(r, v)
             \/ \E v \in whiteouts' : PartOf(r, v)
  <2>1. CASE r \in Range(output)
    BY <1>1, <2>1 DEF WrittenInv
  <2>2. CASE r \notin Range(output)
    BY <2>2
  <2>3. QED
    BY <2>1, <2>2
<1>3. ASSUME NEW v \in (Answered \ whiteouts)'
      PROVE  \/ Handled(v) /\ ~v.decodable /\ aborted'
             \/ \E r \in Range(output') : PassedAs(r, v)
  BY DEF WrittenInv
<1>4. ASSUME NEW v \in whiteouts'
      PROVE  Handled(v) /\ v.decodable /\ AllParts(v, Range(output'))
  <2>1. CASE v = u
    BY <2>1
  <2>2. CASE v # u
    <3>1. v \in whiteouts
      BY <2>2
    <3>2. QED
      BY <3>1 DEF WrittenInv, AllParts
  <2>3. QED
    BY <2>1, <2>2
<1>5. QED
  BY <1>2, <1>3, <1>4 DEF WrittenInv

\* Every step of a migration keeps it: each resource is answered once, by what
\* it is passed through as or by its parts.
LEMMA WrittenNext ==
  ASSUME SideInv, CraneInv, HandlingInv, WrittenInv, [MigrationNext]_migrationVars
  PROVE  WrittenInv'
<1>0. whiteouts \subseteq Answered
  BY DEF CraneInv
<1>1. ASSUME NEW u \in pending, PassOther(u) PROVE WrittenInv'
  <2>1. /\ Range(output') = Range(output) \union {u}
        /\ whiteouts' = whiteouts
        /\ aborted' = FALSE /\ aborted = FALSE
        /\ handling = {} /\ handling' = {}
    BY <1>1, PassingOther
  <2>2. export' = export /\ pending' = pending \ {u} /\ u \in export /\ ~Handled(u)
    BY <1>1 DEF PassOther, Take, CraneInv
  <2>3. u \notin Answered /\ Answered' = Answered \union {u}
    BY <2>1, <2>2 DEF Answered
  <2>4. PassedAs(u, u)
    BY <2>2 DEF PassedAs
  <2>5. QED
    BY <1>0, <2>1, <2>3, <2>4, WrittenGrows
<1>2. ASSUME NEW u \in pending, FailToDecode(u) PROVE WrittenInv'
  <2>1. /\ export' = export /\ pending' = pending \ {u} /\ u \in export
        /\ aborted' = TRUE /\ handling = {} /\ handling' = {}
        /\ whiteouts' = whiteouts /\ output' = output
        /\ Handled(u) /\ ~u.decodable
    BY <1>2 DEF FailToDecode, Take, Ready, CraneInv
  <2>2. Answered' = Answered \union {u} /\ u \notin Answered
    BY <2>1 DEF Answered
  <2>3. QED
    BY <2>1, <2>2, <1>0 DEF WrittenInv
<1>3. ASSUME NEW u \in pending, StartConversion(u) PROVE WrittenInv'
  <2>1. /\ export' = export /\ pending' = pending \ {u}
        /\ handling = {} /\ handling' = {u}
        /\ whiteouts' = whiteouts /\ output' = output /\ aborted' = aborted
        /\ u \in export
    BY <1>3 DEF StartConversion, Take, Ready, CraneInv
  <2>2. Answered' = Answered
    BY <2>1 DEF Answered
  <2>3. QED
    BY <2>1, <2>2 DEF WrittenInv
<1>4. ASSUME GoOn \/ UNCHANGED migrationVars PROVE WrittenInv'
  <2>1. UNCHANGED craneVars
    BY <1>4 DEF GoOn, migrationVars
  <2>2. Answered' = Answered /\ whiteouts' = whiteouts /\ output' = output /\ aborted' = aborted
    BY <2>1 DEF craneVars, Answered
  <2>3. QED
    BY <2>2 DEF WrittenInv
<1>5. ASSUME Respond PROVE WrittenInv'
  <2>1. PICK u \in handling : TRUE
    BY <1>5 DEF Respond
  <2>2. /\ handling = {u} /\ handling' = {}
        /\ aborted' = FALSE /\ aborted = FALSE
    BY <1>5, Responding
  <2>3. /\ export' = export /\ pending' = pending /\ u \in export \ pending /\ step = "idle"
        /\ Handled(u) /\ u.decodable /\ bc = Decoded(u) /\ Concludes
    BY <1>5, <2>2 DEF Respond, CraneInv, Converting, HandlingInv
  <2>4. u \notin Answered /\ Answered' = Answered \union {u}
    BY <2>2, <2>3 DEF Answered
  <2>5. CASE outcome.state \notin ConvertedStates
    <3>1. PICK r \in {Patched(u, Response(u, outcome).patch)} :
            /\ Range(output') = Range(output) \union {r}
            /\ whiteouts' = whiteouts
      BY <1>5, <2>5, Responding
    <3>2. outcome.state \in {"skipped", "failed"} /\ outcome.reason # ""
      BY <2>3, <2>5 DEF Concludes
    <3>3. {"kind", "group", "ns", "name", "annotations"} \subseteq DOMAIN u
      BY <2>3, ExportsAssumption DEF CraneInv
    <3>4. PassedAs(r, u)
      <4>1. Handled(u)
        BY <2>3
      <4>2. PassedAs(Patched(u, Response(u, outcome).patch), u)
        BY <3>2, <3>3, <4>1, PassedSaysWhy
      <4>3. QED
        BY <4>2
    <3>5. QED
      BY <1>0, <2>2, <2>4, <3>1, <3>4, WrittenGrows
  <2>6. CASE outcome.state \in ConvertedStates
    <3>1. /\ Range(output') = Range(output) \union {b} \union Range(newResources)
          /\ whiteouts' = whiteouts \union {u}
          /\ Identified(b, bc)
      BY <1>5, <2>6, Responding
    <3>2. IsBuildConfig(Decoded(u))
      BY <2>3, MigrationAssumption, ConverterAssumption DEF CraneInv
    <3>3. /\ \A r \in {b} \union Range(newResources) : PartOf(r, u)
          /\ AllParts(u, {b} \union Range(newResources))
      BY <2>3, <2>6, <3>1, <3>2, DeliversParts
    <3>4. AllParts(u, Range(output'))
      BY <3>1, <3>3 DEF AllParts
    <3>5. QED
      BY <1>0, <2>2, <2>3, <2>4, <3>1, <3>3, <3>4, WrittenGrows
  <2>7. QED
    BY <2>5, <2>6
<1>6. QED
  BY <1>1, <1>2, <1>3, <1>4, <1>5 DEF MigrationNext

\* All of it holds throughout a migration.
LEMMA WrittenAlways ==
  MigrationSpec => [](CraneInv /\ WrittenInv)
<1>1. MigrationInit => SideInv /\ HandlingInv /\ WrittenInv
  <2> SUFFICES ASSUME MigrationInit PROVE SideInv /\ HandlingInv /\ WrittenInv
    OBVIOUS
  <2>1. Range(output) = {} /\ Answered = {} /\ whiteouts = {} /\ handling = {}
    BY DEF MigrationInit, Range, Answered
  <2>2. SideInv
    BY SideStarts DEF MigrationInit
  <2>3. QED
    BY <2>1, <2>2 DEF HandlingInv, WrittenInv
<1>2. SideInv /\ CraneInv /\ HandlingInv /\ [MigrationNext]_migrationVars => HandlingInv'
  BY HandlingNext
<1>3. SideInv /\ CraneInv /\ HandlingInv /\ WrittenInv /\ [MigrationNext]_migrationVars => WrittenInv'
  BY WrittenNext
<1>4. QED
  BY <1>1, <1>2, <1>3, SideNext, CraneInvAlways, PTL DEF MigrationSpec

\* What the plugin passes through is the exported resource: another one in every
\* part, a BuildConfig but for the outcome and the reason it is annotated with
\* (disposition.go:31-74).
THEOREM PassingThroughSaysWhy == MigrationSpec => []PassedThroughSaysWhy
<1>1. WrittenInv => PassedThroughSaysWhy
  BY DEF WrittenInv, PassedThroughSaysWhy, Range
<1>2. QED
  BY <1>1, WrittenAlways, PTL

-----------------------------------------------------------------------------
(* What is left of the output, once duplicates have replaced each other *)

\* What is delivered was written, and one resource is delivered for each key.
LEMMA DeliveredOnce ==
  ASSUME IsSeq(output)
  PROVE  /\ Delivered \subseteq Range(output)
         /\ \A r \in Range(output) : \E s \in Delivered : Key(s) = Key(r)
         /\ \A r, s \in Delivered : Key(r) = Key(s) => r = s
<1> DEFINE NoneBehind(k) == \A j \in (k + 1)..Len(output) : Key(output[j]) # Key(output[k])
<1>1. DOMAIN output = 1..Len(output) /\ Len(output) \in Nat
  BY DEF IsSeq
<1>2. Delivered = {output[k] : k \in {k \in DOMAIN output : NoneBehind(k)}}
  BY DEF Delivered
<1>3. Delivered \subseteq Range(output)
  BY <1>2 DEF Range
<1>4. ASSUME NEW r \in Range(output) PROVE \E s \in Delivered : Key(s) = Key(r)
  <2> DEFINE T == {k \in DOMAIN output : Key(output[k]) = Key(r)}
  <2>1. T \subseteq 1..Len(output) /\ T # {}
    BY <1>1, <1>4 DEF Range
  <2>2. Max(T) \in T /\ \A y \in T : Max(T) >= y
    BY <1>1, <2>1, LeastAndGreatest
  <2>3. PICK m \in T : \A y \in T : m >= y
    BY <2>2
  <2>4. m \in DOMAIN output /\ m \in Nat /\ Key(output[m]) = Key(r)
    BY <1>1, <2>3
  <2>5. ASSUME NEW j \in (m + 1)..Len(output) PROVE Key(output[j]) # Key(output[m])
    <3>1. j \in DOMAIN output /\ ~(m >= j)
      BY <1>1, <2>4
    <3>2. j \notin T
      BY <2>3, <3>1
    <3>3. QED
      BY <2>4, <3>1, <3>2
  <2>6. NoneBehind(m)
    BY <2>5
  <2>7. QED
    BY <1>2, <2>4, <2>6
<1>5. ASSUME NEW r \in Delivered, NEW s \in Delivered, Key(r) = Key(s) PROVE r = s
  <2>1. PICK k \in DOMAIN output : NoneBehind(k) /\ r = output[k]
    BY <1>2
  <2>2. PICK j \in DOMAIN output : NoneBehind(j) /\ s = output[j]
    BY <1>2
  <2>3. k \in 1..Len(output) /\ j \in 1..Len(output)
    BY <1>1
  <2>4. ~(k < j)
    BY <1>1, <1>5, <2>1, <2>2, <2>3
  <2>5. ~(j < k)
    BY <1>1, <1>5, <2>1, <2>2, <2>3
  <2>6. QED
    BY <2>1, <2>2, <2>3, <2>4, <2>5
<1>6. QED
  BY <1>3, <1>4, <1>5

\* Two originals of one namespace with one generated name are the same: if both
\* are rewritten, by their digests.
LEMMA SameOriginal ==
  ASSUME NEW resources \in Exports, NamesApart(resources),
         NEW u \in Convertibles(resources), NEW v \in Convertibles(resources),
         NEW o \in OriginalsOf(u), NEW p \in OriginalsOf(v),
         u.ns = v.ns, o \in Text, p \in Text, UniqueName(o) = UniqueName(p)
  PROVE  o = p
<1>1. CASE Rewritten(o) /\ Rewritten(p)
  <2> DEFINE label == SanitizeDNS1123Label(o)
  <2>1. label = SanitizeDNS1123Label(p)
    BY DEF UniqueName
  <2>2. label[Len(label)] = Digest(o)
    BY <1>1, RewrittenEnd
  <2>3. SanitizeDNS1123Label(p)[Len(SanitizeDNS1123Label(p))] = Digest(p)
    BY <1>1, RewrittenEnd
  <2>4. Digest(o) = Digest(p)
    BY <2>1, <2>2, <2>3
  <2>5. o \in GeneratingNames(resources) /\ p \in GeneratingNames(resources)
    BY DEF GeneratingNames
  <2>6. QED
    BY <2>4, <2>5, MigratedDigestsAssumption
<1>2. CASE Rewritten(o) /\ ~Rewritten(p)
  <2>1. UniqueName(o) # p
    BY <1>2 DEF NamesApart
  <2>2. UniqueName(p) = p
    BY <1>2 DEF Rewritten, UniqueName
  <2>3. QED
    BY <2>1, <2>2
<1>3. CASE ~Rewritten(o) /\ Rewritten(p)
  <2>1. UniqueName(p) # o
    BY <1>3 DEF NamesApart
  <2>2. UniqueName(o) = o
    BY <1>3 DEF Rewritten, UniqueName
  <2>3. QED
    BY <2>1, <2>2
<1>4. CASE ~Rewritten(o) /\ ~Rewritten(p)
  BY <1>4 DEF Rewritten, UniqueName
<1>5. QED
  BY <1>1, <1>2, <1>3, <1>4

\* The originals of an exported BuildConfig are names.
LEMMA OriginalsAreNames ==
  ASSUME NEW resources \in Exports, NEW u \in Convertibles(resources)
  PROVE  u.name \in Text /\ u.name \o DockerfileEnding \in Text
<1>1. IsBuildConfig(Decoded(u))
  BY MigrationAssumption, ConverterAssumption DEF Convertibles
<1>2. Decoded(u).name = u.name
  BY <1>1 DEF Decoded, IsBuildConfig, BuildConfigFields
<1>3. u.name \in Text
  BY <1>1, <1>2 DEF IsBuildConfig
<1>4. Dash \in Tokens /\ "dockerfile" \in Tokens
  BY TokensAssumption
<1>5. DockerfileEnding \in Text
  BY <1>4, PairIsSequence DEF DockerfileEnding, Text
<1>6. QED
  BY <1>3, <1>5, ConcatProperties, Zenon DEF Text

\* The keys of what is generated for u, one by one.
LEMMA KeyByKey ==
  ASSUME NEW u, NEW key \in GeneratedKeys(u)
  PROVE  /\ key[1] \in {"Build", "ServiceAccount", "ConfigMap"}
         /\ key[3] = u.ns
         /\ key[1] \in {"Build", "ServiceAccount"} => key[4] = UniqueName(u.name)
         /\ key[1] = "ConfigMap" => GivesDockerfile(u) /\ key[4] = MapName(u)
<1>1. \/ key = <<"Build", "", u.ns, UniqueName(u.name)>>
      \/ key = <<"ServiceAccount", "", u.ns, UniqueName(u.name)>>
      \/ key = <<"ConfigMap", "", u.ns, MapName(u)>> /\ GivesDockerfile(u)
  BY Zenon DEF GeneratedKeys
<1>2. CASE key = <<"Build", "", u.ns, UniqueName(u.name)>>
  BY <1>2
<1>3. CASE key = <<"ServiceAccount", "", u.ns, UniqueName(u.name)>>
  BY <1>3
<1>4. CASE key = <<"ConfigMap", "", u.ns, MapName(u)>> /\ GivesDockerfile(u)
  BY <1>4
<1>5. QED
  BY <1>1, <1>2, <1>3, <1>4

\* Where names stay apart, no key is generated for two BuildConfigs.
LEMMA KeysApart ==
  ASSUME NEW resources \in Exports, NamesApart(resources),
         NEW u \in Convertibles(resources), NEW v \in Convertibles(resources),
         NEW key \in GeneratedKeys(u), key \in GeneratedKeys(v)
  PROVE  u = v
<1>1. /\ u.name \in Text /\ u.name \o DockerfileEnding \in Text
      /\ v.name \in Text /\ v.name \o DockerfileEnding \in Text
  BY OriginalsAreNames
<1>2. u.ns = v.ns
  BY KeyByKey
<1>3. u.name = v.name
  <2>1. CASE key[1] \in {"Build", "ServiceAccount"}
    <3>1. UniqueName(u.name) = UniqueName(v.name)
      BY <2>1, KeyByKey
    <3>2. u.name \in OriginalsOf(u) /\ v.name \in OriginalsOf(v)
      BY DEF OriginalsOf
    <3>3. QED
      BY <1>1, <1>2, <3>1, <3>2, SameOriginal
  <2>2. CASE key[1] = "ConfigMap"
    <3>1. GivesDockerfile(u) /\ GivesDockerfile(v) /\ MapName(u) = MapName(v)
      BY <2>2, KeyByKey
    <3>2. u.name \o DockerfileEnding \in OriginalsOf(u)
      BY <3>1 DEF OriginalsOf
    <3>3. v.name \o DockerfileEnding \in OriginalsOf(v)
      BY <3>1 DEF OriginalsOf
    <3> DEFINE o == u.name \o DockerfileEnding
               p == v.name \o DockerfileEnding
    <3>4. UniqueName(o) = UniqueName(p) /\ o \in Text /\ p \in Text
      BY <1>1, <3>1 DEF MapName
    <3>5. o \in OriginalsOf(u) /\ p \in OriginalsOf(v)
      BY <3>2, <3>3
    <3> HIDE DEF o, p
    <3>6. o = p
      BY <1>2, <3>4, <3>5, SameOriginal
    <3>7. u.name \o DockerfileEnding = v.name \o DockerfileEnding
      BY <3>6 DEF o, p
    <3>8. Dash \in Tokens /\ "dockerfile" \in Tokens
      BY TokensAssumption
    <3>9. DockerfileEnding \in Text
      BY <3>8, PairIsSequence DEF DockerfileEnding, Text
    <3>10. QED
      BY <1>1, <3>7, <3>9, ConcatSimplifications, Zenon DEF Text
  <2>3. key[1] \in {"Build", "ServiceAccount", "ConfigMap"}
    BY KeyByKey
  <2>4. QED
    BY <2>1, <2>2, <2>3
<1>4. QED
  BY <1>2, <1>3, ExportsAssumption DEF Convertibles

\* Where names stay apart, a resource with a key that is generated for u is one
\* that u's own conversion emitted.
LEMMA PartsOfTheirOwn ==
  ASSUME CraneInv, WrittenInv, NamesApart(export),
         NEW u \in whiteouts, NEW r \in Range(output), Key(r) \in GeneratedKeys(u)
  PROVE  PartOf(r, u)
<1>1. /\ export \in Exports /\ u \in Convertibles(export)
      /\ \A v \in export : Key(v) \notin GeneratedKeys(u)
  BY DEF WrittenInv, CraneInv, Answered, NamesApart, Convertibles
<1>2. CASE \E v \in Answered \ whiteouts : PassedAs(r, v)
  <2>1. PICK v \in Answered \ whiteouts : PassedAs(r, v)
    BY <1>2
  <2>2. Key(r) = Key(v)
    BY <2>1 DEF PassedAs
  <2>3. v \in export
    BY DEF Answered
  <2>4. QED
    BY <1>1, <2>2, <2>3
<1>3. CASE \E v \in whiteouts : PartOf(r, v)
  <2>1. PICK v \in whiteouts : PartOf(r, v)
    BY <1>3
  <2>2. Key(r) \in GeneratedKeys(v)
    BY <2>1, PartKeys
  <2>3. v \in Convertibles(export)
    BY DEF WrittenInv, CraneInv, Answered, Convertibles
  <2>4. v = u
    BY <1>1, <2>2, <2>3, KeysApart
  <2>5. QED
    BY <2>1, <2>4
<1>4. QED
  BY <1>2, <1>3 DEF WrittenInv

\* Where names stay apart, each part that u needs is delivered, and it is u's.
LEMMA PartDelivered ==
  ASSUME CraneInv, WrittenInv, NamesApart(export),
         NEW u \in whiteouts, NEW key \in GeneratedKeys(u)
  PROVE  \E r \in Delivered : Key(r) = key /\ PartOf(r, u)
<1>1. /\ Delivered \subseteq Range(output)
      /\ \A r \in Range(output) : \E s \in Delivered : Key(s) = Key(r)
  BY DeliveredOnce DEF CraneInv
<1>2. AllParts(u, Range(output))
  BY DEF WrittenInv
<1>3. PICK written \in Range(output) : Key(written) = key
  BY <1>2 DEF AllParts
<1>4. PICK r \in Delivered : Key(r) = key
  BY <1>1, <1>3
<1>5. r \in Range(output) /\ Key(r) \in GeneratedKeys(u)
  BY <1>1, <1>4
<1>6. QED
  BY <1>4, <1>5, PartsOfTheirOwn

\* A Build that says it was converted from u was.
LEMMA BuildsOfTheirOwn ==
  ASSUME CraneInv, WrittenInv, NEW u \in export, NEW r \in Range(output), Replaces(r, u)
  PROVE  u \in whiteouts /\ PartOf(r, u) /\ Key(r) = <<"Build", "", u.ns, UniqueName(u.name)>>
<1>0. export \in Exports /\ r.kind = "Build"
  BY DEF CraneInv, Replaces
<1>1. ~ \E v \in Answered \ whiteouts : PassedAs(r, v)
  <2> SUFFICES ASSUME NEW v \in Answered \ whiteouts, PassedAs(r, v) PROVE FALSE
    OBVIOUS
  <2>1. v \in export
    BY DEF Answered
  <2>2. CASE Handled(v)
    <3>1. r.kind = "BuildConfig"
      BY <2>2 DEF PassedAs, Handled, Key
    <3>2. QED
      BY <1>0, <3>1
  <2>3. CASE ~Handled(v)
    BY <1>0, <2>1, <2>3, ExportsAssumption DEF PassedAs
  <2>4. QED
    BY <2>2, <2>3
<1>2. PICK v \in whiteouts : PartOf(r, v)
  BY <1>1 DEF WrittenInv
<1>3. Replaces(r, v) /\ r.ns = v.ns /\ r.name = UniqueName(v.name)
  BY <1>0, <1>2 DEF PartOf
<1>4. Handled(u) /\ Handled(v) /\ u.ns = v.ns /\ u.name = v.name
  BY <1>3 DEF Replaces
<1>5. v \in export
  BY DEF CraneInv, Answered
<1>6. u = v
  BY <1>0, <1>4, <1>5, ExportsAssumption
<1>7. QED
  BY <1>0, <1>2, <1>3, <1>6 DEF Key

\* Where the generated names stay apart, no resource of the export vanishes and
\* none is left beside its replacement, in whatever order crane hands them over
\* (README.md:12-26).
THEOREM NothingLost == MigrationSpec => [](NamesApart(export) => NothingVanishes)
<1>1. ASSUME CraneInv, WrittenInv, NamesApart(export), Finished, NEW u \in export
      PROVE  IF u \in whiteouts
             THEN Copies(u) = {} /\ Cardinality(Builds(u)) = 1
             ELSE Cardinality(Copies(u)) = 1 /\ Builds(u) = {}
  <2>1. /\ Delivered \subseteq Range(output)
        /\ \A r \in Range(output) : \E s \in Delivered : Key(s) = Key(r)
        /\ \A r, s \in Delivered : Key(r) = Key(s) => r = s
    BY <1>1, DeliveredOnce DEF CraneInv
  <2>2. export \in Exports /\ Answered = export /\ aborted = FALSE
    BY <1>1 DEF CraneInv, Answered, Finished
  <2>3. CASE u \in whiteouts
    <3> DEFINE key == <<"Build", "", u.ns, UniqueName(u.name)>>
    <3>1. Handled(u) /\ u.decodable /\ key \in GeneratedKeys(u)
      BY <1>1, <2>3 DEF WrittenInv, GeneratedKeys
    <3>2. Copies(u) = {}
      <4> SUFFICES ASSUME NEW r \in Range(output), Key(r) = Key(u) PROVE FALSE
        BY <2>1 DEF Copies
      <4>1. Key(u) = <<"BuildConfig", "build.openshift.io", u.ns, u.name>>
        BY <3>1 DEF Key, Handled
      <4>2. r.kind = "BuildConfig"
        BY <4>1 DEF Key
      <4>3. PICK v \in Answered \ whiteouts : PassedAs(r, v)
        BY <1>1, <4>2, PartKeys DEF WrittenInv
      <4>4. Key(v) = Key(u)
        BY <4>3 DEF PassedAs
      <4>5. Handled(v) /\ v.ns = u.ns /\ v.name = u.name
        BY <4>1, <4>4 DEF Key, Handled
      <4>6. v = u
        BY <2>2, <3>1, <4>5, ExportsAssumption
      <4>7. QED
        BY <2>3, <4>6
    <3>3. PICK r \in Delivered : Key(r) = key /\ PartOf(r, u)
      BY <1>1, <2>3, <3>1, PartDelivered
    <3>4. Replaces(r, u)
      <4>1. r.kind = "Build"
        BY <3>3 DEF Key
      <4>2. QED
        BY <3>3, <4>1 DEF PartOf
    <3>5. \A s \in Builds(u) : s = r
      BY <1>1, <2>1, <3>3, BuildsOfTheirOwn DEF Builds
    <3>6. Builds(u) = {r}
      BY <3>3, <3>4, <3>5 DEF Builds
    <3>7. QED
      BY <2>3, <3>2, <3>6, FS_Singleton
  <2>4. CASE u \notin whiteouts
    <3>1. PICK r0 \in Range(output) : PassedAs(r0, u)
      BY <1>1, <2>2, <2>4 DEF WrittenInv
    <3>2. Key(r0) = Key(u)
      BY <3>1 DEF PassedAs
    <3>3. PICK r \in Delivered : Key(r) = Key(u)
      BY <2>1, <3>2
    <3>4. Copies(u) = {r}
      BY <2>1, <3>3 DEF Copies
    <3>5. Builds(u) = {}
      BY <1>1, <2>1, <2>4, BuildsOfTheirOwn DEF Builds
    <3>6. QED
      BY <2>4, <3>4, <3>5, FS_Singleton
  <2>5. QED
    BY <2>3, <2>4
<1>2. CraneInv /\ WrittenInv => (NamesApart(export) => NothingVanishes)
  BY <1>1 DEF NothingVanishes
<1>3. QED
  BY <1>2, WrittenAlways, PTL

\* Where the generated names stay apart, every Build finds its own BuildConfig's
\* Dockerfile and pull secret under the names it uses (names.go:28-31).
THEOREM PartsOfEachBuild == MigrationSpec => [](NamesApart(export) => PartsStayApart)
<1>1. ASSUME CraneInv, WrittenInv, NamesApart(export),
             NEW u \in whiteouts, NEW build \in Builds(u)
      PROVE  /\ GivesDockerfile(u) =>
                  \E r \in Delivered :
                    /\ r.kind = "ConfigMap" /\ r.ns = u.ns
                    /\ r.name = build.annotations[DockerfileAnnotation].text
                    /\ r.content = u.spec.source.dockerfile
             /\ NeedsAccount(u) =>
                  \E r \in Delivered :
                    /\ r.kind = "ServiceAccount" /\ r.ns = u.ns
                    /\ r.name = build.name
                    /\ r.secret \in PullSecretsOf(u)
  <2>1. Delivered \subseteq Range(output)
    BY <1>1, DeliveredOnce DEF CraneInv
  <2>2. u \in export
    BY <1>1 DEF CraneInv, Answered
  <2>3. build \in Range(output) /\ Replaces(build, u) /\ build.kind = "Build"
    BY <2>1 DEF Builds, Replaces
  <2>4. PartOf(build, u)
    BY <1>1, <2>2, <2>3, BuildsOfTheirOwn
  <2>5. ASSUME GivesDockerfile(u)
        PROVE  \E r \in Delivered :
                 /\ r.kind = "ConfigMap" /\ r.ns = u.ns
                 /\ r.name = build.annotations[DockerfileAnnotation].text
                 /\ r.content = u.spec.source.dockerfile
    <3> DEFINE key == <<"ConfigMap", "", u.ns, MapName(u)>>
    <3>1. key \in GeneratedKeys(u)
      BY <2>5 DEF GeneratedKeys
    <3>2. PICK r \in Delivered : Key(r) = key /\ PartOf(r, u)
      BY <1>1, <3>1, PartDelivered
    <3>3. r.kind = "ConfigMap"
      BY <3>2 DEF Key
    <3>4. build.annotations[DockerfileAnnotation].text = MapName(u)
      BY <2>3, <2>4, <2>5 DEF PartOf
    <3>5. QED
      BY <3>2, <3>3, <3>4 DEF PartOf
  <2>6. ASSUME NeedsAccount(u)
        PROVE  \E r \in Delivered :
                 /\ r.kind = "ServiceAccount" /\ r.ns = u.ns
                 /\ r.name = build.name
                 /\ r.secret \in PullSecretsOf(u)
    <3> DEFINE key == <<"ServiceAccount", "", u.ns, UniqueName(u.name)>>
    <3>1. key \in GeneratedKeys(u)
      BY <2>6 DEF GeneratedKeys
    <3>2. PICK r \in Delivered : Key(r) = key /\ PartOf(r, u)
      BY <1>1, <3>1, PartDelivered
    <3>3. r.kind = "ServiceAccount"
      BY <3>2 DEF Key
    <3>4. build.name = UniqueName(u.name)
      BY <2>3, <2>4 DEF PartOf
    <3>5. QED
      BY <3>2, <3>3, <3>4 DEF PartOf
  <2>7. QED
    BY <2>5, <2>6
<1>2. CraneInv /\ WrittenInv => (NamesApart(export) => PartsStayApart)
  BY <1>1 DEF PartsStayApart
<1>3. QED
  BY <1>2, WrittenAlways, PTL

-----------------------------------------------------------------------------
(* Run again over its own output *)

\* What a BuildConfig has that the plugin reads.
Legible(u) ==
  Handled(u) =>
    /\ {"kind", "group", "ns", "name", "annotations", "spec", "decodable"} \subseteq DOMAIN u
    /\ u.decodable => DOMAIN u.spec = BuildConfigFields /\ Readable(u.spec)

\* The outcome o refuses c for the k-th reason.
RefusedFor(k, c, o) ==
  /\ Decides(k, c)
  /\ o.state = (IF Contract!Reasons[k] \in Contract!Declined THEN "skipped" ELSE "failed")
  /\ o.reason = Contract!Reasons[k]

\* A BuildConfig that has been passed through: it is refused, and stamping the
\* outcome it gets once more changes nothing.
PassedOn(u) ==
  /\ Legible(u)
  /\ Handled(u) =>
       /\ u.decodable
       /\ \E k \in 1..5 : Decides(k, Decoded(u))
       /\ \A k \in 1..5 : \A o :
            RefusedFor(k, Decoded(u), o) => Patched(u, DispositionPatch(u.annotations, o)) = u

\* The conversion of u that runs, for any u that can be read.
ConvertingOne(u) ==
  /\ Handled(u) /\ u.decodable
  /\ bc = Decoded(u)
  /\ step \in Steps
  /\ step # "skeleton" => Identified(b, bc)
  /\ OnlyExtras(newResources)
  /\ step = "idle" =>
       /\ outcome.state # "none"
       /\ outcome.state \in ConvertedStates => outcome.resources = <<b>> \o newResources

OneForEachKey(resources) == \A r, s \in resources : Key(r) = Key(s) => r = s

\* What holds in every run, over an export or over an output.
RunInv ==
  /\ \A u \in export : Legible(u)
  /\ pending \subseteq export
  /\ handling = {} \/ \E u \in export \ pending : handling = {u} /\ ConvertingOne(u)
  /\ VerdictInv
  /\ IsSeq(output)
  /\ \A r \in Range(output) : PassedOn(r)
  /\ (\A u \in export : PassedOn(u)) => Range(output) = Answered
  /\ runs > 1 => OneForEachKey(before) /\ \A r \in before : PassedOn(r)

\* One reason at most decides.
LEMMA OneDecides ==
  ASSUME NEW c, NEW k \in 1..5, NEW j \in 1..5, Decides(k, c), Decides(j, c)
  PROVE  j = k
<1>1. ~(j < k) /\ ~(k < j)
  <2>1. ASSUME NEW x \in 1..5, NEW y \in 1..5, x < y, Decides(x, c), Decides(y, c)
        PROVE  FALSE
    <3>1. x \in 1..(y - 1)
      BY <2>1
    <3>2. QED
      BY <2>1, <3>1 DEF Decides
  <2>2. QED
    BY <2>1
<1>2. QED
  BY <1>1

\* What refuses a BuildConfig is not in its annotations.
LEMMA AnnotationsDoNotDecide ==
  ASSUME NEW c, NEW d,
         c.type = d.type /\ c.blocks = d.blocks /\ c.source = d.source /\ c.output = d.output,
         NEW k \in 1..5
  PROVE  Decides(k, c) <=> Decides(k, d)
<1>1. \A reason : Contract!Stands(reason, c) <=> Contract!Stands(reason, d)
  <2>1. Contract!SourcesOf(c) = Contract!SourcesOf(d)
    BY DEF Contract!SourcesOf
  <2>2. Contract!StrategyImageKinds(c) = Contract!StrategyImageKinds(d)
    BY Zenon DEF Contract!StrategyImageKinds
  <2>3. Contract!UnusableSource(c) <=> Contract!UnusableSource(d)
    BY <2>1 DEF Contract!UnusableSource
  <2>4. QED
    BY <2>2, <2>3 DEF Contract!Stands
<1>2. QED
  BY <1>1 DEF Decides

\* What a readable BuildConfig decodes to has what its spec has.
LEMMA DecodedReads ==
  ASSUME NEW u, Legible(u), Handled(u), u.decodable
  PROVE  /\ Decoded(u).type = u.spec.type /\ Decoded(u).blocks = u.spec.blocks
         /\ Decoded(u).source = u.spec.source /\ Decoded(u).output = u.spec.output
         /\ Readable(Decoded(u))
<1>1. DOMAIN u.spec = BuildConfigFields /\ Readable(u.spec)
  BY DEF Legible
<1>2. /\ Decoded(u).type = u.spec.type /\ Decoded(u).blocks = u.spec.blocks
      /\ Decoded(u).source = u.spec.source /\ Decoded(u).output = u.spec.output
  BY <1>1 DEF Decoded, BuildConfigFields
<1>3. QED
  BY <1>1, <1>2, Zenon DEF Readable

\* Stamping twice is stamping once.
LEMMA StampedTwice ==
  ASSUME NEW annotations, NEW o, NEW again,
         again.state = o.state /\ again.reason = o.reason
  PROVE  Stamped(Stamped(annotations, o), again) = Stamped(annotations, o)
<1> DEFINE stamps == StampedAnnotations(o)
<1>1. StampedAnnotations(again) = stamps
  BY Zenon DEF StampedAnnotations
<1> HIDE DEF stamps
<1>2. \A any : Stamped(any, o) = [key \in DOMAIN any \union DOMAIN stamps |->
                                    IF key \in DOMAIN stamps THEN stamps[key] ELSE any[key]]
  BY DEF Stamped, stamps
<1>3. \A any : Stamped(any, again) = Stamped(any, o)
  BY <1>1 DEF Stamped, stamps
<1> DEFINE once == Stamped(annotations, o)
<1>4. once = [key \in DOMAIN annotations \union DOMAIN stamps |->
                IF key \in DOMAIN stamps THEN stamps[key] ELSE annotations[key]]
  BY <1>2
<1> HIDE DEF once
<1>5. Stamped(once, o) = [key \in DOMAIN once \union DOMAIN stamps |->
                            IF key \in DOMAIN stamps THEN stamps[key] ELSE once[key]]
  BY <1>2
<1>6. Stamped(once, o) = once
  BY <1>4, <1>5
<1>7. QED
  BY <1>3, <1>6 DEF once

\* A refused BuildConfig is one that has been passed through once it is stamped.
LEMMA StampingPassesOn ==
  ASSUME NEW u, Legible(u), Handled(u), u.decodable,
         NEW k \in 1..5, NEW o, RefusedFor(k, Decoded(u), o)
  PROVE  PassedOn(Patched(u, DispositionPatch(u.annotations, o)))
<1> DEFINE stamped == Stamped(u.annotations, o)
           v == Patched(u, DispositionPatch(u.annotations, o))
<1>1. \A x, p : Patched(x, DispositionPatch(x.annotations, p))
                  = [x EXCEPT !.annotations = Stamped(x.annotations, p)]
  BY DispositionApplies DEF Patched
<1>2. v = [u EXCEPT !.annotations = stamped]
  BY <1>1
<1> HIDE DEF v, stamped
<1>3. /\ DOMAIN v = DOMAIN u /\ v.annotations = stamped
      /\ v.kind = u.kind /\ v.group = u.group /\ v.ns = u.ns /\ v.name = u.name
      /\ v.spec = u.spec /\ v.decodable = u.decodable
  BY <1>2 DEF Legible
<1>4. Handled(v) /\ v.decodable /\ Legible(v)
  BY <1>3 DEF Handled, Legible
<1>5. /\ Decoded(v).type = Decoded(u).type /\ Decoded(v).blocks = Decoded(u).blocks
      /\ Decoded(v).source = Decoded(u).source /\ Decoded(v).output = Decoded(u).output
  BY <1>3, <1>4, DecodedReads
<1>6. \A j \in 1..5 : Decides(j, Decoded(v)) <=> Decides(j, Decoded(u))
  BY <1>5, AnnotationsDoNotDecide
<1>7. ASSUME NEW j \in 1..5, NEW p, RefusedFor(j, Decoded(v), p)
      PROVE  Patched(v, DispositionPatch(v.annotations, p)) = v
  <2>1. j = k
    <3>1. Decides(j, Decoded(u)) /\ Decides(k, Decoded(u))
      BY <1>6, <1>7 DEF RefusedFor
    <3>2. QED
      BY <3>1, OneDecides
  <2>2. p.state = o.state /\ p.reason = o.reason
    BY <1>7, <2>1 DEF RefusedFor
  <2>3. Stamped(v.annotations, p) = v.annotations
    BY <1>3, <2>2, StampedTwice DEF stamped
  <2>4. Patched(v, DispositionPatch(v.annotations, p)) = [v EXCEPT !.annotations = v.annotations]
    BY <1>1, <2>3
  <2>5. QED
    BY <1>2, <1>3, <2>4
<1>8. Decides(k, Decoded(v))
  BY <1>6 DEF RefusedFor
<1>9. QED
  BY <1>4, <1>7, <1>8 DEF PassedOn, v

\* An export can be read.
LEMMA ExportLegible ==
  ASSUME NEW resources \in Exports
  PROVE  \A u \in resources : Legible(u)
<1>1. ASSUME NEW u \in resources, Handled(u) PROVE Legible(u)
  <2>1. {"kind", "group", "ns", "name", "annotations", "spec", "decodable"} \subseteq DOMAIN u
    BY <1>1, ExportsAssumption
  <2>2. ASSUME u.decodable PROVE DOMAIN u.spec = BuildConfigFields /\ Readable(u.spec)
    <3>1. IsBuildConfig(Decoded(u))
      BY <1>1, <2>2, MigrationAssumption, ConverterAssumption
    <3>2. DOMAIN Decoded(u) = BuildConfigFields /\ Readable(Decoded(u))
      BY <3>1, ConfigsReadable DEF IsBuildConfig
    <3>3. DOMAIN u.spec = BuildConfigFields
      BY <3>2 DEF Decoded
    <3>4. Decoded(u).blocks = u.spec.blocks /\ Decoded(u).source = u.spec.source
      BY <3>3 DEF Decoded, BuildConfigFields
    <3>5. QED
      BY <3>2, <3>3, <3>4, Zenon DEF Readable
  <2>3. QED
    BY <2>1, <2>2 DEF Legible
<1>2. QED
  BY <1>1 DEF Legible

\* The steps of a conversion stay with its BuildConfig.
LEMMA ConvertingGoesOn ==
  ASSUME NEW u, Legible(u), ConvertingOne(u), VerdictInv, Proceed
  PROVE  ConvertingOne(u)' /\ VerdictInv'
<1>1. UNCHANGED bc /\ Identified(b', bc) /\ OnlyExtras(newResources') /\ Delivers
  BY ProceedDelivers DEF ConvertingOne
<1>2. VerdictInv'
  <2>1. Readable(bc) /\ step \in Steps
    BY DecodedReads DEF ConvertingOne
  <2>2. QED
    BY <2>1, VerdictStep
<1>3. step' \in Steps /\ (step' = "idle" => outcome'.state # "none")
  <2>1. CASE GivesUp
    BY <2>1 DEF GivesUp, Steps
  <2>2. CASE Classify
    <3>1. step' = "idle" /\ outcome'.state \in ConvertedStates
      BY <2>2 DEF Classify, ConvertedStates
    <3>2. QED
      BY <3>1 DEF ConvertedStates, Steps
  <2>3. CASE Iterates
    BY <2>3 DEF Iterates, Loops, Steps
  <2>4. CASE HandsOver
    BY <2>4 DEF HandsOver, Calls
  <2>5. QED
    BY <2>1, <2>2, <2>3, <2>4, StepAdvances
<1>4. QED
  BY <1>1, <1>2, <1>3 DEF ConvertingOne, Delivers

\* What the answer for u brings has been passed on, and u itself when it had
\* been passed on before.
LEMMA AnswerPassesOn ==
  ASSUME NEW u, Legible(u), ConvertingOne(u), VerdictInv, step = "idle", IsSeq(output),
         Dispose(u, Response(u, outcome)),
         \A r \in Range(output) : PassedOn(r)
  PROVE  /\ IsSeq(output')
         /\ \A r \in Range(output') : PassedOn(r)
         /\ PassedOn(u) => Range(output') = Range(output) \union {u}
<1> DEFINE response == Response(u, outcome)
<1>1. Verdict(Decoded(u), outcome)
  BY DEF VerdictInv, ConvertingOne
<1>2. ASSUME outcome.state \in ConvertedStates, outcome.reason = "",
             \A k \in 1..5 : ~Contract!Stands(Contract!Reasons[k], Decoded(u))
      PROVE  /\ IsSeq(output')
             /\ \A r \in Range(output') : PassedOn(r)
             /\ ~PassedOn(u)
  <2>1. response.whiteOut = TRUE /\ response.newResources = outcome.resources
    BY <1>2, ResponseDecides
  <2>2. outcome.resources = <<b>> \o newResources /\ b.kind = "Build"
    <3>1. step # "skeleton"
      OBVIOUS
    <3>2. QED
      BY <1>2, <3>1 DEF ConvertingOne, Identified
  <2>3. IsSeq(newResources) /\ \A r \in Range(newResources) : r.kind \notin {"Build", "BuildConfig"}
    <3>1. PICK S : newResources \in Seq(S) /\ \A r \in S : r.kind \notin {"Build", "BuildConfig"}
      BY DEF ConvertingOne, OnlyExtras
    <3>2. newResources \in Seq(Range(newResources)) /\ Range(newResources) \subseteq S
      BY <3>1, SeqOfRange DEF Range
    <3>3. QED
      BY <3>1, <3>2 DEF IsSeq
  <2> DEFINE first == <<b>>
             more == response.newResources
  <2>4. IsSeq(first) /\ Range(first) = {b}
    BY DEF IsSeq, Range
  <2>5. more = first \o newResources
    BY <2>1, <2>2
  <2> HIDE DEF first, more, response
  <2>6. IsSeq(more) /\ Range(more) = {b} \union Range(newResources)
    <3>1. IsSeq(first) /\ IsSeq(newResources)
      BY <2>3, <2>4
    <3>2. IsSeq(more) /\ Range(more) = Range(first) \union Range(newResources)
      BY <2>5, <3>1, MembersOfConcatenation, ZenonT(40)
    <3>3. QED
      BY <2>4, <3>2
  <2>7. /\ IsSeq(output')
        /\ Range(output') = Range(output) \union {x \in {Patched(u, response.patch)} : FALSE}
                              \union Range(more)
    <3>1. Dispose(u, response)
      BY DEF response
    <3>2. QED
      BY <2>1, <2>6, <3>1, DisposeAppends DEF more
  <2>8. \A r \in {b} \union Range(newResources) : PassedOn(r)
    BY <2>2, <2>3 DEF PassedOn, Legible, Handled
  <2>9. ~PassedOn(u)
    <3>1. \A k \in 1..5 : ~Decides(k, Decoded(u))
      BY <1>2 DEF Decides
    <3>2. QED
      BY <3>1 DEF PassedOn, ConvertingOne
  <2>10. QED
    BY <2>6, <2>7, <2>8, <2>9
<1>3. ASSUME NEW k \in 1..5, RefusedFor(k, Decoded(u), outcome)
      PROVE  /\ IsSeq(output')
             /\ \A r \in Range(output') : PassedOn(r)
             /\ PassedOn(u) => Range(output') = Range(output) \union {u}
  <2> DEFINE v == Patched(u, DispositionPatch(u.annotations, outcome))
  <2>1. outcome.state \in {"skipped", "failed"}
    BY <1>3 DEF RefusedFor
  <2>2. response.whiteOut = FALSE /\ response.newResources = <<>>
        /\ Patched(u, response.patch) = v
    BY <2>1 DEF Response, PassThrough
  <2>3. PassedOn(v)
    BY <1>3, StampingPassesOn DEF ConvertingOne
  <2>4. PassedOn(u) => v = u
    BY <1>3 DEF PassedOn, ConvertingOne
  <2> HIDE DEF v, response
  <2>5. IsSeq(<<>>) /\ Range(<<>>) = {}
    BY DEF IsSeq, Range
  <2>6. /\ IsSeq(output')
        /\ Range(output') = Range(output) \union {x \in {v} : ~response.whiteOut}
                              \union Range(response.newResources)
    <3>1. Dispose(u, response)
      BY DEF response
    <3>2. response.whiteOut \in BOOLEAN /\ IsSeq(response.newResources)
      BY <2>2, <2>5
    <3>3. QED
      BY <2>2, <3>1, <3>2, DisposeAppends
  <2>7. Range(output') = Range(output) \union {v}
    BY <2>2, <2>5, <2>6
  <2>8. QED
    BY <2>3, <2>4, <2>6, <2>7
<1>4. QED
  BY <1>1, <1>2, <1>3 DEF Verdict, RefusedFor

\* Every run keeps it, and so does another run over what a run delivered.
LEMMA RunInvInit == RemigrationInit => RunInv
<1> SUFFICES ASSUME RemigrationInit PROVE RunInv
  OBVIOUS
<1>1. /\ Init /\ export \in Exports /\ pending = export /\ handling = {}
      /\ output = <<>> /\ runs = 1
  BY DEF RemigrationInit, MigrationInit
<1>2. IsSeq(output) /\ Range(output) = {}
  BY <1>1 DEF IsSeq, Range
<1>3. VerdictInv
  BY <1>1, VerdictStarts
<1>4. \A u \in export : Legible(u)
  BY <1>1, ExportLegible
<1>5. Answered = {}
  BY <1>1 DEF Answered
<1>6. QED
  BY <1>1, <1>2, <1>3, <1>4, <1>5 DEF RunInv

LEMMA RunInvStep ==
  ASSUME RunInv, MigrationNext, UNCHANGED <<runs, before>>
  PROVE  RunInv'
<1> USE DEF Answered
<1>1. ASSUME NEW u \in pending, PassOther(u) PROVE RunInv'
  <2>1. /\ export' = export /\ pending' = pending \ {u} /\ u \in export
        /\ handling = {} /\ handling' = {} /\ UNCHANGED vars
        /\ Dispose(u, PassThrough) /\ ~Handled(u)
    BY <1>1 DEF PassOther, Take, Ready, RunInv
  <2>2. IsSeq(output') /\ Range(output') = Range(output) \union {u}
    <3>1. /\ PassThrough.whiteOut = FALSE /\ PassThrough.newResources = <<>>
          /\ PassThrough.patch = <<>>
      BY DEF PassThrough
    <3>2. IsSeq(<<>>) /\ Range(<<>>) = {}
      BY DEF IsSeq, Range
    <3>3. Patched(u, PassThrough.patch) = u
      BY <3>1 DEF Patched
    <3>4. PassThrough.whiteOut \in BOOLEAN /\ IsSeq(PassThrough.newResources)
      BY <3>1, <3>2
    <3>5. /\ IsSeq(output')
          /\ Range(output') =
               Range(output)
                 \union {r \in {Patched(u, PassThrough.patch)} : ~PassThrough.whiteOut}
                 \union Range(PassThrough.newResources)
      BY <2>1, <3>4, DisposeAppends DEF RunInv
    <3>6. QED
      BY <3>1, <3>2, <3>3, <3>5
  <2>3. PassedOn(u)
    BY <2>1 DEF PassedOn, Legible
  <2>4. VerdictInv'
    BY <2>1, VerdictStutters DEF RunInv
  <2>5. Answered' = Answered \union {u}
    BY <2>1
  <2>6. QED
    BY <2>1, <2>2, <2>3, <2>4, <2>5 DEF RunInv
<1>2. ASSUME NEW u \in pending, FailToDecode(u) PROVE RunInv'
  <2>1. /\ export' = export /\ pending' = pending \ {u} /\ u \in export
        /\ handling = {} /\ handling' = {} /\ UNCHANGED vars
        /\ output' = output
        /\ Handled(u) /\ ~u.decodable
    BY <1>2 DEF FailToDecode, Take, Ready, RunInv
  <2>2. ~PassedOn(u)
    BY <2>1 DEF PassedOn
  <2>3. VerdictInv'
    BY <2>1, VerdictStutters DEF RunInv
  <2>4. IsSeq(output') /\ Range(output') = Range(output)
    BY <2>1 DEF RunInv
  <2>5. QED
    BY <2>1, <2>2, <2>3, <2>4 DEF RunInv
<1>3. ASSUME NEW u \in pending, StartConversion(u) PROVE RunInv'
  <2>1. /\ export' = export /\ pending' = pending \ {u} /\ u \in export
        /\ handling = {} /\ handling' = {u} /\ output' = output
        /\ Handled(u) /\ u.decodable /\ Convert(Decoded(u))
    BY <1>3 DEF StartConversion, Take, Ready, RunInv
  <2>2. ConvertingOne(u)'
    <3>1. bc' = Decoded(u) /\ step' = "skeleton" /\ newResources' = <<>>
      BY <2>1 DEF Convert
    <3>2. QED
      BY <2>1, <3>1, NoExtras DEF ConvertingOne, Steps
  <2>3. VerdictInv'
    BY <2>1, VerdictStarts
  <2>4. IsSeq(output') /\ Range(output') = Range(output)
    BY <2>1 DEF RunInv
  <2>5. Answered' = Answered
    BY <2>1 DEF RunInv
  <2>6. QED
    BY <2>1, <2>2, <2>3, <2>4, <2>5 DEF RunInv
<1>4. ASSUME GoOn PROVE RunInv'
  <2>1. Proceed /\ UNCHANGED craneVars /\ handling # {}
    BY <1>4 DEF GoOn
  <2>2. PICK u \in export \ pending : handling = {u} /\ ConvertingOne(u)
    BY <2>1 DEF RunInv
  <2>3. ConvertingOne(u)' /\ VerdictInv'
    BY <2>1, <2>2, ConvertingGoesOn DEF RunInv
  <2>4. IsSeq(output') /\ Range(output') = Range(output)
    BY <2>1 DEF RunInv, craneVars
  <2>5. QED
    BY <2>1, <2>2, <2>3, <2>4 DEF RunInv, craneVars
<1>5. ASSUME Respond PROVE RunInv'
  <2>1. PICK u \in handling : Dispose(u, Response(u, outcome))
    BY <1>5 DEF Respond
  <2>2. handling = {u} /\ u \in export \ pending /\ ConvertingOne(u)
    BY <2>1 DEF RunInv
  <2>3. /\ export' = export /\ pending' = pending /\ handling' = {}
        /\ step = "idle" /\ step' = "idle" /\ outcome' = NoOutcome
    BY <1>5 DEF Respond, FreshConverter
  <2>4. /\ IsSeq(output')
        /\ \A r \in Range(output') : PassedOn(r)
        /\ PassedOn(u) => Range(output') = Range(output) \union {u}
    BY <2>1, <2>2, <2>3, AnswerPassesOn DEF RunInv
  <2>5. VerdictInv'
    <3>1. step' \notin Calls /\ outcome'.state = "none"
      BY <2>3 DEF Calls, NoOutcome
    <3>2. QED
      BY <3>1 DEF VerdictInv
  <2>6. Answered' = Answered \union {u}
    BY <2>2, <2>3
  <2>7. QED
    BY <2>2, <2>3, <2>4, <2>5, <2>6 DEF RunInv
<1>6. QED
  BY <1>1, <1>2, <1>3, <1>4, <1>5 DEF MigrationNext

LEMMA RunInvAgain ==
  ASSUME RunInv, RunAgain
  PROVE  RunInv'
<1>1. /\ export' \in {export, Delivered} /\ pending' = export' /\ before' = Delivered
      /\ output' = <<>> /\ handling = {} /\ handling' = {} /\ UNCHANGED vars
  BY DEF RunAgain, Finished
<1>2. Delivered \subseteq Range(output) /\ OneForEachKey(Delivered)
  BY DeliveredOnce DEF RunInv, OneForEachKey
<1>3. \A r \in Delivered : PassedOn(r) /\ Legible(r)
  BY <1>2 DEF RunInv, PassedOn
<1>4. \A u \in export' : Legible(u)
  BY <1>1, <1>3 DEF RunInv
<1>5. IsSeq(output') /\ Range(output') = {}
  BY <1>1 DEF IsSeq, Range
<1>6. VerdictInv'
  BY <1>1, VerdictStutters DEF RunInv
<1>7. Answered' = {}
  BY <1>1 DEF Answered
<1>8. OneForEachKey(before)' /\ \A r \in before' : PassedOn(r)
  BY <1>1, <1>2, <1>3 DEF OneForEachKey
<1>9. QED
  BY <1>1, <1>4, <1>5, <1>6, <1>7, <1>8 DEF RunInv

LEMMA RunInvStutters ==
  ASSUME RunInv, UNCHANGED <<migrationVars, runs, before>>
  PROVE  RunInv'
<1>1. UNCHANGED <<export, pending, handling, output, runs, before>> /\ UNCHANGED vars
  BY DEF migrationVars, craneVars
<1>2. VerdictInv'
  BY <1>1, VerdictStutters DEF RunInv
<1>3. \A u : ConvertingOne(u) => ConvertingOne(u)'
  BY <1>1 DEF ConvertingOne, vars
<1>4. IsSeq(output') /\ Range(output') = Range(output)
  BY <1>1 DEF RunInv
<1>5. QED
  BY <1>1, <1>2, <1>3, <1>4 DEF RunInv, Answered

\* A run over the output of the run before it changes nothing, for any exports,
\* BuildConfigs and flags, and however often: what was passed through is refused
\* again, for the same reason, and is stamped with what it has
\* (docs/architecture.md rule 12; dispositionPatch, disposition.go:31-74).
THEOREM OwnOutputIsKept == RemigrationSpec => []OwnOutputStays
<1>1. RunInv /\ [Run \/ RunAgain]_<<migrationVars, runs, before>> => RunInv'
  BY RunInvStep, RunInvAgain, RunInvStutters DEF Run
<1>2. RunInv => OwnOutputStays
  <2> SUFFICES ASSUME RunInv, Finished, runs > 1, export = before PROVE Delivered = before
    BY DEF OwnOutputStays
  <2>1. Range(output) = before
    BY DEF RunInv, Finished, Answered
  <2>2. Delivered \subseteq before
    BY <2>1, DeliveredOnce DEF RunInv
  <2>3. ASSUME NEW r \in before PROVE r \in Delivered
    <3>1. PICK s \in Delivered : Key(s) = Key(r)
      BY <2>1, DeliveredOnce DEF RunInv
    <3>2. s = r
      BY <2>2, <3>1 DEF RunInv, OneForEachKey
    <3>3. QED
      BY <3>1, <3>2
  <2>4. QED
    BY <2>2, <2>3
<1>3. QED
  BY <1>1, <1>2, RunInvInit, PTL DEF RemigrationSpec

=============================================================================
