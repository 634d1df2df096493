# The BuildConfig to Shipwright plugin in TLA+

This directory specifies and verifies the crane plugin in `src/`: it turns an
OpenShift BuildConfig into a Shipwright Build and the resources that go with
it, or passes the BuildConfig through when it cannot.

What a user of the plugin relies on, and what the project is about:

* nothing of a BuildConfig is lost without a warning that says so;
* a BuildConfig that is not converted is left whole, and reported on only by
  the steps up to the one that refused it;
* a Build, its ServiceAccount and its ConfigMap fit together, or none comes out;
* one conversion's warnings never end up on another's Build;
* no exported resource vanishes from a migration, none is left beside its own
  replacement, and no BuildConfig that can be read stops it;
* the same input gives the same output (no dependence on Go's map order);
* the size caps and the integer widths are respected.

## The system

The program is sequential. crane starts the plugin once per exported resource
and exchanges JSON with it; the plugin keeps nothing between calls. There are
no threads, timeouts, retries or files. What is hard is inside one conversion:
some twenty steps run in a fixed order, write to one Build, one list of
warnings and one map of annotations, and decide things from what earlier steps
left there, with a dozen places to return. And around it: what crane makes of
many responses, in an order of its own, when the names in them meet, when a
patch must apply to whatever the export holds, and when crane is run again.

| component | source | state | operations | interacts with |
|---|---|---|---|---|
| Converter | `converter.go`, `outcome.go`, `dockerfile.go`, `postcommit.go`, `triggers.go`, `chain.go` | `Opts`, `warnings`, `curNS`/`curName`; in a call: the Build, the new resources, the generated account's name, `startWarnings` | `Convert` and the steps it calls, `warnf`/`recordWarning` | calls the three below; called by the plugin |
| Warnings annotation | `converter.go` 328-371 | none beyond the call | `boundedWarnings` | called last by `Convert`; records a warning itself |
| Image references | `imagestream.go`, `converter.go` 934-987 | none | `resolveImageRef`, `applyRegistryMapping`, the output image | called by the strategy, source, output and chain steps |
| Generated names | `names.go` | none | `sanitizeDNS1123Label`, `withHashSuffix` | called for the Build, the account and the ConfigMap |
| Plugin and disposition | `plugin.go`, `disposition.go` | none | `Run`, `ParseOptionalFields`, `dispositionPatch`, `truncateReason` | called by crane; makes a fresh Converter per call |
| Crane harness | `main.go`, crane-lib (external) | the exported and the emitted resources | runs the plugin on each, applies patches, writes files, stops on an error | |
| Serialization | `converter.go` (`toUnstructured`, `stripSerializationNoise`) | none | typed object to JSON object | called at the end of `Convert` |

What makes each correct:

* **Converter**: the outcome agrees with the warnings; warnings are attributed;
  whatever the BuildConfig says is on the Build or in a warning; no step behind
  the one that refuses a BuildConfig reports on it; resources come out with a Build only; each annotation has one writer.
* **Warnings annotation**: within its cap; whole warnings from the first on, as
  many as fit; a count that makes up for the rest.
* **Image references**: the most specific usable mapping decides, whatever the
  map order; a reference nothing resolved is doubtful and reported.
* **Generated names**: the result is a label of at most 63 characters; two
  originals that are rewritten stay apart; a valid name is kept.
* **Plugin and disposition**: a BuildConfig is whited out exactly when its Build
  is emitted; a passed-through one keeps its annotations and gains the outcome;
  no BuildConfig makes the plugin return an error.
* **Crane harness with the plugin**: every exported resource is disposed of once,
  and no generated resource replaces an exported one.

The hazards behind these are listed, each at its line, in `PROJECT.json`.

## The modules

| module | what it is |
|---|---|
| `Texts` | names, references and keys as sequences of tokens |
| `BuildConfigs` | the BuildConfig fields and flags the code reads, as records |
| `ImageReferences` | `applyRegistryMapping`, `resolveImageRef`, the output image: what they return |
| `Names`, `NamesProofs` | `sanitizeDNS1123Label`, `withHashSuffix`: what they return, and what is so of it for every name |
| `WarningsAnnotation` | `boundedWarnings`: how many warnings are kept, by their lengths |
| `Converter` | the state machine of `Convert`, composed of the above |
| `Conversion` | the abstract specification: what `Convert` answers about a BuildConfig |
| `ConversionProperties` | the properties of `Converter` |
| `MCConverter`, `MCConversions` | its instances for TLC: groups of BuildConfigs, and the groups that one run takes together |
| `ConverterProofs`, `ConversionProofs` | its theorems: in the first types, warnings, outcome, deadline, credentials, and what each call writes; in the second the losses, annotations, push, parts and template of a conversion, its contract and its chained builds |
| `WarningsCap`, `MCWarningsCap`, `WarningsCapProofs` | the loop of `boundedWarnings`, shown to keep what `WarningsAnnotation` says, and its theorems |
| `RegistryMapping`, `MCRegistryMapping`, `RegistryMappingProofs` | the loop of `applyRegistryMapping` over a Go map, shown to return what `ImageReferences` says |
| `GeneratedNames`, `MCGeneratedNames`, `GeneratedNamesProofs` | the generated names of a migration, one after another, on top of `Names` |
| `Disposition` | the patch on a passed-through BuildConfig, and what applying it does |
| `ReasonCut`, `MCReasonCut`, `ReasonCutProofs` | the loop of `truncateReason` |
| `Migration` | crane's loop with the plugin: `Run`, with the whole `Converter` for each BuildConfig, composed with `Disposition` |
| `Fates` | the abstract specification: what becomes of each exported resource |
| `MigrationProperties`, `MCMigration`, `MigrationProofs` | the properties of `Migration`, its instances, its theorems: types, fates, what passes through, what is delivered, also when it is run again |
| `Remigration`, `MCRemigration` | crane run again on its input or its output (theorem in `MigrationProofs`) |

### Converter

`step` is the next call of `Convert`'s body (`converter.go` 107-232), `"idle"`
between calls. An action is one such call with everything it changes, or one
iteration where the call loops over a list of the BuildConfig (build args,
volumes, image labels, chain inputs); `item` is the index. The order of the
steps is the order of the code:

    skeleton, strategy (buildArgs, volumes), gate, dockerfile, source, output
    (imageLabels), deadline, nodeSelector, runPolicy, postCommit, history,
    registries, triggers, chain, resources, outcome

Every action is one of `Continue(next)`, `Repeat`, or `Return(outcome)`; the
last is where the deferred function clears the attribution. `Convert(c)` may be
called again when idle: the code is written for a reused Converter
(`converter.go` 86-91, 108-111), and that is how stale warnings or a stale attribution would show.

| in the model | in the code |
|---|---|
| `opts`, `warnings`, `current` | `Converter.Opts`, `.warnings`, `.curNS`/`.curName` |
| `bc`, `startWarnings`, `b`, `newResources`, `generatedSA` | locals of `Convert` |
| `notices` | the info lines of `processChainCandidates` |
| `outcome` | what `Convert` returned: state, reason, warnings, resources |

### Conversion

What a caller of `Convert` gets, without its twenty steps: a BuildConfig is
given, and the answer is a refusal for the first of five reasons that stands in
the way, which also says whether it is skipped or failed, or a Build with the
kinds of resources that belong to it. All of that is a function of the
BuildConfig. `Contract` in `ConversionProperties` maps the Converter to it: the
BuildConfig in progress, and the state, reason and kinds of resources of the
last Outcome. A Converter whose verdict depends on the flags, on what an
earlier conversion left, or on which of two steps gave up first takes a step
that `Conversion` does not have; so does one that returns what it had built
when it gave up.

### Migration, Fates, Remigration

`Migration` extends `Disposition`, which extends `Converter`. Its state is
crane's: what was exported, what is still to be handed over, the BuildConfig
being converted, the whiteouts, what was written in order, and whether crane has
stopped. Each resource, in any order, is one of

| action | in the code |
|---|---|
| `PassOther` | `Run`'s first return: no BuildConfig of the build group |
| `FailToDecode` | the error of `json.Unmarshal`; crane stops |
| `StartConversion`, `GoOn`, `Respond` | a fresh Converter, `Convert` step by step, and `Run`'s switch on the outcome with the patch it builds |

`Respond` does what crane does with the response: whiteout, or the original with
the patch applied, and the new resources behind it. The process ends there
and the Converter's variables start afresh. `Delivered` is what is left once the
later of two resources with one kind, namespace and name has taken the place of
the earlier (ADR-0006). crane is not in this repository; these rules are what
`plugin.go` and the documents say of it and rely on.

`Fates` says the same without the plugin: a resource waits, and then it is kept,
or replaced together with its Build in one step, or it stops the migration.
`Promise` maps the state of `Migration` to it: the fate of a resource
follows from where it is (`FateOf`), a BuildConfig counts as built when a
Build that names it in `converted-from` was written. A resource that is neither
waiting, whited out, refused nor in the output is `"lost"`, which no step of
`Fates` allows.

`Remigration` adds the step in which crane is run again: over the same export,
or over what the run before delivered. `OwnOutputStays` is about the second,
`OrderMakesNoDifference` about the first, in which the same resources may come
in another order.

### Disposition, ReasonCut, GeneratedNames

The patch is a sequence of "add" operations with paths in which the separators
and the escapes are tokens. So escaping in the wrong order, adding below a map that is
not there, and adding a map over one that is there all show in `ApplyPatch`.
The reason is its kind there; how its text is cut is `ReasonCut`, byte by
byte as far as UTF-8 distinguishes bytes. `GeneratedNames` generates labels for a set of
originals one after the other and compares them.

### Abstractions

* A text is a sequence of tokens, so that prefixes, separators and lengths are
  real while wording is not. Tests for a character ("contains a slash") test
  for a token.
* A warning is a record of the BuildConfig it names, its kind and the name it
  embeds. Its wording is left out; its length is `WordingBytes` plus that of the
  embedded name.
* An annotation value is a record of what it encodes.
* A boolean or text field that becomes one parameter and nothing else is a
  member of `switches`.
* `Digest` stands for the eight hex characters of a SHA-256 and counts as one
  character. That it is injective is an assumption of `GeneratedNames` and how
  the instances define it; the Converter does not need it.
* Integers wrap as `int64` does (`Wrap`), with `MaxDuration` for its maximum.
* Marshalling errors of typed objects are left out: the types cannot cause them.
* The flags come as `ParseOptionalFields` leaves them; it returns no error. A
  BuildConfig decodes or does not.

## What is checked

The Converter's runs take groups of BuildConfigs (`MCConverter`). A group varies
one set of fields around a plain BuildConfig: those that meet in a condition of
one step, or in what one step leaves for another. `MCConversions` puts groups
together: a Converter gets the BuildConfigs of one group, with the flags its
fields meet, and as many in turn as the group asks for.
Loops get lists of up to two, three or four entries: enough for two entries of
one name with a third, unusable one before, between or behind them.

| run | asks | bounds |
|---|---|---|
| `conversions` | is anything of the strategy and the source lost unreported, is a refused BuildConfig reported on by a later step, or does it ship anything, is the pull secret kept and the template run by its holder, is an annotation written twice, does a call return what `Conversion` says of its BuildConfig, does any get stuck | one conversion of each BuildConfig in three groups: |
| - strategy | | 7 image references, 5 sets of switches, 0-3 volumes of 6, 0-2 build args of 8, 3 flag sets, with and without an output |
| - source | | all combinations of git, binary and six image lists with secrets, mounts, Dockerfile, pull secret; a context directory and proxies or none |
| - credentials | | renamed and plain names, named account or none, Dockerfiles, overrides set and empty, annotations, a trigger, ending converted, failed or skipped |
| `outputs` | is anything of the output or the rest of the spec lost unreported, is an insecure registry declared where the push reads it, is a chained input noticed once, is a timeout exact; outcomes, attribution and annotation; does a reused Converter report as a fresh one | five groups under a cap on the annotation that some exceed: |
| - output, labels | | 5 image references, 3 push secrets, 0-1 labels, 48 flag sets; 0-4 labels of 4 without flags |
| - chain | | 5 strategy images, 7 image sources, 0-2 triggers of 5; two tags mapped to one image |
| - spec | | deadlines around 0 and around `MaxDuration` with a second of 3 units, so that products wrap; limits around 1 and the maximum 2; selectors, policies, hooks, triggers |
| - reuse | | one Converter, three of 6 BuildConfigs in any order, which end in every way |
| `warnings_cap` | does the loop keep the cap and as many warnings as fit | every list of up to six of three lengths, one of which never fits, and 9 to 12 short ones, where the omitted count changes from two digits to one |
| `registry_mapping` | does the map order decide | every mapping of up to four of five keys: nested, of one length, empty, with an empty value; every collection order, ties in any order |
| `migration` | is each resource decided once, with its Build in the same step (`Fates`); does a passed-through one say why and keep its annotations; what stops a migration; does any step get stuck; does a generated resource take another's place, does each Build find its own parts | 81 exports of four resources in every order: skipped two ways, failed, converted, undecodable, of another group, other kinds; no annotations, some, and those of an earlier run. 45 exports of two or three BuildConfigs with all parts: names that become one label before the digest, the longest name, one that is cut, one name in two namespaces |
| `remigration` | does a run over the output of the run before change it, does a second run over the same export in another order | three runs, each over the export or the output, 56 exports of three resources: converted, skipped or failed, of other kinds or a second one that converts; bare, annotated, or stamped by an earlier run |
| `generated_names` | are generated names labels, fixpoints, apart | any two names of up to three letters of both cases, invalid characters and dashes, and of six over two characters, limit 5 |
| `reason_cut` | is a reason within the limit, valid, and no shorter than it must be | every reason of up to 7 characters and 13 bytes, limit 8 |

`warnings_cap` and `registry_mapping` connect levels: the Converter uses the operators `KeptCount` and
`ApplyRegistryMapping`, and these runs show that the loops of the code compute
them. `conversions` shows with `KeepsItsContract` that the Converter refines
`Conversion`, and `migration` with `KeepsItsPromise` that the whole refines `Fates`.

No liveness is claimed and no fairness assumed. The code is sequential and waits
for nothing, its loops are `range` loops over finite lists, and crane's loop is
outside this repository: that calls return and that a migration ends would follow
from the shape of the models and say nothing of the code. What could go wrong
is a state in which no call applies. So deadlock is checked in `conversions`,
`outputs` and `migration`, where the one way to rest is a step of its own:
`Unused`, a Converter between calls, and `Over`, a migration that has answered
everything or was stopped by an error. It is not checked in the other runs,
which stop when a function has returned or the bound on runs is reached, and in
those that look for one violation.

`MaxGeneratedNameLength` is 6 and `Second` is 3 in the runs: what matters is on
which side of a bound a value falls. `MaxConversions`, the number of calls, is
a bound the code does not have; so are `MaxNames` and `MaxRuns`, and
`MaxConversions` is 1 in a migration because the code makes a Converter per
BuildConfig.

### Where the code and its documentation disagree

Four runs check a sentence of the documentation and find it violated:

* `config_change`: the warning about a dropped ConfigChange trigger says to
  create a BuildRun by hand even when the Build carries a template.
  `processTriggers` looks for the annotation before
  `processResources` writes it. `docs/architecture.md` 149-154 knows of it; the
  comment at `triggers.go` 170-172 does not.
* `source_inputs`: without a source, `source.configMaps` and `source.secrets`
  are dropped without a warning, against `README.md` 29.
* `repaired`: a BuildConfig that an earlier run passed through and that has been
  repaired converts, and its Build still carries the old conversion-reason:
  `copyAnnotations` keeps the plugin's own keys.
* `clash`: a BuildConfig with a pull secret and no account of its own gets a
  ServiceAccount of its own name. If the export holds an account of that name,
  the later of the two replaces the other, against `README.md` 12. The plugin
  sees one resource at a time and cannot know. ADR-0006 describes how crane
  overwrites and guards the account that the BuildConfig names;
  `docs/support-matrix.md` 77 tells of rewritten names only.

## What is proved

TLAPS checks the following for all values of the constants: any set of
BuildConfigs and flags, any caps, any number of conversions.

* `ConverterProofs!TypeCorrectness`: the type invariant.
* `ConverterProofs!AttributionCorrectness`: each warning of a conversion names
  its BuildConfig, and an idle Converter attributes to nobody.
* `ConverterProofs!OutcomeSound`: `converted` means no warning of its own;
  `converted-with-warnings` carries exactly its own.
* `ConverterProofs!TimeoutExactness`: a timeout is the deadline, never clamped
  and never wrapped, for every width of a duration.
* `ConverterProofs!PullSecretSafety`: no account beside the one a BuildConfig
  names, and a pull secret on an account or in a warning.
* `ConversionProofs!StrategyLosses`, `SourceLosses`, `OutputLosses`, `SpecLosses`:
  no silent loss. Whatever a BuildConfig says is on its Build or in a warning:
  build args, volumes, every source and mount, image labels, credentials,
  deadline, limits, hooks, each trigger; lists of any length.
* `ConversionProofs!LaterStepsSilent`: a BuildConfig that is skipped or fails is
  reported on by the steps up to the one that refuses it, and by none behind.
  It does not say that nothing is reported: what the strategy step drops is in the
  log of a BuildConfig that is then skipped for want of an output
  (`docs/architecture.md` 155-158).
* `ConversionProofs!AnnotationsStayWritten`: no step writes an annotation that
  an earlier one wrote.
* `ConversionProofs!AnnotationAccounts`: the warnings annotation, its omitted
  count and its notice make up for all of a conversion's warnings.
* `ConversionProofs!InsecurePushes`: an insecure registry is declared where the
  push of that strategy reads it, and only then.
* `ConversionProofs!PartsComeTogether`: resources come with a Build or not at
  all, and the ConfigMap is the one the Build names, with the Dockerfile in it;
  the Build names no other, unless the BuildConfig brought the annotation.
* `ConversionProofs!TemplatesCanRun`: the BuildRun template names its Build and
  the account the BuildConfig names or the emitted one, and goes without only
  where there is no pull secret.
* `ConversionProofs!ConverterKeepsItsContract`: the Converter implements
  `Conversion`. Whether there is a Build, for which reason not, and which kinds
  of resources come out is what the BuildConfig alone decides.
* `ConversionProofs!ChainsNoticed`: every image input that another BuildConfig
  may build is named by a warning or has an info line, no image has two, and none
  that a warning names has one; for BuildConfigs with no strategy block but their
  type's (`OneStrategy`).
* `WarningsCapProofs!CapKept`, `CapKeepsAsManyAsFit`: the annotation never
  exceeds its cap, and it keeps the longest beginning of the list that fits.
* `RegistryMappingProofs!OrderDoesNotDecide`: the registry mapping gives one
  result in every map order.
* `MigrationProofs!MigrationKeepsItsPromise`: a migration implements `Fates`,
  for any exports: each resource is decided once, a BuildConfig goes exactly
  when its Build comes.
* `MigrationProofs!OnlyUndecodableStops`: only a BuildConfig that does not
  decode stops a migration; crane can apply every patch of the plugin.
* `MigrationProofs!MigrationTypeCorrectness`: the type invariant of a migration.
* `MigrationProofs!PassingThroughSaysWhy`: what passes through is what was
  exported, a BuildConfig with its own annotations, its outcome and a reason.
* `MigrationProofs!NothingLost`: where names stay apart (`NamesApart`), each
  exported resource is delivered once, or exactly one Build replaces it.
* `MigrationProofs!PartsOfEachBuild`: where names stay apart, each Build
  delivered finds its own ConfigMap and its own account.
* `MigrationProofs!OwnOutputIsKept`: a run over the output of the run before it
  delivers just that, for any exports and however often.
* `GeneratedNamesProofs!GeneratedNamesAreLabels`, `GeneratedLabelsKept`,
  `RewrittenNamesStayApart`: every generated name is a label, a label stays what
  it is, and rewritten originals stay apart, for every original and limit.
* `ReasonCutProofs!CutReasonFits`, `CutReasonStaysValid`, `CutLosesOneCharacter`:
  the cut reason for every reason and limit.
* `WarningsCapProofs!CapTypeCorrectness`, `RegistryMappingProofs!MappingTypeCorrectness`:
  the type invariants of the two loops.

*Assumptions.* The BuildConfigs and flags have the fields and types of
`BuildConfigs`; the tokens contain those the code writes; the numeric constants
are natural numbers; the omitted-count line fits into the cap (a line of under
200 bytes, a cap of 32 KiB). A source strategy block has no build args, as the
type has no such field. The characters the code puts into a name (`-`, `b`,
`c`) are valid and lower-case, and lowering twice is lowering once.

Of an export: what is a BuildConfig of the build group has a
kind, a group, a namespace, a name and annotations, no other has its namespace and
name, and nothing else in the export is a Build converted from one of its
BuildConfigs; it carries its spec and whether it decodes (`ExportsAssumption`). Of a digest: it is a
character of its own kind, and two originals do not share one
(`DigestAssumption` for the theorems of `GeneratedNames`; of an export, for the
names that are generated from it, `MigratedDigestsAssumption`; only
`RewrittenNamesStayApart`, `NothingLost` and `PartsOfEachBuild` need that two do
not share one). A
limit on names of at least four, a limit on reasons that holds the ellipsis, and reasons
that are valid UTF-8.

`NamesApart` is a hypothesis of two theorems and no assumption, since an export
need not satisfy it: no exported resource has the name of one that is generated,
and no original that stays as it is equals another's rewritten name. What
happens where the first fails is the run `clash`; the second is the gap that
`docs/support-matrix.md` 77 describes. The `remigration` run evaluates it: the
exports of `migration` and `remigration` satisfy it, and one of `clash` does not.

*The Converter's argument.* The type and attribution invariants are not
inductive alone: that a step records well-formed warnings of the right
BuildConfig takes the type of that BuildConfig. `ConverterInv` adds that a call
in progress converts one of `SourceConfigs` and attributes to it
(`CallInProgress`), and that a loop over the strategy block has one
(`BlockPresent`). The thirty-odd actions are not taken one by one for each
conjunct. Three lemmas sort them: every action of `Proceed` appends records
that name `current` (`ProceedRecords`), goes on or returns (`ProceedFrame`), and
keeps the shapes of the Build and the Outcome (`ShapesKept`). Preservation
follows from the three. `OutcomeSound` then takes only the last step, `Classify`,
and that of no warnings none is omitted (`NothingToOmit`). TLC checked `ConverterInv` as an invariant before the
proof.

*The Build's argument.* The timeout and the credentials are settled by one step
each and shipped ten or more later. `ConversionInv` holds them in between: no
resource before the output gate, the credentials settled behind it, the timeout
exact throughout, and in a converted Outcome the Build with those resources.
`SortedSteps` and `TimeoutSteps` sort the actions; a recorded warning stays in the
conversion's own part of the list (`RecordedRemains`), and a product of at most
`MaxTimeoutSeconds` is in range, where it does not wrap (`NoWrapInRange`).

*The losses' argument.* Convert's body makes its calls in one order (`Place`). A
field of the Build is written by one call (`FieldsKept`), and a kind of warning
that a property counts is recorded by one call (`KindsAt`, `KindWriters`). So what
a BuildConfig says is on the Build or in a warning once its call is past (`Past`),
and nothing behind it takes that back. The invariant of each property is that
promise for the calls that are past; within a loop it says the same of the entries
already reached (`Reached`). Where each entry is reported once, the number of
warnings of a kind is tied to the index (`WarnedSoFar`). A refusal adds nothing
but its own reason (`RefusalReports`), and a conversion in progress has not said
that it is skipped (`NotSkippedYet`), so what is reported of a refused BuildConfig
comes from the calls before.

*The annotations' argument.* Every key on the Build is one that the BuildConfig
brought or that a call that is past has written (`KeysInv`), and no two calls
write one key (`OneWriterPerKey`). The count in the warnings annotation lies
within the list (`KeptCountInRange`, as it is the largest of a set that has a
member), so what is kept and what is omitted make up the list, up to the notice
that the truncation itself records.

*Push, parts and template.* The registry flags are read several calls
after the output was written, and the account's name long after the account; the
invariants tie `generatedSA` to the account among the resources and the map's
annotation to the map. That an account named `""` is not taken for none follows
from the names: a name that is not empty is never sanitized to nothing
(`SanitizedNotEmpty`).

*The contract's argument.* Three calls give reasons: the strategy's, the output
gate and the source's. `VerdictInv` says that none of the reasons looked for
before the present call stands, and that a conversion which returned has the
outcome its first reason demands; since the calls come in one order, a reason
that ends a conversion is the first (`Decides`). What the code reads after
defaulting a kind or a namespace is shown to be what `Conversion` reads of the
BuildConfig itself (`StrategyImageJudged`, `ResolvesByKind`). The resources are
the parts that `PartsInv` follows, kind by kind (`PartsAgree`).

*The chained builds' argument.* Three calls decide on one question apart from
each other: `processTriggers` and `processImageSource` whether their warning
names the image as one another BuildConfig may build, `processChainCandidates`
what those two will have named. `PathsNamed` and `TriggersNamed` tie the
recorded warnings to what the last one computes, name by name; a key is a
namespace and a name, and of two candidates both namespaces are the
BuildConfig's, so keys tell exactly what names do (`KeysTellNames`). `ChainInv` adds
that each input the loop is past has its line unless a warning names it, and
that no two lines are equal. The rest is that the loop goes through the inputs
ADR-0009 is about. There the strategy image is read twice, with different
defaults for an empty kind; they differ for a Docker strategy only, where an empty kind
has failed the conversion (`StrategyReadAlike`, and `VerdictInv` for the latter).

*The cap's argument.* What the loop has written leaves the reserved room free.
The room is for the largest count, and a smaller one never has more digits
(`DigitsMonotone`), so the last line fits. Joined lengths only grow with the
list; the first warning that does not leave the room ends the loop, and no longer
beginning leaves it. That the joined length, a recursive function, has a value for
every list is shown by the least list length that would have none.

*The mapping's argument.* Keys before the current one do not apply, those
behind it are not longer; so the first that applies is a longest one. Two
prefixes of one reference with one length are equal (`PrefixesOfOneLength`), so
it is the one `ApplyRegistryMapping` chooses, however ties were broken.

*The migration's argument.* That a step whites a BuildConfig out and writes
its Build is plain from `Respond`; that the Build is its own is not, since it was
built twenty steps before. `CraneInv` therefore follows the conversion: from the
first step on the Build carries the namespace and the name of the BuildConfig
being handled (`Identified`), what else was built is no Build (`OnlyExtras`), and
what a converted Outcome holds is that Build and the rest. `ProceedDelivers` shows
it for every step of `Convert`: five write an annotation, under keys other than
`converted-from` (`KeysOfItsOwn`), and the others leave the annotations alone. A patch
applies because there is an annotation to add below or the whole map is added
(`DispositionApplies`), for which the escaped keys must hold no separator
(`KeysEscaped`). Then each step decides one waiting resource or none
(`StepDecides`), and a Build written for one BuildConfig is not read as another's,
as no two exported ones share a namespace and a name.

A step of a migration is a step of the Converter or puts it back to its start;
so the Converter's invariants hold there too (`SideInv`), and what `Respond` gets
is a concluded conversion of the BuildConfig being handled (`HandlingInv`).
`WrittenInv` then says what is in the output: each resource was passed through or
is a part of a BuildConfig that was whited out, and all of these are there.
Delivering keeps one resource of each key (`DeliveredOnce`). Where names stay
apart no key belongs to two: two BuildConfigs with one generated name in a
namespace were rewritten both, and so have one digest (`RewrittenEnd`,
`SameOriginal`), or were rewritten neither, and so are one (`KeysApart`).
Whatever is delivered under a key is therefore the part it was generated for.

*The second run's argument.* What a conversion answers depends on the
BuildConfig's spec (the contract), which a patch leaves alone; so what was
passed through is refused again for the same reason, and the patch writes what
is there. `RunInv` says of every run that its output is the answer to what it
was given (`Answered`), and of a run over resources that are all passed on, as a
run delivers them, that the answer is those resources; `OneForEachKey` makes
delivering them change nothing.

*The names' argument.* A digest is at the end of every rewritten name and contains no
dash, so two equal names have equal digests; trimming leaves a base of label
characters that begins with one, or `bc` is put in its place.

*The reason's argument.* Cutting a valid text leaves at most one character
without all its bytes, the last. Every character before it ends where the next
begins, so the text is valid again once those bytes are gone.

*Only model-checked.* `ReusedAsFresh`, which compares the warnings of two
conversions of one BuildConfig, one by one, where the proofs count warnings of a
kind; and `OrderMakesNoDifference`, which compares the Builds of two conversions
of one BuildConfig: it needs every field of a Build as a function of the
BuildConfig and the flags, where the proofs here follow what each field is related
to. `ChainNoticedOnce` without `OneStrategy` is not so: with two strategy blocks,
which OpenShift's validation excludes and the types do not, the chain step looks
at the Docker block's image whatever the strategy (`WatchedReference`). Where a
proof needs induction over data (the joined lengths, the positions in a name), it
takes the least counterexample, as the library's induction theorems cannot be used
here.

## Not modelled

* Serialization (`toUnstructured`, `stripSerializationNoise`): reflection over
  Kubernetes types, without state.
* The parsing of the flags' texts (`ParseOptionalFields`, `parseRegistryList`)
  and `Metadata`.
* crane beyond what the plugin relies on: its files and its other plugins.
* The gap that `docs/support-matrix.md` 77 describes, a valid name that equals
  another's rewritten name: the exports of the runs have no such pair, and the
  theorems exclude it by `NamesApart`.
* The wording of warnings, logs and reasons, and the Dockerfile text inside the
  ConfigMap.
* Tests, examples, scripts and documents, read for what they claim.

## Plan

Done, in this order: the Converter with its loops; the migration with the
disposition and its refinement of `Fates`; names; the cut of a reason; theorems
for the safety properties; `Conversion`, which the Converter refines; crane run
again. What is left:

1. `OrderMakesNoDifference` as a theorem, from an invariant that gives each field
   of the Build as a function of the BuildConfig and the flags once its call is
   past.
2. `Migration` over `Conversion` in place of the Converter, for runs over larger
   exports.

## Running

    tlc -workers 2 -config MCOutputs.cfg MCConversions
    tlc -workers 2 -config MCWarningsCap.cfg MCWarningsCap
    tlc -workers 2 -config MCMigration.cfg MCMigration
    tlapm ConverterProofs.tla
    tlapm MigrationProofs.tla

`PROJECT.json` names the runs with their properties, the mutation of the code
that each property catches, the lines each definition models, and the hazards.
