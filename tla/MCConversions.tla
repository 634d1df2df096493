--------------------------- MODULE MCConversions ---------------------------
(***************************************************************************)
(* Instances of the Converter for TLC that put groups of BuildConfigs      *)
(* together.  A group goes with the flags that its fields meet, and with   *)
(* the number of BuildConfigs that one Converter converts.                 *)
(***************************************************************************)
EXTENDS MCConverter

CONSTANT Groups     \* the groups of a run

Group(configs, flags, inTurn) ==
  [configs |-> configs, flags |-> flags, inTurn |-> inTurn]

Conversions ==
  {Group(StrategyCases, StrategyFlags, 1), Group(SourceCases, NoFlagSet, 1),
   Group(CredentialCases, OverrideFlags, 1)}

Outputs ==
  {Group(OutputCases, OutputFlags, 1), Group(LabelCases, NoFlagSet, 1),
   Group(ChainCases, ChainFlags, 1), Group(SpecCases, NoFlagSet, 1),
   Group(ReuseCases, NoFlagSet, 3)}

ConversionCases == StrategyCases \union SourceCases \union CredentialCases
VariedOutputs ==
  ReuseCases \union LabelCases \union OutputCases \union SpecCases \union ChainCases

\* What the constants stand for.  TLC evaluates these bodies at every use, and
\* the sets they name only once.
ConversionGroups == Conversions
ConversionConfigs == ConversionCases
ConversionFlags == StrategyFlags \union OverrideFlags
OutputGroups == Outputs
OutputConfigs == VariedOutputs
OutputFlagSets == OutputFlags \union ChainFlags

\* The next BuildConfig is one of the same group as those before.
ConvertNext ==
  \E group \in Groups :
    /\ opts \in group.flags
    /\ conversions < group.inTurn
    /\ conversions > 0 => bc \in group.configs
    /\ \E c \in group.configs : Convert(c)

\* A Converter may be called no more.  With that as a step of its own, a call
\* that does not return is a deadlock.
Unused == step = "idle" /\ UNCHANGED vars

GroupsSpec == Init /\ [][ConvertNext \/ Proceed \/ Unused]_vars

=============================================================================
