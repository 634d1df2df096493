---------------------------- MODULE BuildConfigs ----------------------------
(***************************************************************************)
(* The data the conversion reads: the fields of an OpenShift BuildConfig   *)
(* (openshift/api build/v1, external) that src/buildconfig touches, and    *)
(* the plugin flags (PluginOptionalFields, src/buildconfig/plugin.go).     *)
(*                                                                         *)
(* A nil pointer to a name is Nil, which no name equals; a nil pointer to  *)
(* a number is the empty sequence; a nil strategy block is absent from the *)
(* domain of "blocks"; a nil or nameless object reference has the empty    *)
(* name, since the code treats the two alike everywhere.                   *)
(***************************************************************************)
EXTENDS Integers, Sequences, ImageReferences

OptionalInt == {s \in Seq(Int) : Len(s) <= 1}

ObjectReference == [kind : STRING, ns : Text, name : Text]

NoReference == [kind |-> "", ns |-> Empty, name |-> Empty]

\* from "value" is an arg without valueFrom; "field" is fieldRef or
\* resourceFieldRef; "none" is a valueFrom with no known source.
BuildArg == [name : Text, from : {"value", "configMap", "secret", "field", "none"},
             literal : BOOLEAN,     \* the value is not empty
             complete : BOOLEAN,    \* the key reference has a name and a key
             optional : BOOLEAN]

\* "set" says that the source the type announces is not nil.
BuildVolume == [name : Text, type : STRING, set : BOOLEAN]

\* dockerStrategy and sourceStrategy, which has no build args.  "switches" holds
\* the fields that become one parameter each.
StrategyBlock == [from : ObjectReference, env : Seq(Text), switches : SUBSET STRING,
                  buildArgs : Seq(BuildArg), volumes : Seq(BuildVolume),
                  pullSecret : Text]

ImageSource == [from : ObjectReference, as : BOOLEAN, paths : BOOLEAN, pullSecret : Text]

BuildSource == [git : Text, ref : Text, proxies : SUBSET STRING, binary : Text,
                images : Seq(ImageSource), secret : Text, contextDir : Text,
                configMaps : Seq(Text), secrets : Seq(Text), dockerfile : Text]

ImageLabel == [name : Text, value : Text]

BuildOutput == [to : ObjectReference, pushSecret : Text, labels : Seq(ImageLabel)]

Trigger == [type : STRING, from : ObjectReference]

IsMap(f, keys, values) == /\ DOMAIN f \subseteq keys
                          /\ f \in [DOMAIN f -> values]

BuildConfigFields ==
  {"ns", "name", "annotations", "labels", "type", "blocks", "source", "output",
   "serviceAccount", "deadline", "nodeSelector", "runPolicy", "postCommit",
   "succeededLimit", "failedLimit", "triggers", "resources"}

IsBuildConfig(c) ==
  /\ DOMAIN c = BuildConfigFields
  /\ c.ns \in Text
  /\ c.name \in Text \ {Empty}
  /\ IsMap(c.annotations, Text, [text : Text])
  /\ c.labels \subseteq Text
  /\ c.type \in STRING
  /\ IsMap(c.blocks, {"Docker", "Source"}, StrategyBlock)
  /\ "Source" \in DOMAIN c.blocks => c.blocks["Source"].buildArgs = <<>>
  /\ c.source \in BuildSource
  /\ c.output \in BuildOutput
  /\ c.serviceAccount \in Text
  /\ c.deadline \in OptionalInt
  /\ c.nodeSelector \subseteq [key : STRING, valid : BOOLEAN]
  /\ c.runPolicy \in STRING
  /\ c.postCommit \subseteq {"script", "command", "args"}
  /\ c.succeededLimit \in OptionalInt
  /\ c.failedLimit \in OptionalInt
  /\ c.triggers \in Seq(Trigger)
  /\ c.resources \in BOOLEAN     \* requests or limits are set

IsOptions(o) ==
  /\ DOMAIN o = {"registry", "imageStream", "strategy", "search", "insecure", "block"}
  /\ IsMap(o.registry, Text, Text)
  /\ IsMap(o.imageStream, Text, Text)
  /\ IsMap(o.strategy, STRING, Text)
  /\ {o.search, o.insecure, o.block} \subseteq Seq(Text)

-----------------------------------------------------------------------------
(* The plainest convertible BuildConfig, and no flags: what the model-       *)
(* checking instances vary.                                                  *)

PlainBlock ==
  [from |-> NoReference, env |-> <<>>, switches |-> {}, buildArgs |-> <<>>,
   volumes |-> <<>>, pullSecret |-> Nil]

PlainSource ==
  [git |-> <<"https://git">>, ref |-> Empty, proxies |-> {}, binary |-> Nil,
   images |-> <<>>, secret |-> Nil, contextDir |-> Empty, configMaps |-> <<>>,
   secrets |-> <<>>, dockerfile |-> Nil]

PlainOutput ==
  [to |-> [kind |-> "DockerImage", ns |-> Empty, name |-> <<"quay.io", "/", "web">>],
   pushSecret |-> <<"push">>, labels |-> <<>>]

PlainBuildConfig ==
  [ns |-> <<"shop">>, name |-> <<"web">>,
   annotations |-> [key \in {} |-> [text |-> Empty]], labels |-> {},
   type |-> "Docker", blocks |-> [t \in {"Docker"} |-> PlainBlock],
   source |-> PlainSource, output |-> PlainOutput, serviceAccount |-> Empty,
   deadline |-> <<>>, nodeSelector |-> {}, runPolicy |-> "Parallel",
   postCommit |-> {}, succeededLimit |-> <<>>, failedLimit |-> <<>>,
   triggers |-> <<>>, resources |-> FALSE]

NoFlags ==
  [registry |-> [key \in {} |-> Empty], imageStream |-> [key \in {} |-> Empty],
   strategy |-> [key \in {} |-> Empty], search |-> <<>>, insecure |-> <<>>,
   block |-> <<>>]

=============================================================================
