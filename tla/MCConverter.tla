---------------------------- MODULE MCConverter ----------------------------
(***************************************************************************)
(* Instances of the Converter for TLC: each set of BuildConfigs varies one *)
(* group of fields and leaves the others plain.                            *)
(***************************************************************************)
EXTENDS ConversionProperties

MCTokens == STRING
MCInvalidChars == {".", "_"}
MCLowered == [c \in {"Web"} |-> "web"]
MCDigest(original) == ToString(original)

Ref(kind, ns, name) == [kind |-> kind, ns |-> ns, name |-> name]
Tag(name) == Ref("ImageStreamTag", Empty, <<name, ":", "v1">>)
Elsewhere(name) == Ref("ImageStreamTag", <<"ops">>, <<name, ":", "v1">>)
Flags(registry, imageStream, strategy, insecure) ==
  [NoFlags EXCEPT !.registry = registry, !.imageStream = imageStream,
                  !.strategy = strategy, !.insecure = insecure]
NoFlagSet == {NoFlags}
None == [key \in {} |-> Empty]
To(key, value) == [k \in {key} |-> value]

ToQuay == To(InternalRegistryURL, <<"quay.io", "/", "mig">>)
MapBase == To(<<"shop", "/", "base", ":", "v1">>, <<"quay.io", "/", "base">>)

\* Configs with one block only, of the type of the strategy.
OfType(c, type, block) == [c EXCEPT !.type = type, !.blocks = [t \in {type} |-> block]]

-----------------------------------------------------------------------------
(* Strategy: the block's fields, and flags that change what they become *)

StrategyImages ==
  {NoReference, Tag("base"), Elsewhere("base"), Ref("", Empty, <<"base">>),
   Ref("DockerImage", Empty, <<"base">>), Ref("DockerImage", Empty, <<"quay.io", "/", "x">>),
   Ref("Bogus", Empty, <<"base">>)}

Arg(name, from, literal, complete, optional) ==
  [name |-> name, from |-> from, literal |-> literal, complete |-> complete,
   optional |-> optional]
BuildArgSet ==
  {Arg(<<"A">>, "value", TRUE, FALSE, FALSE), Arg(<<"A", "=">>, "value", TRUE, FALSE, FALSE),
   Arg(Empty, "value", FALSE, FALSE, FALSE),
   Arg(<<"B">>, "configMap", TRUE, TRUE, FALSE), Arg(<<"B">>, "secret", FALSE, FALSE, TRUE),
   Arg(<<"C">>, "secret", FALSE, TRUE, TRUE), Arg(<<"C">>, "field", FALSE, FALSE, FALSE),
   Arg(<<"A">>, "none", TRUE, FALSE, FALSE)}

Volume(name, type, set) == [name |-> name, type |-> type, set |-> set]
VolumeSet ==
  {Volume(<<"v">>, "Secret", TRUE), Volume(<<"v">>, "ConfigMap", TRUE),
   Volume(<<"v">>, "CSI", TRUE), Volume(<<"v">>, "Secret", FALSE),
   Volume(<<"w">>, "ConfigMap", TRUE), Volume(Empty, "Secret", TRUE)}

SwitchSets == {{}, {"no-cache", "squash"}, {"pull", "dockerfile"},
               {"incremental"}, {"scripts-url", "pull-policy"}}

WithOutputs(configs) ==
  configs \union {[c EXCEPT !.output.to = NoReference, !.postCommit = {"script"}] : c \in configs}

StrategyCases ==
  WithOutputs(
    {OfType(PlainBuildConfig, type, [PlainBlock EXCEPT !.from = from, !.switches = switches]) :
       type \in {"Docker", "Source"}, from \in StrategyImages, switches \in SwitchSets}
    \union {OfType(PlainBuildConfig, type, [PlainBlock EXCEPT !.volumes = volumes]) :
       type \in {"Docker", "Source"}, volumes \in SeqOf(VolumeSet, 3)}
    \union {OfType(PlainBuildConfig, "Docker", [PlainBlock EXCEPT !.buildArgs = args]) :
       args \in SeqOf(BuildArgSet, 2)}
    \union {[PlainBuildConfig EXCEPT !.type = type, !.blocks = [t \in {} |-> PlainBlock],
                                     !.resources = resources] :
       type \in {"Docker", "Source", "Custom", "JenkinsPipeline", ""}, resources \in BOOLEAN})

StrategyFlags ==
  {NoFlags, Flags(ToQuay, None, None, <<>>),
   Flags(None, MapBase, [k \in {"docker", "s2i"} |-> <<"custom">>], <<>>)}

-----------------------------------------------------------------------------
(* Source: which sources are present, and what hangs on them *)

Image(from, as, paths, pullSecret) ==
  [from |-> from, as |-> as, paths |-> paths, pullSecret |-> pullSecret]
ImageLists ==
  {<<>>, <<Image(Tag("base"), FALSE, FALSE, Nil)>>, <<Image(Tag("base"), TRUE, TRUE, <<"p">>)>>,
   <<Image(Elsewhere("base"), FALSE, TRUE, Nil)>>, <<Image(Ref("", Empty, <<"x">>), TRUE, FALSE, Nil)>>,
   <<Image(Tag("base"), FALSE, FALSE, Nil), Image(Tag("x"), FALSE, FALSE, Nil)>>}

SourceCases ==
  {[PlainBuildConfig EXCEPT
      !.source = [PlainSource EXCEPT !.git = git, !.binary = binary, !.images = images,
                                     !.secret = secret, !.contextDir = copied.dir,
                                     !.configMaps = mounts, !.secrets = mounts,
                                     !.proxies = copied.proxies, !.dockerfile = dockerfile],
      !.blocks = [t \in {"Docker"} |-> [PlainBlock EXCEPT !.pullSecret = pull]]] :
     git \in {Nil, <<"https://git">>}, binary \in {Nil, Empty, <<"app.jar">>},
     images \in ImageLists, secret \in {Nil, Empty, <<"key">>},
     copied \in {[dir |-> Empty, proxies |-> {}], [dir |-> <<"sub">>, proxies |-> {"http", "no"}]},
     mounts \in {<<>>, <<<<"m">>, <<"n">>>>},
     dockerfile \in {Nil, <<"FROM x">>}, pull \in {Nil, <<"p">>}}

-----------------------------------------------------------------------------
(* Chained builds: strategy image, source image and triggers naming one      *)
(* image or several                                                          *)

TriggerSet ==
  {[type |-> type, from |-> from] :
     type \in {"ImageChange", "imageChange"}, from \in {NoReference, Tag("base"), Elsewhere("base")}}
  \union {[type |-> type, from |-> NoReference] :
     type \in {"ConfigChange", "GitHub", "generic", "Unheard"}}

ChainTriggers ==
  {[type |-> "ImageChange", from |-> from] :
     from \in {NoReference, Tag("base"), Elsewhere("base")}}
  \union {[type |-> "imageChange", from |-> Tag("other")],
          [type |-> "ConfigChange", from |-> NoReference]}

ChainCases ==
  {[OfType(PlainBuildConfig, type, [PlainBlock EXCEPT !.from = from]) EXCEPT
      !.source.git = IF images = <<>> THEN @ ELSE Nil,
      !.source.images = images, !.triggers = triggers] :
     type \in {"Docker", "Source"},
     from \in {NoReference, Tag("base"), Tag("other"), Elsewhere("base"), Ref("", Empty, <<"other">>)},
     images \in {<<>>} \union {<<Image(ref, FALSE, paths, Nil)>> :
                                 ref \in {Tag("base"), Tag("other"), Elsewhere("base")},
                                 paths \in BOOLEAN},
     triggers \in SeqOf(ChainTriggers, 2)}

ChainFlags ==
  {NoFlags,
   Flags(None, [k \in {<<"shop", "/", name, ":", "v1">> : name \in {"base", "other"}} |->
                  <<"quay.io", "/", "one">>], None, <<>>)}

-----------------------------------------------------------------------------
(* Limits, node selectors, policies and hooks *)

Limits == {<<>>, <<0>>, <<1>>, <<2>>, <<3>>}
SpecCases ==
  {[PlainBuildConfig EXCEPT !.deadline = deadline, !.succeededLimit = succeeded,
                            !.failedLimit = failed, !.nodeSelector = selector] :
     deadline \in {<<>>, <<-1>>, <<0>>, <<1>>, <<6>>, <<7>>, <<14>>},
     succeeded \in Limits, failed \in Limits,
     selector \in SUBSET {[key |-> "a", valid |-> TRUE], [key |-> "b", valid |-> FALSE],
                          [key |-> "c", valid |-> TRUE]}}
  \union
  {[PlainBuildConfig EXCEPT !.runPolicy = policy, !.postCommit = hook, !.resources = resources,
                            !.triggers = triggers] :
     policy \in {"", "Parallel", "Serial", "SerialLatestOnly", "Other"},
     hook \in SUBSET {"script", "command", "args"}, resources \in BOOLEAN,
     triggers \in SeqOf(TriggerSet, 1)}

-----------------------------------------------------------------------------
(* Credentials, generated names and the template *)

CredentialCases ==
  {[OfType(PlainBuildConfig, type, [PlainBlock EXCEPT !.pullSecret = pull]) EXCEPT
      !.name = name, !.serviceAccount = account, !.resources = resources,
      !.source.dockerfile = dockerfile, !.source.images = ends.images, !.output.to = ends.to,
      !.annotations = annotations, !.labels = DOMAIN annotations,
      !.triggers = IF account = Empty THEN <<>>
                   ELSE <<[type |-> "ConfigChange", from |-> NoReference]>>] :
     type \in {"Docker", "Source"}, pull \in {Nil, Empty, <<"p">>},
     name \in {<<"web">>, <<"Web">>, <<"web", ".", "_", "x", "-">>, <<"a", "b", "c", "d", "e", "f">>},
     account \in {Empty, <<"robot">>}, resources \in BOOLEAN,
     dockerfile \in {Nil, Empty, <<"FROM x">>},
     ends \in {[images |-> <<>>, to |-> PlainOutput.to], [images |-> <<>>, to |-> NoReference],
               [images |-> <<Image(Tag("base"), FALSE, FALSE, Nil)>>, to |-> PlainOutput.to]},
     annotations \in {[key \in {} |-> [text |-> Empty]],
                      [key \in {<<"team">>, <<"openshift.io/", "generated-by">>,
                                <<"openshift.io/", "build", ".name">>, <<"buildconfig">>}
                         |-> [text |-> <<"x">>]]}}

OverrideFlags ==
  {NoFlags, Flags(None, None, [k \in {"docker", "s2i"} |-> <<"custom">>], <<>>),
   Flags(None, None, [k \in {"docker", "s2i"} |-> Empty], <<>>)}

-----------------------------------------------------------------------------
(* Output images, their labels, and insecure registries *)

Label(name, value) == [name |-> name, value |-> value]
LabelSet == {Label(<<"a">>, <<"1">>), Label(<<"a">>, <<"2">>), Label(<<"b">>, <<"1">>),
             Label(Empty, <<"1">>)}
OutputImages ==
  {PlainOutput.to, Ref("DockerImage", Empty, <<"reg">>), Tag("web"),
   Ref("ImageStreamTag", Empty, <<"web">>), Elsewhere("web")}

OutputCases ==
  {[OfType(PlainBuildConfig, type, PlainBlock) EXCEPT
      !.output = [to |-> to, pushSecret |-> secret, labels |-> labels]] :
     type \in {"Docker", "Source"}, to \in OutputImages, secret \in {Nil, Empty, <<"push">>},
     labels \in SeqOf(LabelSet, 1)}
LabelCases == {[PlainBuildConfig EXCEPT !.output.labels = labels] : labels \in SeqOf(LabelSet, 4)}

OutputFlags ==
  {[Flags(registry, imageStream, strategy, insecure) EXCEPT !.search = <<<<"quay.io">>>>,
                                                            !.block = blocked] :
     registry \in {None, ToQuay},
     imageStream \in {None, To(<<"shop", "/", "web", ":", "latest">>, <<"reg", "/", "web">>)},
     strategy \in {None, [k \in {"docker", "s2i"} |-> <<"source-to-image">>]},
     insecure \in {<<>>, <<<<"quay.io">>>>, <<<<"reg">>, <<"quay.io">>>>},
     blocked \in {<<>>, <<<<"bad.io">>>>}}

-----------------------------------------------------------------------------
(* One Converter for several BuildConfigs *)

Clean == PlainBuildConfig
Lossy == [OfType([PlainBuildConfig EXCEPT !.name = <<"lossy">>], "Docker",
            [PlainBlock EXCEPT !.volumes = <<Volume(<<"v">>, "Secret", TRUE),
                                             Volume(<<"v">>, "CSI", TRUE)>>])
            EXCEPT !.triggers = <<[type |-> "ConfigChange", from |-> NoReference]>>,
                   !.resources = TRUE]
Failing == [OfType([PlainBuildConfig EXCEPT !.name = <<"failing">>], "Docker",
              [PlainBlock EXCEPT !.pullSecret = <<"p">>, !.from = Tag("base")])
              EXCEPT !.source.binary = <<"app.jar">>, !.source.dockerfile = <<"FROM x">>]
Incremental == OfType([PlainBuildConfig EXCEPT !.name = <<"slow">>], "Source",
                 [PlainBlock EXCEPT !.switches = {"incremental"}])
WithoutOutput == [Incremental EXCEPT !.name = <<"blind">>, !.output.to = NoReference,
                                     !.postCommit = {"script"}]
Jenkins == [PlainBuildConfig EXCEPT !.type = "JenkinsPipeline", !.name = <<"pipe">>]

ReuseCases == {Clean, Lossy, Failing, Incremental, WithoutOutput, Jenkins}

-----------------------------------------------------------------------------
(* BuildConfigs behind the documentation's claims *)

TemplateCases ==
  {[PlainBuildConfig EXCEPT !.triggers = triggers, !.resources = resources] :
     triggers \in SeqOf(TriggerSet, 2), resources \in BOOLEAN}

\* A BuildConfig an earlier run passed through and annotated, repaired since.
RepairedCases ==
  {[PlainBuildConfig EXCEPT
      !.annotations = [key \in {OutcomeAnnotation, ReasonAnnotation} |-> [text |-> <<"skipped">>]],
      !.output.to = to] : to \in OutputImages \union {NoReference}}

=============================================================================
