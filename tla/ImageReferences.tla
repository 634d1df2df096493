-------------------------- MODULE ImageReferences --------------------------
(***************************************************************************)
(* How an image reference of a BuildConfig becomes a pull spec             *)
(* (src/buildconfig/imagestream.go, and the output side of converter.go).  *)
(*                                                                         *)
(* The text between two separators of a reference is one token or several, *)
(* so that a mapping key can end inside a path component, as               *)
(* strings.HasPrefix allows.  Options are the plugin flags, a record whose *)
(* fields registry, imageStream and strategy are partial functions.        *)
(***************************************************************************)
EXTENDS Naturals, Sequences, SequencesExt, Texts

InternalRegistryURL ==
  <<"image-registry.openshift-image-registry.svc", Colon, "5000">>

-----------------------------------------------------------------------------
(* Registry mapping *)

\* The entries that can apply: an empty key would match everything and an
\* empty value would leave a reference without a registry, so both are
\* ignored.
UsableEntries(ref, mapping) ==
  {key \in DOMAIN mapping : /\ key # Empty
                            /\ IsPrefix(key, ref)
                            /\ mapping[key] # Empty}

\* The longest usable key wins.  Two keys of one length that both match are
\* the same key, so the lexical tie-break never decides (RegistryMapping).
ApplyRegistryMapping(ref, mapping) ==
  LET usable == UsableEntries(ref, mapping)
      longest == CHOOSE key \in usable :
                   \A other \in usable : Len(other) <= Len(key)
  IN  IF usable = {}
      THEN ref
      ELSE mapping[longest] \o SubSeq(ref, Len(longest) + 1, Len(ref))

-----------------------------------------------------------------------------
(* Resolution of an image input *)

ImageKey(ns, name) == ns \o <<Slash>> \o name

Fallback(ns, name) == InternalRegistryURL \o <<Slash>> \o ImageKey(ns, name)

Resolved(image, doubtful) == [ok |-> TRUE, image |-> image, doubtful |-> doubtful]
Unresolvable == [ok |-> FALSE, image |-> Empty, doubtful |-> FALSE]

ImageStreamKinds == {"ImageStreamTag", "ImageStreamImage"}

\* "doubtful" stands for the warning the code returns beside the image.
ResolveImageRef(kind, name, ns, opts) ==
  LET remap(image) == ApplyRegistryMapping(image, opts.registry)
      mapped == ImageKey(ns, name) \in DOMAIN opts.imageStream
      target == opts.imageStream[ImageKey(ns, name)]
  IN  CASE kind = "DockerImage" /\ Contains(name, Slash) ->
             Resolved(remap(name), FALSE)
        [] kind = "DockerImage" /\ ~Contains(name, Slash) /\ mapped ->
             Resolved(remap(target), FALSE)
        [] kind = "DockerImage" /\ ~Contains(name, Slash) /\ ~mapped ->
             Resolved(remap(name), remap(name) = name)
        [] kind \in ImageStreamKinds /\ mapped ->
             Resolved(remap(target), FALSE)
        [] kind \in ImageStreamKinds /\ ~mapped ->
             LET fallback == Fallback(ns, name)
             IN  Resolved(remap(fallback), remap(fallback) = fallback)
        [] OTHER -> Unresolvable

-----------------------------------------------------------------------------
(* Resolution of the output image *)

WithDefaultTag(name) ==
  IF Contains(name, Colon) THEN name ELSE name \o <<Colon, "latest">>

OutputIsMapped(ns, name, opts) ==
  ImageKey(ns, WithDefaultTag(name)) \in DOMAIN opts.imageStream

\* spec.output.to of kind ImageStreamTag; any other kind is copied as written.
OutputImage(kind, name, ns, opts) ==
  LET tagged == WithDefaultTag(name)
  IN  CASE kind # "ImageStreamTag" -> name
        [] kind = "ImageStreamTag" /\ OutputIsMapped(ns, name, opts) ->
             ApplyRegistryMapping(opts.imageStream[ImageKey(ns, tagged)], opts.registry)
        [] OTHER -> ApplyRegistryMapping(Fallback(ns, tagged), opts.registry)

OnInternalRegistry(image) == IsPrefix(InternalRegistryURL \o <<Slash>>, image)

\* Everything before the first "/".
ImageRegistryHost(image) ==
  IF Contains(image, Slash)
  THEN SubSeq(image, 1, SelectInSeq(image, LAMBDA token : token = Slash) - 1)
  ELSE image

=============================================================================
