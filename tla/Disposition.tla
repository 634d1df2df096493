---------------------------- MODULE Disposition ----------------------------
(***************************************************************************)
(* The JSON patch that stamps the outcome onto a BuildConfig the plugin    *)
(* passes through (src/buildconfig/disposition.go), and what crane makes   *)
(* of it (RFC 6902 and 6901, external).                                    *)
(*                                                                         *)
(* Paths are written out as far as the escaping and the lookup see them:   *)
(* the separators and the escapes are tokens, the rest of a name is one.   *)
(* An object without annotations has the empty map.  The reason is the     *)
(* kind of the reason the Outcome carries: how its text is cut is the      *)
(* module ReasonCut.                                                       *)
(***************************************************************************)
EXTENDS Sequences, SequencesExt, Converter

Tilde == "~"
AnnotationsPath == <<Slash, "metadata", Slash, "annotations">>

\* strings.ReplaceAll for one token.
Substitute(s, token, by) ==
  FlattenSeq([k \in DOMAIN s |-> IF s[k] = token THEN by ELSE <<s[k]>>])

\* Mutant: the separator is escaped first, and its escape escaped again.
EscapeSlashFirst(token) ==
  Substitute(Substitute(token, Slash, <<Tilde, "1">>), Tilde, <<Tilde, "0">>)

EscapeJSONPointer(token) ==
  Substitute(Substitute(token, Tilde, <<Tilde, "0">>), Slash, <<Tilde, "1">>)

Add(path, value) == <<[path |-> path, value |-> value]>>
AnnotationPath(key) == AnnotationsPath \o <<Slash>> \o EscapeJSONPointer(key)

StampedAnnotations(o) ==
  [key \in {OutcomeAnnotation} \union (IF o.reason # "" THEN {ReasonAnnotation} ELSE {}) |->
     [text |-> <<IF key = OutcomeAnnotation THEN o.state ELSE o.reason>>]]

\* Mutant: the whole map is added, whatever the object carries.
PatchWithWholeMap(annotations, o) == Add(AnnotationsPath, StampedAnnotations(o))

\* Mutant: the keys are added one by one, whatever the object carries.
PatchByKey(annotations, o) ==
  LET stamped == StampedAnnotations(o)
      addKey(key) == IF key \in DOMAIN stamped
                     THEN Add(AnnotationPath(key), stamped[key]) ELSE <<>>
  IN  addKey(OutcomeAnnotation) \o addKey(ReasonAnnotation)

\* Mutant: a reason that is there already is added to.
PatchExtendingReason(annotations, o) ==
  LET stamped == StampedAnnotations(o)
      old == IF ReasonAnnotation \in DOMAIN annotations
             THEN annotations[ReasonAnnotation].text ELSE <<>>
  IN  IF DOMAIN annotations = {}
      THEN Add(AnnotationsPath, stamped)
      ELSE Add(AnnotationPath(OutcomeAnnotation), stamped[OutcomeAnnotation])
             \o Add(AnnotationPath(ReasonAnnotation), [text |-> old \o <<o.reason>>])

\* "add" below a map that is not there fails, so an object without annotations
\* gets the map in one operation, and any other one operation per key.
DispositionPatch(annotations, o) ==
  LET stamped == StampedAnnotations(o)
      addKey(key) == IF key \in DOMAIN stamped
                     THEN Add(AnnotationPath(key), stamped[key]) ELSE <<>>
  IN  IF DOMAIN annotations = {}
      THEN Add(AnnotationsPath, stamped)
      ELSE addKey(OutcomeAnnotation) \o addKey(ReasonAnnotation)

-----------------------------------------------------------------------------
(* crane applies the patch (external) *)

\* The tokens an escaped one stands for: "~1" is a separator, "~0" a tilde.
Unescape(token) ==
  LET escaped(k) == k > 1 /\ token[k - 1] = Tilde
      plain == [k \in DOMAIN token |->
                  IF token[k] = Tilde THEN <<>>
                  ELSE IF escaped(k) THEN <<IF token[k] = "1" THEN Slash ELSE Tilde>>
                  ELSE <<token[k]>>]
  IN  FlattenSeq(plain)

\* One "add".  Its parent has to be there: no map, or a path that goes on
\* below a key, is an error.
ApplyAdd(annotations, op) ==
  LET key == SubSeq(op.path, Len(AnnotationsPath) + 2, Len(op.path))
  IN  IF op.path = AnnotationsPath
      THEN [ok |-> TRUE, annotations |-> op.value]
      ELSE IF DOMAIN annotations = {} \/ Contains(key, Slash)
      THEN [ok |-> FALSE, annotations |-> annotations]
      ELSE [ok |-> TRUE, annotations |-> With(annotations, Unescape(key), op.value)]

\* The operations in order, up to the first that fails: a disposition patch
\* has one or two (DispositionPatch).
ApplyPatch(annotations, patch) ==
  LET first == ApplyAdd(annotations, patch[1])
  IN  IF first.ok /\ Len(patch) = 2 THEN ApplyAdd(first.annotations, patch[2]) ELSE first

=============================================================================
