----------------------------- MODULE Migration -----------------------------
(***************************************************************************)
(* A migration: crane hands every exported resource to the plugin, one at  *)
(* a time, and does what the plugin's response says.                       *)
(*                                                                         *)
(* crane is external and is modelled from what src/buildconfig/plugin.go   *)
(* and the documents rely on: it starts the plugin once for each resource, *)
(* in an order of its own, passes the same flags each time, keeps the last *)
(* of two resources with one name, and aborts on an error.  The plugin is  *)
(* Run (plugin.go) around one conversion by a fresh Converter; "handling"  *)
(* holds the BuildConfig it was given while that conversion runs.          *)
(***************************************************************************)
EXTENDS Disposition

CONSTANT Exports     \* the sets of resources that may have been exported

VARIABLES
  export,      \* the exported resources
  pending,     \* those crane has not handed over yet
  handling,    \* the BuildConfig being converted, in a set of one, or none
  whiteouts,   \* the resources left out of the output
  output,      \* the resources written, in order
  aborted      \* crane has stopped on an error

craneVars == <<export, pending, handling, whiteouts, output, aborted>>
migrationVars == <<vars, craneVars>>

\* An exported resource has a kind, a namespace and a name; of kind BuildConfig
\* also a group, annotations, a spec, and whether it decodes.

\* Mutant: a BuildConfig is recognised by its kind alone.
HandledByKind(u) == u.kind = "BuildConfig"

Handled(u) == u.kind = "BuildConfig" /\ u.group = "build.openshift.io"
Decoded(u) == [u.spec EXCEPT !.ns = u.ns, !.name = u.name, !.annotations = u.annotations]

ASSUME MigrationAssumption ==
  \A resources \in Exports : \A u \in resources :
    Handled(u) /\ u.decodable => Decoded(u) \in SourceConfigs

-----------------------------------------------------------------------------
(* The plugin's response *)

PassThrough == [whiteOut |-> FALSE, newResources |-> <<>>, patch |-> <<>>]

\* Mutant: a failed BuildConfig is whited out as well.
ResponseWhitingOutFailed(u, o) ==
  IF o.state = "skipped"
  THEN [PassThrough EXCEPT !.patch = DispositionPatch(u.annotations, o)]
  ELSE [whiteOut |-> TRUE, newResources |-> o.resources, patch |-> <<>>]

\* Run's switch.  A state it does not know passes through as it is.
Response(u, o) ==
  IF o.state \in {"failed", "skipped"}
  THEN [PassThrough EXCEPT !.patch = DispositionPatch(u.annotations, o)]
  ELSE IF o.state \in ConvertedStates
  THEN [whiteOut |-> TRUE, newResources |-> o.resources, patch |-> <<>>]
  ELSE PassThrough

-----------------------------------------------------------------------------
(* crane *)

Key(r) == <<r.kind, IF r.kind = "BuildConfig" THEN r.group ELSE "", r.ns, r.name>>

\* What is left of the output once a duplicate has replaced the one before it.
Delivered ==
  {output[k] : k \in {k \in DOMAIN output :
                        \A j \in (k + 1)..Len(output) : Key(output[j]) # Key(output[k])}}

Patched(u, patch) ==
  IF patch = <<>> THEN u
  ELSE [u EXCEPT !.annotations = ApplyPatch(@, patch).annotations]

Applies(u, patch) == patch # <<>> => ApplyPatch(u.annotations, patch).ok

\* crane does what a response says of u.
Dispose(u, response) ==
  /\ whiteouts' = whiteouts \union {x \in {u} : response.whiteOut}
  /\ output' = output \o If(~response.whiteOut, Patched(u, response.patch))
                      \o response.newResources
  /\ aborted' = ~Applies(u, response.patch)

Ready(u) == ~aborted /\ handling = {} /\ u \in pending
\* Mutant: a resource stays with those to hand over.
TakeAgain(u) == UNCHANGED <<export, pending>>

Take(u) == /\ pending' = pending \ {u}
           /\ UNCHANGED export

\* Anything but a BuildConfig of the build group: an empty response.
PassOther(u) ==
  /\ Ready(u)
  /\ ~Handled(u)
  /\ Take(u)
  /\ Dispose(u, PassThrough)
  /\ UNCHANGED <<vars, handling>>

\* Run's one error that can occur.  (Flags always parse, and an object crane
\* has decoded encodes.)
FailToDecode(u) ==
  /\ Ready(u)
  /\ Handled(u) /\ ~u.decodable
  /\ Take(u)
  /\ aborted' = TRUE
  /\ UNCHANGED <<vars, handling, whiteouts, output>>

StartConversion(u) ==
  /\ Ready(u)
  /\ Handled(u) /\ u.decodable
  /\ Take(u)
  /\ handling' = {u}
  /\ Convert(Decoded(u))
  /\ UNCHANGED <<whiteouts, output, aborted>>

GoOn ==
  /\ handling # {}
  /\ Proceed
  /\ UNCHANGED craneVars

\* The plugin's process ends; the next one starts with a fresh Converter.
FreshConverter ==
  /\ warnings' = <<>>
  /\ current' = NoConfig
  /\ conversions' = 0
  /\ step' = "idle"
  /\ item' = 1
  /\ bc' = PlainBuildConfig
  /\ startWarnings' = 0
  /\ b' = EmptyBuild
  /\ newResources' = <<>>
  /\ generatedSA' = Empty
  /\ notices' = <<>>
  /\ outcome' = NoOutcome
  /\ UNCHANGED opts

Respond ==
  /\ step = "idle"
  /\ \E u \in handling : \E response \in {Response(u, outcome)} : Dispose(u, response)
  /\ handling' = {}
  /\ FreshConverter
  /\ UNCHANGED <<export, pending>>

-----------------------------------------------------------------------------
(* The specification *)

MigrationInit ==
  /\ Init
  /\ export \in Exports
  /\ pending = export
  /\ handling = {}
  /\ whiteouts = {}
  /\ output = <<>>
  /\ aborted = FALSE

MigrationNext ==
  \/ \E u \in pending : PassOther(u) \/ FailToDecode(u) \/ StartConversion(u)
  \/ GoOn
  \/ Respond

MigrationSpec == MigrationInit /\ [][MigrationNext]_migrationVars

=============================================================================
