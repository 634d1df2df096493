------------------------------- MODULE Fates -------------------------------
(***************************************************************************)
(* What a migration promises about each exported resource, without the     *)
(* plugin: it waits, and then it is kept, or a Build takes its place in    *)
(* the same step, and that is final.  Only a BuildConfig that can be read  *)
(* is ever replaced, and only one that cannot be read stops the migration  *)
(* (README.md:10-26, ADR-0002).                                            *)
(***************************************************************************)
CONSTANTS
  Exports,       \* the sets of resources that may have been exported
  Convertible,   \* the BuildConfigs a Build may replace
  Unreadable     \* the BuildConfigs that do not decode

VARIABLES
  fate,          \* of each exported resource
  built,         \* the BuildConfigs whose Build is there
  stopped        \* the migration has stopped on an error

fates == <<fate, built, stopped>>

Waiting(r) == r \in DOMAIN fate /\ fate[r] = "waiting" /\ ~stopped
Meet(r, end) == fate' = [fate EXCEPT ![r] = end]

Init ==
  /\ \E resources \in Exports : fate = [r \in resources |-> "waiting"]
  /\ built = {}
  /\ stopped = FALSE

Keep(r) ==
  /\ Waiting(r)
  /\ r \notin Unreadable
  /\ Meet(r, "kept")
  /\ UNCHANGED <<built, stopped>>

Replace(r) ==
  /\ Waiting(r)
  /\ r \in Convertible
  /\ Meet(r, "replaced")
  /\ built' = built \union {r}
  /\ UNCHANGED stopped

Stop(r) ==
  /\ Waiting(r)
  /\ r \in Unreadable
  /\ Meet(r, "refused")
  /\ stopped' = TRUE
  /\ UNCHANGED built

Next == \E r \in DOMAIN fate : Keep(r) \/ Replace(r) \/ Stop(r)

Spec == Init /\ [][Next]_fates
=============================================================================
