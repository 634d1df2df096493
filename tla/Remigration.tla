---------------------------- MODULE Remigration ----------------------------
(***************************************************************************)
(* crane run again: over the same export, in another order perhaps, or     *)
(* over what the run before it wrote, with the same flags.  "converting    *)
(* twice is safe" (docs/architecture.md:199, rule 12).                     *)
(***************************************************************************)
EXTENDS MigrationProperties

CONSTANT MaxRuns     \* bound: how often crane is run

VARIABLES
  runs,     \* the runs begun
  before    \* what the run before this one delivered

RemigrationInit ==
  /\ MigrationInit
  /\ runs = 1
  /\ before = {}

Run == MigrationNext /\ UNCHANGED <<runs, before>>

RunAgain ==
  /\ Finished
  /\ runs < MaxRuns
  /\ runs' = runs + 1
  /\ before' = Delivered
  /\ export' \in {export, Delivered}
  /\ pending' = export'
  /\ whiteouts' = {}
  /\ output' = <<>>
  /\ UNCHANGED <<vars, handling, aborted>>

RemigrationSpec ==
  RemigrationInit /\ [][Run \/ RunAgain]_<<migrationVars, runs, before>>

\* A run over what the run before it delivered delivers just that: what was
\* passed through is refused again, for the reason it was stamped with, and the
\* Builds are resources like any others now.
OwnOutputStays ==
  Finished /\ runs > 1 /\ export = before => Delivered = before

\* Crane run once more over the same export delivers the same, resource for
\* resource, whatever the order it takes them in: no conversion depends on the
\* ones before it, and no name on who came first.
OrderMakesNoDifference ==
  Finished /\ runs > 1 /\ export # before => Delivered = before

=============================================================================
