--------------------------- MODULE MCRemigration ---------------------------
(***************************************************************************)
(* Instances of the Remigration for TLC: exports of three resources, one   *)
(* that converts, one that does not, and one of several other kinds.       *)
(***************************************************************************)
EXTENDS MCMigration, Remigration

\* Another BuildConfig of the namespace with parts of its own.
Beside == Annotated(Whole(<<"Web">>, "v"), Team)

AgainWholes == {Whole(<<"web">>, "w"), Whole(<<"web", ".", "x">>, "w")}

AgainExports ==
  {{whole, Annotated(other, annotations), third} :
     whole \in AgainWholes, other \in {Jenkins, Blind, Failing},
     annotations \in {Bare, Team, Stale}, third \in {Legacy, Account(<<"robot">>), Elsewhere}}
    \union {{whole, Failing, Beside} : whole \in AgainWholes}

\* The names of these exports leave the generated ones alone, and with an
\* account of a BuildConfig's name they do not.
ASSUME NamesApartAssumption ==
  \A resources \in AllExports \union AgainExports : NamesApart(resources)
ASSUME ClashAssumption == \E resources \in ClashExports : ~NamesApart(resources)

AgainConfigs == ConfigsOf(AgainExports)

=============================================================================
