------------------------- MODULE MCEngineeringRun -------------------------
(***************************************************************************)
(* Small instance of EngineeringRun: two repositories with a source file   *)
(* each, two tests, one of them on the host.                             *)
(***************************************************************************)
EXTENDS EngineeringRun, TLC

MCRepos   == <<"assurance", "pkgcore">>
MCSources == [assurance |-> {"a"}, pkgcore |-> {"p"}]
Symmetry  == Permutations(Contents)
MCTests   == [assurance |-> <<"unit">>, pkgcore |-> <<"host-read-only">>]
=============================================================================
