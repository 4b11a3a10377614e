-------------------------- MODULE MCManifestExport --------------------------
(* Instances of ManifestExport for TLC.                                    *)
EXTENDS ManifestExport, TLC

CONSTANTS j1, u1

(* Every update is for job j1.                                             *)
MCJobOf == [u \in Updates |-> j1]

(* Requests are interchangeable.                                           *)
RequestSymmetry == Permutations(Requests)
=============================================================================
