------------------------------ MODULE MCRefholds ------------------------------
(* Instances of Refholds: a sub-context of a cell and a transformer, where   *)
(* its copy goes, and one path more.                                         *)
EXTENDS Refholds, TLC

CONSTANTS data, step, data2, step2, rest

MCPaths == {data, step, data2, step2, rest}
MCNamed == {data, step}
MCSites == {<<data, step>>}
MCResult == [input \in Checksums \X Checksums |-> input[2]]
MCCopied == (data :> data2) @@ (step :> step2)
Symmetry == Permutations(Checksums)
=============================================================================
