---------------------------- MODULE MCPatchResource ----------------------------
(* Instances of PatchResource for TLC. *)
EXTENDS PatchResource, TLC

CONSTANTS big, small

\* One file as large as the tier allows, one smaller.
MCArtifacts == {big, small}
MCSize == [a \in MCArtifacts |-> IF a = big THEN 2 ELSE 1]

\* Requests in flight are interchangeable.
MCSymmetry == Permutations(Workers)
=============================================================================
