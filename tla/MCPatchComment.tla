---------------------------- MODULE MCPatchComment ----------------------------
(* Instances of PatchComment for TLC. *)
EXTENDS PatchComment, TLC

\* Requests in flight are interchangeable.
MCSymmetry == Permutations(Workers)
=============================================================================
