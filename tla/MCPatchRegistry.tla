--------------------------- MODULE MCPatchRegistry ---------------------------
(* Instances of PatchRegistry for TLC. *)
EXTENDS PatchRegistry, TLC

\* Requests are interchangeable, and so are the users without privileges.
MCSymmetry == Permutations(Workers) \cup Permutations(Users \ Admins)
=============================================================================
