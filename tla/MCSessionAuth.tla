---------------------------- MODULE MCSessionAuth ----------------------------
(* Instances of SessionAuth for TLC. *)
EXTENDS SessionAuth, TLC

\* The requests of a page are interchangeable.
MCSymmetry == Permutations(Requests)
=============================================================================
