---------------------------- MODULE MCTrustEnforce ----------------------------
(* Instances of TrustEnforce for TLC.  No symmetry: one of them is about liveness. *)
EXTENDS TrustEnforce
=============================================================================
