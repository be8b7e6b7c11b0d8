-------------------------------- MODULE MCChat --------------------------------
(* Instances of Chat for TLC. *)
EXTENDS Chat, TLC

\* Requests in flight are interchangeable, and so are the two peers.
MCSymmetry == Permutations(Workers) \cup Permutations(Users)
=============================================================================
