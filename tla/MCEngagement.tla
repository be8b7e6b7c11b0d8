----------------------------- MODULE MCEngagement -----------------------------
(* Instances of Engagement for TLC. *)
EXTENDS Engagement, TLC

MCSlots == 1 .. MaxRequests

\* A deduction takes a balance below zero.
MCAdjustments == {-2}

\* Requests in flight are interchangeable.
MCSymmetry == Permutations(Workers)
=============================================================================
