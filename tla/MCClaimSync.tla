----------------------------- MODULE MCClaimSync -----------------------------
(* Instances of ClaimSync for TLC. *)
EXTENDS ClaimSync

CONSTANTS w1

\* Our claim on a work, and the same work claimed by another tenant.
MCClaims == {[site |-> OwnSite, work |-> w1, anchored |-> TRUE],
             [site |-> "other", work |-> w1, anchored |-> TRUE]}

\* Submission, verdicts and resubmission.
MCVerdicts == {<<Unborn, "pending">>, <<"pending", "live">>, <<"pending", "declined">>,
               <<"declined", "pending">>, <<"live", "pending">>}

\* With these, every branch of effectOf: bans, withdrawals, an unknown state.
MCAllMoves == MCVerdicts \cup
  {<<"live", "hidden">>, <<"hidden", "live">>, <<"hidden", "quarantined">>,
   <<"live", "draft">>}
=============================================================================
