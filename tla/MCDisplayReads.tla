---------------------------- MODULE MCDisplayReads ----------------------------
(* Instances of DisplayReads for TLC.  No symmetry: one of them is about liveness. *)
EXTENDS DisplayReads, TLC

CONSTANTS one, two, patch, bare

\* Patch two is of work one, which claims it; work two refers to another patch.
MCAnchor == (one :> two) @@ (two :> patch)
=============================================================================
