\* Two fair runs that overlap, two tenants, every branch of the effect table, one
\* failure.  No symmetry: a liveness property is among those checked.
SPECIFICATION FairSpec
CONSTANTS
  w1 = w1
  Runs = {ra, rb}
  Claims <- MCClaims
  Works = {w1}
  Users = {u1, u2, rev}
  Reviewer = rev
  NoUser = NoUser
  Moves <- MCAllMoves
  Batch = 2
  MaxPages = 2
  MaxEvents = 3
  MaxFails = 1
INVARIANTS
  NothingSkipped
  PaidToSubmitterOnce
PROPERTIES
  KeepsPromise
  EveryEventApplied
