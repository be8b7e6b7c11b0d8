\* Two requests of a page and their goroutines on one session, a logout, two faults.
\* No symmetry: a liveness property is among those checked.
SPECIFICATION FairSpec
CONSTANTS
  Requests = {r1, r2}
  Sessions = {s1}
  NoOne = NoOne
  MaxTokens = 4
  MaxFaults = 2
INVARIANTS
  OneRefreshAtATime
  StoredIsCurrent
  ServedRenewed
PROPERTIES
  EveryRequestAnswered
CHECK_DEADLOCK FALSE
