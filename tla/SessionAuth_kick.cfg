\* Two requests that found the token expired; nothing fails, nobody logs out.
SPECIFICATION Spec
CONSTANTS
  Requests = {r1, r2}
  Sessions = {s1}
  NoOne = NoOne
  MaxTokens = 3
  MaxFaults = 0
INVARIANTS
  OnlyDeadSessionsAreCleared
SYMMETRY MCSymmetry
CHECK_DEADLOCK FALSE
