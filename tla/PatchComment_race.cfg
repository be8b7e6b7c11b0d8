\* Two handlers at a time over three comments; the owner of the patch moderates.
SPECIFICATION Spec
CONSTANTS
  Workers = {wa, wb}
  Users = {own, fan}
  Moderators = {own}
  Owner = own
  Absent = Absent
  MaxComments = 3
  MaxCalls = 4
INVARIANTS
  ThreadsAreFlat
  NeverShownUnapproved
  PaidIsCleared
  CountedSerially
SYMMETRY MCSymmetry
CHECK_DEADLOCK FALSE
