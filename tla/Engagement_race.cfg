\* Two requests at a time by the author and a fan; one resource, one folder each.
SPECIFICATION Spec
CONSTANTS
  Workers = {wa, wb}
  Users = {author, ann}
  Author = author
  Fans = {author, ann}
  Slots <- MCSlots
  MaxFaults = 1
  Contents = {resource}
  Folders = {shelf}
  Default = shelf
  Points = {0, 3}
  Approvals = {1}
  Adjustments <- MCAdjustments
  MaxDays = 1
  MaxRequests = 3
INVARIANTS
  
  CountedSerially
  CheckInsPaid
  MirrorFollowsLedger
SYMMETRY MCSymmetry
CHECK_DEADLOCK FALSE
