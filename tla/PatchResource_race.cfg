\* Two requests at a time over two uploads and two resources; the quota holds one file.
SPECIFICATION Spec
CONSTANTS
  Workers = {wa, wb}
  big = big
  small = small
  Artifacts <- MCArtifacts
  Size <- MCSize
  MaxFile = 2
  Limit = 2
  Unlimited = Unlimited
  ImageLimit = 1
  None = None
  MaxDays = 1
  MaxRequests = 4
  MaxFaults = 1
  Link = Link
  MaxRows = 2
INVARIANTS
  ChargedOnce
  OvershootBounded
  FilesServedSerially
  CountedSerially
  PointsFollowResources
SYMMETRY MCSymmetry
CHECK_DEADLOCK FALSE
