\* Two handlers, two decisions on a resource and a comment, a user's request, one
\* fault.  No symmetry: a liveness property is among those checked.
SPECIFICATION FairSpec
CONSTANTS
  Workers = {wa, wb}
  Resources = {r1}
  Comments = {c1}
  Gone = Gone
  NoDisp = NoDisp
  MaxDisps = 2
  MaxRequests = 1
  MaxFaults = 1
INVARIANTS
  RecordedIsEnforced
PROPERTIES
  SwitchNeverLifts
  HidingSettles
CHECK_DEADLOCK FALSE
