\* Two peers, three messages, pages of one.
SPECIFICATION Spec
CONSTANTS
  Workers = {wa, wb}
  Users = {anna, bert}
  Peers = {anna, bert}
  Absent = Absent
  Page = 1
  MaxMessages = 3
  MaxCalls = 3
INVARIANTS
  PeersAreMembers
  ReaderMissesNothing
  EditsKeptSerially
PROPERTIES
  TombstoneStays
SYMMETRY MCSymmetry
CHECK_DEADLOCK FALSE
