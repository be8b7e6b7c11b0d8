\* Two requests at a time on one game, by two users and an admin; one may die.
SPECIFICATION Spec
CONSTANTS
  Workers = {wa, wb}
  Users = {u1, u2, adm}
  Admins = {adm}
  Games = {g1}
  NoPatch = NoPatch
  MaxCalls = 4
  MaxDeaths = 1
INVARIANTS
  RegisteredOnce
  RegistrarOwns
  
PROPERTIES
  OwnerChangesByAdoption
SYMMETRY MCSymmetry
CHECK_DEADLOCK FALSE
