\* Three products for a queue of one; the shop refuses one and issues one link.  No
\* symmetry: a liveness property is among those checked.
SPECIFICATION LinkSpec
CONSTANTS
  Readers = {qa, qb}
  Products = {pa, pb, px}
  Invalid = {px}
  QueueSize = 1
  Quota = 1
  MaxChanges = 1
  MaxFaults = 2
INVARIANT HeldOnce
PROPERTIES
  CampaignSettles
