SPECIFICATION RendezvousSpec
CONSTANTS
  w1 = w1
  p1 = p1
  p2 = p2
  None = None
  Window = {w1}
  Phone = {p1, p2}
  Tier = {"default"}
  MaxClaimants = 2
  MaxDials = 2
SYMMETRY Phones
INVARIANTS
  RoutesFollowPairings
  StoredIsExpected
