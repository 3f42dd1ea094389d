SPECIFICATION AccessSpec
CONSTANTS
  d1 = d1
  n1 = n1
  t1 = t1
  t2 = t2
  s1 = s1
  c1 = c1
  r1 = r1
  None = None
  Device = {d1}
  Nonce = {n1}
  Token = {t1, t2}
  Socket = {s1}
  Call = {c1}
  Relay = {r1}
  MaxPairings = 2
  MaxFailures = 1
  MaxCommands = 1
SYMMETRY Alike
INVARIANTS
  RevokedIsOut
  NothingOutlivesAPairing
  StreamTokenDiesWithIt
  NoTunnelForTheRevoked
  CallsAreInScope
  RestartHintIsExact
