SPECIFICATION M1Spec
CONSTANTS
  a1 = a1
  a2 = a2
  r1 = r1
  NoAttempt = NoAttempt
  Auth = {a1, a2}
  Request = {r1}
  MaxTransports = 2
  MaxIntents = 2
  MaxFaults = 1
SYMMETRY Alike
CHECK_DEADLOCK FALSE
INVARIANTS
  NeverIdle
  ReadyIsLive
  ForgetsForCauseAndWholly
