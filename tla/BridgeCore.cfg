SPECIFICATION CoreFairSpec
CONSTANTS
  a1 = a1
  s1 = s1
  Session = {s1}
  Approval = {a1}
  Question = {}
  SessionOf <- MCSessionOf
  Stream = {}
  DeviceOf <- MCDeviceOf
  Weight <- MCWeight
  Offered = {}
  MaxFrames = 3
  MaxBytes = 100
  MaxSeq = 0
  MaxBseq = 20
  MaxFaults = 2
CHECK_DEADLOCK FALSE
INVARIANTS
  LifecycleAlternates
  ObligationsFollowDsh
PROPERTIES
  ConnectsForGood
  StopCompletes
