SPECIFICATION ResumeFairSpec
CONSTANTS
  s1 = s1
  w1 = w1
  w2 = w2
  phone = phone
  NoStream = NoStream
  Session = {s1}
  Approval = {}
  Question = {}
  SessionOf <- MCSessionOf
  Stream = {w1, w2}
  DeviceOf <- MCDeviceOf
  Weight <- MCWeight
  Offered <- MCOffered
  MaxFrames = 2
  MaxBytes = 100
  MaxSeq = 0
  MaxBseq = 4
  MaxRestarts = 1
  MaxMishaps = 0
  MaxLag = 1
CHECK_DEADLOCK FALSE
INVARIANTS
  GapsAreExplained
PROPERTIES
  NoFrameTwice
  CatchesUp
