SPECIFICATION RespondFairSpec
CONSTANTS
  a1 = a1
  c1 = c1
  c2 = c2
  c3 = c3
  s1 = s1
  NoCall = NoCall
  Call = {c1, c2, c3}
  Session = {s1}
  Approval = {a1}
  Question = {}
  SessionOf <- MCSessionOf
  Stream = {}
  DeviceOf <- MCNoStreams
  Weight <- MCWeight
  Offered = {}
  MaxFrames = 1
  MaxBytes = 100
  MaxSeq = 0
  MaxBseq = 7
  MaxCrashes = 1
CHECK_DEADLOCK FALSE
INVARIANTS
  OneAnswerAtATime
  RepliesAreTrue
PROPERTY EveryCallIsAnswered
