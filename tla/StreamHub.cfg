SPECIFICATION HubSpec
CONSTANTS
  a1 = a1
  q1 = q1
  s1 = s1
  w1 = w1
  phone = phone
  Session = {s1}
  Approval = {a1}
  Question = {q1}
  SessionOf <- MCSessionOf
  Stream = {w1}
  DeviceOf <- MCDeviceOf
  Weight <- MCWeight
  Offered <- MCOffered
  MaxFrames = 2
  MaxBytes = 100
  MaxSeq = 2
  MaxBseq = 5
CHECK_DEADLOCK FALSE
INVARIANTS
  StreamIsHonest
  EveryPhoneWasAsked
  ReplaysAreCurrent
