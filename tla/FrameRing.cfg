SPECIFICATION FrameRingSpec
CONSTANTS
  small = small
  huge = huge
  Frame <- MCFrame
  Weight <- MCWeight
  MaxFrames = 3
  MaxBytes = 5
  MaxBseq = 6
INVARIANTS
  RingIsSound
  ReadsAreExact
  RetentionBound
PROPERTY ImplementsResumeLog
