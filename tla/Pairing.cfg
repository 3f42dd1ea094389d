SPECIFICATION PairingSpec
CONSTANTS
  w1 = w1
  w2 = w2
  p1 = p1
  p2 = p2
  None = None
  Window = {w1, w2}
  Phone = {p1, p2}
  Tier = {"default"}
SYMMETRY Everyone
INVARIANTS
  PairingIsSound
  ConfirmsWhatWasShown
  CompletedIsLearned
  BelievesWhatIsOnRecord

