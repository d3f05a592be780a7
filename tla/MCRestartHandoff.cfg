CONSTANTS
  HPs = {h1}
  MinimumOff = 2
  Images = {i1, i2}
  NoImage = NoImage
  Config <- MCConfig
  MaxTransfer = 1
  QueueLimit = 2
SYMMETRY ImageSymmetry
SPECIFICATION Spec
INVARIANTS
  ReleasedOnlyAfterConsume
PROPERTIES
  HandsOverRealRest
  NoReplay
  OnlyThePlannedBoot
