CONSTANTS
  ProbeTime = 2
  LinkTime = 1
  SettleTime = 1
  MinOn = 1
  MinOff = 2
SPECIFICATION Spec
INVARIANTS
  OneTransport
  OffMeansOff
  RelayNeedsSilence
PROPERTIES
  FreshEvaluation
  BurnerRests
