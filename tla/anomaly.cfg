SPECIFICATION DetectorSpec
CONSTANTS
  m1 = m1
  m2 = m2
  MeterIds <- MCMeters
  Loads <- MCLoads
  MaxPower = 24
  Tenth = 2
  MinSampleSize = 2
  SpikePercent = 100
  DropPercent = 50
SYMMETRY MCSymmetry
INVARIANTS DetectorTypeOK
PROPERTIES SteadyLoadSteadyVerdict
