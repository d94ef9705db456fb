SPECIFICATION Spec
CONSTANTS
  h1 = h1
  h2 = h2
  r1 = r1
  r2 = r2
  Handles = {h1, h2}
  Regions = {r1, r2}
  None = None
  Programs <- MCPrograms
  DevStreams = {s1, s2}
  UntrackedStreams = {s1}
  Prep = prep
  MaxCap = 2
  Launches = 2
INVARIANTS OneProducer NoOrphanCorrection CorrectionsFit DeviceReadsInOrder 
CHECK_DEADLOCK FALSE
