SPECIFICATION Spec
CONSTANTS
  zero = zero  a = a  stale = stale
  Sectors = 2
  Value <- TwoValues
  Zero = zero
  Image <- OneSector
  Stale = stale
  ExtCsd = a
  MaxLen = 2
  MaxJobs = 2
  Foreign <- Uart
INVARIANTS BusTestPasses
PROPERTIES Device Answered
