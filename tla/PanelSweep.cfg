SPECIFICATION SweepSpec
CONSTANTS
  ChLo = 1
  ChHi = 3
  BitCount = 3
  EnLo = 1
  EnHi = 3
  Special = {2}
  Cap = 4
  Quiet = 2
  MaxBurst = 2
INVARIANTS CalibrationRight EncodersComplete UnmarkedIsRight
CHECK_DEADLOCK FALSE
