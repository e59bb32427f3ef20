CONSTANTS
  Builtin <- Queue
  Custom <- Card
  Late <- Timer
  Damages <- OtherRate
  Manifests <- Builds
  MaxAge = 4

SPECIFICATION Spec
INVARIANTS Whole
