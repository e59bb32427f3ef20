CONSTANTS
  Builtin <- Queue
  Custom <- Card
  Late <- Timer
  Damages <- AnyDamage
  Manifests <- Builds
  MaxAge = 4

SPECIFICATION Spec
INVARIANTS UndamagedWhole ValidatedAtomically
PROPERTY NoRewind
