SPECIFICATION Spec
CONSTANTS
  RingSize <- SmallRing
  MaxWrite <- SmallWrite
  MaxBytes = 5
INVARIANTS ExactlyOnce OneCompletion
PROPERTY RoomComes
