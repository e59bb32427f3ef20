SPECIFICATION Spec
CONSTANTS
  func = func  trig = trig  page = page  absent = absent  knob = knob
  Button <- SomeButtons
  Latching <- SomeLatching
  Encoder <- SomeEncoders
  Wire <- SomeWire
  Nowhere = 99
  Dwells <- PacedOrNot
  RingSize = 3
  MaxEvents = 4
  FeedFails = TRUE
INVARIANTS MaskIsHeld NothingDropped InOrder TurnNeverLate
PROPERTIES Spaced Delivered
