SPECIFICATION Spec
CONSTANTS
  a = a  b = b
  Firmware <- TwoFirmwares
  MainOf <- OwnImage
  Point <- TwoRungs
  Default = 400
INVARIANTS RightFirmware NeverMixed
