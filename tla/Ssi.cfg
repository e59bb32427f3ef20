SPECIFICATION Spec
CONSTANTS
  Hz = 2
  Ips = 5
  Slack = 3
  Loop = 2
  TxLevel = 6
  ForceLevel = 5
  TaskIpls <- ThreeIpls
INVARIANTS Steady InHandler Nested
PROPERTY Served
