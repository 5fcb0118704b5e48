SPECIFICATION Spec
CONSTANTS
  m1 = m1
  m2 = m2
  environment = environment
  dust = dust
  sensoric = sensoric
  Junk = Junk
  Node = {m1}
  Addr <- MCAddr
  Reg = {0, 1}
  Data <- MCData
  Configs <- OnlyShipped
  MaxValues = 2
  Registers <- MCRegisters
  Fitted <- AllFitted
  PowerSwitched = TRUE
  MaxQueue = 3
  MaxGlitches = 0
  Timely = FALSE
  MaxLosses = 0
  MaxRestarts = 1
INVARIANT LabelsRight
\* A full queue or a full store stops a small instance.
CHECK_DEADLOCK FALSE
