SPECIFICATION Spec
CONSTANTS
  m1 = m1
  m2 = m2
  environment = environment
  dust = dust
  sensoric = sensoric
  Junk = Junk
  Node = {m1}
  Addr <- MCAddr
  Reg = {0, 1}
  Data <- MCData
  Configs <- OnlyNoFan
  MaxValues = 8
  Registers <- MCRegisters
  Fitted <- AllFitted
  PowerSwitched = TRUE
  MaxQueue = 4
  MaxGlitches = 0
  Timely = TRUE
  MaxLosses = 0
  MaxRestarts = 0
INVARIANT LabelsRight
