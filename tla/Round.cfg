SPECIFICATION FairSpec
CONSTANTS
  m1 = m1
  m2 = m2
  environment = environment
  dust = dust
  sensoric = sensoric
  Junk = Junk
  Node = {m1, m2}
  Addr <- MCAddr
  Reg = {0, 1}
  Data <- MCData
  Configs <- OneOrTwo
  MaxValues = 20
  Registers <- MCRegisters
  Fitted <- AllFitted
  PowerSwitched = TRUE
  MaxQueue = 4
  MaxGlitches = 2
  Timely = TRUE
  MaxLosses = 1
  MaxRestarts = 1
ACTION_CONSTRAINT FaultsOnlyAlone
INVARIANTS TypeOK RoundComplete PushesOwnValues
PROPERTY PushedAgain
\* The process may abort while it loads two modules.
CHECK_DEADLOCK FALSE
