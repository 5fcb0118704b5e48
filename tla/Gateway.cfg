\* Any frames in any order: a module goes to sleep only when all was asked.
SPECIFICATION GatewaySpec
CONSTANTS
  m1 = m1
  m2 = m2
  environment = environment
  dust = dust
  sensoric = sensoric
  Node = {m1, m2}
  Addr <- MCAddr
  Reg = {0, 1, 2}
  Data = {d1}
  Configs <- AnyNumber
  MaxValues = 1
INVARIANTS GatewayTypeOK IteratorsCover NothingAskedAhead NeverCrashes
PROPERTIES HaltAfterAllAsked NoBoardAskedTwice KeepsPolling
