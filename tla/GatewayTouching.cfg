\* Two boards with several sensors, side by side.
SPECIFICATION GatewaySpec
CONSTANTS
  m1 = m1
  m2 = m2
  environment = environment
  dust = dust
  sensoric = sensoric
  Node = {m1, m2}
  Addr <- MCAddr
  Reg = {0, 1, 2}
  Data = {d1}
  Configs <- Touching
  MaxValues = 1
PROPERTY NoBoardAskedTwice
