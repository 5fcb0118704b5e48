\* Commands at any time: each result is sent under its own number.
SPECIFICATION ModuleSpec
CONSTANTS
  environment = environment
  dust = dust
  sensoric = sensoric
  Junk = Junk
  Node = {m1}
  Addr <- MCAddr
  Registers <- MCRegisters
  Counts <- EverySensor
  Fitted <- SomeFitted
  PowerSwitched = FALSE
  MaxQueue = 2
  MaxGlitches = 1
INVARIANTS ModuleTypeOK InStep ResultsMatch
