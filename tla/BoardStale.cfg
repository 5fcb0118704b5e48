SPECIFICATION Spec
CONSTANTS
  BUFFER_SIZE = 6
  Registers = 2
  Readings <- IntThenFloat
  MaxFaults = 1
INVARIANTS
  ReadoutAlone
