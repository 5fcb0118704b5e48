SPECIFICATION Spec
CONSTANTS
  BUFFER_SIZE = 6
  Registers = 2
  Readings <- IntThenFloat
  MaxFaults = 3
INVARIANTS
  TypeOK
  QueueHolds
  ReadoutTrue
PROPERTIES
  MeasuresOnce
  KeepsReadout
