SPECIFICATION ServicesSpec
CONSTANTS
  Thread = {t1, t2}
  Store = {"local", "citypulse"}
  Place = {"CKAB", "home"}
  FirstValue <- ShippedValue
  Form <- SampleForms
  MaxRequests = 2
  MaxMaps = 2
  MaxCrashes = 1
  MaxFailures = 1
  Size = 6
  Lookalike = {4}
  MaxRead = 8
  MaxFrames = 3
  MaxLost = 2
  Name <- ShippedNames
  Switch = {"true", "false", "unset"}
  MaxRounds = 2
  MaxMeasures = 1
INVARIANTS ServicesTypeOK SavedWhole RunsAsSaved LinkDelivers 
PROPERTY StartIsDecided
CHECK_DEADLOCK FALSE
