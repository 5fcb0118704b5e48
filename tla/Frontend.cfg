SPECIFICATION FrontendSpec
CONSTANTS
  Alert = {"info", "osm_err"}
  Fades = {"info", "osm_err"}
  Err = "osm_err"
  Address = {"home", "work"}
  MaxAsked = 2
  Panel = {"co", "no2", "o3"}
  MaxCalls = 6
  MaxItems = 3
  MaxTimers = 2
  MaxPending = 2
  Pane = {1, 2, 3}
  MaxWaiting = 1
  Top = {0, 1, 2}
  MaxSections = 3
  Text = {"", "a", "B", "i", "x", "C++", "C++ Bar", "Berlin", "Paris", "Albi", "Calais"}
  Broken = {"C++", "C++ Bar"}
  Empty = ""
  Source <- SampleSource
  Rank <- SampleRank
  MaxShown = 2
  MaxBlurs = 2
  State = {"loading", "reset", "complete"}
  Original = "Send"
  Knob = {"left", "right"}
  MaxTurns = 3
  Toggle = {"file", "edit"}
  Menu = {"bar", "list", "aside"}
INVARIANTS
  FrontendTypeOK LockedTogether ErrorStays OnePanelOpen PanelsSettle ModalSettles
  OneItemActive TipFollowsMouse PaneOfTab SpyMarksSection MenuServes
  ButtonSettles ClickCountsOnce
PROPERTIES ModalHides
CHECK_DEADLOCK FALSE
