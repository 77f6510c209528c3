SPECIFICATION Spec
CONSTANTS
  a = a
  b = b
  Ucs = {"u1"}
  Direct = Direct
  Engines = {a, b}
  Modes = {"off", "on"}
  Default = "off"
  EnabledLists <- MCEnabledLists
  DefaultIm = a
  SkipDirect = TRUE
  NoContext = NoContext
  NoToggle = NoToggle
  NoIm = NoIm
INVARIANTS TypeOK PrimaryIsChosen SwitcherFirst SwitchKeyReachesAll
PROPERTIES ToggleBackRestores
