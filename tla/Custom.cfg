SPECIFICATION Spec
CONSTANTS
  global = global
  keys = keys
  im = im
  key = key
  a = a
  b = b
  toolbar = toolbar
  pref = pref
  switcher = switcher
  Apps = {a, b}
  Toolbars = {toolbar}
  Prefs = {pref}
  Switchers = {switcher}
  Focused = a
  AtStart = {a}
  Groups <- MCGroups
  Syms = {im, key}
  GroupOf <- MCGroupOf
  DefaultIm = im
  MaxEdits = 2
  MaxStarts = 2
  MaxFails = 2
  NoFile = NoFile
  Partial = Partial
INVARIANTS TypeOK EditsLostOnlyBehind ListenersHaveFiles
CHECK_DEADLOCK FALSE
