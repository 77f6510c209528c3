SPECIFICATION Spec
CONSTANTS
  c1 = c1
  c2 = c2
  d1 = d1
  p1 = p1
  p2 = p2
  Procs = {p1, p2}
  Contexts = {c1, c2, d1}
  Owner <- MCOwner
  First <- MCFirst
  Toolbar = Toolbar
  Fds = {3, 4}
  MaxActs = 2
  MaxCrashes = 1
  MaxFails = 1
  MaxOpens <- MCMaxOpens
  MaxGone <- MCMaxGone
  NoContext = NoContext
INVARIANTS TypeOK FocusedIsLive OneAnswers FocusedAnswers StrayTakesTwo
PROPERTY Settles
CHECK_DEADLOCK FALSE
