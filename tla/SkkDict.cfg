SPECIFICATION Spec
CONSTANTS
  p1 = p1
  p2 = p2
  c1 = c1
  c2 = c2
  c3 = c3
  a = a
  b = b
  d = d
  e = e
  Procs = {p1, p2}
  Contexts = {c1, c2, c3}
  Chosen = {a, b, d, e}
  Words <- MCWords
  Style <- MCStyle
  UseWindow <- MCUseWindow
  OpCount <- MCOpCount
  PageSize <- MCPageSize
  MaxTime = 1
  MaxBegins = 4
  NoProc = NoProc
  NoFile = NoFile
  NoCand = NoCand
  Partial = Partial
  Owner <- MCOwner
  InitFiles <- MCInitFiles
  MasterDic <- MCMasterDic
  JisyoS <- MCJisyoS
CHECK_DEADLOCK FALSE
INVARIANTS TypeOK FileIsWhole LockHolderWrites SavedPartsSound UnsavedIsMarked
PROPERTIES WordsDropOnlyByRaceOrPurge MergeKeepsOwnWords CommitsWhatWasShown
