SPECIFICATION Spec
CONSTANTS
  MaxDepth = 4
  MaxLeaks = 3
INVARIANT JumpsLandInLiveFrames
