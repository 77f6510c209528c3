SPECIFICATION Spec
CONSTANTS
  MaxDepth = 4
  MaxLeaks = 3
INVARIANTS TypeOK GuardCounts OutermostCatches CallsCatchErrors
PROPERTY FatalDisables
