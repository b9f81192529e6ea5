\* Every image of nine inner pixels with three magnitudes, two pairs of thresholds in turn.
CONSTANTS
  Width = 5
  Height = 5
  Images <- MCImages
  Calls <- InTurn
SPECIFICATION FairSpec
CHECK_DEADLOCK FALSE
INVARIANTS TracedIsReachable
PROPERTIES CannyReturns
