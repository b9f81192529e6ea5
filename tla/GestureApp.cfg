\* Two names with up to one template each at first, and two gestures saved, under one of the
\* names or none, in one process or two.
CONSTANTS
  Names = {a, b}
  NoName = NoName
  Typed = {a, NoName}
  MaxStored = 1
  MaxSaves = 2
  StorageFails = TRUE
  MaxRecreations = 1
  MaxStarts = 2
SPECIFICATION FairSpec
CHECK_DEADLOCK FALSE
INVARIANTS StoreIsSound ListShowsTheStore DoneHasAGesture
PROPERTIES NothingIsOverwritten LoadEnds
