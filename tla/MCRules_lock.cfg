SPECIFICATION Spec
CHECK_DEADLOCK FALSE
CONSTANTS
  MaxSeconds = 15
INVARIANT
  CargoFilesAreWatched
