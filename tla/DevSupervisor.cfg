SPECIFICATION DevSpec
CONSTANTS
  MaxVersion = 2
  MaxConfig = 1
CHECK_DEADLOCK FALSE
INVARIANTS
  StateMatchesChildren
  NoEditIsLost
PROPERTIES
  CtrlCEnds
  EditsAreBuilt
