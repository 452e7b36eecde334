SPECIFICATION Spec
CHECK_DEADLOCK FALSE
CONSTANTS
  MaxSeconds = 15
INVARIANTS
  MigrationsAreExact
  LossesAreWarned
  RotationKeepsTokens
  LaterSourcesWin
  InspectionIsTruthful
  CommandReachesItsTarget
  WatchFollowsBuild
