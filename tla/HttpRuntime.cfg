SPECIFICATION RuntimeSpec
CONSTANTS
  Owners = {1}
  MaxHooks = 3
  LateRegistration = FALSE
  MaxInflight = 2
CHECK_DEADLOCK FALSE
INVARIANTS
  RequestsSeeRunningApplication
  ReturnedRunIsStopped
  NoFailureLost
PROPERTIES
  StopEndsRun
