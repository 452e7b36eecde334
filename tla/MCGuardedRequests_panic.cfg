CONSTANTS
  Applications <- MCApplications
  Tokens <- MCTokens
  Requests <- MCRequests
SPECIFICATION Spec
INVARIANT BuildingNeverPanics
CHECK_DEADLOCK FALSE
