CONSTANTS
  Applications <- MCApplications
  Tokens <- MCTokens
  Requests <- MCRequests
SPECIFICATION Spec
CHECK_DEADLOCK FALSE
INVARIANTS
  InstallationIsSound
  OnlyReachableIsServed
  HandlersRunAuthorized
  AnswersFollowCause
