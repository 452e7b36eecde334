SPECIFICATION Spec
CONSTANTS
  Owners = {1, 2}
  MaxHooks = 4
  LateRegistration = FALSE
INVARIANTS
  HookProtocol
  EarlierHooksStayUp
  StateMatchesHooks
PROPERTIES
  CallsComplete
  ImplementsNestedScopes
