SPECIFICATION ScopeSpec
CONSTANTS
  Types = {1, 2, 3, 4}
  Modules = {1, 2, 3}
  Programs <- SmallPrograms
  Defaults <- SmallDefaults
INVARIANTS
  BoundariesRespected
  AcceptedIsComplete
  ScopeIsExact
