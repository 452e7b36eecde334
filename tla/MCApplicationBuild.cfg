SPECIFICATION BuildSpec
CONSTANTS
  Types = {1, 2, 3, 4}
  Catalogs <- LinkedCatalogs
  Defaults <- RivalDefaults
  MaxHeld = 2
INVARIANTS
  ConstructorsFindDependencies
  InsertionNeverCollides
  PlanningIsSound
  BuildIsFaithful
