SPECIFICATION Spec
CHECK_DEADLOCK FALSE
CONSTANTS
  Instances = {i1}
  Declarations = {{t1}, {t2}}
  MaxMigrations = 2
  MaxPoolSize = 1
INVARIANTS
  StartIsComplete
  PoolFollowsLifecycle
  HistoryIsConsistent
PROPERTIES
  OperationsReturn
