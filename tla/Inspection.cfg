SPECIFICATION InspectSpec
CHECK_DEADLOCK FALSE
INVARIANTS
  StandardAnswerIsAccepted
  NothingOutlivesInspection
PROPERTY
  InspectionReturns
