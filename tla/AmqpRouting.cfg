CONSTANTS
  Segments <- MCSegments
  SingleLevel <- MCSingleLevel
  MultiLevel <- MCMultiLevel
  Tables <- MCTables
  Routes <- MCRoutes
SPECIFICATION Spec
CHECK_DEADLOCK FALSE
INVARIANTS
  RoutedAsBound
  RefusedAsUnbound
