CONSTANTS
  Options <- MCOptions
  MaxCount = 2
  MaxFaults = 2
  MaxSignals = 1
SPECIFICATION Spec
CHECK_DEADLOCK FALSE
INVARIANTS TypeOK StrengthKept NobodyMissed
PROPERTIES FullStrength ShutdownEnds
