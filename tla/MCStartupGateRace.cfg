SPECIFICATION Spec
CONSTANTS
  Gets = 2
  MaxChanges = 0
CHECK_DEADLOCK FALSE
INVARIANTS HealthyKeychainIsUsed
