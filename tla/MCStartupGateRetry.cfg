SPECIFICATION Spec
CONSTANTS
  Gets = 2
  MaxChanges = 1
CHECK_DEADLOCK FALSE
PROPERTIES RetryLoadsFromKeychain
