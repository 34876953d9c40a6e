SPECIFICATION Spec
CONSTANTS
  Gets = 2
  MaxChanges = 2
CHECK_DEADLOCK FALSE
INVARIANTS WorkingKeychainIsFound
PROPERTIES LoadIsUnlocked GateDecides PasswordPassesGate
