\* One scan whose events overtake the answer of Start.
SPECIFICATION PanelSpec
CONSTANTS
  s1 = s1
  s2 = s2
  Scans = {s1}
  BadTargets = BadTargets
  NotAsked = NotAsked
  MaxPairs = 1
  Plans <- OneAlone
  Slots = 1
  MaxTicks = 0
  NoScan = NoScan
CHECK_DEADLOCK FALSE
INVARIANT EndedScanIsNotActive
