\* One scan of three probes, two at a time, or two small scans in turn or side by side.
SPECIFICATION FairPanelSpec
CONSTANTS
  s1 = s1
  s2 = s2
  Scans = {s1, s2}
  BadTargets = BadTargets
  NotAsked = NotAsked
  MaxPairs = 3
  Plans <- OneOrTwo
  Slots = 2
  MaxTicks = 1
  NoScan = NoScan
CHECK_DEADLOCK FALSE
INVARIANTS StopTakesHold DoneCountsEveryRow DoneScanIsListed
PROPERTIES LifecycleKept QuietScanSettles
