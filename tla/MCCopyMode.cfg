SPECIFICATION Spec
CONSTANTS
  n200 = n200
  n50 = n50
  Whole = Whole
  Nothing = Nothing
  Windows <- TwoCounts
  MaxOutput = 2
  MaxSessions = 2
  MaxRequests = 3
  MaxCopies = 1
  MaxContexts = 1
CHECK_DEADLOCK FALSE
INVARIANTS FilteredIsNewest SessionsAreSeparate
PROPERTIES FilteringEnds
