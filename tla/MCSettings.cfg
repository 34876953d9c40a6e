SPECIFICATION Spec
CONSTANTS
  openai = openai
  ollama = ollama
  None = None
  Disabled = Disabled
  Providers <- TwoProviders
  First = openai
  SimpleTabs = {terminals}
  MaxSaves = 2
  MaxAsks = 2
  MaxMoves = 3
CHECK_DEADLOCK FALSE
INVARIANTS SavesAloneSurvive PinnedSurviveTabs OptOutWins KeyFieldFollowsProvider CheckingHasProbe
