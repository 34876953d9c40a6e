SPECIFICATION CardsSpec
CONSTANTS
  ls = ls
  df = df
  None = None
  CommandTexts <- TwoTexts
  MaxCards = 1
  MaxEdits = 0
  MaxSaves = 2
  MaxMoves = 2
  MaxStarts = 2
CHECK_DEADLOCK FALSE
INVARIANT PinsSurviveRestarts
