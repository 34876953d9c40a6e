SPECIFICATION CardsSpec
CONSTANTS
  ls = ls
  df = df
  None = None
  CommandTexts <- TwoTexts
  MaxCards = 2
  MaxEdits = 1
  MaxSaves = 3
  MaxMoves = 5
  MaxStarts = 2
SYMMETRY TextSymmetry
CHECK_DEADLOCK FALSE
INVARIANTS SavedPinsComeBack OverrideSentOnce
PROPERTIES FKeyUsesItsCard
