\* Two requests, two tabs, one switch or clear, no configuration change.
SPECIFICATION ChatSpec
CONSTANTS
  r1 = r1
  r2 = r2
  w1 = w1
  openai = openai
  t1 = t1
  t2 = t2
  Requests = {r1, r2}
  Savers = {}
  Providers = {openai}
  Disabled = Disabled
  NoProvider = NoProvider
  EnvProvider = NoProvider
  MaxText = 2
  ChanCap = 2
  MaxEdits = 0
  Tabs = {t1, t2}
  NoTab = NoTab
  NoMessage = NoMessage
  MaxMoves = 1
CHECK_DEADLOCK FALSE
SYMMETRY Symmetry
INVARIANTS TypeOK NothingAfterTerminalEvent DoneIsWholeAndAudited
INVARIANTS PiecesInSequence QuietResponseShown IndicatorOnWhileAlone
