\* One request whose provider hangs.
SPECIFICATION FairChatSpec
CONSTANTS
  r1 = r1
  r2 = r2
  w1 = w1
  openai = openai
  t1 = t1
  t2 = t2
  Requests = {r1}
  Savers = {}
  Providers = {openai}
  Disabled = Disabled
  NoProvider = NoProvider
  EnvProvider = NoProvider
  MaxText = 1
  ChanCap = 1
  MaxEdits = 0
  Tabs = {t1}
  NoTab = NoTab
  NoMessage = NoMessage
  MaxMoves = 0
CHECK_DEADLOCK FALSE
PROPERTY IndicatorClears
