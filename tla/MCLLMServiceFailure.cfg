\* The provider fails while the chunk channel is full.
SPECIFICATION Spec
CONSTANTS
  r1 = r1
  r2 = r2
  w1 = w1
  w2 = w2
  openai = openai
  ollama = ollama
  Requests = {r1}
  Savers = {}
  Providers = {openai}
  Disabled = Disabled
  NoProvider = NoProvider
  EnvProvider = NoProvider
  MaxText = 2
  ChanCap = 1
  MaxEdits = 0
CHECK_DEADLOCK FALSE
INVARIANT FailureIsReported
