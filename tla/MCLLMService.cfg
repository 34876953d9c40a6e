\* One request races two saves and one hand edit of the policy.
SPECIFICATION FairSpec
CONSTANTS
  r1 = r1
  r2 = r2
  w1 = w1
  w2 = w2
  openai = openai
  ollama = ollama
  Requests = {r1}
  Savers = {w1, w2}
  Providers = {openai}
  Disabled = Disabled
  NoProvider = NoProvider
  EnvProvider = openai
  MaxText = 1
  ChanCap = 1
  MaxEdits = 1
CHECK_DEADLOCK FALSE
INVARIANTS OnlyAuditedRequestsStream SaveTakesEffect
PROPERTY RequestEnds
