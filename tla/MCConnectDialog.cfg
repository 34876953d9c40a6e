\* Two connection attempts, two hosts, two records, and one reopening, forgetting or rekeying.
SPECIFICATION Spec
CONSTANTS
  r1 = r1
  r2 = r2
  h1 = h1
  h2 = h2
  Conns = {c1, c2}
  Hosts = {h1, h2}
  Keys = {k1, k2}
  None = None
  Ids = {r1, r2}
  Kinds = {"ssh"}
  SavedAtStart <- OneRecord
  MaxUpsets = 1
SYMMETRY Symmetry
CHECK_DEADLOCK FALSE
INVARIANTS PromptedKeysAreAccepted TrustedKeyIsKept SecretFollowsRecord
PROPERTIES RecordKeepsItsHost
