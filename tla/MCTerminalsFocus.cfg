\* The same instance; the run stops at the first F-key that leaves the focus behind.
SPECIFICATION Spec
CONSTANTS
  Panes = {p1, p2}
  Degraded = {p2}
  AtStart <- Nothing
  Poll = poll
  Ticks = {poll, force}
  None = None
  Sess = {s1}
  Kinds = {"pty", "remote"}
  Typing = Typing
  MaxMoves = 3
CHECK_DEADLOCK FALSE
PROPERTIES FocusFollowsActiveTab
