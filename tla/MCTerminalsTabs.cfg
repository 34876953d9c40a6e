\* One pane that can be captured and one that cannot, one session of either kind, the poll
\* loop and a forced tick beside it.
SPECIFICATION Spec
CONSTANTS
  Panes = {p1, p2}
  Degraded = {p2}
  AtStart <- Nothing
  Poll = poll
  Ticks = {poll, force}
  None = None
  Sess = {s1}
  Kinds = {"pty", "remote"}
  Typing = Typing
  MaxMoves = 3
CHECK_DEADLOCK FALSE
INVARIANTS TypeOK OneRecordPerTab
PROPERTIES TypingKeepsFocus
