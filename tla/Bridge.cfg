SPECIFICATION Spec
CONSTANTS
  Tabs = {t1, t2}
  Commands = {c1, c2}
  MaxSockets = 3
  MaxFailures = 2
INVARIANT DebuggerReleased
PROPERTY Reconnects
CHECK_DEADLOCK FALSE
