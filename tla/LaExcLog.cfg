SPECIFICATION Spec
CONSTANTS
  CodeAddrs = {1}
  Hw = {11}
  Soft = {}
  Excs = {"IPE", "PIL", "BTD"}
  VS = {0, 1}
  log_int = TRUE
INVARIANT RaisedIsNamed
CHECK_DEADLOCK FALSE
