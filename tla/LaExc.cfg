SPECIFICATION Spec
CONSTANTS
  CodeAddrs = {1}
  Hw = {11}
  Soft = {}
  Excs = {"IPE", "PIL"}
  VS = {0, 1}
  log_int = FALSE
INVARIANT TypeOK
PROPERTY UserConfined
CHECK_DEADLOCK FALSE
