SPECIFICATION KernelSpec
CONSTANTS
  CodeAddrs = {1, 2}
  Hw = {11}
  Soft = {}
  Excs = {"IPE", "PIL"}
  VS = {0, 1}
  log_int = FALSE
  MaxNest = 3
INVARIANTS
  Balanced
PROPERTY RoundTrip
