\* Without loopback, and with the one trigger level of a driver that set it up.
SPECIFICATION FairSpec
CONSTANTS
  Chars = {a, b}
  Sent = {}
  Capacity = 3
  Itls = {2}
  Garbage = {0}
  Iers = {{}, {"RDI"}}
PROPERTY DataSignalled
CHECK_DEADLOCK FALSE
