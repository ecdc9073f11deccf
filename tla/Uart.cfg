\* The serial port stops for good when its terminal ends (abort in
\* serial_check_io), so a state without a successor is no error.
SPECIFICATION Spec
CONSTANTS
  Chars = {a, b}
  Sent = {a}
  Capacity = 3
  Itls = {1, 2}
  Garbage = {0, 3}
  Iers = {{}, {"RDI"}, {"THRI"}, {"RDI", "THRI", "RLSI"}}
INVARIANTS IrqExact InOrder DrExact XmitAsserts ThrSignalled
CHECK_DEADLOCK FALSE
