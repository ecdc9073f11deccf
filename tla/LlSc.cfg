SPECIFICATION Spec
CONSTANTS
  Threads = {t1, t2}
  Quads = {q1, q2}
  Vals = {0, 1}
INVARIANTS
  ScAtomic
  ScHonoured
