SPECIFICATION Spec
CONSTANTS
  Asids = {a1, a2}
  Low <- LowPages
  Global <- GlobalPages
  Ppns = {1, 2}
  Slots = {s1, s2}
  Ptes <- PteForms
  Handler <- HandlerPage
  MaxStale = 1
INVARIANT RefillIsDirect
SYMMETRY Interchangeable
