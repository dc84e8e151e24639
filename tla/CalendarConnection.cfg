SPECIFICATION Spec
CONSTANTS
  c1 = c1
  c2 = c2
  a1 = a1
  a2 = a2
  k1 = k1
  p1 = p1
  p2 = p2
  h1 = h1
  h2 = h2
  None = None
  Calls = {c1, c2}
  Attempts = {a1, a2}
  Keys = {k1}
  Payloads = {p1, p2}
  Channels = {h1, h2}
  MaxGrants = 2
  MaxNumber = 2
SYMMETRY Interchangeable
INVARIANTS
  EventsAreHonoured
  ConsentsAreKept
  ChangesCountOnce
PROPERTIES
  FirstResultStays
CONSTRAINT Apart
CHECK_DEADLOCK FALSE
