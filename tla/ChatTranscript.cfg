\* Two requests at once, two compactions, five messages, a failure; a page of three.
SPECIFICATION Spec
CONSTANTS
  Clients = {c1, c2}
  None = None
  Page = 3
  MaxId = 5
  MaxCalls = 2
  MaxFaults = 1
  MaxMarks = 2
INVARIANTS
  RestoredFirst
  RestoredOnce
  CommitsConfirmed
SYMMETRY Alike
CHECK_DEADLOCK FALSE
