\* Two overlapping operations on an existing and a new change, work in the trees, a stop at any step.
SPECIFICATION Spec
CONSTANTS
  a = a
  b = b
  None = None
  Changes <- Pair
  Existing <- Alone
  Workers = {p1, p2}
  MaxOps = 3
  MaxEdits = 1
  MaxRestarts = 1
INVARIANTS
  DoneWasReviewed
  ListedIsResolved
  PendingHasReviewer
PROPERTIES
  WorkIsKept
SYMMETRY WorkerSymmetry
CHECK_DEADLOCK FALSE
