\* Two directories; four runs, edits, changes of the tree or faults.
SPECIFICATION CageSpec
CONSTANTS
  Order <- MCOrder
  Upward <- MCAbove
  Written <- MCWritten
  MaxEvents = 4
INVARIANTS
  KeptAsAccepted
  SeedCompletes
CHECK_DEADLOCK FALSE
