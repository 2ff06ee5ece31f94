\* Two processes, four starts, two faults; good and bad trees of two changes.
SPECIFICATION MigrationSpec
CONSTANTS
  Slugs = {"a", "b"}
  MaxChildSeq = 99
  Runs = {p, q}
  Sources <- MCSources
  NoDoc = NoDoc
  MaxStarts = 4
  MaxFaults = 2
INVARIANTS
  NothingLost
  LegacyAdopted
  NothingLeftOver
CHECK_DEADLOCK FALSE
