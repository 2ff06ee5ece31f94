\* A board page and an explorer page; channels of one event; two edits and a failure.
SPECIFICATION FairSpec
CONSTANTS
  Pages = {"board", "explorer"}
  Explorers = {"explorer"}
  Capacity = 1
  MaxFlights = 2
  MaxDepth = 2
  MaxEdits = 2
  MaxFaults = 1
INVARIANTS
  NewsIsUnderway
PROPERTIES
  PagesCatchUp
  ServerStops
CHECK_DEADLOCK FALSE
