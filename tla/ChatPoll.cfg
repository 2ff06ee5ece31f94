\* Two views, the newest pages of two sessions and an older page; opencode goes on once.
SPECIFICATION FairPollSpec
CONSTANTS
  Views = {v1, v2}
  a = a
  b = b
  older = older
  Keys <- MCKeys
  Latest <- MCLatest
  MaxFlights = 2
  MaxVersion = 2
INVARIANTS
  OneFetch
  NeverBackwards
PROPERTY
  WaitersAreReleased
CHECK_DEADLOCK FALSE
