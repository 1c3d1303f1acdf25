SPECIFICATION FairSpec
CONSTANTS
  Entries = 2
  MaxFd = 11
  MaxForks = 5
  MaxRestarts = 1
  MaxClients = 1
INVARIANTS WiredAsDocumented DeathShows
PROPERTIES OnlyTheDeadAreReplaced OrphansNotice
CHECK_DEADLOCK FALSE
