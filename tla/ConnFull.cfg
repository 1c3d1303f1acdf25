SPECIFICATION FairSpec
CONSTANTS
  Fds = {1}
  Cap = 2
  MaxConns = 3
  MaxPkts = 1
  MaxCrashes = 2
  MaxRestarts = 1
  IdleTimeout = FALSE
  AcceptErrors = TRUE
CHECK_DEADLOCK FALSE
INVARIANTS AnswersReachTheirClient
PROPERTIES ClientsAreAccepted ClosingIsNoticed
