SPECIFICATION Spec
CONSTANTS
  Fds = {1, 2}
  Cap = 12
  MaxConns = 3
  MaxPkts = 1
  MaxCrashes = 1
  MaxRestarts = 1
  IdleTimeout = TRUE
  AcceptErrors = FALSE
CHECK_DEADLOCK FALSE
INVARIANTS AnswersReachTheirClient SessionsEnd ConnectionsAreServed BlocksMeetTheirSession
