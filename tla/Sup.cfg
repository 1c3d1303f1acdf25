SPECIFICATION FairSpec
CONSTANTS
  N = 2
  MaxRestarts = 2
  Crashes = 2
  ForkFails = 1
  Terms = 1
  Hups = 1
  Kills = 1
  Stales = 1
CHECK_DEADLOCK FALSE
INVARIANTS NoWorkerLeftBehind AllAreTold
PROPERTIES WorkersComeBack OrphansEnd KillallReturns
