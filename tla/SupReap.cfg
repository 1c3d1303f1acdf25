SPECIFICATION Spec
CONSTANTS
  N = 3
  MaxRestarts = 1
  Crashes = 1
  ForkFails = 0
  Terms = 1
  Hups = 0
  Kills = 0
  Stales = 0
CHECK_DEADLOCK FALSE
PROPERTIES ReapedAreForgotten
