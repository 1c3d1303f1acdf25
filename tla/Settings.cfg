SPECIFICATION Spec
CONSTANTS
  Keys <- MCKeys
  Values <- MCValues
  Hash <- MCHash
  DICTMINSZ = 1
  Lines <- MCLines
  Lower <- MCLower
  MaxLines = 2
  FieldNum = 2
  BindLines <- MCBindLines
  max_listen_fds = 1
  UserKeys <- MCUserKeys
  UserValues <- MCUserValues
  MaxOps = 0
INVARIANTS SettingsInEffect
CHECK_DEADLOCK FALSE
