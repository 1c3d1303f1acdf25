SPECIFICATION Spec
CONSTANTS
  Keys <- MCKeys
  Values <- MCValues
  Hash <- MCHash
  DICTMINSZ = 1
  Lines <- MCLines
  Lower <- MCLower
  MaxLines = 3
  FieldNum = 2
  BindLines <- MCBindLines
  max_listen_fds = 1
  UserKeys <- MCUserKeys
  UserValues <- MCUserValues
  MaxOps = 3
INVARIANTS SlotsAreCounted LoadedAsWritten DumpIsLoadable SplitIsRight PluginIsWhole
PROPERTIES ImplementsMap ChangesAsAsked
CHECK_DEADLOCK FALSE
