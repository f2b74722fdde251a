SPECIFICATION FairSpec
CONSTANTS
  MaxPlayer = 0
  Editors = {}
  AllowedEdCmds = 1
  MaxCmds <- MCMaxCmds
  Watched = 0
  Signals = {"USR1", "USR2"}
PROPERTIES SignalsAreForwarded
CHECK_DEADLOCK FALSE
