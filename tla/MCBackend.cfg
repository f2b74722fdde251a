SPECIFICATION FairSpec
CONSTANTS
  MaxPlayer = 1
  Editors = {1}
  AllowedEdCmds = 1
  MaxCmds <- MCMaxCmds
  Watched = 0
  Signals = {"HUP", "INT"}
INVARIANTS TypeOK EachInTurn
PROPERTIES TimeGoesOn CommandsAreTaken ShutdownHappens
CHECK_DEADLOCK FALSE
