SPECIFICATION FairSpec
CONSTANTS
  Router <- MCRouters
  Order <- MCOrder
  Script <- Mixed
  MaxScript = 3
  Daemon = {zebra, bgpd}
  Commands = {"up", "reseed", "down", "purge"}
  MaxCommands = 4
  MaxFaults = 2
  MaxEdits = 1
  MaxPolls = 1
CHECK_DEADLOCK FALSE
INVARIANTS TypeOK MarkerMeansSeeded
PROPERTIES UpDeliversSeeds WrittenConfigSurvives CommandsEnd
