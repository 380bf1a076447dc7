SPECIFICATION Spec
CONSTANTS
  Router <- OneRouter
  Order <- OneOrder
  Script <- TwoSeeds
  MaxScript = 2
  Daemon = {zebra}
  Commands = {"up", "purge"}
  MaxCommands = 3
  MaxFaults = 1
  MaxEdits = 0
  MaxPolls = 1
CHECK_DEADLOCK FALSE
PROPERTIES EveryUpDeliversSeeds
