SPECIFICATION FairSpec
CONSTANTS
  Procs = {p1, p2}
  Router <- MCRouters
  Port <- MCPorts
  RouterOf <- MCRouterOf
  LinkName <- MCLinkNames
  Topologies <- JustOne
  Commands = {"down", "purge", "migrate"}
  Starts = {"running", "legacy"}
  MaxCommands = 3
  MaxFaults = 2
  MaxEdits = 0
  None = None
CHECK_DEADLOCK FALSE
INVARIANTS BridgesAccounted
PROPERTIES StateErasedOnlyWhenClean CommandsEnd
