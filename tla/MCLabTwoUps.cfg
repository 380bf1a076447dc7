SPECIFICATION Spec
CONSTANTS
  Procs = {p1, p2}
  Router <- MCRouters
  Port <- MCPorts
  RouterOf <- MCRouterOf
  LinkName <- MCLinkNames
  Topologies <- JustOne
  Commands = {"up"}
  Starts = {"fresh"}
  MaxCommands = 2
  MaxFaults = 0
  MaxEdits = 0
  None = None
CHECK_DEADLOCK FALSE
PROPERTIES PlainUpKeepsState
