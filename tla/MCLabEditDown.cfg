SPECIFICATION Spec
CONSTANTS
  Procs = {p1}
  Router <- MCRouters
  Port <- MCPorts
  RouterOf <- MCRouterOf
  LinkName <- MCLinkNames
  Topologies <- Edited
  Commands = {"up", "down"}
  Starts = {"fresh"}
  MaxCommands = 2
  MaxFaults = 2
  MaxEdits = 1
  None = None
CHECK_DEADLOCK FALSE
PROPERTIES DownRemovesNetworking
