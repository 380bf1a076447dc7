SPECIFICATION FairSpec
CONSTANTS
  Procs = {p1}
  Router <- MCRouters
  Port <- MCPorts
  RouterOf <- MCRouterOf
  LinkName <- MCLinkNames
  Topologies <- AllThree
  Commands = {"up", "recreate", "down", "purge", "migrate"}
  Starts = {"fresh", "running", "legacy"}
  MaxCommands = 3
  MaxFaults = 3
  MaxEdits = 1
  None = None
CHECK_DEADLOCK FALSE
INVARIANTS TypeOK NetworkInv ForgottenLabIsEmpty ForgottenPairsAreGone UnknownContainersStay LegacyIsUntouched
PROPERTIES PurgeOnlyWhenStopped PublishedLabIsWhole KeepsContract DownEmptiesLab
