SPECIFICATION Spec
CONSTANTS
  lo = lo
  eth = eth
  a = a
  b = b
  x = x
  n1 = n1
  n2 = n2
  None = None
  Lo = lo
  LinkDevice = {eth}
  Name <- MCNames
  Namespace <- MCNamespaces
  Sections <- MCSections
CHECK_DEADLOCK FALSE
INVARIANTS TypeOK AcceptedNamesAreFree MastersAsDeclared NamespacesHoldTheirPeers RejectedNamesCollide
