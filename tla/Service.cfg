SPECIFICATION FairSpec
CONSTANTS
  Clients = {c1, c2}
  Busy = {c2}
  Fickle = {c1}
  Mortal = {c2}
  Asked = {"release", "startDiscovery", "stopDiscovery"}
  MaxCalls = 1
  MaxBoots = 2
CHECK_DEADLOCK FALSE
INVARIANTS DiscoveryHasOwner BelieversAreServed
PROPERTIES RegisteredAreTold OrphanedServiceUnloads
