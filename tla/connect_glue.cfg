SPECIFICATION Spec
CONSTANTS
  Worlds <- MCGlueWorlds
  Ids = {1, 2}
  NameServers = 1
  Rounds = 2
INVARIANTS
  AddressesAreTheHosts
CHECK_DEADLOCK FALSE
