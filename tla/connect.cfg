SPECIFICATION FairSpec
CONSTANTS
  Worlds <- MCWorlds
  Ids = {1, 2}
  NameServers = 1
  Rounds = 2
INVARIANTS
  AddressesAreTheHosts
  NoAddressesMeansExcluded
  FirstThatAccepts
PROPERTIES
  ConnectReturns
CHECK_DEADLOCK FALSE
