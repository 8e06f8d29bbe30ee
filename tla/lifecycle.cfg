SPECIFICATION FairSpec
CONSTANTS
  Instances = {i1, i2}
  Requests = {q1}
  Latest = 2
  Environments <- Various
  Nobody = Nobody
  Orphan = Orphan
  MaxBoots = 3
INVARIANTS TypeOK SchemaMatchesVersion ServesOnlyMigrated 
PROPERTIES GracefulExit SignalledExits
