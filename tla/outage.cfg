SPECIFICATION FairSpec
CONSTANTS
  Instances = {i1}
  Requests = {q1}
  Latest = 1
  Environments <- Good
  Nobody = Nobody
  Orphan = Orphan
  MaxBoots = 1
PROPERTY OutOfRotation
