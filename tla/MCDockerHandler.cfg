CONSTANT replicas = 3
SPECIFICATION FairSpec
INVARIANTS
  TypeOK
  RunningMeansAllReady
  NetworkTracked
  DestroyedNeverServes
PROPERTIES
  OpReturns
  Implements
