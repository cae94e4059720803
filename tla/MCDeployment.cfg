CONSTANTS
  None = None
  Archives <- MCArchives
  Subfolders <- MCSubfolders
  CPUs <- MCCPUs
  Memories <- MCMemories
  IPs <- MCIPs
  replicas <- MCReplicas
  AutoscalerEnabled = TRUE
  MaxInt = 40000
  Kilo = 10
  Kibi = 16
  DefaultNanoCPUs = 62
  DefaultMemoryBytes = 32768
SPECIFICATION Spec
INVARIANTS
  LeftoversAccounted
  AllOrNothing
  DeployedExactly
  LimitsApplied
