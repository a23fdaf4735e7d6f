SPECIFICATION Spec
CONSTANTS
  \* SessionStore
  MaxEntries = 6
  MaxCalls = 2
  Goals = {TRUE, FALSE}
  PartialWrites = {TRUE, FALSE}
  \* HostcallQueue
  Tenants = {a, b}
  NoTenant = nobody
  FastCapacity = 1
  OverflowCapacity = 2
  GhostCapacity = 1
  MinSignalSamples = 2
  MaxSignallessStreak = 2
  UnstableRejectionStreak = 2
  BacklogThreshold = 1
  MaxGhostGen = 3
  MaxPins = 1
  \* SchedulerLoop
  MaxTimerId = 3
  MaxTime = 2
  MaxDelay = 1
  MaxSeq = 5
  \* ReactorMesh
  Shards = 2
  LaneCapacity = 2
  MeshCalls = {c, d}
  Topologies <- SomeTopologies
  MaxEnvelopes = 4
  \* NumaSlabPool
  SlabNodes <- TwoNodes
  NodeIds = {0, 1, 2}
  SlabCapacity = 2
  MaxGeneration = 2
  \* ContentionPolicy
  MinAcquires = 4
  ReadDominant = 800
  MixedFloor = 450
  MixedCeiling = 799
  StarvationWait = 2
  StarvationTimeouts = 2
  MaxBiasWindows = 3
  RecoveryWindows = 2
  Acquires = {0, 1, 4, 5}
  Waits = {1, 2}
  Timeouts = {1, 2}
  \* S3FifoPolicy
  Keys = {k1, k2, k3, k4}
  NoKey = nokey
  Owners = {x, y}
  NoOwner = noowner
  LiveSize = 3
  SmallSize = 1
  GhostSize = 1
  OwnerBudget = 2
  Window = 2
  MinGhostHits = 1
  MaxRejections = 1
  MaxPolicyGen = 3
  \* RepairPlanning
  Catalogue <- Proposals
  KnownRules = {1, 2}
  MaxCandidates = 3
  \* ExtensionRegistry
  Modules = {m1, m2}
  NoModule = nomodule
  Names = {t}
  Functions = {f1, f2}
  MaxRecords = 3
  MaxLoads = 3
  \* VirtualFiles
  Paths <- SomePaths
  Hosts <- SomeHosts
  MaxNodes = 3
  MaxDescriptors = 2
INVARIANTS FilesAreSound  SlabIsSound PolicyIsSound RepairIsSound RegistryIsSound
PROPERTIES FileOnlyGrows AdmittedInOrder QueueIsSound SchedulerKeepsTime MeshKeepsOrder WindowsAreServed
CHECK_DEADLOCK FALSE
