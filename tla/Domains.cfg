SPECIFICATION DomainsSpec
CHECK_DEADLOCK FALSE
CONSTANTS
  Images = {"a","b"}
  MaxSnapshots = 3
  Contents = {"c0","c1","c2"}
  Goal <- TwoGoals
  Intervals = {0,1,2,3}
  Shortest = 1
  Longest = 2
  MaxWorkers = 2
  Capacity = 2
  MaxEvents = 5
  MaxBoots = 2
  Plans = {"p1","p2"}
  Confirmations = {"c1"}
  Keys = {"k1","k2"}
  Bound = {"local"}
  MaxReloads = 1
  AdaptersOf <- AdapterSets
  TargetOf <- PlanTargets
  Files <- TwoFiles
  MaxAttempts = 2
  RelayConfigs = {c1,c2}
  MaxRelayRuns = 2
  Servers = {"s1","s2"}
  Offers = {{"a.b"},{"a.b","a_b"}}
  Local <- LocalName
  SkillWorkers = {w1,w2}
  Proposals = {"c1"}
  MaxCandidates = 1
  MaxOwnerMoves = 1
  ProviderLocks = {"v1","v2"}
  CanaryRuns = {1,2}
  MaxCanaryBoots = 2
  AptPackages = {"p1","p2"}
  NodeVersion = "n"
  MaxPackageMoves = 2
  Wanted = {"a","b"}
  Locators = {"l1","l2","l3"}
  ApprovedRoots = {"l1","l2"}
  MaxHops = 2
  DebPackages = {"d1","d2"}
  RootPackage = "d1"
  MaxHostMoves = 2
  ArchiveBytes = {"g1","g2","x"}
  Genuine = {"g1","g2"}
  MaxNodeMoves = 2
  TotalChunks = 3
  CopyOf <- SenderCopies
  MaxParts = 2
  StartsAs <- RemoteStarts
  RemoteIntents <- RemotePlans
  MaxRemoteMoves = 1
  RelayJobs = {j1, j2}
  MaxEntries = 2
  MaxStates = 2
  PlanInputs = {"v1", "v2"}
  ProviderTools = {"t1", "t2"}
  Builders = {b1, b2}
  MaxMoves = 1
  Published <- PublishedFiles
  OwnedFiles = {"config"}
  MaxFaults = 3
  MaxInits = 3
  Shells = {s1, s2}
  Pids = {"p1", "p2"}
  MaxBirths = 2
  Definitions = {"d1", "d2"}
  MaxServiceFaults = 2
  MaxConfigs = 1
  MaxStarts = 2
  MaxReleases = 2
  ChunkIds = {c1}
  EngramRuns = {r1, r2}
  SandboxRuns = {r1, r2}
  SandboxPaths = {p1}
  OutputLimit = 1
  MaxWritten = 2
  MaxEdits = 2
  MaxMaterialisations = 2
  Sources = {"main"}
  Provisions = {p1}
  MaxUpgrades = 1
  MaxMetadata = 1
  MaxRequests = 2
  FetchLocators = {"index"}
  Addresses = {"public","other","private"}
  PrivateAddresses = {"private"}
  MaximumBytes = 2
  MaxRenames = 2
  MaxFetchHops = 2
  RootPaths <- TargetRoots
  ControlPath <- TargetControl
  ManagedPaths <- TargetManaged
  Alias <- PlatformAlias
  AliasTarget <- PlatformTarget
  ReceiptDigests = {"d1","d2"}
  MaxSwaps = 1
  FoundAs <- LocalFound
  FileIntents <- LocalIntents
  OwnerWork <- LocalWork
  MaxFileMoves = 2
  Requests = {"r1","r2"}
  Setups = {"s1","s2"}
  ClaimTexts = {"a","A"}
  Meaning <- SpellingOf
  MaxProfileRevision = 2
  MaxSuggested = 2
  ContextSections <- SomeSections
  ContextSessions <- SomeSessions
  ContextGrants <- SomeGrants
  SessionBudgets = {0,1,2,3}
  ResponseLimits = {1,2}
  MaxContextTime = 3
  MaxContextReceipts = 2
  OnboardingAttempts = {"a","b"}
  KeyOf <- SharedKey
  Registrations = {"r","q"}
  MaxRepositories = 2
  MaxWriteFailures = 1
  Stagers = {"cli","desktop"}
  RevisionIds = {"i","j"}
  Identities = {"ann","bob"}
  RecipientLists <- SomeLists
  ProfileFields = {"name","tone"}
  FieldValues = {"set","deleted"}
  MaxEncryptions = 2
  InterviewFields <- AskedFields
  InterviewValues = {"x","y"}
  MaxGeneration = 3
  MaxConfirmed = 2
  OperationIds = {1,2,3}
  DraftOrders <- Drafts
  MaxDependencies = 2
  ProviderClaims <- ClaimLists
  LowerCase <- LowerOf
  DeclaredRoots <- DeclRoots
  ProtectedRoots <- ProtRoots
  LayerSpecs <- Specs
  DeleteMark = DeleteMark
  ListedLayers <- Lists
  MaxLayerEdits = 2
  ConsentPlans <- PlansConsented
  PackageResolutions = {"r1","r2"}
  MaxReplans = 1
  MaxRunStops = 1
INVARIANTS
  SnapshotsKept
  OperationsTold
  RelaysServe
  SkillsReviewed
  PackagesGenuine
  FilesRestorable
  TargetsGuarded
  PlansStand
  ProvidersContained
  MachinesOnboarded
  PersonalKept
PROPERTIES
  NothingRewritten
  UndoneExactly
  CurrentWhenUsed
