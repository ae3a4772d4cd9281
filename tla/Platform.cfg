SPECIFICATION Spec
CONSTANTS
  NodeCount = 2
  AiNodes = {2}
  Stoppers = {"api"}
  RunAttempts = 2
  RunFaults = {"crash", "api_crash", "raise"}
  MaxRunFaults = 2

  Handlers = {"h1", "h2"}
  Processes = {"p1", "p2"}
  Employees = {"e", "e2"}
  Knowledge = {"k"}
  Workflows = {"w", "w2"}
  Models = {"m", "m2"}
  Conversations = {"c"}
  Runs = {"r"}
  Rank <- Ranks
  Requests <- MutationRequests
  Present0 = {"e", "k", "m", "w"}
  Refs0 <- FirstRefs
  PoolSize = 2
  MaxCrashes = 1

  External = {"ext"}
  Managed = {"man"}
  PlatformSource = "plat"
  Caps = {"x", "m", "n", "now"}
  SourceOf <- SourceOfCapability
  Names = {"a", "b"}
  Schemas = {1, 2}
  Endpoints = {1, 2}
  Targets = {"t"}
  Syncers = {"y"}
  MaxToolEdits = 2
  Target = "t"
  TurnCalls = {"k1", "k2"}
  Slots = 1

  Users = {"u", "v"}
  Registered = {"u"}
  Codes = {1}
  Logins = {"q1", "q2"}
  LoginAttempts = 3
  Window = 1
  SessionIdle = 1
  Absolute = 2
  MaxTime = 2

  AuditRequests = {"r1", "r2"}
  AuditTenants = {"t"}
  PlatformScope = "platform"
  MemberOf <- Memberships
  Capacity = 2
  PageLimit = 1
  MaxAuditFaults = 1

  Tenants = {"d", "t"}
  Default = "d"
  Bases = {"b1", "b2", "b3"}
  Existing <- ExistingBases
  Owned = {"b1"}
  Documents <- FirstDocuments
  KbRequests = {"q1", "q2"}
  NoTenant = "nobody"

  Legacy = TRUE
  IdKeys <- TwoKeys
  MaxIdFaults = 1

  DesignEmployees = {"e"}
  DefaultModel <- Answers
  DesignModels = {"m"}
  DesignBases = {"k"}
  Unset = ""
  MAX_WORKFLOW_NODES = 3
  MAX_WORKFLOW_EDGES = 3
  DesignWorkflows = {"w1", "w2"}
  Saves = {"s1"}
  Stored0 <- StoredChain
  Posted <- PostedGraphs
  Directory <- AllThere
  MaxNodes = 3
  MaxDesignEdits = 3
  MaxLosses = 1

  Streams = {"k1", "k2"}
  Subscribers = {"f1", "f2"}
  HistoryLimit = 1
  QueueLimit = 1
  SubscriberLimit = 1
  TotalLimit = 2
  StateLimit = 1
  Ttl = 1
  MaxSequence = 2
  MaxEpoch = 2
  MaxClock = 1

  MaxTurns = 1
  MaxStamp = 1
  MaxIncidents = 2

  Files = {"u1", "u2"}
  UploadConcurrency = 1
  MaxQueueFiles = 2
  MaxCopies = 2
  MaxCallFaults = 1

  Ids = {1, 2, 3}
  MaxListTime = 2
  ListLimit = 1
  MaxReads = 3

  Adapters = {"qwen", "kimi"}
  FirstAdapter = "qwen"
INVARIANTS TypesOK NoDanglingReference SessionsAndLocks AuditTrailIsWhole AnswersAreTrue
   ValidatorIsExact  StreamsAreWhole EverythingIsClosed
PROPERTIES RunsEndOnce EveryoneIsAnswered  ReleasedWhenGone
CHECK_DEADLOCK FALSE
