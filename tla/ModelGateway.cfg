SPECIFICATION ModelSpec
CONSTANTS
    k1 = k1  k2 = k2  k3 = k3  e1 = e1  e2 = e2  u1 = u1  u2 = u2
    NoRecord = NoRecord  NoToken = NoToken  NoKey = NoKey  Nobody = Nobody
    Requests <- MCRequests
    TargetsOf <- MCTargets
    MaxRouteDepth = 3
    Absent = {"ghost"}
    Refusing = {"acp"}
    MaxDeltas = 2
    Conversations <- MCConversations
    Exchanges <- MCExchanges
    NoAnswer = NoAnswer
    NoHandle = NoHandle
    None = None
    Registry <- MCRegistry
    Instances <- MCInstances
    Collected <- MCCollected
    FreeTier = {"groq"}
    Catalog <- MCCatalog
    Declared <- MCDeclared
    Chains <- MCChains
    Asks <- MCAsks
    Routes <- MCRoutes
    ForwardDepth = 2
    Inbound <- MCInbound
    AnyEndpoint <- AutoRoute
    SlotOrder <- MCSlots
    KeyRuns = {r1, r2}
    EditOrder <- MCEdits
    EditOf <- MCEditOf
    PoolAtStart <- MCStart
    MaxTime = 1
    BaseCooldown = 1
    MaxCooldown = 2
    MaxRetryAfter = 2
    RetryAfters = {0, 2}
    Grant = Grant
    Callers = {a, b}
    UserOrder <- MCUsers
    UserOp <- MCUserOp
    MaxTokens = 4
INVARIANTS ServingIsHonest CredentialsAreKept
PROPERTY EverybodyIsAnswered
CHECK_DEADLOCK FALSE
