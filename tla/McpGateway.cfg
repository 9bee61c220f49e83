SPECIFICATION GatewaySpec
CONSTANTS
    sA = sA
    sB = sB
    uX = uX
    uY = uY
    hX = hX
    hY = hY
    c1 = c1
    c2 = c2
    c3 = c3
    p1 = p1
    p2 = p2
    Servers = {sA, sB}
    Callers = {C}
    Watcher = W
    ListKinds = {"tools", "resources", "prompts"}
    MaxVersion <- MCMaxVersion
    Conflicting <- MCConflicting
    Oversized <- MCOversized
    MaxFaults = 1
    NoList = NoList
    Uris = {uX, uY}
    Hosts = {hX, hY}
    UriOf <- MCUriOf
    MaxConnections = 2
    MaxRefusals = 1
    MaxUpdates <- MCMaxUpdates
    NoConnection = NoConnection
    ToolCalls = {c1, c2, c3}
    ServerOf <- MCServerOf
    BytesOf <- MCBytesOf
    MaxPending = 2
    MaxProgress <- MCMaxProgress
    NoProgress = NoProgress
    Posts = {p1, p2}
    IdOf <- MCIdOf
    Gets = {g1}
    Monitor = M
    Deleter = D
    FrameBytes <- MCFrameBytes
    Capacity = 2
    NoWaiter = NoWaiter
INVARIANTS
    ListsAreHonest
    PromiseKept
    AccountIsExact
    HttpIsHonest
PROPERTIES
    GatewayDelivers
CHECK_DEADLOCK FALSE
