SPECIFICATION PartsSpec
CONSTANTS
    Name = {1, 2}
    Content = {a}
    Torn = Torn
    NoFile = NoFile
    NoName = 0
    Policies = {"latest", "none"}
    Count = 1
    Days = 0
    Requests = {"r1"}
    StoreFaults = {"scan", "remove", "volume"}
    MaxPuts = 2
    MaxTime = 1

    Callers = {"fetcher", "publisher"}
    Workers = {"w1", "w2"}
    Nobody = Nobody

    File = {"start"}
    RingCap = 1
    QueueCap = 1
    BusFaults = {"net", "ack", "overrun", "crash"}
    MaxCommits = 2
    MaxBusCrashes = 1

    Provider = {1, 2}
    HasIP = {2}
    Distance <- MCDistance
    Prices = {1, 2}
    MaxPrice = 2
    Tolerance = 0
    IPLease = TRUE
    AdoptUnleased = TRUE
    Settle = 1
    BidWait = 1
    LeaseReady = 1
    SkipTTL = 1
    MaxAttempts = 2
    Roles = {"server", "controller", "quote"}
    NoProvider = 0
    MaxDeployments = 2
    MaxDriverCrashes = 1

    Host = {"apex"}
    Game = "game"
    Addr = {"host", "ip"}
    NoAddr = "none"
    Kind <- MCKind
    Port = {80, 8}
    Plain = {80}
    Proxied = TRUE
    ClearRedirects = TRUE
    Slot = {1, 2, 3, 4, 5, 6, 7}
    OldZones <- MCZones
    OldRules <- MCRules
    ByHand <- MCByHand
    DnsFaults = {"net", "ack", "crash"}
    MaxTasks = 2
    MaxEdits = 1

    LeasePrices = {0, 1, 3}
    DeployDays = 2
    Margin = 150
    MinTopup = 2
    CheckInterval = 1
    Deposit = 2
    FundsFaults = {"read", "topup", "ack"}
    MaxLeases = 2
    Horizon = 4

    Visitor = {"v1", "v2"}
    NoVisitor = NoVisitor
    Attempt = {1, 2}
    Limit = 1
    Window = 2
    AllFactor = 2
    MaxClients = 1
    MaxNow = 4

    DSeq = {d1}
    ReqID = {q1}
    NoDSeq = NoDSeq
    NoReq = NoReq
    Sha = {s1}
    ShaCap = 1
    Unset = Unset
    Nameless = Nameless
    NoArchive = NoArchive
    DocFaults = {"adopt", "alive"}
    MaxSpoils = 1

    Place = {"h1", "h2"}
    NoUrl = NoUrl
    Configs <- MCConfigs
    Retries = 3
    Restoring = TRUE
    RouteFaults = {"look", "net", "stranger", "missing", "budget"}
    MaxMoves = 1
    MaxCalls = 1
INVARIANTS
    PartsTypeOK
    IndexAgrees
    Restorable
    GateMeansRunning
    ActedOnce
    NoneForgotten
    NothingUnaccounted
    OneAttemptOpen
    TakesAGoodBid
    NameFollowsServer
    RunwayKept
    RateBounded
    EveryRouteTried
PROPERTIES
    PinHolds
    TimeoutMeansLate
    SuccessMeansRight
    OthersUntouched
    SpendsWithReason
    DamageIsSeen
CHECK_DEADLOCK FALSE
