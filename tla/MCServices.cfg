\* The components around a node, one at a time.
SPECIFICATION ServicesSpec
CONSTANTS
    Caller = {c1, c2, c3}
    Cancellable = {c2, c3}
    FailureThreshold = 3
    SuccessThreshold = 2
    Timeout = 2
    MaxFailures = 7
    Borrower = {b1, b2}
    PoolSize = 2
    MaxMade = 4
    ReplaceAfter = 2
    Server = {"n1", "n2"}
    Order = {r1, r2}
    Nobody = nobody
    MaxLoad = 1
    Cost <- Costs
    Latency <- Latencies
    MinReputation = 5
    MinScore = 4
    MaxScore = 10
    DecayPercent = 0
    Claimed = {0, 1}
    MaxMissed = 1
    Fate <- Fates
    Node <- Nodes
    Shards = 2
    Matrices <- LatencyMatrices
    Imbalance <- Spread
    Alpha = 1
    Beta = 8
    Gamma = 2
    Threshold = 15
    MaxIterations = 2
    Model = {"m1", "m2"}
    Primary = "m1"
    Supported <- SupportedModels
    Worker = {w1, w2}
    MaxManagers = 5
    Payment = {"settled"}
    Completed = {"settled"}
    Limit = 1
    Window = 2
    MaxRequests = 4
    MaxDeliveries = 1
    Adapter = {"a1", "a2", "a3", "a4"}
    NoAdapter = "none"
    Modules <- MCModules
    Broken <- MCBroken
    Unreadable = {"a4"}
    MaxLoaded = 2
    MaxHooks = 2
    Job = {"j1", "j2"}
    Lamports <- Amounts
    EarningsWindow = 1
    Key = {"k1", "k2", "k3"}
    MaxSize = 2
    TTL = 1
    Announcer = {"n1", "n2", "n3"}
    ShardOf <- Sharding
    Life = 2
    Path = {0, 1}
    MaxStarts = 3
    Gossiper = {"n1", "n2", "n3"}
    Fanout = 2
    Hops = {1, 2, 3}
    Peer = {"p1", "p2"}
    Reliable = {"p2"}
    Managed = {"p1"}
    Stake <- Stakes
    Task = {"t1", "t2"}
    Client = {"c1", "c2", "c3"}
    NoClient = "none"
    Rest = 1
    CacheTTL = 1
INVARIANTS ClientsAccounted LoadFitsWork FloodReachesAll RateIsBounded HooksAreTracked
    MoneyIsAccounted NoThrashing RecentStaysCached
    ServedByItsModel LookupsFind
PROPERTIES LateAnswersKeepOpen Recovers FailedPeerRests OnePeerSuffices WaitersGetSlots
    SignalEndsServing
