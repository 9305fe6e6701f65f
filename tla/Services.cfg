CONSTANTS
    btc = btc
    eth = eth
    pol = pol
    xyz = xyz
    u1 = u1
    u2 = u2
    n1 = n1
    gpt = gpt
    claude = claude
    NoUpdate = NoUpdate
    Symbols = {btc, xyz}
    Tracked = {btc}
    Clients = {w1, w2, w3}
    MaxBatch = 2
    MaxUpdates = 3
    NewsSymbols <- MCNewsSymbols
    TradingAssets <- MCNewsSymbols
    Topics <- MCTopics
    ToolTopics <- MCToolTopics
    Articles = {u1, u2}
    Mentions <- MCMentions
    NewsClients = {n1}
    Wanted <- MCWanted
    Tails <- MCTails
    HistorySize = 2
    SeenLimit = 1
    SeenKept = 1
    MaxFound = 2
    MaxBroadcasts = 2
    MaxCommands = 2
    CoinSymbols <- MCCoinSymbols
    Assets <- MCAssets
    KnownIds = {btc}
    Listed = {btc, eth, pol}
    Renamed = {pol}
    Requests = {r1}
    Asks <- MCAsks
    Delay = 2
    CoinFaults = 1
    CoinRestarts = 1
    Models = {gpt, claude}
    Offers <- MCOffers
    Calls = {c1, c2}
    MaxMoves = 1
    CatalogueFaults = 1
    CatalogueRestarts = 1
    Readers = {c1, c2}
    Ttl = 2
    MaxTime = 5
    Nonces = {k1, k2}
    Wallets = {alice, bob}
    NonceFaults = 3
    NonceRestarts = 2
    Files = {f1, f2, f3}
    UploadFaults = 2
    UploadRestarts = 2

SPECIFICATION ServicesSpec

CHECK_DEADLOCK FALSE

INVARIANTS
    TypesOK
    LatestIsNewest
    NewsReachesClients
    NewsIsNotRepeated
    
    ListedPricesAreCharged
    SnapshotsAreRecent
    NoncesSignInOnce
    UploadsAreNotStranded

PROPERTIES
    UpdatesReachClients
    StoppedMonitorRests
    OwnRequestsAreSpaced
    CoinsAreInitialized
