SPECIFICATION PlatformSpec
CONSTANTS
    Configs <- MCConfigs
    Evaluators = {"e1", "e2"}
    Reloaders = {"r1", "r2"}
    HostNames = {"h1", "h2"}
    Reported <- MCReported
    Denied = {"AC-001"}
    Coeffs = {100, 60}
    MaxCalls = 2
    CveIds = {"c1", "c2", "c3"}
    Feed <- MCFeed
    Samples <- MCSamples
    Windows = {1}
    MaxRetries = 1
    MaxCacheSize = 2
    Inventories <- MCInventories
    SavedFiles <- MCSaved
    MinPScore = 600
    EpssFactor <- MCEpss
    MaxSyncs = 1
    MaxRounds = 1
    MaxCalcs = 1
    Specs <- MCSpecs
    Installers = {"p", "q"}
    AutoEnable = TRUE
    ExecPolicy = "whitelist"
    WhiteList = {"a"}
    MaxOps = 5
    NetHosts = {"a", "r", "b"}
    NetReports <- MCNet
    KnownNets <- MCKnown
    NetGoroutines = {"g1", "g2"}
    SubnetOfIP <- MCIPs
    NetworkOf <- MCNetworkOf
    LayeredOn = TRUE
    MaxHops = 5
    MaxReports = 2
    FedNodes = {"n1", "n2"}
    Isolated = {"n2"}
    NodeNets <- MCNodeNets
    NodeOrder <- MCNodeOrder
    PlaceOrder <- MCPlaceOrder
    BadTokens = {{}, {"n2"}}
    MaxHostFacts = 2
    MaxPolicyFacts = 2
    MaxAttempts = 2
    MaxCycles = 2
    MaxToggles = 1
    Interfaces <- MCInterfaces
    VlanEnv <- MCVlanEnv
    VlanProc = {"eth1"}
    VlanNamed = {}
    Firewalls <- MCFirewalls
    PackageLists <- MCPackages
    VendorOf <- MCVendors
    SubPackages = {"server"}
    Numbers = {"8.7", "1", "3.0"}
    Guesses <- MCGuesses
    MaxHostChanges = 1
    MaxWriteFaults = 1
    MaxExpiries = 1
    MaxForced = 1
   
PROPERTIES TighteningNeverOpens
CHECK_DEADLOCK FALSE
