SPECIFICATION Spec
CONSTANTS
    pc = pc
    pc2 = pc2
    pc3 = pc3
    srv = srv
    gw = gw
    ext = ext
    ext2 = ext2
    pc6 = pc6
    ll6 = ll6
    ext6 = ext6
    m1 = m1
    m2 = m2
    m3 = m3
    bc = bc
    cloud = cloud
    NoHost = NoHost
    Local <- MCLocal
    Sanctioned = {ext2}
    KnownService = {ext2}
    Threshold <- MCThreshold
    SuspiciousPorts <- MCSuspiciousPorts
    WebPorts <- MCWebPorts
    Routers = {gw}
    Printers = {}
    Gateways = {gw}
    MaxTransitions = 4
    MaxClaims = 4
    ReputationZones = {"rbl"}
    ProviderZones = {"cdn"}
    SuspiciousTlds = {"xyz"}
    PublicResolvers = {ext2}
    MaxZones = 5
    MaxZoneNames = 9
    LateralPorts = {3389, 445}
    CleartextPorts = {80, 8000}
    CleanIntervals = {60}
    Filler <- MCFiller
    Entropy <- MCEntropy
    Autocorrelation <- MCAutocorrelation
    NameOf <- MCNameOf
    MaxPairs = 20
    MaxFlows = 9
    MaxBursts = 9
    IcsPorts <- MCIcsPorts
    DbPorts <- MCDbPorts
    WellKnown = {22, 23, 25, 80, 443}
    WireguardPorts = {51820}
    OpenvpnPorts = {1194}
    ExecPipes = {"svcctl"}
    AdminPipes = {"samr"}
    RoutinePipes = {"srvsvc"}
    Interfaces <- MCInterfaces
    Drsr = "drsuapi"
    PrintInterfaces = {"spoolss"}
    MaxKdcs = 9
    OldVersions = {"ssl3", "tls10"}
    SniReasons <- MCSniReasons
    BadJa3 = {"cs"}
    BadJa3s = {"css"}
    BadJa4 = {"cs"}
    BadJa4s = {"css"}
    AlpnOddPorts = {8888}
    HttpTokens = {"h2", "http/1.1"}
    Zone <- MCZone
    Now = 5
    Year2000 = 2
    ScannerTier <- MCScannerTier
    HighPaths = {"shell"}
    MediumPaths = {"env"}
    Injections <- MCInjections
    Payloads <- MCPayloads
    MetadataProbe = "metadata"
    MetadataHosts = {"imds"}
    ShareHosts = {"share"}
    DohHosts = {"doh"}
    DohIps = {ext2}
    DohJa3 = {"dohclient"}
    CobaltJa3 = {"cs"}
    Benign = {ext}
    V6 = {pc6, ll6, ext6}
    GroupMacs = {bc}
    SmbFamily = {139, 445}
    Interval = 10
    Methods = {"GET", "POST", "TRACE"}
    Outliers <- MCOutliers
    Rules <- MCRules
    NoWindow = NoWindow
    MaxNamedIps = 9
    MaxNames = 9
    Scope <- MCScope
    Bindings <- MCBindings
    Excluded <- MCExcluded
    MacOf <- MCMacOf
    RouterV4 = 4
    MaxBindings = 20
    Cves <- MCCves
    Kev <- MCKev
    PrinterVendor = {"printer"}
    SocRules <- MCSocRules
    Apart <- MCApart
    Resolver = 2
    FileServer = 2
    Themes = {"ruled"}
    Capture <- MCCapture
    MaxPackets = 6
    KnownQuic = {}
    GreyNoiseKey = TRUE
    Deaf = {}
    Faulty = {"port_scan"}
    NotYet = NotYet
INVARIANT RuleFires
CHECK_DEADLOCK FALSE
