SPECIFICATION Spec
CONSTANTS
    Ip <- Hosts
    NoIp = 0
    Network <- Networks
    BroadNetwork <- Wide
    Alert <- Found
    RuleSpec <- Specs
    MaxRules = 1
    MaxAlerts = 2
    MaxScans = 2
    MaxFound = 2
    Verdict = {"falso_positivo", "analisar"}
    Saver = {w1, w2}
    Analyst = {t1}
SYMMETRY SaverSymmetry
INVARIANTS
    TypeOK
    SuppressionIsScoped
    HitsAccounted
    HidingIsAnnounced
    FalsePositivesTrain
CHECK_DEADLOCK FALSE
