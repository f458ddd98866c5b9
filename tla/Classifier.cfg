SPECIFICATION Spec
CONSTANTS
    Ip <- Hosts
    NoIp = 0
    Network <- Networks
    BroadNetwork <- Wide
    Alert <- Artifacts
    RuleSpec <- Specs
    MaxRules = 0
    MaxAlerts = 2
    MaxScans = 2
    MaxFound = 2
    Verdict = {"falso_positivo", "analisar"}
    Saver = {w1}
    Analyst = {t1}
INVARIANT OnlyVettedIsFiled
CHECK_DEADLOCK FALSE
