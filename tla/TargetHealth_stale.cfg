CONSTANTS
    a1 = a1
    Direct = Direct  NoConfig = NoConfig
    Agents = {a1}
    Configs <- DirectConfigs
    Slots = {1, 2}
    HealthyThreshold = 1
    UnhealthyThreshold = 1
    Answers = {"up"}
    Cordonable = {}
    MaxConnections = 0
    MaxReconciles = 3
SPECIFICATION FairHealthSpec
PROPERTY StaleResultNeverCounts
CHECK_DEADLOCK FALSE
