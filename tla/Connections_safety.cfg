CONSTANTS
    r1 = r1  r2 = r2  r3 = r3  ga = ga  gl = gl  a1 = a1
    h1 = h1  h2 = h2  h3 = h3
    None = None  Admin = Admin  Direct = Direct  NoConfig = NoConfig  NoAttempt = NoAttempt
    Requests <- ThreeRequests
    Groups <- TwoGroups
    Aggregate <- OneGroup
    Lanes <- TwoLanes
    MaxRotations = 1
    MaxRevokes = 1
    MaxRestarts = 0
    Agents = {a1}
    Configs <- HealthConfigs
    Slots = {1, 2}
    HealthyThreshold = 1
    UnhealthyThreshold = 1
    Answers = {"up"}
    Cordonable = {}
    MaxConnections = 0
    MaxReconciles = 3
    Attempts <- ThreeAttempts
    MaxStreams = 2
    MaxFaults = 3
SPECIFICATION ServerSpec
SYMMETRY Symmetry
INVARIANTS
    CredentialsCurrent NothingLeftBehind ConnectedIsRecorded
    OneLoopPerPath
PROPERTIES
    LeavesHubWhenDone StaleResultDropped HandoffTruncatesNothing
CHECK_DEADLOCK FALSE
