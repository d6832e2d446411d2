CONSTANTS
    r1 = r1  r2 = r2  r3 = r3  ga = ga  gl = gl  a1 = a1  h1 = h1  h2 = h2  h3 = h3
    d1 = d1  d2 = d2  s1 = s1  ka = ka  kp = kp  f1 = f1  e1 = e1
    None = None  Admin = Admin  Direct = Direct  NoConfig = NoConfig  NoAttempt = NoAttempt
    Requests <- TwoRequests
    Groups <- TwoGroups
    Aggregate <- OneGroup
    Lanes <- TwoLanes
    MaxRotations = 0
    MaxRevokes = 1
    MaxRestarts = 1
    Agents = {a1}
    Configs <- LiveHealthConfigs
    Slots = {1}
    HealthyThreshold = 1
    UnhealthyThreshold = 1
    Answers = {"up", "down", "busy"}
    Cordonable = {a1}
    MaxConnections = 1
    MaxReconciles = 2
    Attempts <- ThreeAttempts
    MaxStreams = 1
    MaxFaults = 2
SPECIFICATION LiveSpec
PROPERTIES
    RowCloses SoundPathReturns LaneIsAgreed AdmissionEnds
CHECK_DEADLOCK FALSE
