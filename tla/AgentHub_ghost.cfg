CONSTANTS
    r1 = r1  r2 = r2  r3 = r3  r4 = r4
    ga = ga  gl = gl  None = None  Admin = Admin
    Requests <- ThreeRequests
    Groups <- TwoGroups
    Aggregate <- OneGroup
    Lanes <- TwoLanes
    MaxRotations = 1
    MaxRevokes = 1
    MaxRestarts = 1
SPECIFICATION HubSpec
SYMMETRY Symmetry
INVARIANT LostAgentLeavesHub
CHECK_DEADLOCK FALSE
