CONSTANTS
    r1 = r1  r2 = r2  r3 = r3  r4 = r4  s1 = s1  s2 = s2
    ka = ka  kb = kb  kp = kp  kh = kh  f1 = f1  e1 = e1
    Requests <- FourRequests
    class <- MixedClass
    queueKey <- MixedKey
    sessionKey <- MixedSession
    Sessions = {s1, s2}
    Keys = {ka, kp, kh}
    Refreshers = {}
    Reservers = {}
    Total = 4
    Public = 2
    Pooled = 1
    Control = 1
    MaxWaiters = 2
    MaxWaitersPerKey = 2
    MaxOpeningPerSession = 2
    ReservedPublicForOtherSessions = 1
    DefaultControl = 4
    NegotiatedLimits = {2, 4}
    SampledLimits = {}
    MaxGeneration = 0
    MaxController = 0
SPECIFICATION ScenarioSpec
INVARIANTS
    Accounting HealthReserve NoLeak NoLostWakeup
    QueueConsistent
PROPERTIES
    QueuesFairTurn AdaptiveAdmission
CHECK_DEADLOCK FALSE
