CONSTANTS
    c1 = c1  c2 = c2  k1 = k1  a1 = a1  a2 = a2
    Clients = {c1, c2}
    Keys = {k1}
    MaxToken = 2
    Size <- SizeOf
    MaxDiskBytes = 1
    MaxEntries = 2
    MaxMemoryBytes = 2
    MaxVersion = 2
    MaxOperations = 2
    Agents = {a1, a2}
    Campaigns <- OneCampaign
    members <- CanaryAndWave
    CanaryCount = 1
    WaveSize = 1
    MaxUnavailable = 1
    MinimumEligible = 1
    MaxGeneration = 2
    MaxSequence = 2
    MaxActive = 1
SPECIFICATION ServiceSpec
INVARIANTS
    BodyMatchesHeaders PurgedStaysPurged UsageExact
    FenceSound RolloutBounded
PROPERTIES ReturnsProven
SYMMETRY Symmetry
CHECK_DEADLOCK FALSE
