CONSTANTS
    a1 = a1  a2 = a2
    Agents = {a1}
    Campaigns <- TwoCampaigns
    members <- SharedAgent
    CanaryCount = 1
    WaveSize = 1
    MaxUnavailable = 1
    MinimumEligible = 0
    MaxGeneration = 2
    MaxSequence = 1
    MaxActive = 1
SPECIFICATION CampaignSpec
INVARIANT QuarantinedWhileCommanded
CHECK_DEADLOCK FALSE
