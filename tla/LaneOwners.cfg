CONSTANTS
    o1 = o1  o2 = o2
    r1 = r1  l1 = l1  none = none
    Owners <- TwoOwners
    Openers <- OneOpener
    Lanes <- OneLane
    lane <- SameLane
    NoOwner = none
    Quiet = 1
    LaneGrowthLimit = 1
    GenerationGrowthLimit = 1
SPECIFICATION FairSpec
INVARIANTS TypeOK BaselineCovered SlotConsistent DrainingIsIdle GrowthBalanced
PROPERTIES IdleHandoff GrowthDiscipline GenerationRefunded DrainEnds
CHECK_DEADLOCK FALSE
