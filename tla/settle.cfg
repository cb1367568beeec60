SPECIFICATION FairSpec
CONSTANTS
    Names = {a}
    Absent = Absent
    MaxLag = 2
    Specs <- OneSpec
    Assets <- RuntimeOnly
    Nodes <- OneNode
    InitNodes <- OneNode
    Faulty = {}
    Bound <- SettleLimits
INVARIANTS QuietDeployed QuietRuntimeClass
PROPERTIES Convergence
CHECK_DEADLOCK FALSE
