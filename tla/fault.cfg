SPECIFICATION FairSpec
CONSTANTS
    Names = {a}
    Absent = Absent
    MaxLag = 2
    Specs <- TwoSpecs
    Assets <- RuntimeOnly
    Nodes <- OneNode
    InitNodes <- OneNode
    Faulty = {"get", "list", "create", "update", "status"}
    Bound <- FaultLimits
INVARIANTS QuietDeployed QuietCleanedUp QuietRuntimeClass
PROPERTIES Convergence
CHECK_DEADLOCK FALSE
