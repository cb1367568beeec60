SPECIFICATION Spec
CONSTANTS
    Names = {a}
    Absent = Absent
    MaxLag = 2
    Specs <- TwoSpecs
    Assets <- HostOnly
    Nodes <- OneNode
    InitNodes <- OneNode
    Faulty = {}
    Bound <- PodLimits
INVARIANTS QuietDeployed QuietCleanedUp OutageReported
PROPERTIES ImplementsRollout
CHECK_DEADLOCK FALSE
