SPECIFICATION Spec
CONSTANTS
    Names = {a}
    Absent = Absent
    MaxLag = 2
    Specs <- EditSpecs
    Assets <- RuntimeOnly
    Nodes <- OneNode
    InitNodes <- OneNode
    Faulty = {}
    Bound <- EditLimits
INVARIANTS TypeOK QuietDeployed QuietCleanedUp QuietRuntimeClass OutageReported
CHECK_DEADLOCK FALSE
