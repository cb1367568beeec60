SPECIFICATION Spec
CONSTANTS
    Names = {a}
    Absent = Absent
    MaxLag = 2
    Specs <- TwoSpecs
    Assets <- RuntimeOnly
    Nodes <- OneNode
    InitNodes <- OneNode
    Faulty = {"delete"}
    Bound <- FaultLimits
INVARIANTS QuietCleanedUp
CHECK_DEADLOCK FALSE
