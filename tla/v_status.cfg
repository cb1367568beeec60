SPECIFICATION Spec
CONSTANTS
    Names = {a}
    Absent = Absent
    MaxLag = 2
    Specs <- OneSpec
    Assets <- RuntimeOnly
    Nodes <- OneNode
    InitNodes <- OneNode
    Faulty = {"status"}
    Bound <- FaultLimits
INVARIANTS QuietReported
CHECK_DEADLOCK FALSE
