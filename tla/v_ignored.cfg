SPECIFICATION Spec
CONSTANTS
    Names = {a, b}
    Absent = Absent
    MaxLag = 2
    Specs <- OneSpec
    Assets <- RuntimeOnly
    Nodes <- OneNode
    InitNodes <- OneNode
    Faulty = {}
    Bound <- RivalLimits
INVARIANTS DuplicatesIgnored
CHECK_DEADLOCK FALSE
