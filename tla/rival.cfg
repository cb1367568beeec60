SPECIFICATION Spec
CONSTANTS
    Names = {a, b}
    Absent = Absent
    MaxLag = 2
    Specs <- OneSpec
    Assets <- RuntimeOnly
    Nodes <- AllNodes
    InitNodes <- NoNodes
    Faulty = {}
    Bound <- RivalLimits
INVARIANTS PassServesMain QuietDeployed QuietRuntimeClass QuietReported
PROPERTIES NoTakeover ImplementsRollout
SYMMETRY NameSymmetry
CHECK_DEADLOCK FALSE
