SPECIFICATION Spec
CONSTANTS
    Names = {a}
    Absent = Absent
    MaxLag = 2
    Specs <- EditSpecs
    Assets <- RuntimeOnly
    Nodes <- AllNodes
    InitNodes <- NoNodes
    Faulty = {}
    Bound <- EditLimits
INVARIANTS RuntimeFollowsPolicy
CHECK_DEADLOCK FALSE
