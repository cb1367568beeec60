SPECIFICATION Spec
CONSTANTS
    Names = {a}
    Absent = Absent
    MaxLag = 2
    Specs <- OneSpec
    Assets <- RuntimeOnly
    Nodes <- OneNode
    InitNodes <- OneNode
    Faulty = {}
    Bound <- EditLimits
PROPERTIES ReadyIsObserved
CHECK_DEADLOCK FALSE
