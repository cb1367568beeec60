SPECIFICATION FairSpec
CONSTANTS
    CardLists <- MCCardLists
    SpecTxt <- MCSpecTxt
    Entries <- MCEntries
    OldXrt <- MCOldXrt
    Bound <- MCBound
INVARIANTS TypeOK SetupComplete ColdBootSafe
PROPERTIES ShellKept SetupConverges
CHECK_DEADLOCK FALSE
CONSTRAINT TornBound
