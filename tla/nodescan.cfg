SPECIFICATION RenderSpec
CONSTANTS
    Specs <- MCSpecs
    Assets <- MCAssets
    NodeLists <- MCNodeLists
    MaxNodes = 3
    Files <- MCFiles
    Digests = {"sha256:1"}
    Configs <- MCConfigs
    MaxPasses = 2
INVARIANTS LoopInv ScanCorrect ControlsComplete RenderCorrect RenderStable
CHECK_DEADLOCK FALSE
