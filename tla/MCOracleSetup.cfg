CONSTANTS
    Programs = {"overlap", "sweep", "selective", "multi", "cpumax", "worker"}
    Configs <- MCConfigs
    Seeds = {1, 2}
    MaskSets <- MCMaskSets
    Width = 2
    Layouts <- MCLayouts
    Elsewhere <- MCElsewhere
    MaxMasks = 4
    AGGRESSOR_STREAMS = 3
    Movable = {2}
    MaxMoves = 1
SPECIFICATION Spec
INVARIANTS SelectionInv OverlapAsNamed ChainsCover StableLines SuccessMeansUnmoved WorkerKeepsToClass
