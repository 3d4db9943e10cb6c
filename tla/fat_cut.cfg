CONSTANTS
    n1 = n1
    n2 = n2
    Names <- MCNames
    NSlots = 2
    LastCluster = 5
    FatCount = 1
    ClusterSize = 2
    Buffers <- MCBuffers
    FlagSets <- MCFlags
    Faults = {"power"}
SPECIFICATION Spec
INVARIANT OneOwner
SYMMETRY NameSymmetry
