CONSTANTS
    n1 = n1
    n2 = n2
    Names <- MCNames
    NSlots = 2
    LastCluster = 5
    FatCount = 1
    ClusterSize = 2
    Buffers <- MCBuffers
    FlagSets <- MCFlags
    Faults = {"read", "write", "power"}
SPECIFICATION Spec
INVARIANTS TypeOK ClustersHaveOneOwner Readable NamesStayUnique NoLeak
PROPERTIES SuccessMeansDone OthersUntouched ImplementsFileStore
CONSTRAINT NotSpoiled
SYMMETRY NameSymmetry
