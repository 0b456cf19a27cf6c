SPECIFICATION FairSpec
CONSTANTS
    Values <- MCValues
    Depth <- MCDepth
    Candidates <- MCCandidates
    Declared <- MCDeclared
    Timeouts <- MCTimeouts
    Namespace = "default"
    ClusterKinds <- MCClusterKinds
INVARIANTS
    TypeOK
    ValidMeansSeen
    InvalidOnlyAtEnd
PROPERTIES
    CommandEnds
