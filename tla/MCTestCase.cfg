SPECIFICATION FairSpec
CONSTANTS
    eager = eager
    lazy = lazy
    aux = aux
    Default = Default
    Case <- MCCase
    Kubeconfig <- MCKubeconfig
    Context <- MCContext
    NoContext = NoContext
    east = east
    west = west
    k1 = k1
    k2 = k2
    Cluster <- MCCluster
    Settings <- MCSettings
    Steps <- MCSteps
    UserNs = UserNs
    NoCase = NoCase
    MaxGarbled = 1
INVARIANTS
    TypeOK
    NamespaceReady
    NothingLeftBehind
PROPERTIES
    OnlyCreatorDeletes
    EveryCaseEnds
