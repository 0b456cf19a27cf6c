SPECIFICATION Spec
CONSTANTS
    Modes = {"existing", "controlplane", "kind"}
    MaxCount = 2
INVARIANT ClusterDeleted
