SPECIFICATION Spec
CONSTANTS
    i1 = i1
    u = u
    w = w
    n1 = n1
    f1 = f1
    Families <- MCFamilies
    Ids = {i1}
    Values = {u, w}
    Notes = {n1}
    Nullifiers = {f1}
    None = None
    Deleted = Deleted
    GenesisStates <- MCGenesis
    MaxHeight = 2
    MaxNotes = 1
    MaxTouched = 3
    MaxFaults = 1
INVARIANTS
    RecoversDurableState
    NodesAreCurrentTree
    PreviewIsStateRoot
CHECK_DEADLOCK FALSE
