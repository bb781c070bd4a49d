CONSTANTS
    D = 3
    Entries <- MCEntries
    TxIds <- MCTxIds
    MaxTxs = 4
SPECIFICATION Spec
CHECK_DEADLOCK FALSE
INVARIANTS
    RootCommits
    ShapeOfKeys
    TxRootCommitsDistinct
