CONSTANTS
    Validators = {1, 2, 3, 4}
    Faulty = {}
    ShareHolders = {1, 2, 3}
    Quorum = 3
    Threshold = 3
    Signers = {"a"}
    Authority = "a"
    Balance = 3
    Txs <- MCOneBatch
    MaxPending = 2
    MaxEvents = 8
    MaxBlockTxs = 1
    MaxHeight = 3
    MaxCrashes = 1
SPECIFICATION FairSpec
PROPERTIES
    BatchesSettle
    ReplicasCatchUp
CHECK_DEADLOCK FALSE
