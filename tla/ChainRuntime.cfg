CONSTANTS
    Validators = {1, 2, 3, 4}
    Faulty = {1}
    ShareHolders = {1, 2, 3, 4}
    Quorum = 3
    Threshold = 3
    Signers = {"a", "b"}
    Authority = "b"
    Balance = 2
    Txs <- MCFewTxs
    MaxPending = 2
    MaxEvents = 3
    MaxBlockTxs = 2
    MaxHeight = 4
    MaxCrashes = 1
SPECIFICATION Spec
INVARIANTS
    Agreement
    DecidedBlocksFinalize
    BatchesSound
    HonestProposalAccepted
    PublishedIsDurable
    MarginAddsUp
    NoReplay
PROPERTY DiskNeverRegresses
CHECK_DEADLOCK FALSE
