SPECIFICATION Spec
CONSTANTS
    Nodes = {1, 2}
    Txs <- MCTxs
    Excludes <- MCExcludes
    Retried <- MCRetried
    MempoolSize <- MCMempoolSize
    MaxHeight = 2
    MaxCrashes = 1
    None = None
INVARIANTS
    AnswersAreTrue
    MempoolIsExecutable
PROPERTY RetriedIsDecided
