SPECIFICATION Spec
CONSTANTS
    MERKLE_DEPTH = 3
    ChainDomain = "chain"
    LedgerId = "ledger"
    DepositAuthority = "authority"
    Zero = "zero"
    Signing = {"alice", "bob"}
    RootHistoryLimit = 2
    MaxSpendNotes = 2
    BasisPoints = 10
    MaxDecimal = 8
    GenesisPolicies <- MCGenesisPolicies
    Policies <- MCPolicies
    Deposits <- MCDeposits
    Spends <- MCSpends
    Blindings = {"b1", "b2"}
    Depositing = {"alice", "bob", "carol"}
    OutputLists = {"keep", "pay", "trade", "close", "open", "thin", "twice", "steep"}
    Deviations = {"chain", "ledger", "signer", "inflated", "long", "blinding", "policy", "alias", "message", "market", "path", "forged"}
INVARIANTS
    ValueConserved
    RebuildReproducesLedger
    RecentWitnessesAccepted
