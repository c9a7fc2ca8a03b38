SPECIFICATION LiveSpec
CONSTANTS
    Validators = {1, 2, 3, 4}
    Quorum = 3
    Garbled = Garbled
    None = None
    Sound <- MCSound
    ShareOf <- MCShareOf
    Me = 4
    OwnPackage <- MCOwnPackage
    Deadline <- MCDeadline
    Processes = {p, q}
    Plans <- MCPlans
    MaxTime = 3
    MaxRevision = 3
CHECK_DEADLOCK FALSE
INVARIANTS
    NothingLeavesUnrecorded
    CompletionIsCertified
PROPERTIES
    CeremonyEnds
