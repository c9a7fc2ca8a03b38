SPECIFICATION TransportSpec
CONSTANTS
    Validators = {1, 2, 3, 4}
    Quorum = 3
    Garbled = Garbled
    None = None
    Session = "session"
    Speakers = {2}
    Endorsers = {2, 3, 4}
    Collectors = {2, 3}
    Faulty = {1}
    Wild <- MCWild
    Package <- MCPackage
    Recipients <- MCRecipients
    SharePackage <- MCSharePackage
    WildSealed <- MCWildSealed
    WildBroadcasts <- MCWildBroadcasts
    GuardCapacity = 4
    ReplayCapacity = 4
    MaxCrashes = 1
CHECK_DEADLOCK FALSE
INVARIANTS
    CertificatesAgree
    ReportsAreBacked
PROPERTIES
    IsConsistentBroadcast
    CorrectMessagesArrive
