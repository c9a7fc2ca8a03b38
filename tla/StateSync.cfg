SPECIFICATION LiveSpec
CONSTANTS
    server = server
    joiner = joiner
    Nodes = {server, joiner}
    Servers = {server}
    ChainId = "asteria"
    SizeOf <- MCSizeOf
    ChunkBytes = 2
    MaxBytes = 4
    Forged <- MCForged
    Garbage <- MCGarbage
    None = None
    MaxHeight = 2
    MaxOffers = 2
    MaxFaults = 1
INVARIANT AdoptsOnlyTheChain
PROPERTIES
    NothingIsLost
    SyncCompletes
