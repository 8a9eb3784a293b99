SPECIFICATION LedgerSpec
CONSTANTS
    Provider = {p1}
    Pin = {k1}
    MaxRequests = 5
    Op = {"register", "generate", "verify", "reset"}
    Code <- MCCode
    CodeOf <- MCCodeOf
    Digest <- MCDigest
    Zero = zero
    zero = zero
    Keccak <- MCKeccak
    NoEntry = NoEntry
    Duration = 1
    MaxTime = 1
    MaxEvents = 8
    MaxIndex = 6
    MaxFaults = 1
    Parallel = 2

    
PROPERTIES
    SentIsAccepted
    ChainMovesForward
    ImplementsLedger
CHECK_DEADLOCK FALSE
