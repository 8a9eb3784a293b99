SPECIFICATION HistorySpec
CONSTANTS
    Provider = {p1}
    Pin = {k1, k2}
    MaxRequests = 3
    Op = {"register", "generate", "verify", "reset", "setPin"}
    Code <- MCCode
    CodeOf <- MCCodeOf
    Digest <- MCDigest
    Zero = zero
    zero = zero
    Keccak <- MCKeccak
    NoEntry = NoEntry
    Duration = 1
    MaxTime = 2
    MaxEvents = 8
    MaxIndex = 4
    MaxFaults = 1
    Parallel = 2

    
PROPERTIES
    
    
    ChainMovesForward
CHECK_DEADLOCK FALSE
