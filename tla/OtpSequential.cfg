SPECIFICATION HistorySpec
CONSTANTS
    Provider = {p1, p2}
    Pin = {k1}
    MaxRequests = 5
    Op = {"register", "generate", "verify"}
    Code <- MCCode
    CodeOf <- MCCodeOf
    Digest <- MCDigest
    Zero = zero
    zero = zero
    Keccak <- MCKeccak
    NoEntry = NoEntry
    Duration = 1
    MaxTime = 3
    MaxEvents = 8
    MaxIndex = 6
    MaxFaults = 1
    Parallel = 1
SYMMETRY MCProviders
INVARIANTS
    TypeOK
    Redeemable
PROPERTIES
    SentIsAccepted
CHECK_DEADLOCK FALSE
