SPECIFICATION Spec
CONSTANTS
    Provider = {p1}
    Pin = {k1}
    MaxRequests = 3
    Op = {"register", "generate", "verify"}
    Code <- MCCode
    CodeOf <- MCCodeOf
    Digest <- MCDigest
    Zero = zero
    zero = zero
    Keccak <- MCKeccak
    NoEntry = NoEntry
    Duration = 1
    MaxTime = 3
    MaxEvents = 8
    MaxIndex = 4
    MaxFaults = 0
    Parallel = 1
INVARIANTS
    AcknowledgedStands
CHECK_DEADLOCK FALSE
