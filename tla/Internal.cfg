SPECIFICATION Spec
CONSTANTS
    p1 = p1
    p2 = p2
    y0 = y0
    y1 = y1
    Provider = {p1, p2}
    Digest = {y0, y1}
    Zero = y0
    Gas = 1
    Amount = 2
    AdminBalance = 9
    Op = {"blacklist", "removeFromBlacklist", "reset", "grantRole", "fund", "refund", "register", "window", "addProvider"}
    MaxRequests = 3
    MaxFaults = 1
    Parallel = 2
SYMMETRY ProviderSymmetry
INVARIANTS
    TypeOK
    NoNonceGap
    
    BlacklistingHolds

    
CHECK_DEADLOCK FALSE
