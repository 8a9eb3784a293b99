SPECIFICATION Spec
CONSTANTS
    p1 = p1
    p2 = p2
    y0 = y0
    y1 = y1
    Provider = {p1, p2}
    Digest = {y0, y1}
    Zero = y0
    Gas = 1
    Amount = 2
    AdminBalance = 5
    Op = {"blacklist", "removeFromBlacklist"}
    MaxRequests = 2
    MaxFaults = 0
    Parallel = 1
INVARIANTS
    RemovalLifts
CHECK_DEADLOCK FALSE
