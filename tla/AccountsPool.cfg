SPECIFICATION HistorySpec
CONSTANTS
    alice = alice
    bob = bob
    Username = {alice, bob}
    NoRow = NoRow
    Op = {"createUser"}
    PoolSize = 2
    MaxRequests = 2
    MaxFaults = 0
    Parallel = 2
PROPERTIES
    EveryRequestEnds
CHECK_DEADLOCK FALSE
