SPECIFICATION HistorySpec
CONSTANTS
    alice = alice
    bob = bob
    Username = {alice}
    NoRow = NoRow
    Op = {"createUser", "createProvider", "setPin", "setDefault", "deleteProvider", "deleteUser"}
    PoolSize = 5
    MaxRequests = 4
    MaxFaults = 1
    Parallel = 2
INVARIANTS
    TypeOK
    CreatedUserComplete
    
    DeletionIsComplete
    FailureLeavesNothing
    
    
PROPERTIES
    NothingResurrected
    UpdatedPinStays
CHECK_DEADLOCK FALSE
