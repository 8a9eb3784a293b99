SPECIFICATION HistorySpec
CONSTANTS
    alice = alice
    bob = bob
    User = {alice, bob}
    Amount <- MCAmount
    InitialAccounts <- MCInitialAccounts
    NoPayment = NoPayment
    Op = {"createAccount", "transfer", "initiate", "verify"}
    MaxRequests = 5
    MaxCrashes = 1
    Parallel = 2
INVARIANTS
    TypeOK
    NoOverdraft
    OneAccountPerUser
PROPERTIES
    DebitExact
CHECK_DEADLOCK FALSE
