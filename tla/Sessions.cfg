SPECIFICATION Spec
CONSTANTS
    root = root
    User <- MCUser
    RoleOf <- MCRoleOf
    Op = {"login", "refresh", "profile", "verify", "readUser", "deleteUser", "uploadJson"}
    MaxRequests = 4
    MaxFaults = 1
    Parallel = 2
INVARIANTS
    TypeOK
    SessionsAreRecorded
    DeletedNotServed
CHECK_DEADLOCK FALSE
