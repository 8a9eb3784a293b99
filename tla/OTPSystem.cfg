SPECIFICATION Spec
CONSTANTS
    admin = admin
    user = user
    x1 = x1
    x2 = x2
    y1 = y1
    y2 = y2
    y0 = y0
    u1 = u1
    UserId = {u1}
    Account = {admin, user}
    Deployer = admin
    Otp = {x1, x2}
    Digest = {y0, y1, y2}
    Zero = y0
    Keccak <- MCKeccak
    MaxTime = 3
    MaxEvents = 5
INVARIANTS
    TypeOK
    WindowOK
    VerifiedNeedsActivation
    ActivatedNeedsRegistration
    BlacklistBarsRegistration
    IndexCountsVerifications
PROPERTIES
    CommitmentReplacedByOpening
    ImplementsDevice
CHECK_DEADLOCK FALSE
