----------------------------- MODULE OTPSystem -----------------------------
(***************************************************************************)
(* The smart contract contracts/OTPSystem.sol.  It stores, per blockchain  *)
(* user id, the commitment (hash) of the next one-time password, the index *)
(* of that password and the time window in which it may be presented.      *)
(*                                                                         *)
(* One action per external function.  A call whose require fails reverts   *)
(* and leaves no trace, so a reverting call is no step.  Each function is  *)
(* split into Can<Function>, the conjunction of its requires, and the      *)
(* action, so that a client can ask (as estimateGas does) whether a call   *)
(* would succeed.  An EIP-712 signature is represented by the account      *)
(* ECDSA.recover returns for it and the request it comes with.             *)
(***************************************************************************)
EXTENDS Naturals, Sequences, FiniteSets

CONSTANTS UserId,      \* keccak256(user_id:service:auth_provider_id)
          Account,     \* wallet addresses: the possible values of msg.sender
          Deployer,    \* the account that deployed the contract
          Otp,         \* the raw one-time passwords callers may present
          Digest,      \* bytes32 commitment values
          Zero,        \* bytes32(0)
          Keccak,      \* keccak256 on Otp
          MaxTime,     \* bound: last block timestamp considered
          MaxEvents    \* bound: events emitted per user id

ASSUME ContractAssumption ==
    /\ Deployer \in Account
    /\ Zero \in Digest
    /\ Keccak \in [Otp -> Digest \ {Zero}]
    /\ \A x, y \in Otp : Keccak[x] = Keccak[y] => x = y
    /\ MaxTime \in Nat
    /\ MaxEvents \in Nat

VARIABLES otpRecords,  \* [UserId -> OTPData]
          blacklisted, \* [UserId -> BOOLEAN]
          roles,       \* AccessControl: the accounts holding each role
          now,         \* block.timestamp
          log          \* the events emitted so far, per user id

records == <<otpRecords, log>>
vars == <<otpRecords, blacklisted, roles, now, log>>

Time == 0 .. MaxTime
Role == {"DEFAULT_ADMIN_ROLE", "ADMIN_ROLE"}
Event == {"UserRegistered", "OtpActivated", "OtpVerified", "UserBlacklisted",
          "UserRemovedFromBlacklist", "OtpReset"}

OTPData == [commitmentValue : Digest, index : Nat,
            startTime : Nat, endTime : Nat]

(* An absent mapping entry, and what delete leaves behind.                 *)
EmptyRecord == [commitmentValue |-> Zero, index |-> 0,
                startTime |-> 0, endTime |-> 0]

Emit(users, event) ==
    log' = [u \in UserId |-> IF u \in users THEN Append(log[u], event)
                                            ELSE log[u]]

-----------------------------------------------------------------------------
(* block.timestamp is never 0 on a real chain: a closed window (0, 0) has  *)
(* then always expired.                                                    *)
Init ==
    /\ otpRecords = [u \in UserId |-> EmptyRecord]
    /\ blacklisted = [u \in UserId |-> FALSE]
    /\ roles = [r \in Role |-> {Deployer}]
    /\ now = 1
    /\ log = [u \in UserId |-> <<>>]

HasRole(role, account) == account \in roles[role]

(* Faulty variants, each named for the mistake it makes, precede some      *)
(* definitions below.  No specification uses them: replacing the           *)
(* definition by its variant shows that a property is able to fail.        *)
RegisterBlacklisted(u, recovered, sender) ==
    /\ recovered = sender
    /\ otpRecords[u].commitmentValue = Zero

RegisterAgain(u, recovered, sender) ==
    /\ ~ blacklisted[u]
    /\ recovered = sender

CanRegisterUser(u, recovered, sender) ==
    /\ ~ blacklisted[u]
    /\ recovered = sender
    /\ otpRecords[u].commitmentValue = Zero

RegisterUser(u, commitment, recovered, sender) ==
    /\ CanRegisterUser(u, recovered, sender)
    /\ otpRecords' = [otpRecords EXCEPT ![u] =
            [commitmentValue |-> commitment, index |-> 1,
             startTime |-> 0, endTime |-> 0]]
    /\ Emit({u}, "UserRegistered")
    /\ UNCHANGED <<blacklisted, roles, now>>

OpenUnregistered(u, start, end, sender) ==
    /\ HasRole("ADMIN_ROLE", sender)
    /\ start < end

OpenEmptyWindow(u, start, end, sender) ==
    /\ HasRole("ADMIN_ROLE", sender)
    /\ otpRecords[u].commitmentValue # Zero

CanUpdateOtpWindow(u, start, end, sender) ==
    /\ HasRole("ADMIN_ROLE", sender)
    /\ otpRecords[u].commitmentValue # Zero
    /\ start < end

UpdateOtpWindow(u, start, end, sender) ==
    /\ CanUpdateOtpWindow(u, start, end, sender)
    /\ otpRecords' = [otpRecords EXCEPT ![u] =
            [commitmentValue |-> @.commitmentValue, index |-> @.index,
             startTime |-> start, endTime |-> end]]
    /\ Emit({u}, "OtpActivated")
    /\ UNCHANGED <<blacklisted, roles, now>>

VerifyAnyTime(u, index, otp, recovered, sender) ==
    /\ otpRecords[u].index = index
    /\ Keccak[otp] = otpRecords[u].commitmentValue
    /\ recovered = sender

CanVerifyOtp(u, index, otp, recovered, sender) ==
    /\ otpRecords[u].index = index
    /\ otpRecords[u].startTime <= now
    /\ now <= otpRecords[u].endTime
    /\ Keccak[otp] = otpRecords[u].commitmentValue
    /\ recovered = sender

VerifyKeepsWindow(u, index, otp, newCommitment, recovered, sender) ==
    /\ CanVerifyOtp(u, index, otp, recovered, sender)
    /\ otpRecords' = [otpRecords EXCEPT
            ![u].commitmentValue = newCommitment, ![u].index = @ + 1]
    /\ Emit({u}, "OtpVerified")
    /\ UNCHANGED <<blacklisted, roles, now>>

VerifyOtp(u, index, otp, newCommitment, recovered, sender) ==
    /\ CanVerifyOtp(u, index, otp, recovered, sender)
    /\ otpRecords' = [otpRecords EXCEPT ![u] =
            [commitmentValue |-> newCommitment, index |-> @.index + 1,
             startTime |-> 0, endTime |-> 0]]
    /\ Emit({u}, "OtpVerified")
    /\ UNCHANGED <<blacklisted, roles, now>>

ResetDropsOthers(users, sender) ==
    /\ HasRole("ADMIN_ROLE", sender)
    /\ otpRecords' = [u \in users |-> EmptyRecord]
    /\ Emit(users, "OtpReset")
    /\ UNCHANGED <<blacklisted, roles, now>>

ResetKeepsIndex(users, sender) ==
    /\ HasRole("ADMIN_ROLE", sender)
    /\ otpRecords' = [u \in UserId |->
            IF u \in users
            THEN [EmptyRecord EXCEPT !.index = otpRecords[u].index]
            ELSE otpRecords[u]]
    /\ Emit(users, "OtpReset")
    /\ UNCHANGED <<blacklisted, roles, now>>

(* resetOtp is the case of one user.  The event names no user: the log     *)
(* attributes it to each of them.                                          *)
ResetManyOtps(users, sender) ==
    /\ HasRole("ADMIN_ROLE", sender)
    /\ otpRecords' = [u \in UserId |-> IF u \in users THEN EmptyRecord
                                                      ELSE otpRecords[u]]
    /\ Emit(users, "OtpReset")
    /\ UNCHANGED <<blacklisted, roles, now>>

BlacklistUser(u, sender) ==
    /\ HasRole("ADMIN_ROLE", sender)
    /\ blacklisted' = [blacklisted EXCEPT ![u] = TRUE]
    /\ Emit({u}, "UserBlacklisted")
    /\ UNCHANGED <<otpRecords, roles, now>>

RemoveUserFromBlacklist(u, sender) ==
    /\ HasRole("ADMIN_ROLE", sender)
    /\ blacklisted' = [blacklisted EXCEPT ![u] = FALSE]
    /\ Emit({u}, "UserRemovedFromBlacklist")
    /\ UNCHANGED <<otpRecords, roles, now>>

(* OpenZeppelin's AccessControl: the admin of both roles is                *)
(* DEFAULT_ADMIN_ROLE; an account may renounce a role of its own.          *)
GrantRole(role, account, sender) ==
    /\ HasRole("DEFAULT_ADMIN_ROLE", sender)
    /\ roles' = [roles EXCEPT ![role] = @ \union {account}]
    /\ UNCHANGED <<otpRecords, blacklisted, now, log>>

RevokeRole(role, account, sender) ==
    /\ HasRole("DEFAULT_ADMIN_ROLE", sender) \/ account = sender
    /\ roles' = [roles EXCEPT ![role] = @ \ {account}]
    /\ UNCHANGED <<otpRecords, blacklisted, now, log>>

Tick ==
    /\ now < MaxTime
    /\ now' = now + 1
    /\ UNCHANGED <<otpRecords, blacklisted, roles, log>>

-----------------------------------------------------------------------------
RegisterCall(u, sender) ==
    \E commitment \in Digest, recovered \in Account :
        RegisterUser(u, commitment, recovered, sender)

UpdateWindowCall(u, sender) ==
    \E start, end \in Time : UpdateOtpWindow(u, start, end, sender)

VerifyCall(u, sender) ==
    \E index \in 0 .. MaxEvents, otp \in Otp, commitment \in Digest,
       recovered \in Account :
        VerifyOtp(u, index, otp, commitment, recovered, sender)

RoleCall(sender) ==
    \E role \in Role, account \in Account :
        \/ GrantRole(role, account, sender)
        \/ RevokeRole(role, account, sender)

Room(u) == Len(log[u]) < MaxEvents

Next ==
    \/ \E sender \in Account :
        \/ \E u \in UserId :
            /\ Room(u)
            /\ \/ RegisterCall(u, sender)
               \/ UpdateWindowCall(u, sender)
               \/ VerifyCall(u, sender)
               \/ BlacklistUser(u, sender)
               \/ RemoveUserFromBlacklist(u, sender)
        \/ \E users \in SUBSET UserId :
            /\ \A u \in users : Room(u)
            /\ ResetManyOtps(users, sender)
        \/ RoleCall(sender)
    \/ Tick

Spec == Init /\ [][Next]_vars

-----------------------------------------------------------------------------
(* Every record, flag, role and log entry has the shape the contract's     *)
(* storage gives it.                                                       *)
TypeOK ==
    /\ otpRecords \in [UserId -> OTPData]
    /\ blacklisted \in [UserId -> BOOLEAN]
    /\ roles \in [Role -> SUBSET Account]
    /\ now \in 1 .. MaxTime + 1
    /\ log \in [UserId -> Seq(Event)]

(* A window is either closed, both bounds zero, or a proper interval of a  *)
(* record that waits for a password: no sequence of registrations, window  *)
(* updates, verifications and resets leaves a window open over an absent   *)
(* commitment, and a record never registered (index 0) is wholly empty.    *)
(* verifyOtp's index and time requires rely on it: an empty record has     *)
(* index 0, so only its closed window refuses index 0.                     *)
WindowClosed(u) == otpRecords[u].startTime = 0 /\ otpRecords[u].endTime = 0
WindowOK ==
    \A u \in UserId :
        /\ WindowClosed(u) \/ otpRecords[u].startTime < otpRecords[u].endTime
        /\ otpRecords[u].commitmentValue = Zero => WindowClosed(u)
        /\ otpRecords[u].index = 0 => otpRecords[u] = EmptyRecord

(* Whether event a occurs in a user's log before position j with none of   *)
(* the events in Cancels between the two.                                  *)
Precedes(a, Cancels, l, j) ==
    \E k \in 1 .. j - 1 :
        /\ l[k] = a
        /\ \A m \in k + 1 .. j - 1 : l[m] \notin Cancels

(* The events after which no window is open.                               *)
Closing == {"OtpVerified", "UserRegistered", "OtpReset"}

(* Every accepted password has a window opening of its own: the admin      *)
(* activated the user's OTP after the last registration, verification and  *)
(* reset.  One activation never admits two passwords, however the calls of *)
(* several accounts interleave (verifyOtp resets the window).              *)
VerifiedNeedsActivation ==
    \A u \in UserId : \A j \in 1 .. Len(log[u]) :
        log[u][j] = "OtpVerified" =>
            Precedes("OtpActivated", Closing, log[u], j)

(* No window is opened for a user that was never registered, or that was   *)
(* reset and not registered since.                                         *)
ActivatedNeedsRegistration ==
    \A u \in UserId : \A j \in 1 .. Len(log[u]) :
        log[u][j] = "OtpActivated" =>
            Precedes("UserRegistered", {"OtpReset"}, log[u], j)

(* A blacklisted user is not registered until the blacklisting is lifted:  *)
(* every registration either precedes all blacklistings or follows the     *)
(* removal of the last one.                                                *)
BlacklistBarsRegistration ==
    \A u \in UserId : \A j \in 1 .. Len(log[u]) :
        log[u][j] = "UserRegistered" =>
            ~ Precedes("UserBlacklisted", {"UserRemovedFromBlacklist"},
                       log[u], j)

(* The index on chain counts the passwords accepted since the last         *)
(* registration, from 1, and is 0 while there is none: window updates and  *)
(* blacklisting never move it, and a reset forgets it.                     *)
IndexCountsVerifications ==
    \A u \in UserId :
        LET l == log[u]
            starts == {k \in 1 .. Len(l) : /\ l[k] = "UserRegistered"
                           /\ \A m \in k + 1 .. Len(l) :
                                l[m] \notin {"UserRegistered", "OtpReset"}}
        IN otpRecords[u].index =
             IF starts = {} THEN 0
             ELSE 1 + Cardinality({m \in 1 .. Len(l) :
                         l[m] = "OtpVerified" /\ \A k \in starts : k < m})

(* A commitment that is present leaves the record in two ways only: a      *)
(* reset, which empties the record, or a verification inside the window,   *)
(* which counts the index up and closes the window.  Registering again     *)
(* over it, or a late or early verification, never replaces it.            *)
ReplacedByOpening ==
    \A u \in UserId :
        /\ otpRecords[u].commitmentValue # Zero
        /\ otpRecords'[u].commitmentValue # otpRecords[u].commitmentValue
        => \/ otpRecords'[u] = EmptyRecord
           \/ /\ otpRecords'[u].index = otpRecords[u].index + 1
              /\ otpRecords[u].startTime <= now
              /\ now <= otpRecords[u].endTime
              /\ WindowClosed(u)'

CommitmentReplacedByOpening == [][ReplacedByOpening]_vars

-----------------------------------------------------------------------------
(* The contract implements the abstract device OneTimePassword: a record   *)
(* without a commitment is absent, one with a closed window is locked.     *)
Phase(u) == IF otpRecords[u].commitmentValue = Zero THEN "absent"
            ELSE IF otpRecords[u].endTime = 0 THEN "locked" ELSE "open"
Serial(u) == IF otpRecords[u].commitmentValue = Zero THEN 0
             ELSE otpRecords[u].index

Device == INSTANCE OneTimePassword WITH
            phase <- [u \in UserId |-> Phase(u)],
            serial <- [u \in UserId |-> Serial(u)]

(* Every behaviour of the contract is a behaviour of the device.           *)
ImplementsDevice == Device!Spec

=============================================================================
