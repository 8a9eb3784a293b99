---------------------------- MODULE UserAccounts ----------------------------
(***************************************************************************)
(* Sign-up and the life of a user's authentication providers:              *)
(* module-user (user.service.ts, auth-provider.service.ts,                 *)
(* user-key.service.ts) with the controllers of module-api that call it    *)
(* and clean up after it.                                                  *)
(*                                                                         *)
(* The rows of one user live in five tables.  Some are written inside a    *)
(* database transaction and some, by a service with a repository of its    *)
(* own, outside it while the transaction is open: those commit at once and *)
(* take a connection of their own from the pool.  Rows written inside a    *)
(* transaction are no step of the tables until it commits.                 *)
(*                                                                         *)
(* An action is a handler up to its next await whose order matters.  The   *)
(* OTP service is seen from outside: a registration succeeds or fails.     *)
(***************************************************************************)
EXTENDS Naturals, FiniteSets

CONSTANTS Username,
          NoRow,       \* an id no row of the table has
          Op,          \* the operations requests may ask for
          PoolSize,    \* connections in the database pool
          MaxRequests, \* bound: HTTP requests, numbered by arrival
          MaxFaults,   \* bound: failed queries and restarts of the server
          Parallel     \* bound: requests in progress at once

Request == 1 .. MaxRequests
Operation == {"createUser", "createProvider", "setPin", "setDefault",
              "deleteProvider", "deleteUser"}

(* A request that inserts a user or a provider lends its number to the id. *)
Id == Request

(* "other" stands for a wallet, biometry and a PIN without a device, which *)
(* validatePassword does not support; a user has one device for PINs.      *)
Kind == {"password", "pin", "other"}
User == [username : Username, active_auth_provider_id : Id, deleted : BOOLEAN]
AuthProvider == [user_id : Id, provider : Kind, deleted : BOOLEAN,
                 updated : BOOLEAN]   \* updated_at is not NULL
IndexCount == [user_id : Id, deleted : BOOLEAN]

ASSUME AccountsAssumption ==
    /\ NoRow \notin User \union AuthProvider \union IndexCount
    /\ Op \subseteq Operation
    /\ PoolSize \in Nat \ {0}
    /\ MaxRequests \in Nat
    /\ MaxFaults \in Nat
    /\ Parallel \in Nat

VARIABLES users,     \* the table users
          providers, \* the table auth_providers
          keys,      \* the table user_keys, by user_id
          counts,    \* the table user_otp_index_counts, by auth_provider_id
          banking,   \* the users with rows in account_balances
          call,      \* each request: where its handler is and its locals
          faults     \* failed queries and restarts so far

tables == <<users, providers, keys, counts, banking>>
vars == <<users, providers, keys, counts, banking, call, faults>>

New == [at |-> "new"]
CutOff == [at |-> "cut off"]
Done == [at : {"done"}, op : Operation, ok : BOOLEAN]

(* Inside createUser's transaction, and inside the one around an insertion *)
(* into auth_providers.                                                    *)
UserTransaction == {"insertUser", "storeKeys", "findProvider",
                    "insertProvider", "createIndex", "commitProvider",
                    "activate"}
ProviderTransaction == {"insertProvider", "createIndex", "commitProvider"}
Step == UserTransaction \union
        {"readUser", "createAccount", "register", "cleanUp", "cleanUpBanking",
         "updatePin", "saveDefault", "deleteProvider", "deleteUser"}
InProgress == [at : Step, op : Operation, user : Id, provider : Id, kind : Kind,
               username : Username, updated : BOOLEAN]

Active == {r \in Request : call[r].at \in Step}

Init ==
    /\ users = [i \in Id |-> NoRow]
    /\ providers = [i \in Id |-> NoRow]
    /\ keys = [i \in Id |-> "none"]
    /\ counts = [i \in Id |-> NoRow]
    /\ banking = {}
    /\ call = [r \in Request |-> New]
    /\ faults = 0

LiveUser(u) == users[u] # NoRow /\ ~ users[u].deleted
LiveProvider(p) == providers[p] # NoRow /\ ~ providers[p].deleted
LiveCount(p) == counts[p] # NoRow /\ ~ counts[p].deleted
ProvidersOf(u) == {p \in Id : LiveProvider(p) /\ providers[p].user_id = u}

Goto(r, step) == call' = [call EXCEPT ![r] = [@ EXCEPT !.at = step]]
Answer(r, o, success) ==
    call' = [call EXCEPT ![r] = [at |-> "done", op |-> o, ok |-> success]]

(* Faulty variants, each named for the mistake it makes, precede some      *)
(* definitions.  No specification uses them: replacing the definition by   *)
(* its variant shows that a property is able to fail.                      *)
InUseUntilAnswer ==
    Cardinality(Active)
    + Cardinality({r \in Active : call[r].op = "createUser"
                                /\ call[r].at \in UserTransaction})
    + Cardinality({r \in Active : call[r].at \in ProviderTransaction})

(* Connections of the pool that handlers hold while their transactions are *)
(* open.  A query outside a transaction needs one more, for an instant.    *)
InUse ==
    Cardinality({r \in Active : call[r].op = "createUser"
                                /\ call[r].at \in UserTransaction})
    + Cardinality({r \in Active : call[r].at \in ProviderTransaction})
ConnectionFree == InUse < PoolSize

Arrives(r, o) ==
    /\ call[r] = New
    /\ \A q \in 1 .. r - 1 : call[q] # New
    /\ o \in Op
    /\ Cardinality(Active) < Parallel
    /\ ConnectionFree

(* The locals of a handler; setPin keeps whether the row it read had been  *)
(* updated before.                                                         *)
Start(r, o, step, u, p, k, n) ==
    call' = [call EXCEPT ![r] =
                [at |-> step, op |-> o, user |-> u, provider |-> p, kind |-> k,
                 username |-> n, updated |-> /\ o = "setPin"
                                             /\ LiveProvider(p)
                                             /\ providers[p].updated]]

-----------------------------------------------------------------------------
(* UserController.createUser: userService.createUser, the account balance, *)
(* the registration on the blockchain; the user is cleaned up if one of    *)
(* the last two fails.                                                     *)
CreateUser(r, n, k) ==
    /\ Arrives(r, "createUser")
    /\ Start(r, "createUser", "insertUser", r, r, k, n)
    /\ UNCHANGED <<tables, faults>>

(* The unique index on username: an insertion waits for an open            *)
(* transaction that inserted the same name, and fails if that name is      *)
(* taken.                                                                  *)
NameHolders(r) ==
    {q \in Active \ {r} :
        /\ call[q].op = "createUser"
        /\ call[q].at \in UserTransaction \ {"insertUser"}
        /\ call[q].username = call[r].username}
NameReserved(r) == NameHolders(r) # {}
NameTaken(r) ==
    \E u \in Id : LiveUser(u) /\ users[u].username = call[r].username

InsertAtOnce(r) ==
    /\ call[r].at = "insertUser"
    /\ IF NameTaken(r) THEN Answer(r, "createUser", FALSE)
                       ELSE Goto(r, "storeKeys")
    /\ UNCHANGED <<tables, faults>>

InsertUser(r) ==
    /\ call[r].at = "insertUser"
    /\ ~ NameReserved(r)
    /\ IF NameTaken(r) THEN Answer(r, "createUser", FALSE)
                       ELSE Goto(r, "storeKeys")
    /\ UNCHANGED <<tables, faults>>

(* generateAndStoreKeys saves outside the transaction.                     *)
StoreKeys(r) ==
    /\ call[r].at = "storeKeys"
    /\ ConnectionFree
    /\ keys' = [keys EXCEPT ![call[r].user] = "live"]
    /\ Goto(r, "findProvider")
    /\ UNCHANGED <<users, providers, counts, banking, faults>>

(* AuthProviderService.create and the second half of setPin: look for a    *)
(* provider of the same kind, insert one in a transaction, insert its      *)
(* index row outside that transaction, commit.  Unique indexes guard       *)
(* auth_providers as one does users.                                       *)
SameProvider(r) ==
    {p \in ProvidersOf(call[r].user) : providers[p].provider = call[r].kind}

FindProvider(r) ==
    /\ call[r].at = "findProvider"
    /\ ConnectionFree
    /\ IF SameProvider(r) # {} THEN Answer(r, call[r].op, FALSE)
                               ELSE Goto(r, "insertProvider")
    /\ UNCHANGED <<tables, faults>>

ProviderHolders(r) ==
    {q \in Active \ {r} :
        /\ call[q].at \in ProviderTransaction \ {"insertProvider"}
        /\ call[q].user = call[r].user
        /\ call[q].kind = call[r].kind}
ProviderReserved(r) == ProviderHolders(r) # {}

InsertProvider(r) ==
    /\ call[r].at = "insertProvider"
    /\ ~ ProviderReserved(r)
    /\ IF SameProvider(r) # {} THEN Answer(r, call[r].op, FALSE)
                               ELSE Goto(r, "createIndex")
    /\ UNCHANGED <<tables, faults>>

CreateIndex(r) ==
    /\ call[r].at = "createIndex"
    /\ ConnectionFree
    /\ counts' = [counts EXCEPT ![call[r].provider] =
                    [user_id |-> call[r].user, deleted |-> FALSE]]
    /\ Goto(r, "commitProvider")
    /\ UNCHANGED <<users, providers, keys, banking, faults>>

RowWithoutDeletedAt(r) ==
    [user_id |-> call[r].user, provider |-> call[r].kind,
     updated |-> call[r].updated]

NewProvider(r) == [user_id |-> call[r].user, provider |-> call[r].kind,
                   deleted |-> FALSE, updated |-> call[r].updated]
CommitProvider(r) ==
    /\ call[r].at = "commitProvider"
    /\ providers' = [providers EXCEPT ![call[r].provider] = NewProvider(r)]
    /\ Goto(r, IF call[r].op = "createUser" THEN "activate" ELSE "register")
    /\ UNCHANGED <<users, keys, counts, banking, faults>>

(* The end of createUser's transaction, with the default provider set.     *)
Activate(r) ==
    /\ call[r].at = "activate"
    /\ users' = [users EXCEPT ![call[r].user] =
                    [username |-> call[r].username, deleted |-> FALSE,
                     active_auth_provider_id |-> call[r].provider]]
    /\ Goto(r, "readUser")
    /\ UNCHANGED <<providers, keys, counts, banking, faults>>

(* getUserDetails, after the commit.  The controller has no user to clean  *)
(* up if it finds none.                                                    *)
ReadUser(r) ==
    /\ call[r].at = "readUser"
    /\ ConnectionFree
    /\ IF LiveUser(call[r].user) THEN Goto(r, "createAccount")
                                 ELSE Answer(r, "createUser", FALSE)
    /\ UNCHANGED <<tables, faults>>

AccountUnawaited(r) ==
    /\ call[r].at = "createAccount"
    /\ ConnectionFree
    /\ Goto(r, "register")
    /\ \/ banking' = banking \union {call[r].user}
       \/ UNCHANGED banking
    /\ UNCHANGED <<users, providers, keys, counts, faults>>

(* bankingService.createAccount: the audit upload after the insertion may  *)
(* fail.                                                                   *)
CreateAccount(r) ==
    /\ call[r].at = "createAccount"
    /\ ConnectionFree
    /\ banking' = banking \union {call[r].user}
    /\ Goto(r, "register") \/ Goto(r, "cleanUp")
    /\ UNCHANGED <<users, providers, keys, counts, faults>>

(* otpService.registerUser needs a provider it can validate, the user and  *)
(* key rows (getSensitiveUserDetails does not ask whether the key is       *)
(* deleted) and the index row; the audit upload, the wallet's funding and  *)
(* the blockchain may fail it besides.                                     *)
Registrable(r) ==
    /\ call[r].kind # "other"
    /\ \E p \in SameProvider(r) : LiveCount(p)
    /\ LiveUser(call[r].user)
    /\ keys[call[r].user] # "none"
Register(r) ==
    /\ call[r].at = "register"
    /\ ConnectionFree
    /\ \/ Registrable(r) /\ Answer(r, call[r].op, TRUE)
       \/ Goto(r, "cleanUp")
    /\ UNCHANGED <<tables, faults>>

CleanUpKeepsKeys(r) ==
    LET u == call[r].user
        ofUser == {p \in Id : providers[p] # NoRow /\ providers[p].user_id = u}
        counted == {p \in Id : counts[p] # NoRow /\ counts[p].user_id = u}
    IN /\ users' = [users EXCEPT ![u] = NoRow]
       /\ providers' = [p \in Id |->
                            IF p \in ofUser THEN NoRow ELSE providers[p]]
       /\ counts' = [p \in Id |->
                            IF p \in counted THEN NoRow ELSE counts[p]]
       /\ Goto(r, "cleanUpBanking")
       /\ UNCHANGED keys

(* The catch blocks: deleteUserCascade and deleteUserBankingRecords for a  *)
(* user, deleteAuthProviderCascade for a provider.  A cascade that deletes *)
(* no row of one of its tables is rolled back and throws.                  *)
CleanUpUser(r) ==
    LET u == call[r].user
        ofUser == {p \in Id : providers[p] # NoRow /\ providers[p].user_id = u}
        counted == {p \in Id : counts[p] # NoRow /\ counts[p].user_id = u}
    IN IF users[u] # NoRow /\ ofUser # {} /\ keys[u] # "none" /\ counted # {}
       THEN /\ users' = [users EXCEPT ![u] = NoRow]
            /\ providers' = [p \in Id |->
                                IF p \in ofUser THEN NoRow ELSE providers[p]]
            /\ keys' = [keys EXCEPT ![u] = "none"]
            /\ counts' = [p \in Id |->
                                IF p \in counted THEN NoRow ELSE counts[p]]
            /\ Goto(r, "cleanUpBanking")
       ELSE /\ Answer(r, "createUser", FALSE)
            /\ UNCHANGED <<users, providers, keys, counts>>

CleanUpProvider(r) ==
    LET p == call[r].provider
    IN /\ IF LiveProvider(p) /\ LiveCount(p)
          THEN /\ providers' = [providers EXCEPT ![p] = NoRow]
               /\ counts' = [counts EXCEPT ![p] = NoRow]
          ELSE UNCHANGED <<providers, counts>>
       /\ Answer(r, call[r].op, FALSE)
       /\ UNCHANGED <<users, keys>>

CleanUp(r) ==
    /\ call[r].at = "cleanUp"
    /\ ConnectionFree
    /\ IF call[r].op = "createUser" THEN CleanUpUser(r) ELSE CleanUpProvider(r)
    /\ UNCHANGED <<banking, faults>>

CleanUpBanking(r) ==
    /\ call[r].at = "cleanUpBanking"
    /\ ConnectionFree
    /\ banking' = banking \ {call[r].user}
    /\ Answer(r, "createUser", FALSE)
    /\ UNCHANGED <<users, providers, keys, counts, faults>>

-----------------------------------------------------------------------------
(* UserAuthProviderController, for a logged-in user: the JWT strategy has  *)
(* looked the user up.                                                     *)
CreateProvider(r, u, k) ==
    /\ Arrives(r, "createProvider")
    /\ LiveUser(u)
    /\ Start(r, "createProvider", "findProvider", u, r, k, users[u].username)
    /\ UNCHANGED <<tables, faults>>

SetPinOnDeleted(r, u) ==
    /\ Arrives(r, "setPin")
    /\ LiveUser(u)
    /\ LET pins == {p \in Id : providers[p] # NoRow /\ providers[p].user_id = u
                                /\ providers[p].provider = "pin"}
       IN \/ \E p \in pins : Start(r, "setPin", "updatePin", u, p, "pin",
                                   users[u].username)
          \/ /\ pins = {}
             /\ Start(r, "setPin", "insertProvider", u, r, "pin",
                      users[u].username)
    /\ UNCHANGED <<tables, faults>>

(* setPin updates the device's PIN if there is one, else inserts one.      *)
SetPin(r, u) ==
    /\ Arrives(r, "setPin")
    /\ LiveUser(u)
    /\ LET pins == {p \in ProvidersOf(u) : providers[p].provider = "pin"}
       IN \/ \E p \in pins : Start(r, "setPin", "updatePin", u, p, "pin",
                                   users[u].username)
          \/ /\ pins = {}
             /\ Start(r, "setPin", "insertProvider", u, r, "pin",
                      users[u].username)
    /\ UNCHANGED <<tables, faults>>

UpdateRegistersAgain(r) ==
    /\ call[r].at = "updatePin"
    /\ ConnectionFree
    /\ LiveProvider(call[r].provider)
    /\ providers' = [providers EXCEPT ![call[r].provider].updated = TRUE]
    /\ Goto(r, "register")
    /\ UNCHANGED <<users, keys, counts, banking, faults>>

(* save() writes the entity it is given over the row, the deleted_at it    *)
(* was read with (NULL) included: a row deleted softly in between is       *)
(* restored.  If the row has gone, save() inserts it again, and the        *)
(* handler takes it for a new PIN when it was never updated.  The unique   *)
(* index refuses a second live PIN.                                        *)
UpdatePin(r) ==
    /\ call[r].at = "updatePin"
    /\ ConnectionFree
    /\ LET p == call[r].provider
       IN \/ /\ providers[p] # NoRow
             /\ LiveProvider(p) \/ (SameProvider(r) = {} /\ ~ ProviderReserved(r))
             /\ providers' = [providers EXCEPT ![p] =
                                [NewProvider(r) EXCEPT !.updated = TRUE]]
             /\ Answer(r, "setPin", TRUE)
          \/ /\ providers[p] = NoRow
             /\ SameProvider(r) = {} /\ ~ ProviderReserved(r)
             /\ providers' = [providers EXCEPT ![p] = NewProvider(r)]
             /\ IF call[r].updated THEN Answer(r, "setPin", TRUE)
                                   ELSE Goto(r, "register")
          \/ /\ ~ LiveProvider(p)
             /\ SameProvider(r) # {}
             /\ Answer(r, "setPin", FALSE)
             /\ UNCHANGED providers
    /\ UNCHANGED <<users, keys, counts, banking, faults>>

(* setDefaultAuthProvider reads the user and the provider, then saves the  *)
(* user; as above, save() restores or inserts a user deleted in between,   *)
(* unless the unique index finds the name taken.                           *)
SetDefault(r, u, p) ==
    /\ Arrives(r, "setDefault")
    /\ LiveUser(u)
    /\ IF p \in ProvidersOf(u)
       THEN Start(r, "setDefault", "saveDefault", u, p, providers[p].provider,
                  users[u].username)
       ELSE Answer(r, "setDefault", FALSE)
    /\ UNCHANGED <<tables, faults>>

SaveDefault(r) ==
    /\ call[r].at = "saveDefault"
    /\ ConnectionFree
    /\ LET u == call[r].user
       IN \/ /\ LiveUser(u) \/ ~ (NameTaken(r) \/ NameReserved(r))
             /\ users' = [users EXCEPT ![u] =
                    [username |-> call[r].username, deleted |-> FALSE,
                     active_auth_provider_id |-> call[r].provider]]
             /\ Answer(r, "setDefault", TRUE)
          \/ /\ ~ LiveUser(u)
             /\ NameTaken(r)
             /\ Answer(r, "setDefault", FALSE)
             /\ UNCHANGED users
    /\ UNCHANGED <<providers, keys, counts, banking, faults>>

DeleteAnyProvider(r, u, p) ==
    /\ Arrives(r, "deleteProvider")
    /\ LiveUser(u)
    /\ providers[p] # NoRow /\ providers[p].user_id = u
    /\ Start(r, "deleteProvider", "deleteProvider", u, p, "other",
             users[u].username)
    /\ UNCHANGED <<tables, faults>>

(* The default provider is refused, then deleteAuthProviderById refuses    *)
(* passwords and deletes softly; the index row stays.  A client names a    *)
(* provider, live or not, that the service has listed for its user.        *)
DeleteProvider(r, u, p) ==
    /\ Arrives(r, "deleteProvider")
    /\ LiveUser(u)
    /\ providers[p] # NoRow /\ providers[p].user_id = u
    /\ IF users[u].active_auth_provider_id = p
       THEN Answer(r, "deleteProvider", FALSE)
       ELSE Start(r, "deleteProvider", "deleteProvider", u, p, "other",
                  users[u].username)
    /\ UNCHANGED <<tables, faults>>

DeleteProviderRow(r) ==
    /\ call[r].at = "deleteProvider"
    /\ ConnectionFree
    /\ LET p == call[r].provider
       IN IF LiveProvider(p) /\ providers[p].provider # "password"
          THEN /\ providers' = [providers EXCEPT ![p].deleted = TRUE]
               /\ Answer(r, "deleteProvider", TRUE)
          ELSE /\ Answer(r, "deleteProvider", FALSE)
               /\ UNCHANGED providers
    /\ UNCHANGED <<users, keys, counts, banking, faults>>

(* UserController.deleteUser: userService.deleteById finds the user, then  *)
(* deletes its rows softly in one transaction: save() writes the whole     *)
(* user as read, with deleted_at set, and inserts it if it has gone.       *)
DeleteUser(r, u) ==
    /\ Arrives(r, "deleteUser")
    /\ IF LiveUser(u)
       THEN Start(r, "deleteUser", "deleteUser", u,
                  users[u].active_auth_provider_id, "other", users[u].username)
       ELSE Answer(r, "deleteUser", FALSE)
    /\ UNCHANGED <<tables, faults>>

DeleteOneProvider(r) ==
    /\ call[r].at = "deleteUser"
    /\ ConnectionFree
    /\ LET u == call[r].user
           p == call[r].provider
       IN /\ users' = [users EXCEPT ![u] =
                [username |-> call[r].username, deleted |-> TRUE,
                 active_auth_provider_id |-> p]]
          /\ providers' = [providers EXCEPT ![p] =
                IF LiveProvider(p) THEN [@ EXCEPT !.deleted = TRUE] ELSE @]
          /\ keys' = [keys EXCEPT ![u] = IF @ = "live" THEN "deleted" ELSE @]
    /\ Answer(r, "deleteUser", TRUE)
    /\ UNCHANGED <<counts, banking, faults>>

DeleteUserRows(r) ==
    /\ call[r].at = "deleteUser"
    /\ ConnectionFree
    /\ LET u == call[r].user
       IN /\ users' = [users EXCEPT ![u] =
                [username |-> call[r].username, deleted |-> TRUE,
                 active_auth_provider_id |-> call[r].provider]]
          /\ providers' = [p \in Id |->
                IF p \in ProvidersOf(u)
                THEN [providers[p] EXCEPT !.deleted = TRUE] ELSE providers[p]]
          /\ keys' = [keys EXCEPT ![u] = IF @ = "live" THEN "deleted" ELSE @]
          /\ counts' = [p \in Id |->
                IF LiveCount(p) /\ counts[p].user_id = u
                THEN [counts[p] EXCEPT !.deleted = TRUE] ELSE counts[p]]
    /\ Answer(r, "deleteUser", TRUE)
    /\ UNCHANGED <<banking, faults>>

-----------------------------------------------------------------------------
(* A query fails: the error ends the handler, rolls back the transactions  *)
(* it has open and, once there is something to clean up, starts the        *)
(* cleaning up.                                                            *)
QueryFails(r) ==
    /\ faults < MaxFaults
    /\ faults' = faults + 1
    /\ r \in Active
    /\ IF call[r].at \in {"createAccount", "register"}
       THEN Goto(r, "cleanUp")
       ELSE Answer(r, call[r].op, FALSE)
    /\ UNCHANGED tables

(* The server restarts: open transactions are rolled back and requests cut *)
(* off.                                                                    *)
Crash ==
    /\ faults < MaxFaults
    /\ faults' = faults + 1
    /\ call' = [r \in Request |-> IF r \in Active THEN CutOff ELSE call[r]]
    /\ UNCHANGED tables

Submit(r) ==
    \/ \E n \in Username, k \in {"password", "other"} : CreateUser(r, n, k)
    \/ \E u \in Id :
        \/ \E k \in {"password", "other"} : CreateProvider(r, u, k)
        \/ SetPin(r, u)
        \/ \E p \in Id : SetDefault(r, u, p) \/ DeleteProvider(r, u, p)
        \/ DeleteUser(r, u)

Continue(r) ==
    \/ InsertUser(r) \/ StoreKeys(r) \/ FindProvider(r) \/ InsertProvider(r)
    \/ CreateIndex(r) \/ CommitProvider(r) \/ Activate(r) \/ ReadUser(r)
    \/ CreateAccount(r) \/ Register(r) \/ CleanUp(r) \/ CleanUpBanking(r)
    \/ UpdatePin(r) \/ SaveDefault(r) \/ DeleteProviderRow(r)
    \/ DeleteUserRows(r)

Next ==
    \/ \E r \in Request : Submit(r) \/ Continue(r) \/ QueryFails(r)
    \/ Crash

(* Node's event loop runs every continuation whose query is answered.      *)
Spec == Init /\ [][Next]_vars /\ \A r \in Request : WF_vars(Continue(r))

-----------------------------------------------------------------------------
(* Tables and handlers hold what their types say.                          *)
TypeOK ==
    /\ users \in [Id -> User \union {NoRow}]
    /\ providers \in [Id -> AuthProvider \union {NoRow}]
    /\ keys \in [Id -> {"none", "live", "deleted"}]
    /\ counts \in [Id -> IndexCount \union {NoRow}]
    /\ banking \in SUBSET Id
    /\ call \in [Request -> {New, CutOff} \union InProgress \union Done]
    /\ faults \in 0 .. MaxFaults

(* A user whose creation was answered with success has, until a deletion   *)
(* of the user commits, all a later OTP operation looks up: the user row,  *)
(* the wallet key, the password provider, its index row and the account    *)
(* balance.  No other request's update, deletion or cleaning up, no failed *)
(* query and no restart takes one of them away.                            *)
Created(u) == call[u] = [at |-> "done", op |-> "createUser", ok |-> TRUE]
CreatedUserComplete ==
    \A u \in Id : Created(u) /\ keys[u] # "deleted" =>
        /\ LiveUser(u)
        /\ keys[u] = "live"
        /\ LiveProvider(u) /\ LiveCount(u)
        /\ u \in banking

(* Every request is answered or cut off by a restart: "A Promise resolving *)
(* to the created user entity".                                            *)
EveryRequestEnds == \A r \in Request : r \in Active ~> r \notin Active

=============================================================================
