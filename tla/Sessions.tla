------------------------------ MODULE Sessions ------------------------------
(***************************************************************************)
(* Sessions: module-auth (auth.service.ts, jwt.service.ts, the strategy    *)
(* and the guards) with the handlers that log a user in, refresh a token   *)
(* and serve requests that carry one: auth.controller.ts and, of           *)
(* user.controller.ts and ipfs.controller.ts, one handler of each kind     *)
(* (reading, deleting, uploading).                                         *)
(*                                                                         *)
(* The server keeps no session: a token is good until it expires, and each *)
(* request that carries one looks its user up.  Passwords are compared     *)
(* with what bcrypt finds, right or wrong; a signature cannot be forged.   *)
(* A token may expire at any time, since its lifetime is configured.       *)
(***************************************************************************)
EXTENDS Naturals, FiniteSets

CONSTANTS User,
          RoleOf,      \* users.role
          Op,          \* the operations requests may ask for
          MaxRequests, \* bound: HTTP requests, numbered by arrival
          MaxFaults,   \* bound: failed queries and restarts of the server
          Parallel     \* bound: requests in progress at once

Request == 1 .. MaxRequests
Role == {"anonymous", "user", "admin", "super_admin"}

(* What UseGuards and Roles ask of the operations that need a token.       *)
Required == [profile |-> Role, verify |-> Role,
             readUser |-> {"super_admin"}, deleteUser |-> {"super_admin"},
             uploadJson |-> {"user", "admin", "super_admin"}]
Guarded == DOMAIN Required
Operation == Guarded \union {"login", "refresh"}

ASSUME SessionsAssumption ==
    /\ RoleOf \in [User -> Role]
    /\ Op \subseteq Operation
    /\ MaxRequests \in Nat
    /\ MaxFaults \in Nat
    /\ Parallel \in Nat

VARIABLES deleted, \* the users whose deleted_at is set
          files,   \* the uploads that reached IPFS, by request
          history, \* the rows of login_history, by request
          tokens,  \* the tokens clients were given
          expired, \* those of them that have expired
          call,    \* each request: where its handler is and its locals
          before,  \* history variable: the requests answered before one came
          faults   \* failed queries and restarts so far

stores == <<deleted, files, history>>
vars == <<deleted, files, history, tokens, expired, call, before, faults>>

(* The payload of a token, with the request that signed it and the login   *)
(* it stems from.                                                          *)
Token == [type : {"access", "refresh"}, sub : User, by : Request,
          login : Request]

New == [at |-> "new"]
CutOff == [at |-> "cut off"]
Step == {"readUser", "validatePassword", "uploadFile", "createLoginHistory",
         "getUrl", "handler", "save"}
InProgress == [at : Step, op : Operation, sub : User, target : User,
               token : SUBSET Token]
Done == [at : {"done"}, op : Operation, sub : User, target : User,
         ok : BOOLEAN]

Active == {r \in Request : call[r].at \in Step}

Init ==
    /\ deleted = {}
    /\ files = {}
    /\ history = {}
    /\ tokens = {}
    /\ expired = {}
    /\ call = [r \in Request |-> New]
    /\ before = [r \in Request |-> {}]
    /\ faults = 0

Live(u) == u \notin deleted

Goto(r, step) == call' = [call EXCEPT ![r] = [@ EXCEPT !.at = step]]
Reply(r, o, u, target, success) ==
    call' = [call EXCEPT ![r] = [at |-> "done", op |-> o, sub |-> u,
                                 target |-> target, ok |-> success]]
Answer(r, success) ==
    Reply(r, call[r].op, call[r].sub, call[r].target, success)

Arrives(r, o) ==
    /\ call[r] = New
    /\ \A q \in 1 .. r - 1 : call[q] # New
    /\ o \in Op
    /\ Cardinality(Active) < Parallel
    /\ before' = [before EXCEPT ![r] =
                    {q \in Request : call[q].at = "done"}]

(* The handler goes on for user u; verifyToken keeps the token it was      *)
(* called with.                                                            *)
Start(r, o, step, u, target, token) ==
    call' = [call EXCEPT ![r] = [at |-> step, op |-> o, sub |-> u,
                                 target |-> target, token |-> token]]

(* Faulty variants, each named for the mistake it makes, precede some      *)
(* definitions.  No specification uses them: replacing the definition by   *)
(* its variant shows that a property is able to fail.                      *)
SignedWithoutSubject(r, u, login) ==
    [type : {"access", "refresh"}, by : {r}, login : {login}]

(* AuthService.login: an access and a refresh token for the user.          *)
Signed(r, u, login) ==
    [type : {"access", "refresh"}, sub : {u}, by : {r}, login : {login}]

-----------------------------------------------------------------------------
(* login: byUsernameOrEmail finds the user, then reads its details;        *)
(* validatePassword reads the provider, which a deletion of the user takes *)
(* away; the tokens are signed, the receipt is uploaded, the login is      *)
(* recorded, and the client gets the tokens with the receipt's address.    *)
Login(r, u) ==
    /\ Arrives(r, "login")
    /\ IF Live(u) THEN Start(r, "login", "readUser", u, u, {})
                  ELSE Reply(r, "login", u, u, FALSE)
    /\ UNCHANGED <<stores, tokens, expired, faults>>

ReadUser(r) ==
    /\ call[r].at = "readUser"
    /\ IF Live(call[r].sub) THEN Goto(r, "validatePassword")
                            ELSE Answer(r, FALSE)
    /\ UNCHANGED <<stores, tokens, expired, before, faults>>

ValidatePassword(r) ==
    /\ call[r].at = "validatePassword"
    /\ \/ Live(call[r].sub) /\ Goto(r, "uploadFile")
       \/ Answer(r, FALSE)
    /\ UNCHANGED <<stores, tokens, expired, before, faults>>

UploadUnchecked(r) ==
    /\ call[r].at = "uploadFile"
    /\ files' \in {files, files \union {r}}
    /\ IF call[r].op = "login" THEN Goto(r, "createLoginHistory")
                               ELSE Answer(r, TRUE)
    /\ UNCHANGED <<deleted, history, tokens, expired, before, faults>>

(* IpfsService.uploadFile, for the receipt of a login and for uploadJson:  *)
(* Pinata may refuse, or fail when it has stored the file.                 *)
UploadFile(r) ==
    /\ call[r].at = "uploadFile"
    /\ \/ /\ files' = files \union {r}
          /\ IF call[r].op = "login" THEN Goto(r, "createLoginHistory")
                                     ELSE Answer(r, TRUE)
       \/ /\ files' \in {files, files \union {r}}
          /\ Answer(r, FALSE)
    /\ UNCHANGED <<deleted, history, tokens, expired, before, faults>>

CreateLoginHistory(r) ==
    /\ call[r].at = "createLoginHistory"
    /\ history' = history \union {r}
    /\ Goto(r, "getUrl")
    /\ UNCHANGED <<deleted, files, tokens, expired, before, faults>>

(* getUrl may fail when the login is already recorded.                     *)
GetUrl(r) ==
    /\ call[r].at = "getUrl"
    /\ \/ /\ tokens' = tokens \union Signed(r, call[r].sub, r)
          /\ Answer(r, TRUE)
       \/ /\ Answer(r, FALSE)
          /\ UNCHANGED tokens
    /\ UNCHANGED <<stores, expired, before, faults>>

-----------------------------------------------------------------------------
(* refreshToken: two new tokens for a refresh token that has not expired;  *)
(* no store is asked.                                                      *)
Refresh(r, t) ==
    /\ Arrives(r, "refresh")
    /\ IF t \notin expired /\ t.type = "refresh"
       THEN /\ tokens' = tokens \union Signed(r, t.sub, t.login)
            /\ Reply(r, "refresh", t.sub, t.sub, TRUE)
       ELSE /\ Reply(r, "refresh", t.sub, t.sub, FALSE)
            /\ UNCHANGED tokens
    /\ UNCHANGED <<stores, expired, faults>>

(* UserRoleHelper.getRolesFor and RolesGuard: the roles named and those    *)
(* whose level is at most the highest level named.                         *)
Level == [anonymous |-> 0, user |-> 1, admin |-> 10, super_admin |-> 11]
RolesFor(roles) ==
    {k \in Role : k \in roles \/ \E s \in roles : Level[k] <= Level[s]}
Permitted(o, u) == RoleOf[u] \in RolesFor(Required[o])

AdmitUnseen(r, t, o, target) ==
    /\ Arrives(r, o)
    /\ IF t \notin expired /\ Permitted(o, t.sub)
       THEN Start(r, o, IF o = "uploadJson" THEN "uploadFile" ELSE "handler",
                  t.sub, target, IF o = "verify" THEN {t} ELSE {})
       ELSE Reply(r, o, t.sub, target, FALSE)
    /\ UNCHANGED <<stores, tokens, expired, faults>>

(* JwtAuthGuard with JwtStrategy.validate: the token has not expired and   *)
(* its user is found, whatever the token's type; then RolesGuard.          *)
Admit(r, t, o, target) ==
    /\ Arrives(r, o)
    /\ IF t \notin expired /\ Live(t.sub) /\ Permitted(o, t.sub)
       THEN Start(r, o, IF o = "uploadJson" THEN "uploadFile" ELSE "handler",
                  t.sub, target, IF o = "verify" THEN {t} ELSE {})
       ELSE Reply(r, o, t.sub, target, FALSE)
    /\ UNCHANGED <<stores, tokens, expired, faults>>

(* getUserProfile and getUserById read a user; verifyToken verifies the    *)
(* token a second time.                                                    *)
Read(r) ==
    /\ call[r].at = "handler"
    /\ \/ call[r].op = "profile" /\ Answer(r, Live(call[r].sub))
       \/ call[r].op = "readUser" /\ Answer(r, Live(call[r].target))
       \/ call[r].op = "verify" /\ Answer(r, call[r].token \cap expired = {})
    /\ UNCHANGED <<stores, tokens, expired, before, faults>>

(* deleteUser finds a user and saves it as deleted in a second step.       *)
Find(r) ==
    /\ call[r].at = "handler"
    /\ call[r].op = "deleteUser"
    /\ IF Live(call[r].target) THEN Goto(r, "save") ELSE Answer(r, FALSE)
    /\ UNCHANGED <<stores, tokens, expired, before, faults>>

Save(r) ==
    /\ call[r].at = "save"
    /\ deleted' = deleted \union {call[r].target}
    /\ Answer(r, TRUE)
    /\ UNCHANGED <<files, history, tokens, expired, before, faults>>

-----------------------------------------------------------------------------
Expire(t) ==
    /\ t \in tokens
    /\ expired' = expired \union {t}
    /\ UNCHANGED <<stores, tokens, call, before, faults>>

(* A query fails, and the handler answers with the error.                  *)
QueryFails(r) ==
    /\ faults < MaxFaults
    /\ faults' = faults + 1
    /\ call[r].at \in Step \ {"uploadFile", "getUrl"}
    /\ Answer(r, FALSE)
    /\ UNCHANGED <<stores, tokens, expired, before>>

(* The server restarts: requests in progress are cut off; tokens stay good.*)
Crash ==
    /\ faults < MaxFaults
    /\ faults' = faults + 1
    /\ call' = [r \in Request |-> IF r \in Active THEN CutOff ELSE call[r]]
    /\ UNCHANGED <<stores, tokens, expired, before>>

Submit(r) ==
    \/ \E u \in User : Login(r, u)
    \/ \E t \in tokens :
        \/ Refresh(r, t)
        \/ \E o \in {"profile", "verify", "uploadJson"} :
                Admit(r, t, o, t.sub)
        \/ \E o \in {"readUser", "deleteUser"}, u \in User : Admit(r, t, o, u)

Continue(r) ==
    \/ ReadUser(r) \/ ValidatePassword(r) \/ UploadFile(r)
    \/ CreateLoginHistory(r) \/ GetUrl(r) \/ Read(r) \/ Find(r) \/ Save(r)

Next ==
    \/ \E r \in Request : Submit(r) \/ Continue(r) \/ QueryFails(r)
    \/ \E t \in tokens : Expire(t)
    \/ Crash

Spec == Init /\ [][Next]_vars

-----------------------------------------------------------------------------
(* Stores, tokens and handlers hold what their types say.                  *)
TypeOK ==
    /\ deleted \in SUBSET User
    /\ files \in SUBSET Request
    /\ history \in SUBSET Request
    /\ tokens \in SUBSET Token
    /\ expired \in SUBSET tokens
    /\ call \in [Request -> {New, CutOff} \union InProgress \union Done]
    /\ before \in [Request -> SUBSET Request]
    /\ faults \in 0 .. MaxFaults

(* Every token in a client's hands stems, over any number of refreshes,    *)
(* from a login of the same user that login_history records and whose      *)
(* receipt is on IPFS: the tokens signed before the upload never leave the *)
(* server without them.                                                    *)
SessionsAreRecorded ==
    \A t \in tokens :
        /\ t.login \in history \cap files
        /\ call[t.login] = [at |-> "done", op |-> "login", sub |-> t.sub,
                            target |-> t.sub, ok |-> TRUE]

(* A request that comes after the deletion of a user was acknowledged is   *)
(* not served for that user, although the user's tokens stay good and can  *)
(* be refreshed for ever: neither with a token nor by a new login.         *)
Succeeded(r, o) == call[r].at = "done" /\ call[r].op = o /\ call[r].ok
DeletedNotServed ==
    \A d, r \in Request :
        Succeeded(d, "deleteUser") /\ d \in before[r] =>
            \A o \in Guarded \union {"login"} :
                Succeeded(r, o) => call[r].sub # call[d].target

=============================================================================
