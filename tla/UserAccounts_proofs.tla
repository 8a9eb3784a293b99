------------------------ MODULE UserAccounts_proofs ------------------------
(***************************************************************************)
(* Proofs about users and their providers: that the tables and handlers    *)
(* keep their types, and that nobody takes away what an acknowledged       *)
(* sign-up left.                                                           *)
(***************************************************************************)
EXTENDS UserAccounts, TLAPS

Handler == {New, CutOff} \union InProgress \union Done

(* A handler that is neither new nor cut off, by where it is.              *)
LEMMA HandlerAt ==
    ASSUME TypeOK, NEW r \in Request
    PROVE  /\ call[r] \in Handler
           /\ call[r] = New => call[r].at = "new"
           /\ call[r] = CutOff => call[r].at = "cut off"
           /\ call[r].at \in Step <=> call[r] \in InProgress
           /\ call[r].at = "done" <=> call[r] \in Done
           /\ call[r].at = "new" <=> call[r] = New
           /\ call[r].at = "cut off" <=> call[r] = CutOff
           /\ r \in Active <=> call[r] \in InProgress
<1>1. New.at = "new" /\ CutOff.at = "cut off"
  BY DEF New, CutOff
<1>2. {"new", "cut off", "done"} \cap Step = {}
  BY DEF Step, UserTransaction
<1>3. call[r] \in Handler
  BY DEF TypeOK, Handler
<1>4. /\ call[r] \in InProgress => call[r].at \in Step
      /\ call[r] \in Done => call[r].at = "done"
  BY DEF InProgress, Done
<1> QED
  BY <1>1, <1>2, <1>3, <1>4 DEF Handler, Active

(* What Goto, Answer and Start do to the handlers.                         *)
Moved(r, step) ==
    /\ call' \in [Request -> Handler]
    /\ call'[r] = [call[r] EXCEPT !.at = step]
    /\ \A q \in Request \ {r} : call'[q] = call[q]
Ended(r, o, success) ==
    /\ call' \in [Request -> Handler]
    /\ call'[r] = [at |-> "done", op |-> o, ok |-> success]
    /\ \A q \in Request \ {r} : call'[q] = call[q]

LEMMA GotoMoves ==
    ASSUME TypeOK, NEW r \in Request, call[r].at \in Step, NEW step \in Step,
           Goto(r, step)
    PROVE  Moved(r, step)
<1>1. call[r] \in InProgress /\ call \in [Request -> Handler]
  BY HandlerAt DEF TypeOK, Handler
<1>2. [call[r] EXCEPT !.at = step] \in InProgress
  BY <1>1 DEF InProgress
<1> QED
  BY <1>1, <1>2 DEF Goto, Moved, Handler

LEMMA AnswerEnds ==
    ASSUME TypeOK, NEW r \in Request, NEW o \in Operation,
           NEW success \in BOOLEAN, Answer(r, o, success)
    PROVE  Ended(r, o, success)
<1>1. call \in [Request -> Handler]
  BY DEF TypeOK, Handler
<1>2. [at |-> "done", op |-> o, ok |-> success] \in Done
  BY DEF Done
<1> QED
  BY <1>1, <1>2 DEF Answer, Ended, Handler

(* A handler that has ended.                                               *)
LEMMA EndedFields ==
    ASSUME NEW r, NEW o, NEW b, Ended(r, o, b)
    PROVE  /\ call'[r].at = "done" /\ call'[r].op = o /\ call'[r].ok = b
           /\ \A q \in Request \ {r} : call'[q] = call[q]
<1>1. /\ call'[r] = [at |-> "done", op |-> o, ok |-> b]
      /\ \A q \in Request \ {r} : call'[q] = call[q]
  BY DEF Ended
<1> QED
  BY <1>1

(* The locals a handler starts with.                                       *)
Begun(r, step, o, u, p, k) ==
    /\ call' \in [Request -> Handler]
    /\ call'[r] \in InProgress
    /\ call'[r].at = step /\ call'[r].op = o /\ call'[r].user = u
    /\ call'[r].provider = p /\ call'[r].kind = k
    /\ call'[r].updated <=> /\ o = "setPin" /\ LiveProvider(p)
                            /\ providers[p].updated
    /\ \A q \in Request \ {r} : call'[q] = call[q]
LEMMA StartBegins ==
    ASSUME TypeOK, NEW r \in Request, NEW o \in Operation, NEW step \in Step,
           NEW u \in Id, NEW p \in Id, NEW k \in Kind, NEW n \in Username,
           Start(r, o, step, u, p, k, n)
    PROVE  Begun(r, step, o, u, p, k) /\ call'[r].username = n
<1> DEFINE upd == /\ o = "setPin" /\ LiveProvider(p) /\ providers[p].updated
           c == [at |-> step, op |-> o, user |-> u, provider |-> p, kind |-> k,
                 username |-> n, updated |-> upd]
<1>1. call \in [Request -> Handler]
  BY DEF TypeOK, Handler
<1>2. upd \in BOOLEAN
  OBVIOUS
<1>3. call' = [call EXCEPT ![r] = c]
  BY DEF Start
<1> HIDE DEF upd
<1>4. c \in InProgress
  BY <1>2 DEF InProgress
<1>5. /\ c.at = step /\ c.op = o /\ c.user = u /\ c.provider = p
      /\ c.kind = k /\ c.username = n /\ c.updated = upd
  OBVIOUS
<1> HIDE DEF c
<1>6. call'[r] = c /\ \A q \in Request \ {r} : call'[q] = call[q]
  BY <1>1, <1>3
<1>7. call' \in [Request -> Handler]
  BY <1>1, <1>3, <1>4 DEF Handler
<1>8. call'[r].updated <=> upd
  BY <1>5, <1>6
<1> QED
  BY <1>4, <1>5, <1>6, <1>7, <1>8 DEF Begun, upd

(* The rows found in the tables.                                           *)
LEMMA RowType ==
    ASSUME TypeOK, NEW i \in Id
    PROVE  /\ users[i] # NoRow => users[i] \in User
           /\ providers[i] # NoRow => providers[i] \in AuthProvider
           /\ counts[i] # NoRow => counts[i] \in IndexCount
           /\ NoRow \notin User /\ NoRow \notin AuthProvider
           /\ NoRow \notin IndexCount
BY AccountsAssumption DEF TypeOK

-----------------------------------------------------------------------------
(* A request that has just come is answered at once, or starts, each       *)
(* operation after what its handler has looked up.                         *)
Opens(r) ==
    /\ call[r] = New
    /\ UNCHANGED <<tables, faults>>
    /\ \/ \E o \in {"setDefault", "deleteProvider", "deleteUser"} :
            Ended(r, o, FALSE)
       \/ \E k \in Kind \ {"pin"} :
            Begun(r, "insertUser", "createUser", r, r, k)
       \/ \E u \in Id :
            /\ LiveUser(u)
            /\ \/ \E k \in Kind \ {"pin"} :
                    Begun(r, "findProvider", "createProvider", u, r, k)
               \/ \E p \in ProvidersOf(u) :
                    /\ providers[p].provider = "pin"
                    /\ Begun(r, "updatePin", "setPin", u, p, "pin")
               \/ Begun(r, "insertProvider", "setPin", u, r, "pin")
               \/ \E p \in ProvidersOf(u), k \in Kind :
                    /\ Begun(r, "saveDefault", "setDefault", u, p, k)
               \/ \E p \in Id :
                    /\ providers[p] # NoRow /\ providers[p].user_id = u
                    /\ users[u].active_auth_provider_id # p
                    /\ Begun(r, "deleteProvider", "deleteProvider", u, p,
                             "other")
               \/ Begun(r, "deleteUser", "deleteUser", u,
                        users[u].active_auth_provider_id, "other")

LEMMA SubmitOpens ==
    ASSUME TypeOK, NEW r \in Request, Submit(r)
    PROVE  Opens(r)
<1>0. /\ r \in Id
      /\ {"insertUser", "findProvider", "updatePin", "insertProvider",
          "saveDefault", "deleteProvider", "deleteUser"} \subseteq Step
      /\ {"createUser", "createProvider", "setPin", "setDefault",
          "deleteProvider", "deleteUser"} \subseteq Operation
      /\ {"password", "other"} \subseteq Kind \ {"pin"} /\ "pin" \in Kind
  BY DEF Id, Step, UserTransaction, Operation, Kind
<1>1. ASSUME NEW n \in Username, NEW k \in {"password", "other"},
             CreateUser(r, n, k)
      PROVE  Opens(r)
  <2>1. Begun(r, "insertUser", "createUser", r, r, k)
    BY <1>0, <1>1, StartBegins DEF CreateUser
  <2> QED
    BY <1>0, <1>1, <2>1 DEF CreateUser, Arrives, Opens
<1>2. ASSUME NEW u \in Id, LiveUser(u)
      PROVE  users[u].username \in Username
             /\ users[u].active_auth_provider_id \in Id
  BY <1>2, RowType DEF LiveUser, User
<1>3. ASSUME NEW p \in Id, LiveProvider(p)
      PROVE  providers[p].provider \in Kind
  BY <1>3, RowType DEF LiveProvider, AuthProvider
<1>4. ASSUME NEW u \in Id, NEW k \in {"password", "other"},
             CreateProvider(r, u, k)
      PROVE  Opens(r)
  <2>1. LiveUser(u) /\ call[r] = New /\ UNCHANGED <<tables, faults>>
    BY <1>4 DEF CreateProvider, Arrives
  <2>2. Begun(r, "findProvider", "createProvider", u, r, k)
    BY <1>0, <1>2, <1>4, <2>1, StartBegins DEF CreateProvider
  <2> QED
    BY <1>0, <2>1, <2>2 DEF Opens
<1>5. ASSUME NEW u \in Id, SetPin(r, u)
      PROVE  Opens(r)
  <2>1. LiveUser(u) /\ call[r] = New /\ UNCHANGED <<tables, faults>>
    BY <1>5 DEF SetPin, Arrives
  <2>2. CASE \E p \in ProvidersOf(u) :
                /\ providers[p].provider = "pin"
                /\ Start(r, "setPin", "updatePin", u, p, "pin",
                         users[u].username)
    <3>1. PICK p \in ProvidersOf(u) :
                /\ providers[p].provider = "pin"
                /\ Start(r, "setPin", "updatePin", u, p, "pin",
                         users[u].username)
      BY <2>2
    <3>2. p \in Id
      BY DEF ProvidersOf
    <3>3. Begun(r, "updatePin", "setPin", u, p, "pin")
      BY <1>0, <1>2, <2>1, <3>1, <3>2, StartBegins
    <3> QED
      BY <2>1, <3>1, <3>3 DEF Opens
  <2>3. CASE Start(r, "setPin", "insertProvider", u, r, "pin",
                   users[u].username)
    <3>1. Begun(r, "insertProvider", "setPin", u, r, "pin")
      BY <1>0, <1>2, <2>1, <2>3, StartBegins
    <3> QED
      BY <2>1, <3>1 DEF Opens
  <2> QED
    BY <1>5, <2>2, <2>3 DEF SetPin
<1>6. ASSUME NEW u \in Id, NEW p \in Id, SetDefault(r, u, p)
      PROVE  Opens(r)
  <2>1. LiveUser(u) /\ call[r] = New /\ UNCHANGED <<tables, faults>>
    BY <1>6 DEF SetDefault, Arrives
  <2>2. CASE p \in ProvidersOf(u)
    <3> DEFINE k == providers[p].provider
    <3>1. k \in Kind
      BY <1>3, <2>2 DEF ProvidersOf
    <3>2. Start(r, "setDefault", "saveDefault", u, p, k, users[u].username)
      BY <1>6, <2>2 DEF SetDefault
    <3> HIDE DEF k
    <3>3. Begun(r, "saveDefault", "setDefault", u, p, k)
      BY <1>0, <1>2, <2>1, <3>1, <3>2, StartBegins
    <3> QED
      BY <2>1, <2>2, <3>1, <3>3 DEF Opens
  <2>3. CASE p \notin ProvidersOf(u)
    <3>1. Ended(r, "setDefault", FALSE)
      BY <1>0, <1>6, <2>3, AnswerEnds DEF SetDefault
    <3> QED
      BY <2>1, <3>1 DEF Opens
  <2> QED
    BY <2>2, <2>3
<1>7. ASSUME NEW u \in Id, NEW p \in Id, DeleteProvider(r, u, p)
      PROVE  Opens(r)
  <2>1. /\ LiveUser(u) /\ call[r] = New /\ UNCHANGED <<tables, faults>>
        /\ providers[p] # NoRow /\ providers[p].user_id = u
    BY <1>7 DEF DeleteProvider, Arrives
  <2>2. CASE users[u].active_auth_provider_id = p
    <3>1. Ended(r, "deleteProvider", FALSE)
      BY <1>0, <1>7, <2>2, AnswerEnds DEF DeleteProvider
    <3> QED
      BY <2>1, <3>1 DEF Opens
  <2>3. CASE users[u].active_auth_provider_id # p
    <3>1. Begun(r, "deleteProvider", "deleteProvider", u, p, "other")
      BY <1>0, <1>2, <1>7, <2>1, <2>3, StartBegins DEF DeleteProvider
    <3> QED
      BY <2>1, <2>3, <3>1 DEF Opens
  <2> QED
    BY <2>2, <2>3
<1>8. ASSUME NEW u \in Id, DeleteUser(r, u)
      PROVE  Opens(r)
  <2>1. call[r] = New /\ UNCHANGED <<tables, faults>>
    BY <1>8 DEF DeleteUser, Arrives
  <2>2. CASE LiveUser(u)
    <3> DEFINE p == users[u].active_auth_provider_id
    <3>1. p \in Id
      BY <1>2, <2>2
    <3>2. Start(r, "deleteUser", "deleteUser", u, p, "other",
                users[u].username)
      BY <1>8, <2>2 DEF DeleteUser
    <3> HIDE DEF p
    <3>3. Begun(r, "deleteUser", "deleteUser", u, p, "other")
      BY <1>0, <1>2, <2>2, <3>1, <3>2, StartBegins
    <3> QED
      BY <2>1, <2>2, <3>3 DEF Opens, p
  <2>3. CASE ~ LiveUser(u)
    <3>1. Ended(r, "deleteUser", FALSE)
      BY <1>0, <1>8, <2>3, AnswerEnds DEF DeleteUser
    <3> QED
      BY <2>1, <3>1 DEF Opens
  <2> QED
    BY <2>2, <2>3
<1> QED
  BY <1>1, <1>4, <1>5, <1>6, <1>7, <1>8 DEF Submit

-----------------------------------------------------------------------------
(* Each operation has its steps, and names its rows: a sign-up makes user  *)
(* and provider r, a new provider has the request's number, and a PIN that *)
(* is updated is one that was found.                                       *)
Fits(r) ==
    LET c == call[r]
    IN /\ c.at \in {"insertUser", "storeKeys", "activate", "readUser",
                    "createAccount", "cleanUpBanking"} => c.op = "createUser"
       /\ c.at = "findProvider" => c.op \in {"createUser", "createProvider"}
       /\ c.at \in ProviderTransaction \union {"register", "cleanUp"} =>
            c.op \in {"createUser", "createProvider", "setPin"}
       /\ c.at = "updatePin" => c.op = "setPin"
       /\ c.at = "saveDefault" => c.op = "setDefault"
       /\ c.at = "deleteProvider" => c.op = "deleteProvider"
       /\ c.at = "deleteUser" => c.op = "deleteUser"
       /\ c.op = "createUser" => c.user = r
       /\ c.op \in {"createUser", "createProvider"} =>
            c.provider = r /\ c.kind # "pin" /\ ~ c.updated
       /\ c.op = "setPin" => c.kind = "pin"
       /\ c.op = "setPin" /\ c.at \in ProviderTransaction => c.provider = r
HandlersInv == \A r \in Active : Fits(r)

(* What a handler does at an await.  It goes on with the tables as they    *)
(* are; gives up; finds the user registered; or writes rows.               *)
Waits(r) ==
    /\ UNCHANGED <<tables, faults>>
    /\ \/ call[r].at = "insertUser" /\ Moved(r, "storeKeys")
       \/ call[r].at = "findProvider" /\ Moved(r, "insertProvider")
       \/ call[r].at = "insertProvider" /\ Moved(r, "createIndex")
       \/ /\ call[r].at = "readUser" /\ LiveUser(call[r].user)
          /\ Moved(r, "createAccount")
       \/ call[r].at = "register" /\ Moved(r, "cleanUp")
OfUser(u) == {p \in Id : providers[p] # NoRow /\ providers[p].user_id = u}
Counted(u) == {p \in Id : counts[p] # NoRow /\ counts[p].user_id = u}
Whole(u) == /\ users[u] # NoRow /\ OfUser(u) # {} /\ keys[u] # "none"
            /\ Counted(u) # {}
GivesUp(r) ==
    /\ UNCHANGED <<tables, faults>>
    /\ Ended(r, call[r].op, FALSE)
    /\ \/ call[r].at = "insertUser"
       \/ /\ call[r].at \in {"findProvider", "insertProvider"}
          /\ SameProvider(r) # {}
       \/ call[r].at = "readUser" /\ ~ LiveUser(call[r].user)
       \/ /\ call[r].at = "cleanUp" /\ call[r].op = "createUser"
          /\ ~ Whole(call[r].user)
       \/ call[r].at = "cleanUp" /\ call[r].op # "createUser"
       \/ call[r].at \in {"updatePin", "saveDefault", "deleteProvider"}
Registers(r) ==
    /\ call[r].at = "register" /\ Registrable(r)
    /\ UNCHANGED <<tables, faults>>
    /\ Ended(r, call[r].op, TRUE)
Stores(r) == StoreKeys(r) /\ Moved(r, "findProvider")
Indexes(r) == CreateIndex(r) /\ Moved(r, "commitProvider")
Commits(r) ==
    /\ CommitProvider(r)
    /\ \/ call[r].op = "createUser" /\ Moved(r, "activate")
       \/ call[r].op # "createUser" /\ Moved(r, "register")
Activates(r) == Activate(r) /\ Moved(r, "readUser")
Opened(r) == CreateAccount(r) /\ (Moved(r, "register") \/ Moved(r, "cleanUp"))
CleansUser(r) ==
    /\ call[r].at = "cleanUp" /\ call[r].op = "createUser"
    /\ Whole(call[r].user)
    /\ users' = [users EXCEPT ![call[r].user] = NoRow]
    /\ providers' = [p \in Id |-> IF p \in OfUser(call[r].user) THEN NoRow
                                  ELSE providers[p]]
    /\ keys' = [keys EXCEPT ![call[r].user] = "none"]
    /\ counts' = [p \in Id |-> IF p \in Counted(call[r].user) THEN NoRow
                               ELSE counts[p]]
    /\ UNCHANGED <<banking, faults>>
    /\ Moved(r, "cleanUpBanking")
CleansProvider(r) ==
    /\ call[r].at = "cleanUp" /\ call[r].op # "createUser"
    /\ LiveProvider(call[r].provider) /\ LiveCount(call[r].provider)
    /\ providers' = [providers EXCEPT ![call[r].provider] = NoRow]
    /\ counts' = [counts EXCEPT ![call[r].provider] = NoRow]
    /\ UNCHANGED <<users, keys, banking, faults>>
    /\ Ended(r, call[r].op, FALSE)
CleansBanking(r) == CleanUpBanking(r) /\ Ended(r, call[r].op, FALSE)
Updated(r) == [NewProvider(r) EXCEPT !.updated = TRUE]
UpdatesPin(r) ==
    /\ call[r].at = "updatePin"
    /\ \/ /\ providers[call[r].provider] # NoRow
          /\ providers' = [providers EXCEPT ![call[r].provider] = Updated(r)]
          /\ Ended(r, call[r].op, TRUE)
       \/ /\ providers[call[r].provider] = NoRow
          /\ providers' = [providers EXCEPT ![call[r].provider] =
                                NewProvider(r)]
          /\ Ended(r, call[r].op, TRUE) \/ Moved(r, "register")
    /\ UNCHANGED <<users, keys, counts, banking, faults>>
SavedUser(r, gone) ==
    [username |-> call[r].username, deleted |-> gone,
     active_auth_provider_id |-> call[r].provider]
SavesDefault(r) ==
    /\ call[r].at = "saveDefault"
    /\ users' = [users EXCEPT ![call[r].user] = SavedUser(r, FALSE)]
    /\ UNCHANGED <<providers, keys, counts, banking, faults>>
    /\ Ended(r, call[r].op, TRUE)
DeletesProvider(r) ==
    /\ call[r].at = "deleteProvider"
    /\ LiveProvider(call[r].provider)
    /\ providers[call[r].provider].provider # "password"
    /\ providers' = [providers EXCEPT ![call[r].provider].deleted = TRUE]
    /\ UNCHANGED <<users, keys, counts, banking, faults>>
    /\ Ended(r, call[r].op, TRUE)
DeletesUser(r) == DeleteUserRows(r) /\ Ended(r, call[r].op, TRUE)

(* Or a query of its fails.                                                *)
Breaks(r) ==
    /\ UNCHANGED tables
    /\ faults < MaxFaults /\ faults' = faults + 1
    /\ \/ call[r].at \in {"createAccount", "register"} /\ Moved(r, "cleanUp")
       \/ Ended(r, call[r].op, FALSE)

(* These are the steps.                                                    *)
LEMMA ContinueIs ==
    ASSUME TypeOK, HandlersInv, NEW r \in Request, Continue(r)
    PROVE  /\ r \in Active
           /\ \/ Waits(r) \/ GivesUp(r) \/ Registers(r) \/ Stores(r)
              \/ Indexes(r) \/ Commits(r) \/ Activates(r) \/ Opened(r)
              \/ CleansUser(r) \/ CleansProvider(r) \/ CleansBanking(r)
              \/ UpdatesPin(r) \/ SavesDefault(r) \/ DeletesProvider(r)
              \/ DeletesUser(r)
<1> DEFINE Kinds == \/ Waits(r) \/ GivesUp(r) \/ Registers(r) \/ Stores(r)
                    \/ Indexes(r) \/ Commits(r) \/ Activates(r) \/ Opened(r)
                    \/ CleansUser(r) \/ CleansProvider(r) \/ CleansBanking(r)
                    \/ UpdatesPin(r) \/ SavesDefault(r) \/ DeletesProvider(r)
                    \/ DeletesUser(r)
           c == call[r]
           Goal == r \in Active /\ Kinds
<1>0. Step = {"insertUser", "storeKeys", "findProvider", "insertProvider",
              "createIndex", "commitProvider", "activate", "readUser",
              "createAccount", "register", "cleanUp", "cleanUpBanking",
              "updatePin", "saveDefault", "deleteProvider", "deleteUser"}
  BY DEF Step, UserTransaction
<1>1. ASSUME c.at \in Step
      PROVE  /\ r \in Active /\ Fits(r) /\ c \in InProgress
             /\ c.op \in Operation
             /\ \A s \in Step : Goto(r, s) => Moved(r, s)
             /\ \A o \in Operation, b \in BOOLEAN :
                    Answer(r, o, b) => Ended(r, o, b)
  <2>1. r \in Active /\ c \in InProgress
    BY <1>1, HandlerAt DEF Active
  <2> QED
    BY <1>1, <2>1, GotoMoves, AnswerEnds DEF HandlersInv, InProgress
<1>2. "createUser" \in Operation /\ "setPin" \in Operation
      /\ "setDefault" \in Operation /\ "deleteProvider" \in Operation
      /\ "deleteUser" \in Operation
  BY DEF Operation
<1>3. ASSUME InsertUser(r)
      PROVE  Goal
  <2>1. c.at = "insertUser" /\ r \in Active /\ c.op = "createUser"
    BY <1>0, <1>1, <1>3 DEF InsertUser, Fits
  <2>2. Moved(r, "storeKeys") \/ Ended(r, "createUser", FALSE)
    BY <1>0, <1>1, <1>2, <1>3, <2>1 DEF InsertUser
  <2> QED
    BY <1>3, <2>1, <2>2 DEF InsertUser, Waits, GivesUp
<1>4. ASSUME StoreKeys(r)
      PROVE  Goal
  BY <1>0, <1>1, <1>4 DEF StoreKeys, Stores
<1>5. ASSUME FindProvider(r)
      PROVE  Goal
  <2>1. c.at = "findProvider" /\ r \in Active
    BY <1>0, <1>1, <1>5 DEF FindProvider
  <2>2. \/ Moved(r, "insertProvider")
        \/ Ended(r, c.op, FALSE) /\ SameProvider(r) # {}
    BY <1>0, <1>1, <1>5, <2>1 DEF FindProvider
  <2> QED
    BY <1>5, <2>1, <2>2 DEF FindProvider, Waits, GivesUp
<1>6. ASSUME InsertProvider(r)
      PROVE  Goal
  <2>1. c.at = "insertProvider" /\ r \in Active
    BY <1>0, <1>1, <1>6 DEF InsertProvider
  <2>2. \/ Moved(r, "createIndex")
        \/ Ended(r, c.op, FALSE) /\ SameProvider(r) # {}
    BY <1>0, <1>1, <1>6, <2>1 DEF InsertProvider
  <2> QED
    BY <1>6, <2>1, <2>2 DEF InsertProvider, Waits, GivesUp
<1>7. ASSUME CreateIndex(r)
      PROVE  Goal
  BY <1>0, <1>1, <1>7 DEF CreateIndex, Indexes
<1>8. ASSUME CommitProvider(r)
      PROVE  Goal
  BY <1>0, <1>1, <1>8 DEF CommitProvider, Commits
<1>9. ASSUME Activate(r)
      PROVE  Goal
  BY <1>0, <1>1, <1>9 DEF Activate, Activates
<1>10. ASSUME ReadUser(r)
       PROVE  Goal
  <2>1. c.at = "readUser" /\ r \in Active /\ c.op = "createUser"
    BY <1>0, <1>1, <1>10 DEF ReadUser, Fits
  <2>2. \/ Moved(r, "createAccount") /\ LiveUser(c.user)
        \/ Ended(r, "createUser", FALSE) /\ ~ LiveUser(c.user)
    BY <1>0, <1>1, <1>2, <1>10, <2>1 DEF ReadUser
  <2> QED
    BY <1>10, <2>1, <2>2 DEF ReadUser, Waits, GivesUp
<1>11. ASSUME CreateAccount(r)
       PROVE  Goal
  BY <1>0, <1>1, <1>11 DEF CreateAccount, Opened
<1>12. ASSUME Register(r)
       PROVE  Goal
  <2>1. c.at = "register" /\ r \in Active
    BY <1>0, <1>1, <1>12 DEF Register
  <2>2. Moved(r, "cleanUp") \/ (Ended(r, c.op, TRUE) /\ Registrable(r))
    BY <1>0, <1>1, <1>12, <2>1 DEF Register
  <2> QED
    BY <1>12, <2>1, <2>2 DEF Register, Waits, Registers
<1>13. ASSUME CleanUp(r)
       PROVE  Goal
  <2>1. c.at = "cleanUp" /\ r \in Active /\ UNCHANGED <<banking, faults>>
    BY <1>0, <1>1, <1>13 DEF CleanUp
  <2>2. CASE c.op = "createUser" /\ Whole(c.user)
    <3>1. CleansUser(r)
      BY <1>0, <1>1, <1>13, <2>1, <2>2
         DEF CleanUp, CleanUpUser, CleansUser, Whole, OfUser, Counted
    <3> QED
      BY <2>1, <3>1
  <2>3. CASE c.op = "createUser" /\ ~ Whole(c.user)
    <3>1. /\ Answer(r, "createUser", FALSE)
          /\ UNCHANGED <<users, providers, keys, counts>>
      BY <1>13, <2>3 DEF CleanUp, CleanUpUser, Whole, OfUser, Counted
    <3>2. Ended(r, c.op, FALSE)
      BY <1>0, <1>1, <1>2, <2>1, <2>3, <3>1
    <3> QED
      BY <2>1, <2>3, <3>1, <3>2 DEF GivesUp, tables
  <2>4. CASE c.op # "createUser"
    <3>1. CleanUpProvider(r)
      BY <1>13, <2>4 DEF CleanUp
    <3>2. Ended(r, c.op, FALSE) /\ UNCHANGED <<users, keys>>
      BY <1>0, <1>1, <2>1, <3>1 DEF CleanUpProvider
    <3> QED
      BY <2>1, <2>4, <3>1, <3>2
         DEF CleanUpProvider, CleansProvider, GivesUp, tables
  <2> QED
    BY <2>2, <2>3, <2>4
<1>14. ASSUME CleanUpBanking(r)
       PROVE  Goal
  <2>1. c.at = "cleanUpBanking" /\ r \in Active /\ c.op = "createUser"
    BY <1>0, <1>1, <1>14 DEF CleanUpBanking, Fits
  <2> QED
    BY <1>0, <1>1, <1>2, <1>14, <2>1 DEF CleanUpBanking, CleansBanking
<1>15. ASSUME UpdatePin(r)
       PROVE  Goal
  <2>1. /\ c.at = "updatePin" /\ r \in Active /\ c.op = "setPin"
        /\ UNCHANGED <<users, keys, counts, banking, faults>>
    BY <1>0, <1>1, <1>15 DEF UpdatePin, Fits
  <2>2. /\ \A b \in BOOLEAN : Answer(r, "setPin", b) => Ended(r, c.op, b)
        /\ Goto(r, "register") => Moved(r, "register")
    BY <1>0, <1>1, <1>2, <2>1
  <2> QED
    BY <1>15, <2>1, <2>2 DEF UpdatePin, UpdatesPin, Updated, GivesUp, tables
<1>16. ASSUME SaveDefault(r)
       PROVE  Goal
  <2>1. /\ c.at = "saveDefault" /\ r \in Active /\ c.op = "setDefault"
        /\ UNCHANGED <<providers, keys, counts, banking, faults>>
    BY <1>0, <1>1, <1>16 DEF SaveDefault, Fits
  <2>2. \A b \in BOOLEAN : Answer(r, "setDefault", b) => Ended(r, c.op, b)
    BY <1>0, <1>1, <1>2, <2>1
  <2> QED
    BY <1>16, <2>1, <2>2
       DEF SaveDefault, SavesDefault, SavedUser, GivesUp, tables
<1>17. ASSUME DeleteProviderRow(r)
       PROVE  Goal
  <2>1. /\ c.at = "deleteProvider" /\ r \in Active /\ c.op = "deleteProvider"
        /\ UNCHANGED <<users, keys, counts, banking, faults>>
    BY <1>0, <1>1, <1>17 DEF DeleteProviderRow, Fits
  <2>2. \A b \in BOOLEAN : Answer(r, "deleteProvider", b) => Ended(r, c.op, b)
    BY <1>0, <1>1, <1>2, <2>1
  <2> QED
    BY <1>17, <2>1, <2>2
       DEF DeleteProviderRow, DeletesProvider, GivesUp, tables
<1>18. ASSUME DeleteUserRows(r)
       PROVE  Goal
  <2>1. c.at = "deleteUser" /\ r \in Active /\ c.op = "deleteUser"
    BY <1>0, <1>1, <1>18 DEF DeleteUserRows, Fits
  <2> QED
    BY <1>0, <1>1, <1>2, <1>18, <2>1 DEF DeleteUserRows, DeletesUser
<1> HIDE DEF Goal
<1>19. Goal
  BY <1>3, <1>4, <1>5, <1>6, <1>7, <1>8, <1>9, <1>10, <1>11, <1>12, <1>13,
     <1>14, <1>15, <1>16, <1>17, <1>18 DEF Continue
<1> QED
  BY <1>19 DEF Goal

(* And a failed query.                                                     *)
LEMMA QueryFailsIs ==
    ASSUME TypeOK, NEW r \in Request, QueryFails(r)
    PROVE  r \in Active /\ Breaks(r)
<1>1. r \in Active /\ call[r].at \in Step /\ call[r].op \in Operation
  BY HandlerAt DEF QueryFails, Active, InProgress
<1>2. "cleanUp" \in Step
  BY DEF Step
<1> QED
  BY <1>1, <1>2, GotoMoves, AnswerEnds DEF QueryFails, Breaks

(* Every step is a request's, a handler's, or a restart.                   *)
LEMMA NextIs ==
    ASSUME TypeOK, HandlersInv, [Next]_vars
    PROVE  \/ \E r \in Request : Opens(r)
           \/ \E r \in Active :
                \/ Waits(r) \/ GivesUp(r) \/ Registers(r) \/ Stores(r)
                \/ Indexes(r) \/ Commits(r) \/ Activates(r) \/ Opened(r)
                \/ CleansUser(r) \/ CleansProvider(r) \/ CleansBanking(r)
                \/ UpdatesPin(r) \/ SavesDefault(r) \/ DeletesProvider(r)
                \/ DeletesUser(r) \/ Breaks(r)
           \/ Crash
           \/ UNCHANGED vars
BY SubmitOpens, ContinueIs, QueryFailsIs DEF Next

(* The fields of a running handler.                                        *)
LEMMA FieldType ==
    ASSUME TypeOK, NEW r \in Active
    PROVE  /\ r \in Request /\ r \in Id /\ call[r] \in InProgress
           /\ call[r].op \in Operation /\ call[r].user \in Id
           /\ call[r].provider \in Id /\ call[r].kind \in Kind
           /\ call[r].username \in Username /\ call[r].updated \in BOOLEAN
           /\ NewProvider(r) \in AuthProvider /\ Updated(r) \in AuthProvider
           /\ \A gone \in BOOLEAN : SavedUser(r, gone) \in User
<1>1. r \in Request /\ call[r] \in InProgress
  BY HandlerAt DEF Active
<1>2. /\ call[r].op \in Operation /\ call[r].user \in Id
      /\ call[r].provider \in Id /\ call[r].kind \in Kind
      /\ call[r].username \in Username /\ call[r].updated \in BOOLEAN
  BY <1>1 DEF InProgress
<1> QED
  BY <1>1, <1>2
     DEF Id, NewProvider, Updated, SavedUser, AuthProvider, User

(* Types are kept.                                                         *)
LEMMA StepType ==
    ASSUME TypeOK, HandlersInv, [Next]_vars
    PROVE  TypeOK'
<1> DEFINE Rows == /\ users' \in [Id -> User \union {NoRow}]
                   /\ providers' \in [Id -> AuthProvider \union {NoRow}]
                   /\ keys' \in [Id -> {"none", "live", "deleted"}]
                   /\ counts' \in [Id -> IndexCount \union {NoRow}]
                   /\ banking' \in SUBSET Id
           Rest == call' \in [Request -> Handler] /\ faults' \in 0 .. MaxFaults
<1>0. /\ users \in [Id -> User \union {NoRow}]
      /\ providers \in [Id -> AuthProvider \union {NoRow}]
      /\ keys \in [Id -> {"none", "live", "deleted"}]
      /\ counts \in [Id -> IndexCount \union {NoRow}]
      /\ banking \in SUBSET Id
      /\ call \in [Request -> Handler] /\ faults \in 0 .. MaxFaults
      /\ MaxFaults \in Nat
  BY AccountsAssumption DEF TypeOK, Handler
<1>1. ASSUME NEW r \in Request, Opens(r)
      PROVE  Rows /\ Rest
  BY <1>0, <1>1 DEF Opens, Begun, Ended, tables
<1>2. ASSUME NEW r \in Active, Waits(r) \/ GivesUp(r) \/ Registers(r)
      PROVE  Rows /\ Rest
  BY <1>0, <1>2 DEF Waits, GivesUp, Registers, Moved, Ended, tables
<1>3. ASSUME NEW r \in Active, Stores(r)
      PROVE  Rows /\ Rest
  BY <1>0, <1>3, FieldType DEF Stores, StoreKeys, Moved
<1>4. ASSUME NEW r \in Active, Indexes(r)
      PROVE  Rows /\ Rest
  BY <1>0, <1>4, FieldType DEF Indexes, CreateIndex, Moved, IndexCount
<1>5. ASSUME NEW r \in Active, Commits(r)
      PROVE  Rows /\ Rest
  BY <1>0, <1>5, FieldType DEF Commits, CommitProvider, Moved
<1>6. ASSUME NEW r \in Active, Activates(r)
      PROVE  Rows /\ Rest
  <2>1. SavedUser(r, FALSE) \in User /\ call[r].user \in Id
    BY FieldType
  <2>2. users' = [users EXCEPT ![call[r].user] = SavedUser(r, FALSE)]
    BY <1>6 DEF Activates, Activate, SavedUser
  <2>3. /\ UNCHANGED <<providers, keys, counts, banking, faults>>
        /\ call' \in [Request -> Handler]
    BY <1>6 DEF Activates, Activate, Moved
  <2>4. users' \in [Id -> User \union {NoRow}]
    BY <1>0, <2>1, <2>2
  <2> QED
    BY <1>0, <2>3, <2>4
<1>7. ASSUME NEW r \in Active, Opened(r)
      PROVE  Rows /\ Rest
  BY <1>0, <1>7, FieldType DEF Opened, CreateAccount, Moved
<1>8. ASSUME NEW r \in Active, CleansUser(r)
      PROVE  Rows /\ Rest
  BY <1>0, <1>8, FieldType DEF CleansUser, Moved
<1>9. ASSUME NEW r \in Active, CleansProvider(r)
      PROVE  Rows /\ Rest
  BY <1>0, <1>9, FieldType DEF CleansProvider, Ended
<1>10. ASSUME NEW r \in Active, CleansBanking(r)
       PROVE  Rows /\ Rest
  BY <1>0, <1>10, FieldType DEF CleansBanking, CleanUpBanking, Ended
<1>11. ASSUME NEW r \in Active, UpdatesPin(r)
       PROVE  Rows /\ Rest
  BY <1>0, <1>11, FieldType DEF UpdatesPin, Ended, Moved
<1>12. ASSUME NEW r \in Active, SavesDefault(r)
       PROVE  Rows /\ Rest
  BY <1>0, <1>12, FieldType DEF SavesDefault, Ended
<1>13. ASSUME NEW r \in Active, DeletesProvider(r)
       PROVE  Rows /\ Rest
  <2> DEFINE p == call[r].provider
  <2>1. p \in Id /\ providers[p] \in AuthProvider
    BY <1>13, FieldType, RowType DEF DeletesProvider, LiveProvider
  <2>2. [providers[p] EXCEPT !.deleted = TRUE] \in AuthProvider
    BY <2>1 DEF AuthProvider
  <2>3. providers' = [providers EXCEPT ![p] =
                        [providers[p] EXCEPT !.deleted = TRUE]]
    BY <1>13 DEF DeletesProvider
  <2> QED
    BY <1>0, <1>13, <2>1, <2>2, <2>3 DEF DeletesProvider, Ended
<1>14. ASSUME NEW r \in Active, DeletesUser(r)
       PROVE  Rows /\ Rest
  <2> DEFINE u == call[r].user
  <2>1. SavedUser(r, TRUE) \in User /\ u \in Id
    BY FieldType
  <2>2. users' = [users EXCEPT ![u] = SavedUser(r, TRUE)]
    BY <1>14 DEF DeletesUser, DeleteUserRows, SavedUser
  <2>3. ASSUME NEW p \in Id
        PROVE  (IF p \in ProvidersOf(u)
                THEN [providers[p] EXCEPT !.deleted = TRUE] ELSE providers[p])
                    \in AuthProvider \union {NoRow}
    <3>1. CASE p \in ProvidersOf(u)
      <4>1. providers[p] \in AuthProvider
        BY <3>1, RowType DEF ProvidersOf, LiveProvider
      <4>2. [providers[p] EXCEPT !.deleted = TRUE] \in AuthProvider
        BY <4>1 DEF AuthProvider
      <4> QED
        BY <3>1, <4>2
    <3> QED
      BY <1>0, <3>1
  <2>4. ASSUME NEW p \in Id
        PROVE  (IF LiveCount(p) /\ counts[p].user_id = u
                THEN [counts[p] EXCEPT !.deleted = TRUE] ELSE counts[p])
                    \in IndexCount \union {NoRow}
    <3>1. CASE LiveCount(p)
      <4>1. counts[p] \in IndexCount
        BY <3>1, RowType DEF LiveCount
      <4>2. [counts[p] EXCEPT !.deleted = TRUE] \in IndexCount
        BY <4>1 DEF IndexCount
      <4> QED
        BY <1>0, <4>2
    <3> QED
      BY <1>0, <3>1
  <2>5. providers' \in [Id -> AuthProvider \union {NoRow}]
    BY <1>14, <2>3 DEF DeletesUser, DeleteUserRows
  <2>6. counts' \in [Id -> IndexCount \union {NoRow}]
    BY <1>14, <2>4 DEF DeletesUser, DeleteUserRows
  <2>7. keys' \in [Id -> {"none", "live", "deleted"}]
    BY <1>0, <1>14, <2>1 DEF DeletesUser, DeleteUserRows
  <2>8. users' \in [Id -> User \union {NoRow}]
    BY <1>0, <2>1, <2>2
  <2> QED
    BY <1>0, <1>14, <2>5, <2>6, <2>7, <2>8
       DEF DeletesUser, DeleteUserRows, Ended
<1>15. ASSUME NEW r \in Active, Breaks(r)
       PROVE  Rows /\ Rest
  BY <1>0, <1>15 DEF Breaks, Moved, Ended, tables
<1>16. ASSUME Crash
       PROVE  Rows /\ Rest
  BY <1>0, <1>16 DEF Crash, tables, Handler
<1>17. ASSUME UNCHANGED vars
       PROVE  Rows /\ Rest
  BY <1>0, <1>17 DEF vars, tables
<1> HIDE DEF Rows, Rest
<1>18. Rows /\ Rest
  BY <1>1, <1>2, <1>3, <1>4, <1>5, <1>6, <1>7, <1>8, <1>9, <1>10, <1>11,
     <1>12, <1>13, <1>14, <1>15, <1>16, <1>17, NextIs
<1> QED
  BY <1>18 DEF Rows, Rest, TypeOK, Handler

(* What the step of one handler leaves to the others; none is new again.   *)
LEMMA OthersStay ==
    ASSUME TypeOK, HandlersInv, [Next]_vars, NEW q \in Request
    PROVE  \/ call'[q] = call[q]
           \/ Opens(q)
           \/ /\ q \in Active
              /\ \/ \E s \in Step : Moved(q, s)
                 \/ \E b \in BOOLEAN : Ended(q, call[q].op, b)
                 \/ call'[q] = CutOff
<1> DEFINE Good == \/ call'[q] = call[q]
                   \/ Opens(q)
                   \/ /\ q \in Active
                      /\ \/ \E s \in Step : Moved(q, s)
                         \/ \E b \in BOOLEAN : Ended(q, call[q].op, b)
                         \/ call'[q] = CutOff
<1>1. ASSUME NEW r \in Request, Opens(r)
      PROVE  Good
  <2>1. CASE q = r
    BY <1>1, <2>1
  <2>2. CASE q # r
    <3>1. call'[q] = call[q]
      BY <1>1, <2>2 DEF Opens, Begun, Ended
    <3> QED
      BY <3>1
  <2> QED
    BY <2>1, <2>2
<1>2. ASSUME NEW r \in Active,
             \/ \E s \in Step : Moved(r, s)
             \/ \E b \in BOOLEAN : Ended(r, call[r].op, b)
      PROVE  Good
  <2>1. CASE q = r
    BY <1>2, <2>1
  <2>2. CASE q # r
    <3>1. call'[q] = call[q]
      BY <1>2, <2>2 DEF Moved, Ended
    <3> QED
      BY <3>1
  <2> QED
    BY <2>1, <2>2
<1>3. ASSUME Crash \/ UNCHANGED vars
      PROVE  Good
  BY <1>3 DEF Crash, vars
<1>4. {"storeKeys", "insertProvider", "createIndex", "createAccount",
       "cleanUp", "findProvider", "commitProvider", "activate", "register",
       "readUser", "cleanUpBanking"} \subseteq Step
  BY DEF Step, UserTransaction
<1>5. ASSUME NEW r \in Active,
             Waits(r) \/ Stores(r) \/ Indexes(r) \/ Commits(r)
                \/ Activates(r) \/ Opened(r) \/ CleansUser(r)
      PROVE  Good
  <2>1. \E s \in Step : Moved(r, s)
    BY <1>4, <1>5
       DEF Waits, Stores, Indexes, Commits, Activates, Opened, CleansUser
  <2> QED
    BY <1>2, <2>1
<1>6. ASSUME NEW r \in Active,
             GivesUp(r) \/ Registers(r) \/ CleansProvider(r)
                \/ CleansBanking(r) \/ SavesDefault(r) \/ DeletesProvider(r)
                \/ DeletesUser(r)
      PROVE  Good
  <2>1. \E b \in BOOLEAN : Ended(r, call[r].op, b)
    BY <1>6 DEF GivesUp, Registers, CleansProvider, CleansBanking,
                SavesDefault, DeletesProvider, DeletesUser
  <2> QED
    BY <1>2, <2>1
<1>7. ASSUME NEW r \in Active, UpdatesPin(r) \/ Breaks(r)
      PROVE  Good
  <2>1. \/ \E s \in Step : Moved(r, s)
        \/ \E b \in BOOLEAN : Ended(r, call[r].op, b)
    BY <1>4, <1>7 DEF UpdatesPin, Breaks
  <2> QED
    BY <1>2, <2>1
<1> HIDE DEF Good
<1>8. Good
  BY <1>1, <1>3, <1>5, <1>6, <1>7, NextIs
<1> QED
  BY <1>8 DEF Good

(* A handler that goes on keeps its locals.                                *)
LEMMA MovedFields ==
    ASSUME TypeOK, NEW r \in Active, NEW s, Moved(r, s)
    PROVE  /\ call'[r].at = s /\ call'[r].op = call[r].op
           /\ call'[r].user = call[r].user
           /\ call'[r].provider = call[r].provider
           /\ call'[r].kind = call[r].kind
           /\ call'[r].username = call[r].username
           /\ call'[r].updated = call[r].updated
BY FieldType DEF Moved, InProgress

(* Handlers keep to the steps of their operations.                         *)
LEMMA StepHandlers ==
    ASSUME TypeOK, HandlersInv, [Next]_vars
    PROVE  HandlersInv'
<1> DEFINE Good == \A q \in Active' : Fits(q)'
<1>0. /\ \A q \in Active : q \in Request /\ Fits(q)
      /\ \A q \in Active' : q \in Request /\ call'[q].at \in Step
      /\ "done" \notin Step /\ "cut off" \notin Step
  BY DEF HandlersInv, Active, Step, UserTransaction
<1>1. ASSUME NEW q \in Active', call'[q] = call[q]
      PROVE  Fits(q)'
  <2>1. q \in Active
    BY <1>0, <1>1 DEF Active
  <2>2. Fits(q)
    BY <1>0, <2>1
  <2> QED
    BY <1>1, <2>2 DEF Fits
<1>2. ASSUME NEW r \in Request, \A q \in Request \ {r} : call'[q] = call[q],
             call'[r].at \in Step => Fits(r)'
      PROVE  Good
  BY <1>0, <1>1, <1>2
<1>3. ASSUME NEW r \in Request, Opens(r)
      PROVE  Good
  <2>1. call'[r].at \in Step => Fits(r)'
    <3>1. ASSUME NEW at, NEW o, NEW u, NEW p, NEW k, Begun(r, at, o, u, p, k)
          PROVE  /\ call'[r].at = at /\ call'[r].op = o /\ call'[r].user = u
                 /\ call'[r].provider = p /\ call'[r].kind = k
                 /\ call'[r].updated => o = "setPin"
      BY <3>1 DEF Begun
    <3>2. ASSUME NEW o, Ended(r, o, FALSE)
          PROVE  call'[r].at = "done"
      BY <3>2 DEF Ended
    <3>3. CASE \E o : Ended(r, o, FALSE)
      BY <1>0, <3>2, <3>3
    <3>4. ASSUME NEW u, NEW k \in Kind \ {"pin"},
                 \/ Begun(r, "insertUser", "createUser", r, r, k)
                 \/ Begun(r, "findProvider", "createProvider", u, r, k)
          PROVE  Fits(r)'
      BY <3>1, <3>4 DEF Fits, ProviderTransaction
    <3>5. ASSUME NEW u, NEW p,
                 \/ Begun(r, "updatePin", "setPin", u, p, "pin")
                 \/ Begun(r, "insertProvider", "setPin", u, r, "pin")
          PROVE  Fits(r)'
      BY <3>1, <3>5 DEF Fits, ProviderTransaction
    <3>6. ASSUME NEW u, NEW p, NEW k,
                 \/ Begun(r, "saveDefault", "setDefault", u, p, k)
                 \/ Begun(r, "deleteProvider", "deleteProvider", u, p, k)
                 \/ Begun(r, "deleteUser", "deleteUser", u, p, k)
          PROVE  Fits(r)'
      BY <3>1, <3>6 DEF Fits, ProviderTransaction
    <3> QED
      BY <1>3, <3>3, <3>4, <3>5, <3>6 DEF Opens
  <2> QED
    BY <1>2, <1>3, <2>1 DEF Opens, Begun, Ended
<1>4. ASSUME NEW r \in Active, NEW o, NEW b, Ended(r, o, b)
      PROVE  Good
  <2>1. r \in Request
    BY <1>0
  <2> HIDE DEF Good
  <2> QED
    BY <1>0, <1>2, <1>4, <2>1, EndedFields
<1>5. ASSUME NEW r \in Active, NEW s, Moved(r, s),
             <<call[r].at, s>> \in
                {<<"insertUser", "storeKeys">>, <<"storeKeys", "findProvider">>,
                 <<"findProvider", "insertProvider">>,
                 <<"insertProvider", "createIndex">>,
                 <<"createIndex", "commitProvider">>,
                 <<"activate", "readUser">>, <<"readUser", "createAccount">>,
                 <<"createAccount", "register">>,
                 <<"createAccount", "cleanUp">>, <<"register", "cleanUp">>,
                 <<"updatePin", "register">>}
      PROVE  Good
  <2>1. /\ call'[r].at = s /\ call'[r].op = call[r].op
        /\ call'[r].user = call[r].user
        /\ call'[r].provider = call[r].provider
        /\ call'[r].kind = call[r].kind
        /\ call'[r].updated = call[r].updated
    BY <1>5, MovedFields
  <2>2. Fits(r) /\ r \in Request
    BY <1>0
  <2>3. Fits(r)'
    <3>1. call[r].at \in {"insertUser", "storeKeys", "activate", "readUser",
                          "createAccount"} => Fits(r)'
      BY <1>5, <2>1, <2>2 DEF Fits, ProviderTransaction
    <3>2. call[r].at \in {"findProvider", "insertProvider", "createIndex"}
            => Fits(r)'
      BY <1>5, <2>1, <2>2 DEF Fits, ProviderTransaction
    <3>3. call[r].at \in {"register", "updatePin"} => Fits(r)'
      BY <1>5, <2>1, <2>2 DEF Fits, ProviderTransaction
    <3> QED
      BY <1>5, <3>1, <3>2, <3>3
  <2> QED
    BY <1>2, <1>5, <2>2, <2>3 DEF Moved
<1>6. ASSUME NEW r \in Active, Commits(r)
      PROVE  Good
  <2>1. PICK s \in {"activate", "register"} :
            /\ Moved(r, s)
            /\ call[r].op = "createUser" <=> s = "activate"
    BY <1>6 DEF Commits
  <2>2. /\ call'[r].at = s /\ call'[r].op = call[r].op
        /\ call'[r].user = call[r].user
        /\ call'[r].provider = call[r].provider
        /\ call'[r].kind = call[r].kind
        /\ call'[r].updated = call[r].updated
    BY <2>1, MovedFields
  <2>3. Fits(r) /\ r \in Request /\ call[r].at = "commitProvider"
    BY <1>0, <1>6 DEF Commits, CommitProvider
  <2>4. call[r].op \in {"createUser", "createProvider", "setPin"}
    BY <2>3 DEF Fits, ProviderTransaction
  <2>5. CASE s = "activate"
    <3>1. Fits(r)'
      BY <2>1, <2>2, <2>3, <2>5 DEF Fits, ProviderTransaction
    <3> QED
      BY <1>2, <2>1, <2>3, <3>1 DEF Moved
  <2>6. CASE s = "register"
    <3>1. Fits(r)'
      BY <2>1, <2>2, <2>3, <2>4, <2>6 DEF Fits, ProviderTransaction
    <3> QED
      BY <1>2, <2>1, <2>3, <3>1 DEF Moved
  <2> QED
    BY <2>1, <2>5, <2>6
<1>7. ASSUME NEW r \in Active, CleansUser(r)
      PROVE  Good
  <2>1. /\ call'[r].at = "cleanUpBanking" /\ call'[r].op = call[r].op
        /\ call'[r].user = call[r].user
        /\ call'[r].provider = call[r].provider
        /\ call'[r].kind = call[r].kind
        /\ call'[r].updated = call[r].updated
    BY <1>7, MovedFields DEF CleansUser
  <2>2. Fits(r) /\ r \in Request /\ call[r].op = "createUser"
    BY <1>0, <1>7 DEF CleansUser
  <2>3. Fits(r)'
    BY <2>1, <2>2 DEF Fits, ProviderTransaction
  <2> QED
    BY <1>2, <1>7, <2>2, <2>3 DEF CleansUser, Moved
<1>8. ASSUME NEW r \in Active,
             \/ GivesUp(r) \/ Registers(r) \/ CleansProvider(r)
             \/ CleansBanking(r) \/ SavesDefault(r) \/ DeletesProvider(r)
             \/ DeletesUser(r)
      PROVE  Good
  BY <1>4, <1>8 DEF GivesUp, Registers, CleansProvider, CleansBanking,
                    SavesDefault, DeletesProvider, DeletesUser
<1>9. ASSUME NEW r \in Active,
             \/ Waits(r) \/ Stores(r) \/ Indexes(r) \/ Activates(r)
             \/ Opened(r)
      PROVE  Good
  BY <1>5, <1>9 DEF Waits, Stores, StoreKeys, Indexes, CreateIndex,
                    Activates, Activate, Opened, CreateAccount
<1>10. ASSUME NEW r \in Active, UpdatesPin(r) \/ Breaks(r)
       PROVE  Good
  <2>1. CASE \E o, b : Ended(r, o, b)
    BY <1>4, <2>1
  <2>2. CASE call[r].at = "updatePin" /\ Moved(r, "register")
    BY <1>5, <2>2
  <2>3. CASE /\ call[r].at \in {"createAccount", "register"}
             /\ Moved(r, "cleanUp")
    BY <1>5, <2>3
  <2> HIDE DEF Good
  <2> QED
    BY <1>10, <2>1, <2>2, <2>3 DEF UpdatesPin, Breaks
<1>11. ASSUME Crash
       PROVE  Good
  <2>1. CutOff.at = "cut off"
    BY DEF CutOff
  <2> QED
    BY <1>0, <1>1, <1>11, <2>1 DEF Crash
<1>12. ASSUME UNCHANGED vars
       PROVE  Good
  BY <1>0, <1>1, <1>12 DEF vars, Active
<1> HIDE DEF Good
<1>13. Good
  BY <1>3, <1>6, <1>7, <1>8, <1>9, <1>10, <1>11, <1>12, NextIs
<1> QED
  BY <1>13 DEF Good, HandlersInv

(* The types of the tables and handlers hold in every reachable state.     *)
THEOREM AccountsTypeCorrect == Spec => []TypeOK
<1>1. Init => TypeOK /\ HandlersInv
  <2>1. New.at = "new" /\ "new" \notin Step
    BY DEF New, Step, UserTransaction
  <2> QED
    BY <2>1, AccountsAssumption
       DEF Init, TypeOK, HandlersInv, Active, InProgress, Done
<1>2. TypeOK /\ HandlersInv /\ [Next]_vars => TypeOK' /\ HandlersInv'
  BY StepType, StepHandlers
<1> QED
  BY <1>1, <1>2, PTL DEF Spec

-----------------------------------------------------------------------------
(* Who changes the row of a user, and to what.                             *)
LEMMA UsersChange ==
    ASSUME TypeOK, HandlersInv, [Next]_vars, NEW i \in Id
    PROVE  \/ users'[i] = users[i]
           \/ \E r \in Active :
                /\ call[r].user = i
                /\ \/ CleansUser(r) /\ users'[i] = NoRow
                   \/ Activates(r) /\ users'[i] = SavedUser(r, FALSE)
                   \/ SavesDefault(r) /\ users'[i] = SavedUser(r, FALSE)
                   \/ DeletesUser(r) /\ users'[i] = SavedUser(r, TRUE)
<1> DEFINE Good == \/ users'[i] = users[i]
                   \/ \E r \in Active :
                        /\ call[r].user = i
                        /\ \/ CleansUser(r) /\ users'[i] = NoRow
                           \/ Activates(r) /\ users'[i] = SavedUser(r, FALSE)
                           \/ SavesDefault(r)
                              /\ users'[i] = SavedUser(r, FALSE)
                           \/ DeletesUser(r) /\ users'[i] = SavedUser(r, TRUE)
<1>0. users \in [Id -> User \union {NoRow}]
  BY DEF TypeOK
<1>1. ASSUME UNCHANGED users
      PROVE  Good
  BY <1>1
<1>2. ASSUME NEW r \in Active, NEW row,
             users' = [users EXCEPT ![call[r].user] = row],
             \/ CleansUser(r) /\ row = NoRow
             \/ Activates(r) /\ row = SavedUser(r, FALSE)
             \/ SavesDefault(r) /\ row = SavedUser(r, FALSE)
             \/ DeletesUser(r) /\ row = SavedUser(r, TRUE)
      PROVE  Good
  <2>1. CASE call[r].user = i
    <3>1. users'[i] = row
      BY <1>0, <1>2, <2>1
    <3> QED
      BY <1>2, <2>1, <3>1
  <2>2. CASE call[r].user # i
    BY <1>0, <1>2, <2>2
  <2> QED
    BY <2>1, <2>2
<1> HIDE DEF Good
<1>3. ASSUME NEW r \in Active, Activates(r)
      PROVE  Good
  BY <1>2, <1>3 DEF Activates, Activate, SavedUser
<1>4. ASSUME NEW r \in Active, CleansUser(r)
      PROVE  Good
  BY <1>2, <1>4 DEF CleansUser
<1>5. ASSUME NEW r \in Active, SavesDefault(r)
      PROVE  Good
  BY <1>2, <1>5 DEF SavesDefault
<1>6. ASSUME NEW r \in Active, DeletesUser(r)
      PROVE  Good
  BY <1>2, <1>6 DEF DeletesUser, DeleteUserRows, SavedUser
<1>7. ASSUME \/ \E r \in Request : Opens(r)
             \/ \E r \in Active :
                  \/ Waits(r) \/ GivesUp(r) \/ Registers(r) \/ Stores(r)
                  \/ Indexes(r) \/ Commits(r) \/ Opened(r)
                  \/ CleansProvider(r) \/ CleansBanking(r) \/ UpdatesPin(r)
                  \/ DeletesProvider(r) \/ Breaks(r)
             \/ Crash \/ UNCHANGED vars
      PROVE  Good
  <2>1. UNCHANGED users
    BY <1>7 DEF Opens, Waits, GivesUp, Registers, Stores, StoreKeys, Indexes,
                CreateIndex, Commits, CommitProvider, Opened, CreateAccount,
                CleansProvider, CleansBanking, CleanUpBanking, UpdatesPin,
                DeletesProvider, Breaks, Crash, tables, vars
  <2> QED
    BY <1>1, <2>1
<1>8. Good
  BY <1>3, <1>4, <1>5, <1>6, <1>7, NextIs
<1> QED
  BY <1>8 DEF Good

(* Who changes a provider's row, and to what.                              *)
SoftlyDeleted(row) == [row EXCEPT !.deleted = TRUE]
ProviderChange(r, p) ==
    \/ CleansUser(r) /\ p \in OfUser(call[r].user) /\ providers'[p] = NoRow
    \/ /\ CleansProvider(r) /\ p = call[r].provider
       /\ providers'[p] = NoRow
    \/ /\ Commits(r) /\ p = call[r].provider
       /\ providers'[p] = NewProvider(r)
    \/ /\ UpdatesPin(r) /\ p = call[r].provider
       /\ \/ providers[p] # NoRow /\ providers'[p] = Updated(r)
          \/ providers[p] = NoRow /\ providers'[p] = NewProvider(r)
    \/ /\ DeletesProvider(r) /\ p = call[r].provider
       /\ providers'[p] = SoftlyDeleted(providers[p])
    \/ /\ DeletesUser(r) /\ p \in ProvidersOf(call[r].user)
       /\ providers'[p] = SoftlyDeleted(providers[p])
LEMMA ProvidersChange ==
    ASSUME TypeOK, HandlersInv, [Next]_vars, NEW p \in Id
    PROVE  \/ providers'[p] = providers[p]
           \/ \E r \in Active : ProviderChange(r, p)
<1> DEFINE Good == \/ providers'[p] = providers[p]
                   \/ \E r \in Active : ProviderChange(r, p)
<1>0. providers \in [Id -> AuthProvider \union {NoRow}]
  BY DEF TypeOK
<1>1. ASSUME NEW r \in Active, CleansUser(r)
      PROVE  Good
  BY <1>1 DEF CleansUser, ProviderChange
<1>2. ASSUME NEW r \in Active, CleansProvider(r)
      PROVE  Good
  BY <1>0, <1>2 DEF CleansProvider, ProviderChange
<1>3. ASSUME NEW r \in Active, Commits(r)
      PROVE  Good
  <2>1. providers' = [providers EXCEPT ![call[r].provider] = NewProvider(r)]
    BY <1>3 DEF Commits, CommitProvider
  <2> QED
    BY <1>0, <1>3, <2>1 DEF ProviderChange
<1>4. ASSUME NEW r \in Active, UpdatesPin(r)
      PROVE  Good
  <2>1. PICK row :
            /\ providers' = [providers EXCEPT ![call[r].provider] = row]
            /\ \/ providers[call[r].provider] # NoRow /\ row = Updated(r)
               \/ providers[call[r].provider] = NoRow /\ row = NewProvider(r)
    BY <1>4 DEF UpdatesPin
  <2> QED
    BY <1>0, <1>4, <2>1 DEF ProviderChange
<1>5. ASSUME NEW r \in Active, DeletesProvider(r)
      PROVE  Good
  <2>1. providers' = [providers EXCEPT ![call[r].provider] =
                        SoftlyDeleted(providers[call[r].provider])]
    BY <1>5 DEF DeletesProvider, SoftlyDeleted
  <2> QED
    BY <1>0, <1>5, <2>1 DEF ProviderChange
<1>6. ASSUME NEW r \in Active, DeletesUser(r)
      PROVE  Good
  BY <1>6 DEF DeletesUser, DeleteUserRows, ProviderChange, SoftlyDeleted
<1>7. ASSUME \/ \E r \in Request : Opens(r)
             \/ \E r \in Active :
                  \/ Waits(r) \/ GivesUp(r) \/ Registers(r) \/ Stores(r)
                  \/ Indexes(r) \/ Activates(r) \/ Opened(r)
                  \/ CleansBanking(r) \/ SavesDefault(r) \/ Breaks(r)
             \/ Crash \/ UNCHANGED vars
      PROVE  Good
  BY <1>7 DEF Opens, Waits, GivesUp, Registers, Stores, StoreKeys, Indexes,
              CreateIndex, Activates, Activate, Opened, CreateAccount,
              CleansBanking, CleanUpBanking, SavesDefault, Breaks, Crash,
              tables, vars
<1> HIDE DEF Good
<1>8. Good
  BY <1>1, <1>2, <1>3, <1>4, <1>5, <1>6, <1>7, NextIs
<1> QED
  BY <1>8 DEF Good

(* Who changes a user's key, and to what.                                  *)
LEMMA KeysChange ==
    ASSUME TypeOK, HandlersInv, [Next]_vars, NEW u \in Id
    PROVE  \/ keys'[u] = keys[u]
           \/ \E r \in Active :
                /\ call[r].user = u
                /\ \/ Stores(r) /\ keys'[u] = "live"
                   \/ CleansUser(r) /\ keys'[u] = "none"
                   \/ DeletesUser(r) /\ keys[u] = "live"
                      /\ keys'[u] = "deleted"
<1> DEFINE Good == \/ keys'[u] = keys[u]
                   \/ \E r \in Active :
                        /\ call[r].user = u
                        /\ \/ Stores(r) /\ keys'[u] = "live"
                           \/ CleansUser(r) /\ keys'[u] = "none"
                           \/ DeletesUser(r) /\ keys[u] = "live"
                              /\ keys'[u] = "deleted"
<1>0. keys \in [Id -> {"none", "live", "deleted"}]
  BY DEF TypeOK
<1>1. ASSUME NEW r \in Active, Stores(r)
      PROVE  Good
  BY <1>0, <1>1 DEF Stores, StoreKeys
<1>2. ASSUME NEW r \in Active, CleansUser(r)
      PROVE  Good
  BY <1>0, <1>2 DEF CleansUser
<1>3. ASSUME NEW r \in Active, DeletesUser(r)
      PROVE  Good
  BY <1>0, <1>3 DEF DeletesUser, DeleteUserRows
<1>4. ASSUME \/ \E r \in Request : Opens(r)
             \/ \E r \in Active :
                  \/ Waits(r) \/ GivesUp(r) \/ Registers(r) \/ Indexes(r)
                  \/ Commits(r) \/ Activates(r) \/ Opened(r)
                  \/ CleansProvider(r) \/ CleansBanking(r) \/ UpdatesPin(r)
                  \/ SavesDefault(r) \/ DeletesProvider(r) \/ Breaks(r)
             \/ Crash \/ UNCHANGED vars
      PROVE  Good
  BY <1>4 DEF Opens, Waits, GivesUp, Registers, Indexes, CreateIndex, Commits,
              CommitProvider, Activates, Activate, Opened, CreateAccount,
              CleansProvider, CleansBanking, CleanUpBanking, UpdatesPin,
              SavesDefault, DeletesProvider, Breaks, Crash, tables, vars
<1> HIDE DEF Good
<1>5. Good
  BY <1>1, <1>2, <1>3, <1>4, NextIs
<1> QED
  BY <1>5 DEF Good

(* Who changes an index row, and to what.                                  *)
CountChange(r, p) ==
    \/ /\ Indexes(r) /\ p = call[r].provider
       /\ counts'[p] = [user_id |-> call[r].user, deleted |-> FALSE]
    \/ CleansUser(r) /\ p \in Counted(call[r].user) /\ counts'[p] = NoRow
    \/ CleansProvider(r) /\ p = call[r].provider /\ counts'[p] = NoRow
    \/ /\ DeletesUser(r) /\ LiveCount(p) /\ counts[p].user_id = call[r].user
       /\ counts'[p] = SoftlyDeleted(counts[p])
LEMMA CountsChange ==
    ASSUME TypeOK, HandlersInv, [Next]_vars, NEW p \in Id
    PROVE  \/ counts'[p] = counts[p]
           \/ \E r \in Active : CountChange(r, p)
<1> DEFINE Good == \/ counts'[p] = counts[p]
                   \/ \E r \in Active : CountChange(r, p)
<1>0. counts \in [Id -> IndexCount \union {NoRow}]
  BY DEF TypeOK
<1>1. ASSUME NEW r \in Active, Indexes(r)
      PROVE  Good
  BY <1>0, <1>1 DEF Indexes, CreateIndex, CountChange
<1>2. ASSUME NEW r \in Active, CleansUser(r)
      PROVE  Good
  BY <1>2 DEF CleansUser, CountChange
<1>3. ASSUME NEW r \in Active, CleansProvider(r)
      PROVE  Good
  BY <1>0, <1>3 DEF CleansProvider, CountChange
<1>4. ASSUME NEW r \in Active, DeletesUser(r)
      PROVE  Good
  BY <1>4 DEF DeletesUser, DeleteUserRows, CountChange, SoftlyDeleted
<1>5. ASSUME \/ \E r \in Request : Opens(r)
             \/ \E r \in Active :
                  \/ Waits(r) \/ GivesUp(r) \/ Registers(r) \/ Stores(r)
                  \/ Commits(r) \/ Activates(r) \/ Opened(r)
                  \/ CleansBanking(r) \/ UpdatesPin(r) \/ SavesDefault(r)
                  \/ DeletesProvider(r) \/ Breaks(r)
             \/ Crash \/ UNCHANGED vars
      PROVE  Good
  BY <1>5 DEF Opens, Waits, GivesUp, Registers, Stores, StoreKeys, Commits,
              CommitProvider, Activates, Activate, Opened, CreateAccount,
              CleansBanking, CleanUpBanking, UpdatesPin, SavesDefault,
              DeletesProvider, Breaks, Crash, tables, vars
<1> HIDE DEF Good
<1>6. Good
  BY <1>1, <1>2, <1>3, <1>4, <1>5, NextIs
<1> QED
  BY <1>6 DEF Good

(* Who opens and closes a user's account balance.                          *)
LEMMA BankingChange ==
    ASSUME TypeOK, HandlersInv, [Next]_vars, NEW u \in Id
    PROVE  \/ u \in banking' <=> u \in banking
           \/ \E r \in Active :
                /\ call[r].user = u
                /\ \/ Opened(r) /\ u \in banking'
                   \/ CleansBanking(r) /\ u \notin banking'
<1> DEFINE Good == \/ u \in banking' <=> u \in banking
                   \/ \E r \in Active :
                        /\ call[r].user = u
                        /\ \/ Opened(r) /\ u \in banking'
                           \/ CleansBanking(r) /\ u \notin banking'
<1>1. ASSUME NEW r \in Active, Opened(r)
      PROVE  Good
  BY <1>1 DEF Opened, CreateAccount
<1>2. ASSUME NEW r \in Active, CleansBanking(r)
      PROVE  Good
  BY <1>2 DEF CleansBanking, CleanUpBanking
<1>3. ASSUME \/ \E r \in Request : Opens(r)
             \/ \E r \in Active :
                  \/ Waits(r) \/ GivesUp(r) \/ Registers(r) \/ Stores(r)
                  \/ Indexes(r) \/ Commits(r) \/ Activates(r)
                  \/ CleansUser(r) \/ CleansProvider(r) \/ UpdatesPin(r)
                  \/ SavesDefault(r) \/ DeletesProvider(r) \/ DeletesUser(r)
                  \/ Breaks(r)
             \/ Crash \/ UNCHANGED vars
      PROVE  Good
  BY <1>3 DEF Opens, Waits, GivesUp, Registers, Stores, StoreKeys, Indexes,
              CreateIndex, Commits, CommitProvider, Activates, Activate,
              CleansUser, CleansProvider, UpdatesPin, SavesDefault,
              DeletesProvider, DeletesUser, DeleteUserRows, Breaks, Crash,
              tables, vars
<1> HIDE DEF Good
<1>4. Good
  BY <1>1, <1>2, <1>3, NextIs
<1> QED
  BY <1>4 DEF Good

-----------------------------------------------------------------------------
(* A request that has not come yet has left nothing, and nobody knows its  *)
(* number.                                                                 *)
Fresh(p) ==
    /\ users[p] = NoRow /\ providers[p] = NoRow /\ counts[p] = NoRow
    /\ keys[p] = "none" /\ p \notin banking
    /\ \A q \in Active : call[q].user # p /\ call[q].provider # p
    /\ \A i \in Id :
        /\ users[i] # NoRow => users[i].active_auth_provider_id # p
        /\ providers[i] # NoRow => providers[i].user_id # p
        /\ counts[i] # NoRow => counts[i].user_id # p
FreshInv == \A p \in Request : call[p] = New => Fresh(p)

(* The provider a sign-up or an insertion made is no PIN, and no request   *)
(* that sets a PIN is about it.                                            *)
Maker(p) == /\ call[p].at \notin {"new", "cut off"}
            /\ call[p].op \in {"createUser", "createProvider"}
MakersInv ==
    \A p \in Request : Maker(p) =>
        /\ providers[p] # NoRow => /\ providers[p].provider # "pin"
                                   /\ ~ providers[p].updated
        /\ \A q \in Active : call[q].op = "setPin" => call[q].provider # p

(* As long as the transaction of a sign-up is open, nobody else knows the  *)
(* user, and what it has written is there.                                 *)
Signing(u) == /\ u \in Active /\ call[u].op = "createUser"
              /\ call[u].at \in UserTransaction
Password(u) == /\ LiveProvider(u) /\ providers[u].user_id = u
               /\ providers[u].provider = "password"
Index(u) == LiveCount(u) /\ counts[u].user_id = u
SigningInv ==
    \A u \in Request : Signing(u) =>
        /\ users[u] = NoRow
        /\ \A q \in Active \ {u} : call[q].user # u
        /\ call[u].at \notin {"insertUser", "storeKeys"} => keys[u] = "live"
        /\ call[u].at \in {"commitProvider", "activate"} => Index(u)
        /\ call[u].at = "activate" /\ call[u].kind = "password" => Password(u)

(* From then on nobody takes it away, unless the user is deleted.          *)
SignedUp(u) == /\ u \in Active /\ call[u].op = "createUser"
               /\ call[u].kind = "password"
               /\ call[u].at \in {"readUser", "createAccount", "register"}
CompleteInv ==
    \A u \in Request :
        (Created(u) \/ SignedUp(u)) /\ keys[u] # "deleted" =>
            /\ LiveUser(u) /\ keys[u] = "live" /\ Password(u) /\ Index(u)
            /\ Created(u) \/ call[u].at = "register" => u \in banking

-----------------------------------------------------------------------------
(* What can happen to one handler.                                         *)
StepsOf(r) ==
    \/ Waits(r) \/ GivesUp(r) \/ Registers(r) \/ Stores(r) \/ Indexes(r)
    \/ Commits(r) \/ Activates(r) \/ Opened(r) \/ CleansUser(r)
    \/ CleansProvider(r) \/ CleansBanking(r) \/ UpdatesPin(r)
    \/ SavesDefault(r) \/ DeletesProvider(r) \/ DeletesUser(r) \/ Breaks(r)
LEMMA HandlerChange ==
    ASSUME TypeOK, HandlersInv, [Next]_vars, NEW q \in Request
    PROVE  \/ call'[q] = call[q]
           \/ Opens(q)
           \/ q \in Active /\ StepsOf(q)
           \/ q \in Active /\ call'[q] = CutOff
<1> DEFINE Good == \/ call'[q] = call[q]
                   \/ Opens(q)
                   \/ q \in Active /\ StepsOf(q)
                   \/ q \in Active /\ call'[q] = CutOff
<1>1. ASSUME NEW r \in Request, Opens(r)
      PROVE  Good
  BY <1>1 DEF Opens, Begun, Ended
<1>2. ASSUME NEW r \in Active, StepsOf(r)
      PROVE  Good
  <2>1. CASE q = r
    BY <1>2, <2>1
  <2>2. CASE q # r
    <3>1. call'[q] = call[q]
      BY <1>2, <2>2
         DEF StepsOf, Waits, GivesUp, Registers, Stores, Indexes, Commits,
             Activates, Opened, CleansUser, CleansProvider, CleansBanking,
             UpdatesPin, SavesDefault, DeletesProvider, DeletesUser, Breaks,
             Moved, Ended
    <3> QED
      BY <3>1
  <2> QED
    BY <2>1, <2>2
<1>3. ASSUME Crash \/ UNCHANGED vars
      PROVE  Good
  BY <1>3 DEF Crash, vars
<1> HIDE DEF Good
<1>4. Good
  BY <1>1, <1>2, <1>3, NextIs DEF StepsOf
<1> QED
  BY <1>4 DEF Good

(* A request that is new after a step was new before it.                   *)
LEMMA NewWasNew ==
    ASSUME TypeOK, HandlersInv, [Next]_vars, NEW p \in Request,
           call'[p] = New
    PROVE  call[p] = New
<1>1. New.at = "new" /\ CutOff.at = "cut off" /\ "new" \notin Step
  BY DEF New, CutOff, Step, UserTransaction
<1>2. ASSUME Opens(p)
      PROVE  call[p] = New
  BY <1>2 DEF Opens
<1>3. ASSUME \E s \in Step : Moved(p, s), p \in Active
      PROVE  FALSE
  BY <1>1, <1>3, MovedFields
<1>4. ASSUME NEW b, Ended(p, call[p].op, b)
      PROVE  FALSE
  BY <1>1, <1>4, EndedFields
<1> QED
  BY <1>1, <1>2, <1>3, <1>4, OthersStay

(* What the handlers know after a step they knew before it, if it is the   *)
(* number of a user that is not in the table, or of a provider that no     *)
(* row has or names.                                                       *)
LEMMA ActiveWas ==
    ASSUME TypeOK, HandlersInv, [Next]_vars, NEW q \in Active'
    PROVE  /\ q \in Request
           /\ \/ /\ q \in Active
                 /\ call'[q].op = call[q].op /\ call'[q].user = call[q].user
                 /\ call'[q].provider = call[q].provider
                 /\ call'[q].kind = call[q].kind
                 /\ call'[q].username = call[q].username
                 /\ call'[q].updated = call[q].updated
              \/ /\ Opens(q)
                 /\ \/ call'[q].user = q /\ call'[q].op = "createUser"
                    \/ LiveUser(call'[q].user)
                 /\ \/ call'[q].provider = q /\ call'[q].op # "deleteUser"
                    \/ call'[q].provider \in Id
                       /\ providers[call'[q].provider] # NoRow
                    \/ \E i \in Id :
                        /\ users[i] # NoRow
                        /\ call'[q].provider = users[i].active_auth_provider_id
<1>1. /\ q \in Request /\ call'[q].at \in Step
      /\ "done" \notin Step /\ "cut off" \notin Step
      /\ CutOff.at = "cut off"
  BY DEF Active, Step, UserTransaction, CutOff
<1>2. ASSUME call'[q] = call[q]
      PROVE  q \in Active
  BY <1>1, <1>2 DEF Active
<1>3. ASSUME NEW b, Ended(q, call[q].op, b)
      PROVE  FALSE
  BY <1>1, <1>3, EndedFields
<1>4. ASSUME Opens(q)
      PROVE  /\ \/ call'[q].user = q /\ call'[q].op = "createUser"
                \/ LiveUser(call'[q].user)
             /\ \/ call'[q].provider = q /\ call'[q].op # "deleteUser"
                \/ call'[q].provider \in Id
                   /\ providers[call'[q].provider] # NoRow
                \/ \E i \in Id :
                    /\ users[i] # NoRow
                    /\ call'[q].provider = users[i].active_auth_provider_id
  <2> DEFINE Good ==
             /\ \/ call'[q].user = q /\ call'[q].op = "createUser"
                \/ LiveUser(call'[q].user)
             /\ \/ call'[q].provider = q /\ call'[q].op # "deleteUser"
                \/ call'[q].provider \in Id
                   /\ providers[call'[q].provider] # NoRow
                \/ \E i \in Id :
                    /\ users[i] # NoRow
                    /\ call'[q].provider = users[i].active_auth_provider_id
  <2>1. ASSUME NEW o, Ended(q, o, FALSE)
        PROVE  FALSE
    BY <1>1, <2>1, EndedFields
  <2>2. ASSUME NEW k, Begun(q, "insertUser", "createUser", q, q, k)
        PROVE  Good
    BY <2>2 DEF Begun
  <2>3. ASSUME NEW u \in Id, LiveUser(u), NEW k,
               \/ Begun(q, "findProvider", "createProvider", u, q, k)
               \/ Begun(q, "insertProvider", "setPin", u, q, k)
        PROVE  Good
    BY <2>3 DEF Begun
  <2>4. ASSUME NEW u \in Id, LiveUser(u), NEW k, NEW p \in Id,
               providers[p] # NoRow,
               \/ Begun(q, "updatePin", "setPin", u, p, k)
               \/ Begun(q, "saveDefault", "setDefault", u, p, k)
               \/ Begun(q, "deleteProvider", "deleteProvider", u, p, k)
        PROVE  Good
    BY <2>4 DEF Begun
  <2>5. ASSUME NEW u \in Id, LiveUser(u), NEW k,
               Begun(q, "deleteUser", "deleteUser", u,
                     users[u].active_auth_provider_id, k)
        PROVE  Good
    <3>1. /\ call'[q].user = u
          /\ call'[q].provider = users[u].active_auth_provider_id
          /\ users[u] # NoRow
      BY <2>5 DEF Begun, LiveUser
    <3> QED
      BY <2>5, <3>1
  <2>6. \A u \in Id : \A p \in ProvidersOf(u) :
            p \in Id /\ providers[p] # NoRow
    BY DEF ProvidersOf, LiveProvider
  <2> HIDE DEF Good
  <2>7. Good
    BY <1>4, <2>1, <2>2, <2>3, <2>4, <2>5, <2>6 DEF Opens
  <2> QED
    BY <2>7 DEF Good
<1>5. ASSUME q \in Active, NEW s \in Step, Moved(q, s)
      PROVE  /\ call'[q].op = call[q].op /\ call'[q].user = call[q].user
             /\ call'[q].provider = call[q].provider
             /\ call'[q].kind = call[q].kind
             /\ call'[q].username = call[q].username
             /\ call'[q].updated = call[q].updated
  BY <1>5, MovedFields
<1>6. call'[q] # CutOff
  BY <1>1
<1> QED
  BY <1>1, <1>2, <1>3, <1>4, <1>5, <1>6, OthersStay

(* A new request stays without a trace.                                    *)
LEMMA StepFresh ==
    ASSUME TypeOK, HandlersInv, FreshInv, [Next]_vars
    PROVE  FreshInv'
<1> SUFFICES ASSUME NEW p \in Request, call'[p] = New
             PROVE  Fresh(p)'
  BY DEF FreshInv
<1>0. call[p] = New /\ Fresh(p) /\ p \in Id
  BY NewWasNew DEF FreshInv, Id
<1>1. \A r \in Active : call[r].user # p /\ call[r].provider # p
  BY <1>0 DEF Fresh
<1>2. users'[p] = NoRow
  BY <1>0, <1>1, UsersChange DEF Fresh
<1>3. providers'[p] = NoRow
  BY <1>0, <1>1, ProvidersChange
     DEF Fresh, ProviderChange, OfUser, ProvidersOf, LiveProvider
<1>4. counts'[p] = NoRow
  BY <1>0, <1>1, CountsChange DEF Fresh, CountChange, Counted, LiveCount
<1>5. keys'[p] = "none" /\ p \notin banking'
  BY <1>0, <1>1, KeysChange, BankingChange DEF Fresh
<1>6. ASSUME NEW q \in Active'
      PROVE  call'[q].user # p /\ call'[q].provider # p
  <2>1. q # p
    <3>1. New.at = "new" /\ "new" \notin Step /\ call'[q].at \in Step
      BY DEF New, Step, UserTransaction, Active
    <3> QED
      BY <3>1
  <2>2. CASE q \in Active /\ call'[q].user = call[q].user
             /\ call'[q].provider = call[q].provider
    BY <1>1, <2>2
  <2>3. CASE Opens(q)
    <3>1. call'[q].user # p
      BY <1>0, <2>1, <2>3, ActiveWas, <1>1 DEF Fresh, LiveUser
    <3>2. call'[q].provider # p
      BY <1>0, <2>1, <2>3, ActiveWas, <1>1 DEF Fresh
    <3> QED
      BY <3>1, <3>2
  <2> QED
    BY <2>2, <2>3, ActiveWas
<1>7. ASSUME NEW i \in Id, users'[i] # NoRow
      PROVE  users'[i].active_auth_provider_id # p
  <2>1. ASSUME NEW r \in Active, NEW gone, users'[i] = SavedUser(r, gone)
        PROVE  users'[i].active_auth_provider_id # p
    <3>1. SavedUser(r, gone).active_auth_provider_id = call[r].provider
      BY DEF SavedUser
    <3> QED
      BY <1>1, <2>1, <3>1
  <2>2. CASE users'[i] = users[i]
    BY <1>0, <1>7, <2>2 DEF Fresh
  <2>3. CASE \E r \in Active, gone \in {FALSE, TRUE} :
                users'[i] = SavedUser(r, gone)
    BY <2>1, <2>3
  <2> QED
    BY <1>7, <2>2, <2>3, UsersChange
<1>8. ASSUME NEW i \in Id, providers'[i] # NoRow
      PROVE  providers'[i].user_id # p
  <2>1. CASE providers'[i] = providers[i]
    BY <1>0, <1>8, <2>1 DEF Fresh
  <2>2. CASE \E r \in Active : providers'[i] = NewProvider(r)
                               \/ providers'[i] = Updated(r)
    BY <1>1, <2>2 DEF NewProvider, Updated
  <2>3. CASE providers[i] # NoRow
             /\ providers'[i] = SoftlyDeleted(providers[i])
    <3>1. providers[i] \in AuthProvider /\ providers[i].user_id # p
      BY <1>0, <2>3, RowType DEF Fresh
    <3>2. SoftlyDeleted(providers[i]).user_id = providers[i].user_id
      BY <3>1 DEF SoftlyDeleted, AuthProvider
    <3> QED
      BY <2>3, <3>1, <3>2
  <2> QED
    BY <1>8, <2>1, <2>2, <2>3, ProvidersChange
       DEF ProviderChange, DeletesProvider, ProvidersOf, LiveProvider
<1>9. ASSUME NEW i \in Id, counts'[i] # NoRow
      PROVE  counts'[i].user_id # p
  <2>1. CASE counts'[i] = counts[i]
    BY <1>0, <1>9, <2>1 DEF Fresh
  <2>2. CASE \E r \in Active :
                counts'[i] = [user_id |-> call[r].user, deleted |-> FALSE]
    BY <1>1, <2>2
  <2>3. CASE counts[i] # NoRow /\ counts'[i] = SoftlyDeleted(counts[i])
    <3>1. counts[i] \in IndexCount /\ counts[i].user_id # p
      BY <1>0, <2>3, RowType DEF Fresh
    <3>2. SoftlyDeleted(counts[i]).user_id = counts[i].user_id
      BY <3>1 DEF SoftlyDeleted, IndexCount
    <3> QED
      BY <2>3, <3>1, <3>2
  <2> QED
    BY <1>9, <2>1, <2>2, <2>3, CountsChange DEF CountChange, LiveCount
<1> QED
  BY <1>2, <1>3, <1>4, <1>5, <1>6, <1>7, <1>8, <1>9 DEF Fresh

(* What a sign-up or an insertion made is not taken for a PIN.             *)
LEMMA StepMakers ==
    ASSUME TypeOK, HandlersInv, FreshInv, MakersInv, [Next]_vars
    PROVE  MakersInv'
<1> SUFFICES ASSUME NEW p \in Request, Maker(p)'
             PROVE  /\ providers'[p] # NoRow =>
                            /\ providers'[p].provider # "pin"
                            /\ ~ providers'[p].updated
                    /\ \A q \in Active' :
                            call'[q].op = "setPin" => call'[q].provider # p
  BY DEF MakersInv
<1>0. p \in Id /\ CutOff.at = "cut off" /\ New.at = "new"
  BY DEF Id, CutOff, New
<1>1. Maker(p) \/ (call[p] = New /\ Opens(p))
  <2>1. ASSUME call'[p] = call[p]
        PROVE  Maker(p)
    BY <2>1 DEF Maker
  <2>2. ASSUME Opens(p)
        PROVE  call[p] = New
    BY <2>2 DEF Opens
  <2>3. ASSUME p \in Active, NEW s \in Step, Moved(p, s)
        PROVE  Maker(p)
    <3>1. call'[p].op = call[p].op /\ call[p].at \in Step
      BY <2>3, MovedFields DEF Active
    <3>2. "new" \notin Step /\ "cut off" \notin Step
      BY DEF Step, UserTransaction
    <3> QED
      BY <3>1, <3>2 DEF Maker
  <2>4. ASSUME p \in Active, NEW b, Ended(p, call[p].op, b)
        PROVE  Maker(p)
    <3>1. call'[p].op = call[p].op /\ call[p].at \in Step
      BY <2>4, EndedFields DEF Active
    <3>2. "new" \notin Step /\ "cut off" \notin Step
      BY DEF Step, UserTransaction
    <3> QED
      BY <3>1, <3>2 DEF Maker
  <2>5. call'[p] # CutOff
    BY <1>0 DEF Maker
  <2> QED
    BY <2>1, <2>2, <2>3, <2>4, <2>5, OthersStay
<1>2. CASE call[p] = New /\ Opens(p)
  <2>1. Fresh(p) /\ UNCHANGED providers
    BY <1>2 DEF FreshInv, Opens, tables
  <2>2. ASSUME NEW q \in Active', call'[q].op = "setPin"
        PROVE  call'[q].provider # p
    <3>1. q # p
      BY <2>2 DEF Maker
    <3> QED
      BY <2>1, <2>2, <3>1, ActiveWas DEF Fresh
  <2> QED
    BY <2>1, <2>2 DEF Fresh
<1>3. CASE Maker(p)
  <2>0. /\ providers[p] # NoRow => /\ providers[p].provider # "pin"
                                   /\ ~ providers[p].updated
        /\ \A q \in Active : call[q].op = "setPin" => call[q].provider # p
    BY <1>3 DEF MakersInv
  <2>1. ASSUME providers'[p] # NoRow
        PROVE  providers'[p].provider # "pin" /\ ~ providers'[p].updated
    <3>1. CASE providers'[p] = providers[p]
      BY <2>0, <2>1, <3>1
    <3>2. ASSUME NEW r \in Active, Commits(r), p = call[r].provider,
                 providers'[p] = NewProvider(r)
          PROVE  providers'[p].provider # "pin" /\ ~ providers'[p].updated
      <4>1. /\ call[r].at \in ProviderTransaction /\ Fits(r)
            /\ call[r].op # "setPin"
        BY <2>0, <3>2
           DEF Commits, CommitProvider, ProviderTransaction, HandlersInv
      <4>2. call[r].kind # "pin" /\ ~ call[r].updated
        BY <4>1 DEF Fits
      <4> QED
        BY <3>2, <4>2 DEF NewProvider
    <3>3. ASSUME NEW r \in Active, UpdatesPin(r), p = call[r].provider
          PROVE  FALSE
      BY <2>0, <3>3 DEF UpdatesPin, HandlersInv, Fits
    <3>4. ASSUME providers[p] # NoRow,
                 providers'[p] = SoftlyDeleted(providers[p])
          PROVE  providers'[p].provider # "pin" /\ ~ providers'[p].updated
      <4>1. providers[p] \in AuthProvider
        BY <1>0, <3>4, RowType
      <4>2. /\ SoftlyDeleted(providers[p]).provider = providers[p].provider
            /\ SoftlyDeleted(providers[p]).updated = providers[p].updated
        BY <4>1 DEF SoftlyDeleted, AuthProvider
      <4> QED
        BY <2>0, <3>4, <4>2
    <3> QED
      BY <1>0, <2>1, <3>1, <3>2, <3>3, <3>4, ProvidersChange
         DEF ProviderChange, DeletesProvider, ProvidersOf, LiveProvider
  <2>2. ASSUME NEW q \in Active', call'[q].op = "setPin"
        PROVE  call'[q].provider # p
    <3>1. CASE q \in Active /\ call'[q].op = call[q].op
               /\ call'[q].provider = call[q].provider
      BY <2>0, <2>2, <3>1
    <3>2. CASE Opens(q)
      <4>1. PICK u \in Id, x \in Id :
                /\ call'[q].provider = x
                /\ \/ x = q
                   \/ /\ providers[x] # NoRow
                      /\ providers[x].provider = "pin"
        <5>1. "setPin" \notin {"setDefault", "deleteProvider", "deleteUser",
                               "createUser", "createProvider"}
          OBVIOUS
        <5>2. ASSUME NEW o, o # "setPin", Ended(q, o, FALSE)
              PROVE  FALSE
          BY <2>2, <5>2, EndedFields
        <5>3. ASSUME NEW at, NEW o, NEW u, NEW x, NEW k,
                     Begun(q, at, o, u, x, k)
              PROVE  o = "setPin" /\ call'[q].provider = x
          BY <2>2, <5>3 DEF Begun
        <5>4. q \in Id
          BY ActiveWas DEF Id
        <5> QED
          BY <3>2, <5>1, <5>2, <5>3, <5>4
             DEF Opens, ProvidersOf, LiveProvider
      <4>2. q # p
        BY <2>2, <1>0, <1>3, <3>2 DEF Opens, Maker
      <4> QED
        BY <2>0, <4>1, <4>2
    <3> QED
      BY <3>1, <3>2, ActiveWas
  <2> QED
    BY <2>1, <2>2
<1> QED
  BY <1>1, <1>2, <1>3

(* An index row of a sign-up stays, unless the sign-up is cleaned up or    *)
(* the user deleted.                                                       *)
LEMMA IndexStays ==
    ASSUME TypeOK, HandlersInv, MakersInv, [Next]_vars, NEW u \in Request,
           Maker(u), call[u].op = "createUser", Index(u), ~ CleansUser(u),
           \A r \in Active : DeletesUser(r) => call[r].user # u
    PROVE  Index(u)'
<1>0. /\ u \in Id
      /\ \A q \in Active : call[q].op = "setPin" => call[q].provider # u
      /\ \A q \in Active : q \in Request /\ Fits(q)
  BY DEF Id, MakersInv, HandlersInv, Active
<1>1. CASE counts'[u] = counts[u]
  BY <1>1 DEF Index, LiveCount
<1>2. ASSUME NEW r \in Active, CountChange(r, u)
      PROVE  Index(u)'
  <2>1. CASE Indexes(r) /\ u = call[r].provider
             /\ counts'[u] = [user_id |-> call[r].user, deleted |-> FALSE]
    <3>1. call[r].op \in {"createUser", "createProvider"} /\ r = u
      BY <1>0, <2>1 DEF Indexes, CreateIndex, Fits, ProviderTransaction
    <3>2. call[r].user = u
      BY <1>0, <3>1 DEF Fits
    <3>3. /\ counts'[u].user_id = u /\ ~ counts'[u].deleted
          /\ counts'[u] \in IndexCount
      BY <1>0, <2>1, <3>2 DEF IndexCount
    <3>4. counts'[u] # NoRow
      BY <3>3, AccountsAssumption
    <3> QED
      BY <3>3, <3>4 DEF Index, LiveCount
  <2>2. CASE CleansUser(r) /\ u \in Counted(call[r].user)
    <3>1. call[r].user = r /\ call[r].user = u
      BY <1>0, <2>2 DEF CleansUser, Fits, Counted, Index
    <3> QED
      BY <2>2, <3>1
  <2>3. CASE CleansProvider(r) /\ u = call[r].provider
    <3>1. call[r].op = "createProvider"
      BY <1>0, <2>3 DEF CleansProvider, Fits
    <3>2. r = u
      BY <1>0, <2>3, <3>1 DEF Fits
    <3> QED
      BY <3>1, <3>2
  <2>4. CASE DeletesUser(r) /\ counts[u].user_id = call[r].user
    BY <2>4 DEF Index
  <2> QED
    BY <1>2, <2>1, <2>2, <2>3, <2>4 DEF CountChange
<1> QED
  BY <1>0, <1>1, <1>2, CountsChange

(* So does its password, which no request deletes alone.                   *)
LEMMA PasswordStays ==
    ASSUME TypeOK, HandlersInv, MakersInv, [Next]_vars, NEW u \in Request,
           Maker(u), call[u].op = "createUser", Password(u), ~ CleansUser(u),
           ~ Commits(u),
           \A r \in Active : DeletesUser(r) => call[r].user # u
    PROVE  Password(u)'
<1>0. /\ u \in Id
      /\ \A q \in Active : call[q].op = "setPin" => call[q].provider # u
      /\ \A q \in Active : q \in Request /\ Fits(q)
  BY DEF Id, MakersInv, HandlersInv, Active
<1>1. CASE providers'[u] = providers[u]
  BY <1>1 DEF Password, LiveProvider
<1>2. ASSUME NEW r \in Active, ProviderChange(r, u)
      PROVE  FALSE
  <2>1. CASE CleansUser(r) /\ u \in OfUser(call[r].user)
    <3>1. call[r].user = r /\ call[r].user = u
      BY <1>0, <2>1 DEF CleansUser, Fits, OfUser, Password
    <3> QED
      BY <2>1, <3>1
  <2>2. CASE CleansProvider(r) /\ u = call[r].provider
    <3>1. call[r].op = "createProvider"
      BY <1>0, <2>2 DEF CleansProvider, Fits
    <3>2. r = u
      BY <1>0, <2>2, <3>1 DEF Fits
    <3> QED
      BY <3>1, <3>2
  <2>3. CASE Commits(r) /\ u = call[r].provider
    <3>1. r = u
      BY <1>0, <2>3 DEF Commits, CommitProvider, Fits, ProviderTransaction
    <3> QED
      BY <2>3, <3>1
  <2>4. CASE UpdatesPin(r) /\ u = call[r].provider
    BY <1>0, <2>4 DEF UpdatesPin, Fits
  <2>5. CASE DeletesProvider(r) /\ u = call[r].provider
    BY <2>5 DEF DeletesProvider, Password
  <2>6. CASE DeletesUser(r) /\ u \in ProvidersOf(call[r].user)
    BY <2>6 DEF ProvidersOf, Password
  <2> QED
    BY <1>2, <2>1, <2>2, <2>3, <2>4, <2>5, <2>6 DEF ProviderChange
<1> QED
  BY <1>0, <1>1, <1>2, ProvidersChange

(* How a sign-up gets where it is.                                         *)
LEMMA SigningWas ==
    ASSUME TypeOK, HandlersInv, [Next]_vars, NEW u \in Request, Signing(u)'
    PROVE  \/ call[u] = New /\ Opens(u) /\ call'[u].at = "insertUser"
           \/ /\ Signing(u) /\ call'[u].kind = call[u].kind
              /\ \/ call'[u].at = call[u].at
                 \/ call[u].at = "insertUser" /\ call'[u].at = "storeKeys"
                 \/ Stores(u) /\ call'[u].at = "findProvider"
                 \/ /\ call[u].at = "findProvider"
                    /\ call'[u].at = "insertProvider"
                 \/ /\ call[u].at = "insertProvider"
                    /\ call'[u].at = "createIndex"
                 \/ Indexes(u) /\ call'[u].at = "commitProvider"
                 \/ Commits(u) /\ call'[u].at = "activate"
<1>0. /\ call'[u].at \in UserTransaction /\ call'[u].op = "createUser"
      /\ "done" \notin UserTransaction /\ CutOff.at = "cut off"
      /\ "cut off" \notin UserTransaction
      /\ \A q \in Active : Fits(q)
      /\ UserTransaction \subseteq Step
  BY DEF Signing, UserTransaction, CutOff, HandlersInv, Step
<1>1. CASE call'[u] = call[u]
  BY <1>0, <1>1 DEF Signing, Active
<1>2. CASE Opens(u)
  <2>1. call[u] = New
    BY <1>2 DEF Opens
  <2>2. ASSUME NEW o, Ended(u, o, FALSE)
        PROVE  FALSE
    BY <1>0, <2>2, EndedFields
  <2>3. ASSUME NEW s, NEW o, NEW v, NEW p, NEW k, Begun(u, s, o, v, p, k)
        PROVE  call'[u].at = s /\ o = "createUser"
    BY <1>0, <2>3 DEF Begun
  <2>4. \E k \in Kind : Begun(u, "insertUser", "createUser", u, u, k)
    <3>1. \A s, v, p, k : /\ ~ Begun(u, s, "createProvider", v, p, k)
                          /\ ~ Begun(u, s, "setPin", v, p, k)
                          /\ ~ Begun(u, s, "setDefault", v, p, k)
                          /\ ~ Begun(u, s, "deleteProvider", v, p, k)
                          /\ ~ Begun(u, s, "deleteUser", v, p, k)
      BY <2>3
    <3>2. \A o : ~ Ended(u, o, FALSE)
      BY <2>2
    <3>3. Kind \ {"pin"} \subseteq Kind
      OBVIOUS
    <3> QED
      BY <1>2, <3>1, <3>2, <3>3, Zenon DEF Opens
  <2>5. call'[u].at = "insertUser"
    BY <2>3, <2>4
  <2> QED
    BY <1>2, <2>1, <2>5
<1>3. CASE u \in Active /\ StepsOf(u)
  <2>1. ASSUME NEW b, Ended(u, call[u].op, b)
        PROVE  FALSE
    BY <1>0, <2>1, EndedFields
  <2>2. ASSUME NEW s, Moved(u, s)
        PROVE  /\ call'[u].at = s /\ s \in UserTransaction
               /\ call[u].op = "createUser" /\ call'[u].kind = call[u].kind
    BY <1>0, <1>3, <2>2, MovedFields
  <2>3. CASE Waits(u)
    <3>1. "cleanUp" \notin UserTransaction
          /\ "createAccount" \notin UserTransaction
          /\ {"insertUser", "findProvider", "insertProvider"}
                \subseteq UserTransaction
      BY DEF UserTransaction
    <3> QED
      BY <1>3, <2>2, <2>3, <3>1 DEF Waits, Signing
  <2>4. CASE Stores(u)
    <3>1. call[u].at \in UserTransaction
      BY <2>4 DEF Stores, StoreKeys, UserTransaction
    <3> QED
      BY <1>3, <2>2, <2>4, <3>1 DEF Stores, Signing
  <2>5. CASE Indexes(u)
    <3>1. call[u].at \in UserTransaction
      BY <2>5 DEF Indexes, CreateIndex, UserTransaction
    <3> QED
      BY <1>3, <2>2, <2>5, <3>1 DEF Indexes, Signing
  <2>6. CASE Commits(u)
    <3>1. call[u].at \in UserTransaction /\ "register" \notin UserTransaction
      BY <2>6 DEF Commits, CommitProvider, UserTransaction
    <3> QED
      BY <1>3, <2>2, <2>6, <3>1 DEF Commits, Signing
  <2>7. ~ Activates(u) /\ ~ Opened(u) /\ ~ CleansUser(u)
    <3>1. {"readUser", "register", "cleanUp", "cleanUpBanking"}
            \cap UserTransaction = {}
      BY DEF UserTransaction
    <3> QED
      BY <2>2, <3>1 DEF Activates, Opened, CleansUser
  <2>8. ~ UpdatesPin(u) /\ ~ Breaks(u)
    <3>1. {"register", "cleanUp"} \cap UserTransaction = {}
      BY DEF UserTransaction
    <3> QED
      BY <2>1, <2>2, <3>1 DEF UpdatesPin, Breaks
  <2>9. /\ ~ GivesUp(u) /\ ~ Registers(u) /\ ~ CleansProvider(u)
        /\ ~ CleansBanking(u) /\ ~ SavesDefault(u) /\ ~ DeletesProvider(u)
        /\ ~ DeletesUser(u)
    BY <2>1 DEF GivesUp, Registers, CleansProvider, CleansBanking,
                SavesDefault, DeletesProvider, DeletesUser
  <2> QED
    BY <1>3, <2>3, <2>4, <2>5, <2>6, <2>7, <2>8, <2>9 DEF StepsOf
<1>4. call'[u] # CutOff
  BY <1>0
<1> QED
  BY <1>1, <1>2, <1>3, <1>4, HandlerChange

(* What an open sign-up has written is there.                              *)
LEMMA StepSigning ==
    ASSUME TypeOK, HandlersInv, FreshInv, MakersInv, SigningInv, [Next]_vars
    PROVE  SigningInv'
<1> SUFFICES ASSUME NEW u \in Request, Signing(u)'
             PROVE  /\ users'[u] = NoRow
                    /\ \A q \in Active' \ {u} : call'[q].user # u
                    /\ call'[u].at \notin {"insertUser", "storeKeys"} =>
                            keys'[u] = "live"
                    /\ call'[u].at \in {"commitProvider", "activate"} =>
                            Index(u)'
                    /\ call'[u].at = "activate" /\ call'[u].kind = "password"
                            => Password(u)'
  BY DEF SigningInv
<1>0. u \in Id
  BY DEF Id
<1>1. CASE call[u] = New /\ Opens(u) /\ call'[u].at = "insertUser"
  <2>1. Fresh(u) /\ UNCHANGED users
    BY <1>1 DEF FreshInv, Opens, tables
  <2>2. ASSUME NEW q \in Active' \ {u}
        PROVE  call'[q].user # u
    BY <2>1, <2>2, <1>0, ActiveWas DEF Fresh, LiveUser
  <2> QED
    BY <1>1, <2>1, <2>2 DEF Fresh
<1>2. CASE /\ Signing(u) /\ call'[u].kind = call[u].kind
           /\ \/ call'[u].at = call[u].at
              \/ call[u].at = "insertUser" /\ call'[u].at = "storeKeys"
              \/ Stores(u) /\ call'[u].at = "findProvider"
              \/ /\ call[u].at = "findProvider"
                 /\ call'[u].at = "insertProvider"
              \/ /\ call[u].at = "insertProvider"
                 /\ call'[u].at = "createIndex"
              \/ Indexes(u) /\ call'[u].at = "commitProvider"
              \/ Commits(u) /\ call'[u].at = "activate"
  <2>0. /\ users[u] = NoRow /\ \A q \in Active \ {u} : call[q].user # u
        /\ call[u].at \notin {"insertUser", "storeKeys"} => keys[u] = "live"
        /\ call[u].at \in {"commitProvider", "activate"} => Index(u)
        /\ call[u].at = "activate" /\ call[u].kind = "password" => Password(u)
        /\ u \in Active /\ Fits(u) /\ call[u].op = "createUser"
        /\ call[u].user = u /\ call[u].provider = u
        /\ call[u].at \in UserTransaction /\ call'[u].at \in UserTransaction
    BY <1>2 DEF SigningInv, Signing, HandlersInv, Fits
  <2>1. /\ ~ CleansUser(u) /\ ~ DeletesUser(u) /\ ~ SavesDefault(u)
        /\ ~ Activates(u)
    <3>1. {"cleanUp", "deleteUser", "saveDefault"} \cap UserTransaction = {}
      BY DEF UserTransaction
    <3>2. ~ Activates(u)
      <4>1. ASSUME Activates(u)
            PROVE  call'[u].at = "readUser"
        BY <2>0, <4>1, MovedFields DEF Activates
      <4> QED
        BY <2>0, <4>1 DEF UserTransaction
    <3> QED
      BY <2>0, <3>1, <3>2
         DEF CleansUser, DeletesUser, DeleteUserRows, SavesDefault
  <2>2. \A r \in Active : DeletesUser(r) => call[r].user # u
    BY <2>0, <2>1
  <2>3. users'[u] = NoRow
    BY <1>0, <2>0, <2>1, UsersChange
  <2>4. ASSUME NEW q \in Active' \ {u}
        PROVE  call'[q].user # u
    BY <2>0, <2>4, ActiveWas DEF LiveUser
  <2>5. ASSUME call'[u].at \notin {"insertUser", "storeKeys"}
        PROVE  keys'[u] = "live"
    <3>1. CASE Stores(u)
      BY <1>0, <2>0, <3>1 DEF Stores, StoreKeys, TypeOK
    <3>2. CASE call[u].at \notin {"insertUser", "storeKeys"}
      BY <1>0, <2>0, <2>1, <3>2, KeysChange
    <3> QED
      BY <1>2, <2>5, <3>1, <3>2 DEF Indexes, CreateIndex, Commits,
                                    CommitProvider
  <2>6. "new" \notin UserTransaction /\ "cut off" \notin UserTransaction
    BY DEF UserTransaction
  <2>7. Maker(u)
    BY <2>0, <2>6 DEF Maker
  <2>8. ASSUME call'[u].at \in {"commitProvider", "activate"}
        PROVE  Index(u)'
    <3>1. CASE Indexes(u)
      <4>1. /\ counts'[u] = [user_id |-> u, deleted |-> FALSE]
            /\ counts'[u] \in IndexCount
        BY <1>0, <2>0, <3>1 DEF Indexes, CreateIndex, TypeOK, IndexCount
      <4>2. counts'[u] # NoRow
        BY <4>1, AccountsAssumption
      <4> QED
        BY <4>1, <4>2 DEF Index, LiveCount
    <3>2. CASE call[u].at \in {"commitProvider", "activate"}
      BY <2>0, <2>1, <2>2, <2>7, <3>2, IndexStays
    <3> QED
      BY <1>2, <2>8, <3>1, <3>2 DEF Commits, CommitProvider
  <2>9. ASSUME call'[u].at = "activate", call'[u].kind = "password"
        PROVE  Password(u)'
    <3>1. CASE Commits(u)
      <4>1. providers'[u] = NewProvider(u) /\ NewProvider(u) \in AuthProvider
        BY <1>0, <2>0, <3>1, FieldType DEF Commits, CommitProvider, TypeOK
      <4>2. /\ NewProvider(u).user_id = u /\ ~ NewProvider(u).deleted
            /\ NewProvider(u).provider = "password"
        BY <1>2, <2>0, <2>9 DEF NewProvider
      <4>3. providers'[u] # NoRow
        BY <4>1, AccountsAssumption
      <4> QED
        BY <4>1, <4>2, <4>3 DEF Password, LiveProvider
    <3>2. CASE call[u].at = "activate"
      <4>1. ~ Commits(u)
        BY <3>2 DEF Commits, CommitProvider
      <4> QED
        BY <1>2, <2>0, <2>1, <2>2, <2>7, <2>9, <3>2, <4>1, PasswordStays
    <3> QED
      BY <1>2, <2>9, <3>1, <3>2
  <2> QED
    BY <2>3, <2>4, <2>5, <2>8, <2>9
<1> QED
  BY <1>1, <1>2, SigningWas

(* How a user gets to be signed up.                                        *)
LEMMA SignedUpWas ==
    ASSUME TypeOK, HandlersInv, [Next]_vars, NEW u \in Request,
           Created(u)' \/ SignedUp(u)'
    PROVE  \/ Created(u) /\ Created(u)'
           \/ /\ SignedUp(u)
              /\ (Created(u)' \/ call'[u].at = "register") =>
                    call[u].at = "register" \/ Opened(u)
           \/ Activates(u) /\ call[u].kind = "password"
              /\ call'[u].at = "readUser"
<1> DEFINE Good == \/ Created(u) /\ Created(u)'
                   \/ /\ SignedUp(u)
                      /\ (Created(u)' \/ call'[u].at = "register") =>
                            call[u].at = "register" \/ Opened(u)
                   \/ Activates(u) /\ call[u].kind = "password"
                      /\ call'[u].at = "readUser"
<1>0. /\ \A q \in Active : Fits(q)
      /\ CutOff.at = "cut off"
      /\ Created(u)' => /\ call'[u].at = "done" /\ call'[u].op = "createUser"
                        /\ call'[u].ok = TRUE
  BY DEF HandlersInv, CutOff, Created
<1>1. CASE call'[u] = call[u]
  <2>1. Created(u) \/ SignedUp(u)
    BY <1>1 DEF Created, SignedUp, Active
  <2> QED
    BY <1>0, <1>1, <2>1 DEF SignedUp, Created
<1>2. CASE Opens(u)
  <2>1. ASSUME NEW o, Ended(u, o, FALSE)
        PROVE  FALSE
    <3>1. call'[u].at = "done" /\ call'[u].ok = FALSE
      BY <2>1, EndedFields
    <3> QED
      BY <1>0, <3>1 DEF SignedUp
  <2>2. ASSUME NEW s, NEW o, NEW v, NEW p, NEW k, Begun(u, s, o, v, p, k)
        PROVE  /\ s = "done" \/ s \in {"readUser", "createAccount", "register"}
    BY <1>0, <2>2 DEF Begun, SignedUp
  <2>3. \A o, v, p, k : /\ ~ Begun(u, "insertUser", o, v, p, k)
                        /\ ~ Begun(u, "findProvider", o, v, p, k)
                        /\ ~ Begun(u, "insertProvider", o, v, p, k)
                        /\ ~ Begun(u, "updatePin", o, v, p, k)
                        /\ ~ Begun(u, "saveDefault", o, v, p, k)
                        /\ ~ Begun(u, "deleteProvider", o, v, p, k)
                        /\ ~ Begun(u, "deleteUser", o, v, p, k)
    BY <2>2
  <2>4. \A o : ~ Ended(u, o, FALSE)
    BY <2>1
  <2> QED
    BY <1>2, <2>3, <2>4, Zenon DEF Opens
<1>3. CASE u \in Active /\ StepsOf(u)
  <2>0. Fits(u) /\ call[u].kind \in Kind
    BY <1>0, <1>3, FieldType
  <2>1. ASSUME NEW b, Ended(u, call[u].op, b)
        PROVE  /\ call[u].op = "createUser" /\ b = TRUE /\ Created(u)'
               /\ call'[u].at = "done"
    <3>1. call'[u].at = "done" /\ call'[u].op = call[u].op /\ call'[u].ok = b
      BY <2>1, EndedFields
    <3> QED
      BY <1>0, <3>1 DEF SignedUp
  <2>2. ASSUME NEW s, Moved(u, s)
        PROVE  /\ call'[u].at = s /\ s \in {"readUser", "createAccount",
                                            "register", "done"}
               /\ s # "done" => /\ call[u].op = "createUser"
                                /\ call[u].kind = "password" /\ ~ Created(u)'
    <3>1. /\ call'[u].at = s /\ call'[u].op = call[u].op
          /\ call'[u].kind = call[u].kind
      BY <1>3, <2>2, MovedFields
    <3> QED
      BY <1>0, <3>1 DEF SignedUp
  <2>3. CASE Waits(u)
    <3>1. call[u].at = "readUser" /\ Moved(u, "createAccount")
      BY <2>2, <2>3 DEF Waits
    <3> QED
      BY <1>3, <2>2, <3>1 DEF SignedUp
  <2>4. CASE Registers(u)
    <3>1. /\ call[u].at = "register" /\ call[u].op = "createUser"
          /\ call[u].kind # "other" /\ call[u].kind # "pin"
      BY <2>0, <2>1, <2>4 DEF Registers, Registrable, Fits
    <3> QED
      BY <1>3, <2>0, <3>1 DEF SignedUp, Kind
  <2>5. CASE Activates(u)
    BY <2>2, <2>5 DEF Activates
  <2>6. CASE Opened(u)
    <3>1. call[u].at = "createAccount" /\ Moved(u, "register")
      BY <2>2, <2>6 DEF Opened, CreateAccount
    <3> QED
      BY <1>3, <2>2, <2>6, <3>1 DEF SignedUp
  <2>a. /\ ~ Moved(u, "findProvider") /\ ~ Moved(u, "commitProvider")
        /\ ~ Moved(u, "cleanUp") /\ ~ Moved(u, "activate")
        /\ ~ Moved(u, "cleanUpBanking")
        /\ Moved(u, "register") => call[u].op = "createUser"
    <3>1. \A s \in {"findProvider", "commitProvider", "cleanUp", "activate",
                     "cleanUpBanking"} : ~ Moved(u, s)
      BY <2>2
    <3> QED
      BY <2>2, <3>1
  <2>b. /\ ~ Ended(u, call[u].op, FALSE)
        /\ Ended(u, call[u].op, TRUE) => call[u].op = "createUser"
    BY <2>1
  <2>7. /\ ~ GivesUp(u) /\ ~ Stores(u) /\ ~ Indexes(u) /\ ~ Commits(u)
        /\ ~ CleansUser(u)
    BY <2>a, <2>b DEF GivesUp, Stores, Indexes, Commits, CleansUser
  <2>8. ~ CleansProvider(u) /\ ~ CleansBanking(u) /\ ~ Breaks(u)
    BY <2>a, <2>b DEF CleansProvider, CleansBanking, Breaks
  <2>9. /\ ~ UpdatesPin(u) /\ ~ SavesDefault(u) /\ ~ DeletesProvider(u)
        /\ ~ DeletesUser(u)
    BY <2>0, <2>a, <2>b DEF UpdatesPin, SavesDefault, DeletesProvider,
                            DeletesUser, DeleteUserRows, Fits
  <2> QED
    BY <1>3, <2>3, <2>4, <2>5, <2>6, <2>7, <2>8, <2>9 DEF StepsOf
<1>4. call'[u] # CutOff
  <2>1. "cut off" \notin Step
    BY DEF Step, UserTransaction
  <2> QED
    BY <1>0, <2>1 DEF SignedUp
<1> QED
  BY <1>1, <1>2, <1>3, <1>4, HandlerChange

(* Nobody takes away what a sign-up left.                                  *)
LEMMA StepComplete ==
    ASSUME TypeOK, HandlersInv, MakersInv, SigningInv, CompleteInv,
           [Next]_vars
    PROVE  CompleteInv'
<1> SUFFICES ASSUME NEW u \in Request, Created(u)' \/ SignedUp(u)',
                    keys'[u] # "deleted"
             PROVE  /\ LiveUser(u)' /\ keys'[u] = "live" /\ Password(u)'
                    /\ Index(u)'
                    /\ Created(u)' \/ call'[u].at = "register"
                        => u \in banking'
  BY DEF CompleteInv
<1>0. /\ u \in Id /\ "new" \notin Step /\ "cut off" \notin Step
      /\ \A r \in Active : r \in Request /\ Fits(r)
      /\ \A r \in Active : call[r].op = "createUser" => call[r].user = r
  BY DEF Id, Step, UserTransaction, HandlersInv, Active, Fits
<1>1. CASE (Created(u) /\ Created(u)') \/ SignedUp(u)
  <2>1. /\ call[u].op = "createUser"
        /\ ~ CleansUser(u) /\ ~ Activates(u) /\ ~ Commits(u)
        /\ ~ CleansBanking(u) /\ Maker(u)
    <3>1. CASE Created(u)
      BY <3>1 DEF Created, CleansUser, Activates, Activate, CleansBanking,
                  CleanUpBanking, Commits, CommitProvider, Maker
    <3>2. CASE SignedUp(u)
      BY <3>2 DEF SignedUp, CleansUser, Activates, Activate, CleansBanking,
                  CleanUpBanking, Commits, CommitProvider, Maker
    <3> QED
      BY <1>1, <3>1, <3>2
  <2>2. /\ \A r \in Active : call[r].user = u =>
                    ~ CleansUser(r) /\ ~ Activates(r) /\ ~ CleansBanking(r)
        /\ \A r \in Active : Stores(r) => call[r].user = r
    <3>1. ASSUME NEW r \in Active, \/ CleansUser(r) \/ Activates(r)
                                    \/ CleansBanking(r) \/ Stores(r)
          PROVE  call[r].op = "createUser" /\ call[r].user = r
      <4>1. \/ call[r].op = "createUser"
            \/ call[r].at \in {"activate", "cleanUpBanking", "storeKeys"}
        BY <3>1 DEF CleansUser, Activates, Activate, CleansBanking,
                    CleanUpBanking, Stores, StoreKeys
      <4> QED
        BY <1>0, <4>1 DEF Fits
    <3> QED
      BY <2>1, <3>1
  <2>3. keys[u] # "deleted"
    <3>1. ~ Stores(u)
      BY <1>1 DEF Created, SignedUp, Stores, StoreKeys
    <3>2. \A r \in Active : call[r].user = u => ~ Stores(r)
      BY <2>2, <3>1
    <3>3. keys'[u] = keys[u] \/ keys[u] = "live"
      BY <1>0, <2>2, <3>2, KeysChange
    <3> QED
      BY <3>3
  <2>4. /\ LiveUser(u) /\ keys[u] = "live" /\ Password(u) /\ Index(u)
        /\ Created(u) \/ call[u].at = "register" => u \in banking
    BY <1>1, <2>3 DEF CompleteInv
  <2>5. \A r \in Active : DeletesUser(r) => call[r].user # u
    <3>1. ASSUME NEW r \in Active, DeletesUser(r), call[r].user = u
          PROVE  keys'[u] = "deleted"
      BY <1>0, <2>4, <3>1 DEF DeletesUser, DeleteUserRows, TypeOK
    <3> QED
      BY <3>1
  <2>6. LiveUser(u)'
    <3>1. CASE users'[u] = users[u]
      BY <2>4, <3>1 DEF LiveUser
    <3>2. ASSUME NEW r \in Active, users'[u] = SavedUser(r, FALSE)
          PROVE  LiveUser(u)'
      <4>1. /\ SavedUser(r, FALSE) \in User
            /\ SavedUser(r, FALSE).deleted = FALSE
        BY FieldType DEF SavedUser
      <4>2. users'[u] # NoRow
        BY <3>2, <4>1, AccountsAssumption
      <4> QED
        BY <3>2, <4>1, <4>2 DEF LiveUser
    <3> QED
      BY <1>0, <2>2, <2>5, <3>1, <3>2, UsersChange
  <2>7. keys'[u] = "live"
    BY <1>0, <2>2, <2>4, <2>5, KeysChange
  <2>8. Password(u)' /\ Index(u)'
    BY <2>1, <2>4, <2>5, PasswordStays, IndexStays
  <2>9. ASSUME Created(u)' \/ call'[u].at = "register"
        PROVE  u \in banking'
    <3>1. CASE Opened(u)
      <4>1. u \in Active
        BY <1>1, <3>1 DEF Opened, CreateAccount, SignedUp, Created
      <4>2. call[u].user = u
        BY <1>0, <2>1, <4>1
      <4> QED
        BY <3>1, <4>2 DEF Opened, CreateAccount
    <3>2. CASE Created(u) \/ call[u].at = "register"
      BY <1>0, <2>2, <2>4, <3>2, BankingChange
    <3>3. CASE Activates(u)
      BY <2>1, <3>3
    <3> QED
      BY <2>9, <3>1, <3>2, <3>3, SignedUpWas
  <2> QED
    BY <2>6, <2>7, <2>8, <2>9
<1>2. CASE Activates(u) /\ call[u].kind = "password"
           /\ call'[u].at = "readUser"
  <2>1. /\ call[u].at = "activate" /\ u \in Active
        /\ call[u].at \in UserTransaction
    BY <1>2 DEF Activates, Activate, Active, Step, UserTransaction
  <2>2. /\ call[u].op = "createUser" /\ call[u].user = u
        /\ call[u].provider = u /\ Signing(u)
    BY <1>0, <2>1 DEF Fits, Signing
  <2>3. /\ keys[u] = "live" /\ Index(u) /\ Password(u)
    BY <1>2, <2>1, <2>2 DEF SigningInv
  <2>4. UNCHANGED <<providers, keys, counts>>
    BY <1>2 DEF Activates, Activate
  <2>5. LiveUser(u)'
    <3>1. users'[u] = SavedUser(u, FALSE) /\ SavedUser(u, FALSE) \in User
      BY <1>0, <1>2, <2>1, <2>2, FieldType
         DEF Activates, Activate, SavedUser, TypeOK
    <3>2. ~ SavedUser(u, FALSE).deleted
      BY DEF SavedUser
    <3>3. users'[u] # NoRow
      BY <3>1, AccountsAssumption
    <3> QED
      BY <3>1, <3>2, <3>3 DEF LiveUser
  <2>6. ~ Created(u)'
    BY <1>2 DEF Created
  <2> QED
    BY <1>2, <2>3, <2>4, <2>5, <2>6
       DEF Password, Index, LiveProvider, LiveCount
<1> QED
  BY <1>1, <1>2, SignedUpWas

(* All of that holds in every reachable state of the accounts.             *)
AccountsInv == /\ TypeOK /\ HandlersInv /\ FreshInv /\ MakersInv
               /\ SigningInv /\ CompleteInv
LEMMA AccountsInductive ==
    /\ Init => AccountsInv
    /\ AccountsInv /\ [Next]_vars => AccountsInv'
<1>1. Init => AccountsInv
  <2> SUFFICES ASSUME Init
               PROVE  AccountsInv
    OBVIOUS
  <2>1. /\ New.at = "new" /\ "new" \notin Step /\ Id = Request
        /\ \A r \in Request : call[r] = New
    BY DEF New, Step, UserTransaction, Init, Id
  <2>2. Active = {} /\ \A u \in Request : ~ Created(u)
    <3>1. \A u \in Request : call[u].at = "new"
      BY <2>1
    <3>2. \A u \in Request : Created(u) => call[u].at = "done"
      BY DEF Created
    <3> QED
      BY <2>1, <3>1, <3>2 DEF Active
  <2>3. TypeOK
    BY AccountsAssumption DEF Init, TypeOK
  <2>4. HandlersInv /\ SigningInv /\ CompleteInv
    BY <2>2 DEF HandlersInv, SigningInv, Signing, CompleteInv, SignedUp
  <2>5. FreshInv /\ MakersInv
    BY <2>1, <2>2 DEF FreshInv, Fresh, Init, MakersInv
  <2> QED
    BY <2>3, <2>4, <2>5 DEF AccountsInv
<1>2. AccountsInv /\ [Next]_vars => AccountsInv'
  BY StepType, StepHandlers, StepFresh, StepMakers, StepSigning, StepComplete
     DEF AccountsInv
<1> QED
  BY <1>1, <1>2

(* A user whose creation was acknowledged keeps, until the user is         *)
(* deleted, all that later requests look up.                               *)
THEOREM SignUpCorrect == Spec => []CreatedUserComplete
<1>1. Init => AccountsInv
  BY AccountsInductive
<1>2. AccountsInv /\ [Next]_vars => AccountsInv'
  BY AccountsInductive
<1>3. AccountsInv => CreatedUserComplete
  BY DEF AccountsInv, CompleteInv, CreatedUserComplete, Password, Index, Id
<1> QED
  BY <1>1, <1>2, <1>3, PTL DEF Spec

=============================================================================
