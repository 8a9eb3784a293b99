---------------------- MODULE AccountsHistory_proofs ----------------------
(***************************************************************************)
(* Proofs about users of whose operations only some are overlapped: that   *)
(* the default provider lives, that a deletion is complete and nothing it  *)
(* or a cleaning up took comes back, that an updated PIN stays, and that a *)
(* sign-up that failed leaves nothing, whatever happens to other users.    *)
(***************************************************************************)
EXTENDS AccountsHistory, UserAccounts_proofs, FiniteSetTheorems

HistoryStep == [HistoryNext]_<<vars, overlapped>>

(* A step of the history is a step of the accounts; what has been          *)
(* overlapped stays so.                                                    *)
LEMMA HistoryStepIs ==
    ASSUME HistoryStep
    PROVE  /\ [Next]_vars
           /\ overlapped \subseteq overlapped'
BY DEF HistoryStep, HistoryNext, vars

(* Requests in progress for the same user have been noted.                 *)
OverlapInv ==
    \A q, r \in Active :
        q # r /\ call[q].user = call[r].user =>
            <<call[q].op, call[q].user>> \in overlapped

(* A handler nobody has come across so far.                                *)
Undisturbed(r) == <<call[r].op, call[r].user>> \notin overlapped

(* A handler's provider is its user's, except that a user's deletion only  *)
(* remembers which one was the default.                                    *)
OwnerInv ==
    \A r \in Active : call[r].op # "deleteUser" =>
        /\ providers[call[r].provider] # NoRow =>
                providers[call[r].provider].user_id = call[r].user
        /\ \A q \in Active :
                /\ call[q].op # "deleteUser"
                /\ call[q].provider = call[r].provider
                => call[q].user = call[r].user

(* The provider a sign-up inserted is there when the user becomes visible. *)
Owned(p, u) == LiveProvider(p) /\ providers[p].user_id = u
ActivatingInv ==
    \A u \in Active : call[u].at = "activate" => Owned(u, u)

-----------------------------------------------------------------------------
(* Overlapping is noted.                                                   *)
LEMMA StepOverlap ==
    ASSUME OverlapInv, HistoryStep
    PROVE  OverlapInv'
<1> SUFFICES ASSUME NEW q \in Active', NEW r \in Active', q # r,
                    call'[q].user = call'[r].user
             PROVE  <<call'[q].op, call'[q].user>> \in overlapped'
  BY DEF OverlapInv
<1>1. CASE UNCHANGED <<vars, overlapped>>
  BY <1>1 DEF OverlapInv, Active, vars
<1>2. CASE HistoryNext
  <2>1. q \in Overlapping'
    BY DEF Overlapping
  <2> QED
    BY <1>2, <2>1 DEF HistoryNext
<1> QED
  BY <1>1, <1>2 DEF HistoryStep

(* No other handler works for the user of an undisturbed one.              *)
LEMMA AloneIs ==
    ASSUME OverlapInv, NEW r \in Active, Undisturbed(r)
    PROVE  \A q \in Active \ {r} : call[q].user # call[r].user
BY DEF OverlapInv, Undisturbed

(* What a request has found when its handler starts.                       *)
LEMMA OpensFields ==
    ASSUME TypeOK, NEW r \in Active', Opens(r)
    PROVE  /\ r \in Id /\ call[r] = New /\ UNCHANGED <<tables, faults>>
           /\ \A q \in Request \ {r} : call'[q] = call[q]
           /\ \/ /\ call'[r].op = "createUser" /\ call'[r].at = "insertUser"
                 /\ call'[r].user = r /\ call'[r].provider = r
              \/ /\ LiveUser(call'[r].user) /\ call'[r].user \in Id
                 /\ \/ /\ call'[r].op = "createProvider"
                       /\ call'[r].at = "findProvider"
                       /\ call'[r].provider = r
                    \/ /\ call'[r].op = "setPin"
                       /\ call'[r].at = "updatePin"
                       /\ call'[r].provider \in ProvidersOf(call'[r].user)
                    \/ /\ call'[r].op = "setPin"
                       /\ call'[r].at = "insertProvider"
                       /\ call'[r].provider = r
                       /\ call'[r].updated => LiveProvider(r)
                    \/ /\ call'[r].op = "setDefault"
                       /\ call'[r].at = "saveDefault"
                       /\ call'[r].provider \in ProvidersOf(call'[r].user)
                    \/ /\ call'[r].op = "deleteProvider"
                       /\ call'[r].at = "deleteProvider"
                       /\ call'[r].provider \in OfUser(call'[r].user)
                       /\ call'[r].provider #
                                users[call'[r].user].active_auth_provider_id
                    \/ /\ call'[r].op = "deleteUser"
                       /\ call'[r].at = "deleteUser"
<1> DEFINE Good ==
        \/ /\ call'[r].op = "createUser" /\ call'[r].at = "insertUser"
           /\ call'[r].user = r /\ call'[r].provider = r
        \/ /\ LiveUser(call'[r].user) /\ call'[r].user \in Id
           /\ \/ /\ call'[r].op = "createProvider"
                 /\ call'[r].at = "findProvider"
                 /\ call'[r].provider = r
              \/ /\ call'[r].op = "setPin"
                 /\ call'[r].at = "updatePin"
                 /\ call'[r].provider \in ProvidersOf(call'[r].user)
              \/ /\ call'[r].op = "setPin"
                 /\ call'[r].at = "insertProvider"
                 /\ call'[r].provider = r
                 /\ call'[r].updated => LiveProvider(r)
              \/ /\ call'[r].op = "setDefault"
                 /\ call'[r].at = "saveDefault"
                 /\ call'[r].provider \in ProvidersOf(call'[r].user)
              \/ /\ call'[r].op = "deleteProvider"
                 /\ call'[r].at = "deleteProvider"
                 /\ call'[r].provider \in OfUser(call'[r].user)
                 /\ call'[r].provider #
                          users[call'[r].user].active_auth_provider_id
              \/ /\ call'[r].op = "deleteUser"
                 /\ call'[r].at = "deleteUser"
<1>0. /\ r \in Request /\ call'[r].at \in Step /\ "done" \notin Step
      /\ r \in Id
  BY DEF Active, Step, UserTransaction, Id
<1>1. ASSUME NEW o, Ended(r, o, FALSE)
      PROVE  FALSE
  BY <1>0, <1>1, EndedFields
<1>2. /\ call[r] = New /\ UNCHANGED <<tables, faults>>
      /\ \A q \in Request \ {r} : call'[q] = call[q]
  BY <1>1 DEF Opens, Begun
<1>3. ASSUME NEW k, Begun(r, "insertUser", "createUser", r, r, k)
      PROVE  Good
  BY <1>3 DEF Begun
<1>4. ASSUME NEW u \in Id, LiveUser(u), NEW k,
             Begun(r, "findProvider", "createProvider", u, r, k)
      PROVE  Good
  BY <1>4 DEF Begun
<1>5. ASSUME NEW u \in Id, LiveUser(u), NEW k,
             Begun(r, "insertProvider", "setPin", u, r, k)
      PROVE  Good
  BY <1>5 DEF Begun
<1>6. ASSUME NEW u \in Id, LiveUser(u), NEW k, NEW p \in ProvidersOf(u),
             Begun(r, "updatePin", "setPin", u, p, k)
      PROVE  Good
  BY <1>6 DEF Begun
<1>7. ASSUME NEW u \in Id, LiveUser(u), NEW k, NEW p \in ProvidersOf(u),
             Begun(r, "saveDefault", "setDefault", u, p, k)
      PROVE  Good
  BY <1>7 DEF Begun
<1>8. ASSUME NEW u \in Id, LiveUser(u), NEW k, NEW p \in Id,
             providers[p] # NoRow, providers[p].user_id = u,
             users[u].active_auth_provider_id # p,
             Begun(r, "deleteProvider", "deleteProvider", u, p, k)
      PROVE  Good
  <2>1. p \in OfUser(u)
    BY <1>8 DEF OfUser
  <2> QED
    BY <1>8, <2>1 DEF Begun
<1>9. ASSUME NEW u \in Id, LiveUser(u), NEW k, NEW p,
             Begun(r, "deleteUser", "deleteUser", u, p, k)
      PROVE  Good
  BY <1>9 DEF Begun
<1> HIDE DEF Good
<1>10. Good
  BY <1>1, <1>3, <1>4, <1>5, <1>6, <1>7, <1>8, <1>9, Zenon DEF Opens
<1> QED
  BY <1>0, <1>2, <1>10 DEF Good

(* A handler that runs on after a step, or has just started.               *)
LEMMA ActiveCame ==
    ASSUME TypeOK, HandlersInv, [Next]_vars, NEW r \in Active'
    PROVE  /\ r \in Request
           /\ \/ Opens(r)
              \/ /\ r \in Active
                 /\ call'[r].op = call[r].op /\ call'[r].user = call[r].user
                 /\ call'[r].provider = call[r].provider
                 /\ call'[r].updated = call[r].updated
BY ActiveWas

-----------------------------------------------------------------------------
(* Providers stay their users'.                                            *)
LEMMA StepOwner ==
    ASSUME AccountsInv, OwnerInv, [Next]_vars
    PROVE  OwnerInv'
<1>0. /\ TypeOK /\ HandlersInv /\ FreshInv
      /\ \A r \in Active : Fits(r)
  BY DEF AccountsInv, HandlersInv
<1>1. ASSUME NEW r \in Active', call'[r].op # "deleteUser",
             providers'[call'[r].provider] # NoRow
      PROVE  providers'[call'[r].provider].user_id = call'[r].user
  <2> DEFINE p == call'[r].provider
  <2>1. CASE Opens(r)
    <3>1. UNCHANGED providers /\ Fresh(r)
      BY <1>0, <2>1, OpensFields, ActiveCame DEF tables, FreshInv
    <3>2. providers[p] # NoRow => providers[p].user_id = call'[r].user
      BY <1>0, <1>1, <2>1, <3>1, OpensFields
         DEF Fresh, ProvidersOf, OfUser
    <3> QED
      BY <1>1, <3>1, <3>2
  <2>2. CASE /\ r \in Active
             /\ call'[r].op = call[r].op /\ call'[r].user = call[r].user
             /\ call'[r].provider = call[r].provider
    <3>1. /\ providers[p] # NoRow => providers[p].user_id = call[r].user
          /\ \A q \in Active :
                call[q].op # "deleteUser" /\ call[q].provider = p
                    => call[q].user = call[r].user
          /\ p \in Id
      BY <1>0, <1>1, <2>2, FieldType DEF OwnerInv
    <3> HIDE DEF p
    <3>2. CASE providers'[p] = providers[p]
      BY <1>1, <2>2, <3>1, <3>2 DEF p
    <3>3. ASSUME NEW a \in Active, call[a].provider = p,
                 call[a].op # "deleteUser",
                 providers'[p] = NewProvider(a) \/ providers'[p] = Updated(a)
          PROVE  providers'[p].user_id = call[r].user
      <4>1. /\ NewProvider(a).user_id = call[a].user
            /\ Updated(a).user_id = call[a].user
        BY DEF NewProvider, Updated
      <4> QED
        BY <3>1, <3>3, <4>1
    <3>4. ASSUME providers[p] # NoRow,
                 providers'[p] = SoftlyDeleted(providers[p])
          PROVE  providers'[p].user_id = call[r].user
      <4>1. providers[p] \in AuthProvider
        BY <1>0, <3>1, <3>4, RowType
      <4>2. SoftlyDeleted(providers[p]).user_id = providers[p].user_id
        BY <4>1 DEF SoftlyDeleted, AuthProvider
      <4> QED
        BY <3>1, <3>4, <4>2
    <3>5. ASSUME NEW a \in Active, Commits(a) \/ UpdatesPin(a)
          PROVE  call[a].op # "deleteUser"
      <4>1. call[a].at \in {"commitProvider", "updatePin"}
        BY <3>5 DEF Commits, CommitProvider, UpdatesPin
      <4> QED
        BY <1>0, <4>1 DEF Fits, ProviderTransaction
    <3> QED
      <4>1. providers'[p] # NoRow
        BY <1>1 DEF p
      <4>2. providers'[p].user_id = call[r].user
        BY <1>0, <3>1, <3>2, <3>3, <3>4, <3>5, <4>1, ProvidersChange
           DEF ProviderChange, DeletesProvider, ProvidersOf, LiveProvider
      <4> QED
        BY <2>2, <4>2 DEF p
  <2> QED
    BY <1>0, <2>1, <2>2, ActiveCame
<1>2. ASSUME NEW r \in Active', NEW q \in Active',
             call'[r].op # "deleteUser", call'[q].op # "deleteUser",
             call'[q].provider = call'[r].provider
      PROVE  call'[q].user = call'[r].user
  <2>1. ASSUME NEW s \in Active', NEW t \in Active', s # t, Opens(s),
               call'[s].op # "deleteUser", call'[t].op # "deleteUser",
               call'[t].provider = call'[s].provider
        PROVE  call'[t].user = call'[s].user
    <3>1. t \in Active /\ call'[t] = call[t]
      BY <2>1, OpensFields, <1>0 DEF Active
    <3>2. Fresh(s)
      BY <1>0, <2>1, OpensFields, ActiveCame DEF FreshInv
    <3>3. call[t].provider # s
      BY <3>1, <3>2 DEF Fresh
    <3>4. /\ providers[call'[s].provider] # NoRow
          /\ providers[call'[s].provider].user_id = call'[s].user
      BY <1>0, <2>1, <3>1, <3>3, OpensFields
         DEF ProvidersOf, OfUser, LiveProvider
    <3> QED
      BY <2>1, <3>1, <3>4 DEF OwnerInv
  <2>2. CASE q = r
    BY <2>2
  <2>3. CASE q # r /\ Opens(r)
    BY <1>2, <2>1, <2>3
  <2>4. CASE q # r /\ Opens(q)
    BY <1>2, <2>1, <2>4
  <2>5. CASE /\ r \in Active /\ q \in Active
             /\ call'[r].op = call[r].op /\ call'[r].user = call[r].user
             /\ call'[r].provider = call[r].provider
             /\ call'[q].op = call[q].op /\ call'[q].user = call[q].user
             /\ call'[q].provider = call[q].provider
    BY <1>2, <2>5 DEF OwnerInv
  <2> QED
    BY <1>0, <2>2, <2>3, <2>4, <2>5, ActiveCame
<1> QED
  BY <1>1, <1>2 DEF OwnerInv

(* A committed provider waits for its user.                                *)
LEMMA StepActivating ==
    ASSUME AccountsInv, AccountsInv', OwnerInv, ActivatingInv, [Next]_vars
    PROVE  ActivatingInv'
<1> SUFFICES ASSUME NEW u \in Active', call'[u].at = "activate"
             PROVE  Owned(u, u)'
  BY DEF ActivatingInv
<1>0. /\ TypeOK /\ HandlersInv /\ MakersInv /\ SigningInv
      /\ \A r \in Active : r \in Request /\ Fits(r)
      /\ u \in Request /\ u \in Id /\ "activate" \in UserTransaction
      /\ Fits(u)'
  BY DEF AccountsInv, HandlersInv, Active, Id, UserTransaction
<1>1. Signing(u)'
  BY <1>0 DEF Signing, Fits
<1>2. /\ Signing(u) /\ (Commits(u) \/ call[u].at = "activate")
  BY <1>0, <1>1, SigningWas
<1>3. /\ u \in Active /\ call[u].op = "createUser" /\ call[u].user = u
      /\ call[u].provider = u /\ \A q \in Active \ {u} : call[q].user # u
      /\ call[u].at \in UserTransaction
  BY <1>0, <1>2 DEF Signing, Fits, SigningInv
<1>4. CASE Commits(u)
  <2>1. providers'[u] = NewProvider(u) /\ NewProvider(u) \in AuthProvider
    BY <1>0, <1>3, <1>4, FieldType DEF Commits, CommitProvider, TypeOK
  <2>2. NewProvider(u).user_id = u /\ ~ NewProvider(u).deleted
    BY <1>3 DEF NewProvider
  <2>3. providers'[u] # NoRow
    BY <2>1, AccountsAssumption
  <2> QED
    BY <2>1, <2>2, <2>3 DEF Owned, LiveProvider
<1>5. CASE call[u].at = "activate"
  <2>1. Owned(u, u) /\ Maker(u)
    BY <1>3, <1>5 DEF ActivatingInv, Maker
  <2>2. \A q \in Active : call[q].op = "setPin" => call[q].provider # u
    BY <1>0, <2>1 DEF MakersInv
  <2>3. ASSUME NEW a \in Active, ProviderChange(a, u)
        PROVE  FALSE
    <3>1. ~ (CleansUser(a) /\ u \in OfUser(call[a].user))
      BY <1>0, <1>3, <1>5, <2>1 DEF CleansUser, Fits, OfUser, Owned
    <3>2. ~ (CleansProvider(a) /\ u = call[a].provider)
      BY <1>0, <1>3, <2>2 DEF CleansProvider, Fits
    <3>3. ~ (Commits(a) /\ u = call[a].provider)
      BY <1>0, <1>5, <2>2
         DEF Commits, CommitProvider, Fits, ProviderTransaction
    <3>4. ~ (UpdatesPin(a) /\ u = call[a].provider)
      BY <1>0, <2>2 DEF UpdatesPin, Fits
    <3>5. ~ (DeletesProvider(a) /\ u = call[a].provider)
      <4>1. DeletesProvider(a) => call[a].op = "deleteProvider"
        BY <1>0 DEF DeletesProvider, Fits
      <4>2. DeletesProvider(a) /\ u = call[a].provider
                => call[a].user = u
        BY <2>1, <4>1 DEF OwnerInv, Owned, LiveProvider
      <4> QED
        BY <1>3, <4>1, <4>2
    <3>6. ~ (DeletesUser(a) /\ u \in ProvidersOf(call[a].user))
      BY <1>3, <1>5, <2>1
         DEF DeletesUser, DeleteUserRows, ProvidersOf, Owned
    <3> QED
      BY <2>3, <3>1, <3>2, <3>3, <3>4, <3>5, <3>6 DEF ProviderChange
  <2>4. providers'[u] = providers[u]
    BY <1>0, <2>3, ProvidersChange
  <2> QED
    BY <2>1, <2>4 DEF Owned, LiveProvider
<1> QED
  BY <1>2, <1>4, <1>5

-----------------------------------------------------------------------------
(* How a handler goes on that is in progress before and after a step.      *)
LEMMA GoesOn ==
    ASSUME TypeOK, HandlersInv, [Next]_vars, NEW r \in Active, r \in Active'
    PROVE  /\ r \in Request
           /\ \/ call'[r] = call[r]
              \/ Waits(r) \/ Stores(r) \/ Indexes(r) \/ Commits(r)
              \/ Activates(r) \/ Opened(r) \/ CleansUser(r)
              \/ /\ UpdatesPin(r) /\ providers[call[r].provider] = NoRow
                 /\ Moved(r, "register")
              \/ /\ Breaks(r) /\ Moved(r, "cleanUp")
                 /\ call[r].at \in {"createAccount", "register"}
<1>0. /\ r \in Request /\ call'[r].at \in Step /\ call[r].at \in Step
      /\ "done" \notin Step /\ "cut off" \notin Step /\ "new" \notin Step
      /\ CutOff.at = "cut off" /\ New.at = "new"
  BY DEF Active, Step, UserTransaction, CutOff, New
<1>1. ~ Opens(r)
  BY <1>0 DEF Opens
<1>2. call'[r] # CutOff
  BY <1>0
<1>3. \A o, b : ~ Ended(r, o, b)
  BY <1>0, EndedFields
<1>4. /\ ~ GivesUp(r) /\ ~ Registers(r) /\ ~ CleansProvider(r)
      /\ ~ CleansBanking(r) /\ ~ SavesDefault(r) /\ ~ DeletesProvider(r)
      /\ ~ DeletesUser(r)
  BY <1>3 DEF GivesUp, Registers, CleansProvider, CleansBanking,
              SavesDefault, DeletesProvider, DeletesUser
<1>5. UpdatesPin(r) => providers[call[r].provider] = NoRow
                       /\ Moved(r, "register")
  BY <1>3 DEF UpdatesPin
<1>6. Breaks(r) => Moved(r, "cleanUp")
                   /\ call[r].at \in {"createAccount", "register"}
  BY <1>3 DEF Breaks
<1>7. call'[r] = call[r] \/ StepsOf(r)
  BY <1>0, <1>1, <1>2, HandlerChange
<1> QED
  BY <1>0, <1>4, <1>5, <1>6, <1>7 DEF StepsOf

(* A handler that is to update a PIN does nothing else.                    *)
LEMMA LeavesPin ==
    ASSUME TypeOK, HandlersInv, [Next]_vars, NEW r \in Active, r \in Active'
    PROVE  /\ call'[r].at = "updatePin" => call'[r] = call[r]
           /\ call[r].at = "updatePin" /\ call'[r].at # "updatePin" =>
                    UpdatesPin(r) /\ providers[call[r].provider] = NoRow
<1>1. ASSUME NEW s, Moved(r, s)
      PROVE  call'[r].at = s
  BY <1>1, MovedFields
<1>2. /\ Waits(r) => call'[r].at # "updatePin" /\ call[r].at # "updatePin"
      /\ Stores(r) => call'[r].at # "updatePin" /\ call[r].at # "updatePin"
      /\ Indexes(r) => call'[r].at # "updatePin" /\ call[r].at # "updatePin"
  BY <1>1 DEF Waits, Stores, StoreKeys, Indexes, CreateIndex
<1>3. /\ Commits(r) => call'[r].at # "updatePin" /\ call[r].at # "updatePin"
      /\ Activates(r) => call'[r].at # "updatePin" /\ call[r].at # "updatePin"
      /\ Opened(r) => call'[r].at # "updatePin" /\ call[r].at # "updatePin"
      /\ CleansUser(r) => call'[r].at # "updatePin"
                          /\ call[r].at # "updatePin"
  BY <1>1 DEF Commits, CommitProvider, Activates, Activate, Opened,
              CreateAccount, CleansUser
<1>4. /\ Moved(r, "register") => call'[r].at # "updatePin"
      /\ Moved(r, "cleanUp") => call'[r].at # "updatePin"
  BY <1>1
<1> QED
  BY <1>2, <1>3, <1>4, GoesOn

(* What a handler looked up still holds, when no other one came between.   *)
AloneInv ==
    \A r \in Active : Undisturbed(r) =>
        /\ call[r].op \in {"setDefault", "setPin", "createProvider"} =>
                LiveUser(call[r].user)
        /\ call[r].op = "setDefault" => Owned(call[r].provider, call[r].user)
        /\ call[r].at = "updatePin" => LiveProvider(call[r].provider)
        /\ call[r].op = "setPin" /\ call[r].at # "updatePin" =>
                /\ ~ call[r].updated
                /\ providers[call[r].provider] # NoRow =>
                        ~ providers[call[r].provider].updated

(* Handlers of other users change neither the rows of a user nor the       *)
(* provider that a handler for the user is about.                          *)
LEMMA OthersApart ==
    ASSUME OwnerInv, HandlersInv, NEW r \in Active,
           call[r].op # "deleteUser", NEW q \in Active,
           call[q].user # call[r].user
    PROVE  ~ ProviderChange(q, call[r].provider)
<1> DEFINE p == call[r].provider
<1>0. Fits(q)
  BY DEF HandlersInv
<1>1. call[q].op # "deleteUser" => call[q].provider # p
  BY DEF OwnerInv
<1>2. providers[p] # NoRow => providers[p].user_id # call[q].user
  BY DEF OwnerInv
<1>3. /\ CleansProvider(q) => call[q].op # "deleteUser"
      /\ Commits(q) => call[q].op # "deleteUser"
      /\ UpdatesPin(q) => call[q].op # "deleteUser"
      /\ DeletesProvider(q) => call[q].op # "deleteUser"
  BY <1>0 DEF CleansProvider, Commits, CommitProvider, UpdatesPin,
              DeletesProvider, Fits, ProviderTransaction
<1>4. ~ (CleansUser(q) /\ p \in OfUser(call[q].user))
  BY <1>2 DEF OfUser
<1>5. ~ (DeletesUser(q) /\ p \in ProvidersOf(call[q].user))
  BY <1>2 DEF ProvidersOf, LiveProvider
<1> HIDE DEF p
<1>6. ~ ProviderChange(q, p)
  BY <1>1, <1>3, <1>4, <1>5 DEF ProviderChange
<1> QED
  BY <1>6 DEF p

(* Alone, a handler that goes on has kept the user it works for, and has   *)
(* changed its provider only by inserting it.                              *)
LEMMA AloneKeeps ==
    ASSUME TypeOK, HandlersInv, OwnerInv, [Next]_vars, NEW r \in Active,
           r \in Active', \A q \in Active \ {r} : call[q].user # call[r].user,
           call[r].op \notin {"createUser", "deleteUser"}
    PROVE  /\ users'[call[r].user] = users[call[r].user]
           /\ \/ providers'[call[r].provider] = providers[call[r].provider]
              \/ /\ Commits(r)
                 /\ providers'[call[r].provider] = NewProvider(r)
              \/ UpdatesPin(r) /\ providers[call[r].provider] = NoRow
<1>0. /\ r \in Request /\ Fits(r) /\ call'[r].at \in Step /\ "done" \notin Step
      /\ call[r].user \in Id /\ call[r].provider \in Id
  BY FieldType DEF HandlersInv, Active, Step, UserTransaction
<1>1. \A o, b : ~ Ended(r, o, b)
  BY <1>0, EndedFields
<1>2. /\ ~ CleansUser(r) /\ ~ Activates(r)
      /\ ~ SavesDefault(r) /\ ~ DeletesUser(r) /\ ~ CleansProvider(r)
      /\ ~ DeletesProvider(r)
  BY <1>0, <1>1 DEF CleansUser, Activates, Activate, SavesDefault,
                    DeletesUser, CleansProvider, DeletesProvider, Fits
<1>3. UpdatesPin(r) => providers[call[r].provider] = NoRow
  BY <1>1 DEF UpdatesPin
<1>4. users'[call[r].user] = users[call[r].user]
  BY <1>0, <1>2, UsersChange
<1>5. ASSUME NEW q \in Active, ProviderChange(q, call[r].provider)
      PROVE  q = r
  BY <1>5, OthersApart
<1>6. ProviderChange(r, call[r].provider) =>
            \/ /\ Commits(r)
               /\ providers'[call[r].provider] = NewProvider(r)
            \/ UpdatesPin(r) /\ providers[call[r].provider] = NoRow
  BY <1>2, <1>3 DEF ProviderChange
<1> QED
  BY <1>0, <1>4, <1>5, <1>6, ProvidersChange

(* What a handler has looked up still holds when it is alone.              *)
LEMMA StepAlone ==
    ASSUME AccountsInv, OverlapInv, OwnerInv, AloneInv, HistoryStep
    PROVE  AloneInv'
<1> SUFFICES ASSUME NEW r \in Active', Undisturbed(r)'
             PROVE  /\ call'[r].op \in {"setDefault", "setPin",
                                        "createProvider"}
                            => LiveUser(call[r].user)'
                    /\ call'[r].op = "setDefault" =>
                            Owned(call[r].provider, call[r].user)'
                    /\ call'[r].at = "updatePin" =>
                            LiveProvider(call[r].provider)'
                    /\ call'[r].op = "setPin" /\ call'[r].at # "updatePin" =>
                        /\ ~ call'[r].updated
                        /\ providers'[call'[r].provider] # NoRow =>
                                ~ providers'[call'[r].provider].updated
  BY DEF AloneInv
<1>0. /\ TypeOK /\ HandlersInv /\ FreshInv /\ [Next]_vars
      /\ overlapped \subseteq overlapped'
      /\ \A q \in Active : Fits(q)
  BY HistoryStepIs DEF AccountsInv, HandlersInv
<1>1. CASE Opens(r)
  <2>1. UNCHANGED tables /\ Fresh(r)
    BY <1>0, <1>1, OpensFields, ActiveCame DEF FreshInv
  <2>2. UNCHANGED <<users, providers>>
    BY <2>1 DEF tables
  <2>3. \A u \in Id : \A p \in ProvidersOf(u) : Owned(p, u)
    BY DEF ProvidersOf, Owned
  <2>4. /\ call'[r].op \in {"setDefault", "setPin", "createProvider"}
                => LiveUser(call'[r].user)
        /\ call'[r].op = "setDefault" =>
                Owned(call'[r].provider, call'[r].user)
        /\ call'[r].at = "updatePin" => LiveProvider(call'[r].provider)
        /\ call'[r].op = "setPin" /\ call'[r].at # "updatePin" =>
                call'[r].provider = r /\ (call'[r].updated => LiveProvider(r))
    BY <1>0, <1>1, <2>3, OpensFields DEF Owned
  <2>5. providers[r] = NoRow /\ ~ LiveProvider(r)
    BY <2>1 DEF Fresh, LiveProvider
  <2> QED
    BY <2>2, <2>4, <2>5 DEF LiveUser, Owned, LiveProvider
<1>2. CASE /\ r \in Active
           /\ call'[r].op = call[r].op /\ call'[r].user = call[r].user
           /\ call'[r].provider = call[r].provider
           /\ call'[r].updated = call[r].updated
  <2>0. /\ Undisturbed(r) /\ Fits(r)
        /\ call[r].user \in Id /\ call[r].provider \in Id
    BY <1>0, <1>2, FieldType DEF Undisturbed
  <2>a. \A q \in Active \ {r} : call[q].user # call[r].user
    BY <1>2, <2>0, AloneIs
  <2> DEFINE u == call[r].user
             p == call[r].provider
  <2>1. /\ call[r].op \in {"setDefault", "setPin", "createProvider"} =>
                LiveUser(u)
        /\ call[r].op = "setDefault" => Owned(p, u)
        /\ call[r].at = "updatePin" => LiveProvider(p)
        /\ call[r].op = "setPin" /\ call[r].at # "updatePin" =>
                /\ ~ call[r].updated
                /\ providers[p] # NoRow => ~ providers[p].updated
    BY <1>2, <2>0 DEF AloneInv
  <2>2. CASE call[r].op \notin {"setDefault", "setPin", "createProvider"}
    <3>1. call'[r].at # "updatePin"
      BY <1>0, <1>2, <2>0, <2>2, LeavesPin DEF Fits
    <3> QED
      BY <1>2, <2>2, <3>1
  <2>3. CASE call[r].op \in {"setDefault", "setPin", "createProvider"}
    <3>1. /\ users'[u] = users[u]
          /\ \/ providers'[p] = providers[p]
             \/ Commits(r) /\ providers'[p] = NewProvider(r)
             \/ UpdatesPin(r) /\ providers[p] = NoRow
      BY <1>0, <1>2, <2>0, <2>3, <2>a, AloneKeeps
    <3>2. ~ (UpdatesPin(r) /\ providers[p] = NoRow)
      BY <2>1 DEF UpdatesPin, LiveProvider
    <3>3. Commits(r) => /\ call[r].at = "commitProvider"
                        /\ call[r].op # "setDefault"
      BY <2>0 DEF Commits, CommitProvider, Fits, ProviderTransaction
    <3>4. LiveUser(call[r].user)'
      BY <1>2, <2>1, <2>3, <3>1 DEF LiveUser
    <3>5. call[r].op = "setDefault" =>
                Owned(call[r].provider, call[r].user)'
      BY <1>2, <2>1, <3>1, <3>2, <3>3 DEF Owned, LiveProvider
    <3>6. ASSUME call'[r].at = "updatePin"
          PROVE  LiveProvider(call[r].provider)'
      <4>1. call[r].at = "updatePin"
        BY <1>0, <1>2, <3>6, LeavesPin
      <4> QED
        BY <1>2, <2>1, <3>1, <3>2, <3>3, <4>1 DEF LiveProvider
    <3>7. ASSUME call[r].op = "setPin", call'[r].at # "updatePin"
          PROVE  /\ ~ call'[r].updated
                 /\ providers'[call'[r].provider] # NoRow =>
                            ~ providers'[call'[r].provider].updated
      <4>1. call[r].at # "updatePin"
        BY <1>0, <1>2, <2>1, <3>7, LeavesPin DEF LiveProvider
      <4>2. ~ NewProvider(r).updated
        BY <2>1, <3>7, <4>1 DEF NewProvider
      <4> QED
        BY <1>2, <2>1, <3>1, <3>2, <3>7, <4>1, <4>2
    <3> QED
      BY <1>2, <3>4, <3>5, <3>6, <3>7
  <2> QED
    BY <2>2, <2>3
<1> QED
  BY <1>0, <1>1, <1>2, ActiveCame

-----------------------------------------------------------------------------
(* A deletion stays complete.                                              *)
LEMMA StepDeletion ==
    ASSUME AccountsInv, AloneInv, DeletionIsComplete, HistoryStep
    PROVE  DeletionIsComplete'
<1> SUFFICES ASSUME NEW u \in Id, keys'[u] = "deleted",
                    Alone({"setDefault", "setPin", "createProvider"}, u)'
             PROVE  ~ LiveUser(u)' /\ ProvidersOf(u)' = {}
  BY DEF DeletionIsComplete
<1>0. /\ TypeOK /\ HandlersInv /\ SigningInv /\ [Next]_vars
      /\ \A r \in Active : r \in Request /\ Fits(r)
      /\ Alone({"setDefault", "setPin", "createProvider"}, u)
  BY HistoryStepIs DEF AccountsInv, HandlersInv, Alone, Active
<1>1. CASE keys[u] = "deleted"
  <2>1. ~ LiveUser(u) /\ ProvidersOf(u) = {}
    BY <1>0, <1>1 DEF DeletionIsComplete
  <2>2. ASSUME NEW r \in Active,
               call[r].op \in {"setDefault", "setPin", "createProvider"}
        PROVE  call[r].user # u
    <3>1. ASSUME call[r].user = u
          PROVE  LiveUser(u)
      <4>1. Undisturbed(r)
        BY <1>0, <2>2, <3>1 DEF Undisturbed, Alone
      <4> QED
        BY <2>2, <3>1, <4>1 DEF AloneInv
    <3> QED
      BY <2>1, <3>1
  <2>3. ASSUME NEW r \in Active, call[r].op = "createUser",
               call[r].at \in {"commitProvider", "activate"}
        PROVE  call[r].user # u
    <3>1. Signing(r) /\ call[r].user = r
      BY <1>0, <2>3 DEF Signing, UserTransaction, Fits
    <3>2. keys[r] = "live"
      BY <1>0, <2>3, <3>1 DEF SigningInv
    <3> QED
      BY <1>1, <3>1, <3>2
  <2>4. ~ LiveUser(u)'
    <3>1. ASSUME NEW r \in Active, call[r].user = u
          PROVE  ~ Activates(r) /\ ~ SavesDefault(r)
      <4>1. Activates(r) => call[r].at = "activate"
                            /\ call[r].op = "createUser"
        BY <1>0 DEF Activates, Activate, Fits
      <4>2. SavesDefault(r) => call[r].op = "setDefault"
        BY <1>0 DEF SavesDefault, Fits
      <4> QED
        BY <2>2, <2>3, <3>1, <4>1, <4>2
    <3>2. \A r \in Active : SavedUser(r, TRUE).deleted
      BY DEF SavedUser
    <3> QED
      BY <1>0, <2>1, <3>1, <3>2, UsersChange DEF LiveUser
  <2>5. ASSUME NEW p \in Id, LiveProvider(p)', providers'[p].user_id = u
        PROVE  FALSE
    <3>1. CASE providers'[p] = providers[p]
      BY <2>1, <2>5, <3>1 DEF ProvidersOf, LiveProvider
    <3>2. ASSUME NEW r \in Active, Commits(r) \/ UpdatesPin(r),
                 providers'[p] = NewProvider(r) \/ providers'[p] = Updated(r)
          PROVE  FALSE
      <4>1. /\ NewProvider(r).user_id = call[r].user
            /\ Updated(r).user_id = call[r].user
        BY DEF NewProvider, Updated
      <4>2. call[r].user = u
        BY <2>5, <3>2, <4>1
      <4>3. call[r].at = "commitProvider" \/ call[r].op = "setPin"
        BY <1>0, <3>2 DEF Commits, CommitProvider, UpdatesPin, Fits
      <4>4. call[r].op \in {"createUser", "createProvider", "setPin"}
        BY <1>0, <4>3 DEF Fits, ProviderTransaction
      <4> QED
        BY <2>2, <2>3, <4>2, <4>3, <4>4
    <3>3. ASSUME providers[p] # NoRow,
                 providers'[p] = SoftlyDeleted(providers[p])
          PROVE  FALSE
      <4>1. providers[p] \in AuthProvider
        BY <1>0, <3>3, RowType
      <4>2. SoftlyDeleted(providers[p]).deleted
        BY <4>1 DEF SoftlyDeleted, AuthProvider
      <4> QED
        BY <2>5, <3>3, <4>2 DEF LiveProvider
    <3>4. providers'[p] # NoRow
      BY <2>5 DEF LiveProvider
    <3> QED
      BY <1>0, <3>1, <3>2, <3>3, <3>4, ProvidersChange
         DEF ProviderChange, DeletesProvider, ProvidersOf, LiveProvider
  <2> QED
    BY <2>4, <2>5 DEF ProvidersOf
<1>2. CASE keys[u] # "deleted"
  <2>1. PICK r \in Active : DeletesUser(r) /\ call[r].user = u
    BY <1>0, <1>2, KeysChange
  <2>2. users'[u] = SavedUser(r, TRUE)
    BY <2>1, <1>0 DEF DeletesUser, DeleteUserRows, SavedUser, TypeOK
  <2>3. ~ LiveUser(u)'
    BY <2>2 DEF LiveUser, SavedUser
  <2>4. ASSUME NEW p \in Id, LiveProvider(p)', providers'[p].user_id = u
        PROVE  FALSE
    <3>1. providers'[p] = IF p \in ProvidersOf(u)
                          THEN SoftlyDeleted(providers[p])
                          ELSE providers[p]
      BY <2>1 DEF DeletesUser, DeleteUserRows, SoftlyDeleted
    <3>2. CASE p \in ProvidersOf(u)
      <4>1. providers[p] \in AuthProvider
        BY <1>0, <3>2, RowType DEF ProvidersOf, LiveProvider
      <4>2. SoftlyDeleted(providers[p]).deleted
        BY <4>1 DEF SoftlyDeleted, AuthProvider
      <4> QED
        BY <2>4, <3>1, <3>2, <4>2 DEF LiveProvider
    <3>3. CASE p \notin ProvidersOf(u)
      BY <2>4, <3>1, <3>3 DEF ProvidersOf, LiveProvider
    <3> QED
      BY <3>2, <3>3
  <2> QED
    BY <2>3, <2>4 DEF ProvidersOf
<1> QED
  BY <1>1, <1>2

-----------------------------------------------------------------------------
(* The default of a live user is a live provider of the user, and none     *)
(* that a handler is about to delete or may have to clean up.              *)
Default(u, p) == LiveUser(u) /\ users[u].active_auth_provider_id = p
DefaultInv ==
    \A u \in Id : Alone({"setDefault"}, u) =>
        /\ LiveUser(u) => Owned(users[u].active_auth_provider_id, u)
        /\ \A r \in Active :
                \/ call[r].op = "deleteProvider"
                \/ /\ call[r].op \in {"createProvider", "setPin"}
                   /\ call[r].at # "updatePin"
                => ~ Default(u, call[r].provider)

(* The default provider of a live user stays one.                          *)
LEMMA DefaultOwned ==
    ASSUME AccountsInv, OwnerInv, ActivatingInv, AloneInv, DefaultInv,
           HistoryStep, NEW u \in Id, Alone({"setDefault"}, u)', LiveUser(u)'
    PROVE  Owned(users[u].active_auth_provider_id, u)'
<1>0. /\ TypeOK /\ HandlersInv /\ [Next]_vars
      /\ \A r \in Active : r \in Request /\ Fits(r)
      /\ Alone({"setDefault"}, u)
  BY HistoryStepIs DEF AccountsInv, HandlersInv, Alone, Active
<1>1. /\ LiveUser(u) => Owned(users[u].active_auth_provider_id, u)
      /\ \A r \in Active :
                \/ call[r].op = "deleteProvider"
                \/ /\ call[r].op \in {"createProvider", "setPin"}
                   /\ call[r].at # "updatePin"
                => ~ Default(u, call[r].provider)
  BY <1>0 DEF DefaultInv
<1>2. CASE users'[u] = users[u]
  <2>0. /\ LiveUser(u) /\ users[u].active_auth_provider_id \in Id
        /\ Owned(users[u].active_auth_provider_id, u)
    BY <1>0, <1>1, <1>2, RowType DEF LiveUser, User
  <2>p. PICK p \in Id : p = users[u].active_auth_provider_id
    BY <2>0
  <2>1. LiveUser(u) /\ Owned(p, u) /\ Default(u, p)
    BY <2>0, <2>p DEF Default
  <2>2. \A r \in Active : call[r].user = u =>
            ~ CleansUser(r) /\ ~ DeletesUser(r)
    <3>1. ASSUME NEW r \in Active, call[r].user = u, CleansUser(r)
          PROVE  FALSE
      <4>1. users'[u] = NoRow
        BY <1>0, <3>1 DEF CleansUser, TypeOK
      <4> QED
        BY <4>1 DEF LiveUser
    <3>2. ASSUME NEW r \in Active, call[r].user = u, DeletesUser(r)
          PROVE  FALSE
      <4>1. users'[u] = SavedUser(r, TRUE)
        BY <1>0, <3>2 DEF DeletesUser, DeleteUserRows, SavedUser, TypeOK
      <4>2. SavedUser(r, TRUE).deleted
        BY DEF SavedUser
      <4> QED
        BY <4>1, <4>2 DEF LiveUser
    <3> QED
      BY <3>1, <3>2
  <2>3. ASSUME NEW r \in Active, ProviderChange(r, p)
        PROVE  Owned(p, u)'
    <3>1. ~ (CleansUser(r) /\ p \in OfUser(call[r].user))
      BY <2>1, <2>2 DEF OfUser, Owned
    <3>2. ~ (CleansProvider(r) /\ p = call[r].provider)
      <4>1. CleansProvider(r) =>
                /\ call[r].op \in {"createProvider", "setPin"}
                /\ call[r].at # "updatePin"
        BY <1>0 DEF CleansProvider, Fits
      <4> QED
        BY <1>1, <2>1, <4>1
    <3>3. ~ (DeletesProvider(r) /\ p = call[r].provider)
      <4>1. DeletesProvider(r) => call[r].op = "deleteProvider"
        BY <1>0 DEF DeletesProvider, Fits
      <4> QED
        BY <1>1, <2>1, <4>1
    <3>4. ~ (DeletesUser(r) /\ p \in ProvidersOf(call[r].user))
      BY <2>1, <2>2 DEF ProvidersOf, Owned
    <3>5. ASSUME Commits(r) \/ UpdatesPin(r), p = call[r].provider,
                 providers'[p] = NewProvider(r) \/ providers'[p] = Updated(r)
          PROVE  Owned(p, u)'
      <4>1. call[r].at \in {"commitProvider", "updatePin"}
        BY <3>5 DEF Commits, CommitProvider, UpdatesPin
      <4>2. call[r].op # "deleteUser"
        BY <1>0, <4>1 DEF Fits, ProviderTransaction
      <4>3. call[r].user = u
        BY <2>1, <3>5, <4>2 DEF OwnerInv, Owned, LiveProvider
      <4>4. /\ NewProvider(r) \in AuthProvider /\ Updated(r) \in AuthProvider
            /\ NewProvider(r).user_id = u /\ Updated(r).user_id = u
            /\ ~ NewProvider(r).deleted /\ ~ Updated(r).deleted
        BY <1>0, <4>3, FieldType DEF NewProvider, Updated
      <4>5. providers'[p] # NoRow
        BY <3>5, <4>4, AccountsAssumption
      <4> QED
        BY <3>5, <4>4, <4>5 DEF Owned, LiveProvider
    <3> QED
      BY <2>3, <3>1, <3>2, <3>3, <3>4, <3>5 DEF ProviderChange
  <2>4. ASSUME providers'[p] = providers[p]
        PROVE  Owned(p, u)'
    BY <2>1, <2>4 DEF Owned, LiveProvider
  <2>5. Owned(p, u)'
    BY <1>0, <2>1, <2>3, <2>4, ProvidersChange
  <2> QED
    BY <1>2, <2>5, <2>p DEF Owned, LiveProvider
<1>3. ASSUME NEW r \in Active, call[r].user = u,
             Activates(r) \/ SavesDefault(r),
             users'[u] = SavedUser(r, FALSE)
      PROVE  Owned(users[u].active_auth_provider_id, u)'
  <2>1. Owned(call[r].provider, u)
    <3>1. CASE Activates(r)
      <4>1. call[r].at = "activate"
        BY <3>1 DEF Activates, Activate
      <4>2. call[r].provider = r /\ r = u
        BY <1>0, <1>3, <4>1 DEF Fits
      <4> QED
        BY <4>1, <4>2 DEF ActivatingInv
    <3>2. CASE SavesDefault(r)
      <4>1. call[r].op = "setDefault"
        BY <1>0, <3>2 DEF SavesDefault, Fits
      <4>2. Undisturbed(r)
        BY <1>0, <1>3, <4>1 DEF Undisturbed, Alone
      <4> QED
        BY <1>3, <4>1, <4>2 DEF AloneInv
    <3> QED
      BY <1>3, <3>1, <3>2
  <2>2. UNCHANGED providers
    BY <1>3 DEF Activates, Activate, SavesDefault
  <2>3. users'[u].active_auth_provider_id = call[r].provider
    BY <1>3 DEF SavedUser
  <2> QED
    BY <2>1, <2>2, <2>3 DEF Owned, LiveProvider
<1>4. \A r \in Active : users'[u] # NoRow /\ users'[u] # SavedUser(r, TRUE)
  <2>1. \A r \in Active : SavedUser(r, TRUE).deleted
    BY DEF SavedUser
  <2> QED
    BY <2>1 DEF LiveUser
<1> QED
  BY <1>0, <1>2, <1>3, <1>4, UsersChange

(* Nor is it one that a handler is about to take away.                     *)
LEMMA StepDefault ==
    ASSUME AccountsInv, OverlapInv, OwnerInv, ActivatingInv, AloneInv,
           DefaultInv, HistoryStep
    PROVE  DefaultInv'
<1> SUFFICES ASSUME NEW u \in Id, Alone({"setDefault"}, u)'
             PROVE  /\ LiveUser(u)' =>
                            Owned(users[u].active_auth_provider_id, u)'
                    /\ \A r \in Active' :
                            \/ call'[r].op = "deleteProvider"
                            \/ /\ call'[r].op \in {"createProvider", "setPin"}
                               /\ call'[r].at # "updatePin"
                            => ~ Default(u, call[r].provider)'
  BY DEF DefaultInv
<1>0. /\ TypeOK /\ HandlersInv /\ FreshInv /\ MakersInv /\ SigningInv
      /\ [Next]_vars
      /\ \A r \in Active : r \in Request /\ Fits(r)
      /\ Alone({"setDefault"}, u)
  BY HistoryStepIs DEF AccountsInv, HandlersInv, Alone, Active
<1>1. /\ LiveUser(u) => Owned(users[u].active_auth_provider_id, u)
      /\ \A r \in Active :
                \/ call[r].op = "deleteProvider"
                \/ /\ call[r].op \in {"createProvider", "setPin"}
                   /\ call[r].at # "updatePin"
                => ~ Default(u, call[r].provider)
  BY <1>0 DEF DefaultInv
<1>2. ASSUME NEW r \in Active', Default(u, call[r].provider)',
             \/ call'[r].op = "deleteProvider"
             \/ /\ call'[r].op \in {"createProvider", "setPin"}
                /\ call'[r].at # "updatePin"
      PROVE  FALSE
  <2> DEFINE p == call'[r].provider
  <2>0. /\ users'[u] # NoRow /\ ~ users'[u].deleted
        /\ users'[u].active_auth_provider_id = p
    BY <1>2 DEF Default, LiveUser
  <2>1. CASE Opens(r)
    <3>1. UNCHANGED users /\ Fresh(r) /\ r \in Id
      BY <1>0, <2>1, OpensFields, ActiveCame DEF FreshInv, tables
    <3>2. LiveUser(u) /\ users[u].active_auth_provider_id = p
      BY <2>0, <3>1 DEF LiveUser
    <3>3. Owned(p, u) /\ p # r
      BY <1>1, <3>1, <3>2 DEF Fresh, LiveUser
    <3>4. /\ call'[r].op = "deleteProvider"
          /\ p \in OfUser(call'[r].user)
          /\ p # users[call'[r].user].active_auth_provider_id
      BY <1>0, <1>2, <2>1, <3>3, OpensFields
    <3>5. call'[r].user = u
      BY <3>3, <3>4 DEF OfUser, Owned
    <3> QED
      BY <3>2, <3>4, <3>5
  <2>2. CASE /\ r \in Active
             /\ call'[r].op = call[r].op /\ call'[r].user = call[r].user
             /\ call'[r].provider = call[r].provider
    <3>1. CASE users'[u] = users[u]
      <4>1. LiveUser(u) /\ Default(u, call[r].provider)
        BY <2>0, <2>2, <3>1 DEF LiveUser, Default
      <4>2. call[r].op = "setPin" /\ call[r].at = "updatePin"
        BY <1>0, <1>1, <1>2, <2>2, <4>1 DEF Fits
      <4>3. providers[call[r].provider] = NoRow
        BY <1>0, <1>2, <2>2, <4>2, LeavesPin
      <4>4. Owned(call[r].provider, u)
        BY <1>1, <4>1 DEF Default
      <4> QED
        BY <4>3, <4>4 DEF Owned, LiveProvider
    <3>2. ASSUME NEW a \in Active, call[a].user = u, Activates(a),
                 users'[u] = SavedUser(a, FALSE)
          PROVE  FALSE
      <4>1. call[a].at = "activate" /\ call[a].op = "createUser"
        BY <1>0, <3>2 DEF Activates, Activate, Fits
      <4>2. a = u /\ call[a].provider = u /\ Owned(u, u)
        BY <1>0, <3>2, <4>1 DEF Fits, ActivatingInv
      <4>3. call[r].provider = u
        BY <2>0, <2>2, <3>2, <4>2 DEF SavedUser
      <4>4. r # a
        BY <1>2, <2>2, <4>1
      <4>5. call[r].op # "createProvider"
        BY <1>0, <2>2, <4>2, <4>3, <4>4 DEF Fits
      <4>6. call[r].op # "setPin"
        <5>1. Maker(a)
          BY <4>1 DEF Maker
        <5> QED
          BY <1>0, <2>2, <4>2, <4>3, <5>1 DEF MakersInv
      <4>7. call[r].op = "deleteProvider"
        BY <1>2, <2>2, <4>5, <4>6
      <4>8. call[r].user = u
        BY <2>2, <4>2, <4>3, <4>7 DEF OwnerInv, Owned, LiveProvider
      <4>9. Signing(a)
        BY <4>1 DEF Signing, UserTransaction
      <4> QED
        BY <1>0, <2>2, <4>2, <4>4, <4>8, <4>9 DEF SigningInv
    <3>3. ASSUME NEW a \in Active, call[a].user = u, SavesDefault(a),
                 users'[u] = SavedUser(a, FALSE)
          PROVE  FALSE
      <4>1. call[a].op = "setDefault" /\ call[r].op # "deleteUser" /\ r # a
        BY <1>0, <1>2, <2>2, <3>3 DEF SavesDefault, Fits
      <4>2. Undisturbed(a)
        BY <1>0, <3>3, <4>1 DEF Undisturbed, Alone
      <4>3. call[r].user # u
        BY <2>2, <3>3, <4>1, <4>2, AloneIs
      <4>4. call[r].provider = call[a].provider
        BY <2>0, <2>2, <3>3 DEF SavedUser
      <4> QED
        BY <2>2, <3>3, <4>1, <4>3, <4>4 DEF OwnerInv
    <3>4. \A a \in Active : users'[u] # SavedUser(a, TRUE)
      <4>1. \A a \in Active : SavedUser(a, TRUE).deleted
        BY DEF SavedUser
      <4> QED
        BY <2>0, <4>1
    <3>5. users'[u] # users[u] /\ users'[u] # NoRow
      BY <2>0, <3>1
    <3>6. TypeOK /\ HandlersInv /\ [Next]_vars
      BY <1>0
    <3> QED
      BY <3>2, <3>3, <3>4, <3>5, <3>6, UsersChange
  <2> QED
    BY <1>0, <2>1, <2>2, ActiveCame
<1> QED
  BY <1>2, DefaultOwned

-----------------------------------------------------------------------------
(* How far a sign-up has come that nobody overlapped and no fault hit, and *)
(* what is left of it.                                                     *)
Nothing(u) == /\ users[u] = NoRow /\ keys[u] = "none" /\ OfUser(u) = {}
              /\ Counted(u) = {}
Rooted(u) == /\ LiveUser(u) /\ keys[u] # "none"
             /\ providers[u] # NoRow /\ providers[u].user_id = u
             /\ counts[u] # NoRow /\ counts[u].user_id = u
Left(u) ==
    /\ call[u].at \in {"insertUser", "storeKeys"} => Nothing(u)
    /\ call[u].at \in {"findProvider", "insertProvider", "createIndex",
                       "commitProvider"} => OfUser(u) = {}
    /\ call[u].at \in UserTransaction => u \notin banking
    /\ call[u].at \in {"readUser", "createAccount", "register", "cleanUp"} =>
            Rooted(u)
    /\ call[u].at = "cleanUpBanking" => Nothing(u)
LeftInv ==
    faults = 0 => \A u \in Request : Alone({"createUser"}, u) =>
        /\ FailedCreation(u) =>
                /\ Nothing(u) /\ u \notin banking
                /\ \A r \in Active : call[r].user # u
        /\ u \in Active /\ call[u].op = "createUser" => Left(u)

LEMMA RootedIsWhole ==
    ASSUME NEW u \in Id, Rooted(u)
    PROVE  LiveUser(u) /\ Whole(u)
<1>1. u \in OfUser(u) /\ u \in Counted(u)
  BY DEF Rooted, OfUser, Counted
<1> QED
  BY <1>1 DEF Rooted, Whole, LiveUser

(* Whose rows there are none of, nobody else makes some.                   *)
LEMMA NoneComes ==
    ASSUME TypeOK, HandlersInv, [Next]_vars, NEW u \in Id,
           \A r \in Active : call[r].user # u
    PROVE  /\ users'[u] = users[u] /\ keys'[u] = keys[u]
           /\ u \in banking' <=> u \in banking
           /\ OfUser(u) = {} => OfUser(u)' = {}
           /\ Counted(u) = {} => Counted(u)' = {}
<1>1. users'[u] = users[u] /\ keys'[u] = keys[u]
      /\ (u \in banking' <=> u \in banking)
  <2>1. users'[u] = users[u]
    BY UsersChange
  <2>2. keys'[u] = keys[u]
    BY KeysChange
  <2>3. u \in banking' <=> u \in banking
    BY BankingChange
  <2> QED
    BY <2>1, <2>2, <2>3
<1>2. ASSUME OfUser(u) = {}, NEW p \in Id, providers'[p] # NoRow,
             providers'[p].user_id = u
      PROVE  FALSE
  <2>1. CASE providers'[p] = providers[p]
    BY <1>2, <2>1 DEF OfUser
  <2>2. ASSUME NEW r \in Active,
               providers'[p] = NewProvider(r) \/ providers'[p] = Updated(r)
        PROVE  FALSE
    <3>1. /\ NewProvider(r).user_id = call[r].user
          /\ Updated(r).user_id = call[r].user
      BY DEF NewProvider, Updated
    <3> QED
      BY <1>2, <2>2, <3>1
  <2>3. ASSUME providers[p] # NoRow,
               providers'[p] = SoftlyDeleted(providers[p])
        PROVE  FALSE
    <3>1. providers[p] \in AuthProvider
      BY <2>3, RowType
    <3>2. SoftlyDeleted(providers[p]).user_id = providers[p].user_id
      BY <3>1 DEF SoftlyDeleted, AuthProvider
    <3> QED
      BY <1>2, <2>3, <3>2 DEF OfUser
  <2> QED
    BY <1>2, <2>1, <2>2, <2>3, ProvidersChange
       DEF ProviderChange, DeletesProvider, ProvidersOf, LiveProvider
<1>3. ASSUME Counted(u) = {}, NEW p \in Id, counts'[p] # NoRow,
             counts'[p].user_id = u
      PROVE  FALSE
  <2>1. CASE counts'[p] = counts[p]
    BY <1>3, <2>1 DEF Counted
  <2>2. ASSUME NEW r \in Active,
               counts'[p] = [user_id |-> call[r].user, deleted |-> FALSE]
        PROVE  FALSE
    BY <1>3, <2>2
  <2>3. ASSUME counts[p] # NoRow, counts'[p] = SoftlyDeleted(counts[p])
        PROVE  FALSE
    <3>1. counts[p] \in IndexCount
      BY <2>3, RowType
    <3>2. SoftlyDeleted(counts[p]).user_id = counts[p].user_id
      BY <3>1 DEF SoftlyDeleted, IndexCount
    <3> QED
      BY <1>3, <2>3, <3>2 DEF Counted
  <2> QED
    BY <1>3, <2>1, <2>2, <2>3, CountsChange DEF CountChange, LiveCount
<1> QED
  BY <1>1, <1>2, <1>3 DEF OfUser, Counted

(* Faults are only added up.                                               *)
LEMMA FaultsChange ==
    ASSUME TypeOK, HandlersInv, [Next]_vars
    PROVE  faults' = faults \/ faults' = faults + 1
<1>1. ASSUME NEW r \in Request, Opens(r)
      PROVE  faults' = faults
  BY <1>1 DEF Opens
<1>2. ASSUME NEW r \in Active, StepsOf(r)
      PROVE  faults' = faults \/ faults' = faults + 1
  BY <1>2
     DEF StepsOf, Waits, GivesUp, Registers, Stores, StoreKeys, Indexes,
         CreateIndex, Commits, CommitProvider, Activates, Activate, Opened,
         CreateAccount, CleansUser, CleansProvider, CleansBanking,
         CleanUpBanking, UpdatesPin, SavesDefault, DeletesProvider,
         DeletesUser, DeleteUserRows, Breaks
<1>3. ASSUME Crash \/ UNCHANGED vars
      PROVE  faults' = faults \/ faults' = faults + 1
  BY <1>3 DEF Crash, vars
<1> QED
  BY <1>1, <1>2, <1>3, NextIs DEF StepsOf

(* A failure that was alone has left nothing, whichever query told it.     *)
LEMMA StepFailed ==
    ASSUME AccountsInv, OverlapInv, LeftInv, HistoryStep,
           faults' = 0, NEW u \in Request, Alone({"createUser"}, u)',
           FailedCreation(u)'
    PROVE  /\ Nothing(u)' /\ u \notin banking'
           /\ \A r \in Active' : call'[r].user # u
<1>0. /\ TypeOK /\ HandlersInv /\ [Next]_vars /\ u \in Id
      /\ \A r \in Active : r \in Request /\ Fits(r)
      /\ Alone({"createUser"}, u)
      /\ call'[u] = [at |-> "done", op |-> "createUser", ok |-> FALSE]
  BY HistoryStepIs
     DEF AccountsInv, HandlersInv, Alone, Active, Id, FailedCreation
<1>1. /\ call'[u].at = "done" /\ call'[u].op = "createUser"
      /\ call'[u].ok = FALSE
      /\ "done" \notin Step /\ New.at = "new" /\ "new" \notin Step
      /\ CutOff.at = "cut off"
  BY <1>0 DEF Step, UserTransaction, New, CutOff
<1>2. faults = 0 /\ (faults' = faults \/ faults' = faults + 1)
      /\ \A r \in Active : ~ Breaks(r)
  <2>1. faults \in Nat
    BY <1>0, AccountsAssumption DEF TypeOK
  <2>2. faults' = faults \/ faults' = faults + 1
    BY <1>0, FaultsChange
  <2>3. \A r \in Active : Breaks(r) => faults' = faults + 1
    BY DEF Breaks
  <2> QED
    BY <2>1, <2>2, <2>3
<1>3. /\ FailedCreation(u) =>
                /\ Nothing(u) /\ u \notin banking
                /\ \A r \in Active : call[r].user # u
      /\ u \in Active /\ call[u].op = "createUser" => Left(u)
  BY <1>0, <1>2 DEF LeftInv
<1>4. CASE FailedCreation(u)
  <2>1. /\ Nothing(u) /\ u \notin banking /\ \A r \in Active : call[r].user # u
    BY <1>3, <1>4
  <2>2. Nothing(u)' /\ u \notin banking'
    BY <1>0, <2>1, NoneComes DEF Nothing
  <2>3. ASSUME NEW r \in Active'
        PROVE  call'[r].user # u
    <3>1. r # u
      BY <1>1, <2>3 DEF Active
    <3>2. CASE Opens(r)
      BY <1>0, <2>1, <3>1, <3>2, OpensFields DEF Nothing, LiveUser
    <3>3. CASE r \in Active /\ call'[r].user = call[r].user
      BY <2>1, <3>3
    <3> QED
      BY <1>0, <3>2, <3>3, ActiveCame
  <2> QED
    BY <2>2, <2>3
<1>5. CASE u \in Active
  <2>1. ASSUME NEW s, Moved(u, s)
        PROVE  s = "done"
    BY <1>0, <1>1, <1>5, <2>1, MovedFields
  <2>2. \A o : /\ ~ Ended(u, o, TRUE)
               /\ Ended(u, o, FALSE) => o = "createUser"
    <3>1. ASSUME NEW o, Ended(u, o, TRUE)
          PROVE  FALSE
      <4>1. call'[u].ok = TRUE
        BY <3>1, EndedFields
      <4> QED
        BY <1>1, <4>1
    <3>2. ASSUME NEW o, Ended(u, o, FALSE)
          PROVE  o = "createUser"
      <4>1. call'[u].op = o
        BY <3>2, EndedFields
      <4> QED
        BY <1>1, <4>1
    <3> QED
      BY <3>1, <3>2
  <2>3. ~ Opens(u) /\ call'[u] # call[u] /\ call'[u] # CutOff
    BY <1>1, <1>5 DEF Opens, Active
  <2>4. StepsOf(u)
    BY <1>0, <2>3, HandlerChange
  <2>5. /\ ~ Waits(u) /\ ~ Stores(u) /\ ~ Indexes(u) /\ ~ Commits(u)
        /\ ~ Activates(u) /\ ~ Opened(u) /\ ~ CleansUser(u)
    BY <2>1 DEF Waits, Stores, Indexes, Commits, Activates, Opened,
                CleansUser
  <2>6. /\ ~ Registers(u) /\ ~ UpdatesPin(u) /\ ~ SavesDefault(u)
        /\ ~ DeletesProvider(u) /\ ~ DeletesUser(u)
    BY <2>1, <2>2 DEF Registers, UpdatesPin, SavesDefault, DeletesProvider,
                      DeletesUser
  <2>7. ~ CleansProvider(u) /\ ~ Breaks(u)
    BY <1>2, <1>5, <2>2 DEF CleansProvider
  <2>8. GivesUp(u) \/ CleansBanking(u)
    BY <2>4, <2>5, <2>6, <2>7 DEF StepsOf
  <2>9. Ended(u, call[u].op, FALSE) /\ call[u].op = "createUser"
    BY <2>2, <2>8 DEF GivesUp, CleansBanking
  <2>10. Left(u) /\ call[u].user = u
    BY <1>0, <1>3, <1>5, <2>9 DEF Fits
  <2>11. \A r \in Active' : call'[r].user # u
    <3>1. ASSUME NEW r \in Active'
          PROVE  call'[r].user # u
      <4>1. r # u /\ r \in Request
        BY <1>1, <3>1 DEF Active
      <4>2. call'[r] = call[r]
        BY <2>9, <4>1, EndedFields
      <4>3. Undisturbed(u)
        BY <1>0, <2>9, <2>10 DEF Undisturbed, Alone
      <4>4. r \in Active
        BY <3>1, <4>1, <4>2 DEF Active
      <4> QED
        BY <1>5, <2>10, <4>1, <4>2, <4>3, <4>4, AloneIs
    <3> QED
      BY <3>1
  <2>12. CASE GivesUp(u)
    <3>1. UNCHANGED <<users, providers, keys, counts, banking>>
      BY <2>12 DEF GivesUp, tables
    <3>2. SameProvider(u) \subseteq OfUser(u)
      BY <2>10 DEF SameProvider, ProvidersOf, OfUser, LiveProvider
    <3>3. call[u].at = "insertUser"
      <4>1. call[u].at \in {"findProvider", "insertProvider"}
                => SameProvider(u) = {}
        BY <2>10, <3>2 DEF Left
      <4>2. call[u].at \in {"readUser", "cleanUp"} =>
                LiveUser(call[u].user) /\ Whole(call[u].user)
        BY <1>0, <2>10, RootedIsWhole DEF Left
      <4>3. call[u].at \notin {"updatePin", "saveDefault", "deleteProvider"}
        BY <1>0, <1>5, <2>9 DEF Fits
      <4> QED
        BY <2>9, <2>12, <4>1, <4>2, <4>3 DEF GivesUp
    <3>4. Nothing(u) /\ u \notin banking
      BY <2>10, <3>3 DEF Left, UserTransaction
    <3> QED
      BY <2>11, <3>1, <3>4 DEF Nothing, OfUser, Counted
  <2>13. CASE CleansBanking(u)
    <3>1. UNCHANGED <<users, providers, keys, counts>> /\ u \notin banking'
          /\ call[u].at = "cleanUpBanking"
      BY <2>10, <2>13 DEF CleansBanking, CleanUpBanking
    <3>2. Nothing(u)
      BY <2>10, <3>1 DEF Left
    <3> QED
      BY <2>11, <3>1, <3>2 DEF Nothing, OfUser, Counted
  <2> QED
    BY <2>8, <2>12, <2>13
<1>6. FailedCreation(u) \/ u \in Active
  <2>1. ASSUME Opens(u)
        PROVE  FALSE
    <3>1. \A s, o, v, p, k : ~ Begun(u, s, o, v, p, k)
      <4>1. ASSUME NEW s, NEW o, NEW v, NEW p, NEW k, Begun(u, s, o, v, p, k)
            PROVE  FALSE
        BY <1>1, <4>1 DEF Begun, InProgress
      <4> QED
        BY <4>1
    <3>2. \A o : Ended(u, o, FALSE) => o = "createUser"
      BY <1>1, EndedFields
    <3> QED
      BY <2>1, <3>1, <3>2 DEF Opens
  <2>2. call'[u] = call[u] => FailedCreation(u)
    BY <1>0 DEF FailedCreation
  <2>3. call'[u] # CutOff
    BY <1>1
  <2> QED
    BY <1>0, <2>1, <2>2, <2>3, HandlerChange
<1> QED
  BY <1>4, <1>5, <1>6

(* The handler of a sign-up that stands still writes nothing.              *)
LEMMA StandsStill ==
    ASSUME TypeOK, HandlersInv, [Next]_vars, NEW u \in Active, u \in Active',
           call'[u] = call[u]
    PROVE  /\ ~ Stores(u) /\ ~ Indexes(u) /\ ~ Commits(u) /\ ~ Activates(u)
           /\ ~ Opened(u) /\ ~ CleansUser(u) /\ ~ UpdatesPin(u)
           /\ ~ CleansProvider(u) /\ ~ CleansBanking(u) /\ ~ SavesDefault(u)
           /\ ~ DeletesProvider(u) /\ ~ DeletesUser(u)
<1>1. \A o, b : ~ Ended(u, o, b)
  <2>1. "done" \notin Step /\ call'[u].at \in Step
    BY DEF Step, UserTransaction, Active
  <2> QED
    BY <2>1, EndedFields
<1>2. ASSUME NEW s, Moved(u, s)
      PROVE  call[u].at = s
  BY <1>2, MovedFields
<1>3. ~ Stores(u) /\ ~ Indexes(u) /\ ~ Commits(u) /\ ~ Activates(u)
  BY <1>2 DEF Stores, StoreKeys, Indexes, CreateIndex, Commits,
              CommitProvider, Activates, Activate
<1>4. ~ Opened(u) /\ ~ CleansUser(u)
  BY <1>2 DEF Opened, CreateAccount, CleansUser
<1>5. ~ UpdatesPin(u)
  BY <1>1, <1>2 DEF UpdatesPin
<1>6. /\ ~ CleansProvider(u) /\ ~ CleansBanking(u) /\ ~ SavesDefault(u)
      /\ ~ DeletesProvider(u) /\ ~ DeletesUser(u)
  BY <1>1 DEF CleansProvider, CleansBanking, SavesDefault,
              DeletesProvider, DeletesUser
<1> QED
  BY <1>3, <1>4, <1>5, <1>6

(* Meanwhile handlers of other users leave the rows of its user alone.     *)
LEMMA OthersKeep ==
    ASSUME TypeOK, HandlersInv, OwnerInv, [Next]_vars, NEW u \in Active,
           u \in Active', call'[u] = call[u], call[u].op = "createUser",
           \A q \in Active \ {u} : call[q].user # u
    PROVE  /\ users'[u] = users[u] /\ keys'[u] = keys[u]
           /\ (u \in banking' <=> u \in banking)
           /\ OfUser(u) = {} => OfUser(u)' = {}
           /\ Counted(u) = {} => Counted(u)' = {}
           /\ providers'[u] = providers[u]
           /\ counts[u] # NoRow /\ counts[u].user_id = u =>
                    counts'[u] = counts[u]
<1>0. /\ u \in Id /\ call[u].user = u /\ call[u].provider = u
      /\ \A r \in Active : Fits(r)
  BY FieldType DEF HandlersInv, Fits
<1>1. /\ ~ Stores(u) /\ ~ Indexes(u) /\ ~ Commits(u) /\ ~ Activates(u)
      /\ ~ Opened(u) /\ ~ CleansUser(u) /\ ~ UpdatesPin(u)
      /\ ~ CleansProvider(u) /\ ~ CleansBanking(u) /\ ~ SavesDefault(u)
      /\ ~ DeletesProvider(u) /\ ~ DeletesUser(u)
  BY StandsStill
<1>2. users'[u] = users[u]
  BY <1>0, <1>1, UsersChange
<1>3. keys'[u] = keys[u]
  BY <1>0, <1>1, KeysChange
<1>4. u \in banking' <=> u \in banking
  BY <1>0, <1>1, BankingChange
<1>5. /\ \A p \in Id : ~ ProviderChange(u, p)
      /\ \A p \in Id : ~ CountChange(u, p)
  BY <1>1 DEF ProviderChange, CountChange
<1>6. ASSUME OfUser(u) = {}, NEW p \in Id, providers'[p] # NoRow,
             providers'[p].user_id = u
      PROVE  FALSE
  <2>1. CASE providers'[p] = providers[p]
    BY <1>6, <2>1 DEF OfUser
  <2>2. ASSUME NEW r \in Active \ {u},
               providers'[p] = NewProvider(r) \/ providers'[p] = Updated(r)
        PROVE  FALSE
    <3>1. /\ NewProvider(r).user_id = call[r].user
          /\ Updated(r).user_id = call[r].user
      BY DEF NewProvider, Updated
    <3> QED
      BY <1>6, <2>2, <3>1
  <2>3. ASSUME providers[p] # NoRow,
               providers'[p] = SoftlyDeleted(providers[p])
        PROVE  FALSE
    <3>1. providers[p] \in AuthProvider
      BY <2>3, RowType
    <3>2. SoftlyDeleted(providers[p]).user_id = providers[p].user_id
      BY <3>1 DEF SoftlyDeleted, AuthProvider
    <3> QED
      BY <1>6, <2>3, <3>2 DEF OfUser
  <2>4. SUFFICES ASSUME NEW r \in Active \ {u}, ProviderChange(r, p)
                 PROVE  FALSE
    BY <1>5, <2>1, ProvidersChange
  <2>5. \/ providers[p] # NoRow /\ providers'[p] = SoftlyDeleted(providers[p])
        \/ providers'[p] = NoRow
        \/ providers'[p] = NewProvider(r) \/ providers'[p] = Updated(r)
    <3>1. ASSUME DeletesProvider(r), p = call[r].provider
          PROVE  providers[p] # NoRow
      BY <3>1 DEF DeletesProvider, LiveProvider
    <3>2. ASSUME p \in ProvidersOf(call[r].user)
          PROVE  providers[p] # NoRow
      BY <3>2 DEF ProvidersOf, LiveProvider
    <3> QED
      BY <2>4, <3>1, <3>2 DEF ProviderChange
  <2> QED
    BY <1>6, <2>2, <2>3, <2>5
<1>7. ASSUME Counted(u) = {}, NEW p \in Id, counts'[p] # NoRow,
             counts'[p].user_id = u
      PROVE  FALSE
  <2>1. CASE counts'[p] = counts[p]
    BY <1>7, <2>1 DEF Counted
  <2>2. ASSUME NEW r \in Active \ {u},
               counts'[p] = [user_id |-> call[r].user, deleted |-> FALSE]
        PROVE  FALSE
    BY <1>7, <2>2
  <2>3. ASSUME counts[p] # NoRow, counts'[p] = SoftlyDeleted(counts[p])
        PROVE  FALSE
    <3>1. counts[p] \in IndexCount
      BY <2>3, RowType
    <3>2. SoftlyDeleted(counts[p]).user_id = counts[p].user_id
      BY <3>1 DEF SoftlyDeleted, IndexCount
    <3> QED
      BY <1>7, <2>3, <3>2 DEF Counted
  <2>4. SUFFICES ASSUME NEW r \in Active \ {u}, CountChange(r, p)
                 PROVE  FALSE
    BY <1>5, <2>1, CountsChange
  <2>5. \/ counts[p] # NoRow /\ counts'[p] = SoftlyDeleted(counts[p])
        \/ counts'[p] = NoRow
        \/ counts'[p] = [user_id |-> call[r].user, deleted |-> FALSE]
    BY <2>4 DEF CountChange, LiveCount
  <2> QED
    BY <1>7, <2>2, <2>3, <2>5
<1>8. providers'[u] = providers[u]
  <2>1. \A q \in Active \ {u} : ~ ProviderChange(q, u)
    <3>1. ASSUME NEW q \in Active \ {u}
          PROVE  ~ ProviderChange(q, call[u].provider)
      BY <1>0, <3>1, OthersApart
    <3> QED
      BY <1>0, <3>1
  <2> QED
    BY <1>0, <1>5, <2>1, ProvidersChange
<1>9. ASSUME counts[u] # NoRow, counts[u].user_id = u
      PROVE  counts'[u] = counts[u]
  <2>1. ASSUME NEW q \in Active \ {u}, CountChange(q, u)
        PROVE  FALSE
    <3>1. u \notin Counted(call[q].user)
      BY <1>9 DEF Counted
    <3>2. call[q].op # "deleteUser" => call[q].provider # u
      BY <1>0 DEF OwnerInv
    <3>3. /\ Indexes(q) => call[q].op # "deleteUser"
          /\ CleansProvider(q) => call[q].op # "deleteUser"
      BY <1>0 DEF Indexes, CreateIndex, CleansProvider, Fits,
                  ProviderTransaction
    <3> QED
      BY <1>9, <2>1, <3>1, <3>2, <3>3 DEF CountChange
  <2> QED
    BY <1>0, <1>5, <2>1, CountsChange
<1> QED
  BY <1>2, <1>3, <1>4, <1>6, <1>7, <1>8, <1>9 DEF OfUser, Counted

(* A sign-up nobody overlaps and no fault hits goes its way.               *)
LEMMA StepLeft ==
    ASSUME AccountsInv, OverlapInv, OwnerInv, ActivatingInv, LeftInv,
           HistoryStep
    PROVE  LeftInv'
<1> SUFFICES ASSUME faults' = 0, NEW u \in Request, Alone({"createUser"}, u)'
             PROVE  /\ FailedCreation(u)' =>
                            /\ Nothing(u)' /\ u \notin banking'
                            /\ \A r \in Active' : call'[r].user # u
                    /\ u \in Active' /\ call'[u].op = "createUser" => Left(u)'
  BY DEF LeftInv
<1>0. /\ TypeOK /\ HandlersInv /\ FreshInv /\ SigningInv /\ [Next]_vars
      /\ \A r \in Active : r \in Request /\ Fits(r)
      /\ Alone({"createUser"}, u)
  BY HistoryStepIs DEF AccountsInv, HandlersInv, Alone, Active
<1>1. faults = 0 /\ \A r \in Active : ~ Breaks(r)
  <2>1. faults \in Nat
    BY <1>0, AccountsAssumption DEF TypeOK
  <2>2. \A r \in Active : Breaks(r) => faults' = faults + 1
    BY DEF Breaks
  <2> QED
    BY <1>0, <2>1, <2>2, FaultsChange
<1>2. ASSUME u \in Active', call'[u].op = "createUser"
      PROVE  Left(u)'
  <2>1. CASE Opens(u)
    <3>1. UNCHANGED <<users, providers, keys, counts, banking>> /\ Fresh(u)
          /\ call'[u].at = "insertUser"
      BY <1>0, <1>2, <2>1, OpensFields, ActiveCame DEF FreshInv, tables
    <3>2. Nothing(u) /\ u \notin banking
      BY <3>1 DEF Fresh, Nothing, OfUser, Counted
    <3>3. Nothing(u)'
      BY <3>1, <3>2 DEF Nothing, OfUser, Counted
    <3> QED
      BY <3>1, <3>2, <3>3 DEF Left
  <2>2. CASE u \in Active /\ call'[u].op = call[u].op
    <3>0. /\ call[u].op = "createUser" /\ Fits(u)
          /\ call[u].user = u /\ call[u].provider = u /\ u \in Id
      BY <1>0, <1>2, <2>2, FieldType DEF Fits
    <3>a. \A q \in Active \ {u} : call[q].user # u
      <4>1. Undisturbed(u)
        BY <1>0, <3>0 DEF Undisturbed, Alone
      <4> QED
        BY <2>2, <3>0, <4>1, AloneIs
    <3>b. Left(u)
      BY <1>0, <1>1, <2>2, <3>0 DEF LeftInv
    <3>2. ASSUME NEW s, Moved(u, s)
          PROVE  call'[u].at = s
      BY <1>0, <2>2, <3>2, MovedFields
    <3>3. ASSUME UNCHANGED <<users, providers, keys, counts>>
          PROVE  /\ Nothing(u) => Nothing(u)'
                 /\ OfUser(u) = {} => OfUser(u)' = {}
                 /\ Rooted(u) => Rooted(u)'
      BY <3>3 DEF Nothing, OfUser, Counted, LiveUser, Rooted
    <3>5. CASE call'[u] = call[u]
      <4>1. /\ users'[u] = users[u] /\ keys'[u] = keys[u]
            /\ (u \in banking' <=> u \in banking)
            /\ OfUser(u) = {} => OfUser(u)' = {}
            /\ Counted(u) = {} => Counted(u)' = {}
            /\ providers'[u] = providers[u]
            /\ counts[u] # NoRow /\ counts[u].user_id = u =>
                    counts'[u] = counts[u]
        BY <1>0, <1>2, <2>2, <3>0, <3>a, <3>5, OthersKeep
      <4>2. Nothing(u) => Nothing(u)'
        BY <4>1 DEF Nothing
      <4>3. Rooted(u) => Rooted(u)'
        BY <4>1 DEF Rooted, LiveUser
      <4> QED
        BY <3>b, <3>5, <4>1, <4>2, <4>3 DEF Left
    <3>6. CASE Waits(u)
      <4>1. UNCHANGED <<users, providers, keys, counts, banking>>
        BY <3>6 DEF Waits, tables
      <4>2. /\ Nothing(u) => OfUser(u) = {}
            /\ {"insertUser", "findProvider", "insertProvider"}
                    \subseteq UserTransaction
            /\ "createAccount" \notin UserTransaction
            /\ "cleanUp" \notin UserTransaction
        BY DEF Nothing, UserTransaction
      <4> QED
        BY <3>b, <3>2, <3>3, <3>6, <4>1, <4>2 DEF Waits, Left
    <3>7. CASE Stores(u)
      <4>1. /\ UNCHANGED <<users, providers, counts, banking>>
            /\ call[u].at = "storeKeys" /\ call'[u].at = "findProvider"
        BY <3>2, <3>7 DEF Stores, StoreKeys
      <4>2. OfUser(u)' = {} /\ u \notin banking'
        BY <3>b, <4>1 DEF Left, Nothing, OfUser, UserTransaction
      <4> QED
        BY <4>1, <4>2 DEF Left
    <3>8. CASE Indexes(u)
      <4>1. /\ UNCHANGED <<users, providers, keys, banking>>
            /\ call[u].at = "createIndex" /\ call'[u].at = "commitProvider"
        BY <3>2, <3>8 DEF Indexes, CreateIndex
      <4>2. OfUser(u)' = {} /\ u \notin banking'
        BY <3>b, <4>1 DEF Left, OfUser, UserTransaction
      <4> QED
        BY <4>1, <4>2 DEF Left
    <3>9. CASE Commits(u)
      <4>1. /\ UNCHANGED <<users, keys, counts, banking>>
            /\ call[u].at = "commitProvider" /\ call'[u].at = "activate"
        BY <3>0, <3>2, <3>9 DEF Commits, CommitProvider
      <4>2. u \notin banking'
        BY <3>b, <4>1 DEF Left, UserTransaction
      <4> QED
        BY <4>1, <4>2 DEF Left
    <3>10. CASE Activates(u)
      <4>1. /\ UNCHANGED <<providers, keys, counts, banking>>
            /\ call[u].at = "activate" /\ call'[u].at = "readUser"
            /\ users'[u] = SavedUser(u, FALSE)
        BY <1>0, <3>0, <3>2, <3>10
           DEF Activates, Activate, SavedUser, TypeOK
      <4>2. Signing(u) /\ u \in Active
        BY <2>2, <3>0, <4>1 DEF Signing, UserTransaction
      <4>3. keys[u] = "live" /\ Index(u) /\ Owned(u, u)
        BY <1>0, <4>1, <4>2 DEF SigningInv, ActivatingInv, Active
      <4>4. SavedUser(u, FALSE) \in User /\ ~ SavedUser(u, FALSE).deleted
        BY <1>0, <4>2, FieldType DEF SavedUser
      <4>5. LiveUser(u)'
        <5>1. users'[u] # NoRow
          BY <4>1, <4>4, AccountsAssumption
        <5> QED
          BY <4>1, <4>4, <5>1 DEF LiveUser
      <4>6. Rooted(u)'
        BY <4>1, <4>3, <4>5 DEF Rooted, Owned, LiveProvider, Index, LiveCount
      <4>7. "readUser" \notin UserTransaction
        BY DEF UserTransaction
      <4> QED
        BY <4>1, <4>6, <4>7 DEF Left
    <3>11. CASE Opened(u)
      <4>1. /\ UNCHANGED <<users, providers, keys, counts>>
            /\ call[u].at = "createAccount"
            /\ call'[u].at \in {"register", "cleanUp"}
        BY <3>2, <3>11 DEF Opened, CreateAccount
      <4>2. {"register", "cleanUp"} \cap UserTransaction = {}
        BY DEF UserTransaction
      <4> QED
        BY <3>b, <3>3, <4>1, <4>2 DEF Left
    <3>12. CASE CleansUser(u)
      <4>1. /\ users' = [users EXCEPT ![u] = NoRow]
            /\ keys' = [keys EXCEPT ![u] = "none"]
            /\ \A p \in Id : /\ p \in OfUser(u) => providers'[p] = NoRow
                             /\ p \notin OfUser(u) =>
                                    providers'[p] = providers[p]
            /\ \A p \in Id : /\ p \in Counted(u) => counts'[p] = NoRow
                             /\ p \notin Counted(u) =>
                                    counts'[p] = counts[p]
        BY <3>0, <3>12 DEF CleansUser
      <4>2. call'[u].at = "cleanUpBanking"
        BY <3>2, <3>12 DEF CleansUser
      <4>3. users'[u] = NoRow /\ keys'[u] = "none"
        BY <1>0, <3>0, <4>1 DEF TypeOK
      <4>4. OfUser(u)' = {} /\ Counted(u)' = {}
        BY <4>1 DEF OfUser, Counted
      <4>5. "cleanUpBanking" \notin UserTransaction
        BY DEF UserTransaction
      <4> QED
        BY <4>2, <4>3, <4>4, <4>5 DEF Left, Nothing
    <3>13. ~ UpdatesPin(u)
      BY <3>0 DEF UpdatesPin, Fits
    <3> QED
      BY <1>0, <1>1, <1>2, <2>2, <3>5, <3>6, <3>7, <3>8, <3>9, <3>10, <3>11,
         <3>12, <3>13, GoesOn
  <2> QED
    BY <1>0, <1>2, <2>1, <2>2, ActiveCame
<1> QED
  BY <1>2, StepFailed

-----------------------------------------------------------------------------
(* Everything together.                                                    *)
HistoryInv ==
    /\ AccountsInv /\ OverlapInv /\ OwnerInv /\ ActivatingInv /\ AloneInv
    /\ DefaultInv /\ DeletionIsComplete /\ LeftInv
LEMMA HistoryInductive ==
    /\ HistoryInit => HistoryInv
    /\ HistoryInv /\ HistoryStep => HistoryInv'
<1>1. ASSUME HistoryInit
      PROVE  HistoryInv
  <2>1. AccountsInv
    BY <1>1, AccountsInductive DEF HistoryInit
  <2>2. /\ \A r \in Request : call[r].at = "new"
        /\ \A r \in Request : ~ FailedCreation(r)
    <3>1. New.at = "new" /\ \A r \in Request : call[r] = New
      BY <1>1 DEF New, HistoryInit, Init
    <3>2. \A r \in Request : FailedCreation(r) => call[r].at = "done"
      BY DEF FailedCreation
    <3> QED
      BY <3>1, <3>2
  <2>3. Active = {}
    BY <2>2 DEF Active, Step, UserTransaction
  <2>4. \A u \in Id : ~ LiveUser(u) /\ keys[u] = "none"
    BY <1>1 DEF HistoryInit, Init, LiveUser
  <2> QED
    BY <2>1, <2>2, <2>3, <2>4
       DEF HistoryInv, OverlapInv, OwnerInv, ActivatingInv, AloneInv,
           DefaultInv, DeletionIsComplete, LeftInv
<1>2. ASSUME HistoryInv, HistoryStep
      PROVE  HistoryInv'
  <2>0. /\ AccountsInv /\ OverlapInv /\ OwnerInv /\ ActivatingInv /\ AloneInv
        /\ DefaultInv /\ DeletionIsComplete /\ LeftInv /\ [Next]_vars
        /\ TypeOK /\ HandlersInv
    BY <1>2, HistoryStepIs DEF HistoryInv, AccountsInv
  <2>1. AccountsInv'
    BY <2>0, AccountsInductive
  <2>2. OverlapInv' /\ OwnerInv'
    BY <1>2, <2>0, StepOverlap, StepOwner
  <2>3. ActivatingInv'
    BY <2>0, <2>1, StepActivating
  <2>4. AloneInv' /\ DeletionIsComplete'
    BY <1>2, <2>0, StepAlone, StepDeletion
  <2>5. DefaultInv' /\ LeftInv'
    BY <1>2, <2>0, StepDefault, StepLeft
  <2> QED
    BY <2>1, <2>2, <2>3, <2>4, <2>5 DEF HistoryInv
<1> QED
  BY <1>1, <1>2

(* As long as no set-default was overlapped, the default provider of a     *)
(* live user is live.                                                      *)
THEOREM DefaultCorrect == HistorySpec => []DefaultProviderLives
<1>1. HistoryInv => DefaultProviderLives
  BY DEF HistoryInv, DefaultInv, DefaultProviderLives, Owned
<1> QED
  BY <1>1, HistoryInductive, PTL DEF HistorySpec, HistoryStep

(* As long as no set-default, set-PIN or insertion of a provider was       *)
(* overlapped, a deleted user and its providers stay deleted.              *)
THEOREM DeletionCorrect == HistorySpec => []DeletionIsComplete
<1>1. HistoryInv => DeletionIsComplete
  BY DEF HistoryInv
<1> QED
  BY <1>1, HistoryInductive, PTL DEF HistorySpec, HistoryStep

(* As long as no sign-up was overlapped and no query failed, a sign-up     *)
(* that was answered with an error has left no row behind.                 *)
THEOREM FailureCorrect == HistorySpec => []FailureLeavesNothing
<1>1. HistoryInv => FailureLeavesNothing
  BY DEF HistoryInv, LeftInv, FailureLeavesNothing, Nothing, OfUser, Counted,
         Id
<1> QED
  BY <1>1, HistoryInductive, PTL DEF HistorySpec, HistoryStep

(* A row becomes live by its own creation only, as long as no set-default, *)
(* or for a provider no set-PIN, of its user was overlapped.               *)
LEMMA StepLives ==
    ASSUME HistoryInv, HistoryStep
    PROVE  LivesByCreation
<1> SUFFICES ASSUME NEW i \in Id
             PROVE  /\ Alone({"setDefault"}, i) /\ LiveUser(i)' =>
                            LiveUser(i) \/ call[i].at = "activate"
                    /\ LiveProvider(i)' /\ Alone({"setPin"}, providers'[i].user_id)
                            => LiveProvider(i) \/ call[i].at = "commitProvider"
  BY DEF LivesByCreation
<1>0. /\ TypeOK /\ HandlersInv /\ [Next]_vars /\ AloneInv
      /\ \A r \in Active : r \in Request /\ Fits(r)
  BY HistoryStepIs DEF HistoryInv, AccountsInv, HandlersInv, Alone, Active
<1>1. ASSUME LiveUser(i)', Alone({"setDefault"}, i)
      PROVE  LiveUser(i) \/ call[i].at = "activate"
  <2>1. CASE users'[i] = users[i]
    BY <1>1, <2>1 DEF LiveUser
  <2>2. ASSUME NEW r \in Active, call[r].user = i, Activates(r)
        PROVE  call[i].at = "activate"
    <3>1. call[r].at = "activate"
      BY <2>2 DEF Activates, Activate
    <3> QED
      BY <1>0, <2>2, <3>1 DEF Fits
  <2>3. ASSUME NEW r \in Active, call[r].user = i, SavesDefault(r)
        PROVE  LiveUser(i)
    <3>1. call[r].op = "setDefault"
      BY <1>0, <2>3 DEF SavesDefault, Fits
    <3>2. Undisturbed(r)
      BY <1>1, <2>3, <3>1 DEF Undisturbed, Alone
    <3>3. LiveUser(call[r].user)
      BY <3>1, <3>2 DEF HistoryInv, AloneInv
    <3> QED
      BY <2>3, <3>3
  <2>4. \A r \in Active : users'[i] # SavedUser(r, TRUE)
    <3>1. \A r \in Active : SavedUser(r, TRUE).deleted
      BY DEF SavedUser
    <3> QED
      BY <1>1, <3>1 DEF LiveUser
  <2>5. users'[i] # NoRow
    BY <1>1 DEF LiveUser
  <2> QED
    BY <1>0, <2>1, <2>2, <2>3, <2>4, <2>5, UsersChange
<1>2. ASSUME LiveProvider(i)', Alone({"setPin"}, providers'[i].user_id)
      PROVE  LiveProvider(i) \/ call[i].at = "commitProvider"
  <2>1. CASE providers'[i] = providers[i]
    BY <1>2, <2>1 DEF LiveProvider
  <2>2. ASSUME NEW r \in Active, i = call[r].provider, Commits(r)
        PROVE  call[i].at = "commitProvider"
    <3>1. call[r].at = "commitProvider" /\ call[r].at \in ProviderTransaction
      BY <2>2 DEF Commits, CommitProvider, ProviderTransaction
    <3> QED
      BY <1>0, <2>2, <3>1 DEF Fits
  <2>3. ASSUME NEW r \in Active, i = call[r].provider, UpdatesPin(r),
               providers'[i] = NewProvider(r) \/ providers'[i] = Updated(r)
        PROVE  LiveProvider(i)
    <3>1. call[r].op = "setPin" /\ call[r].at = "updatePin"
      BY <1>0, <2>3 DEF UpdatesPin, Fits
    <3>2. providers'[i].user_id = call[r].user
      BY <2>3 DEF NewProvider, Updated
    <3>3. Undisturbed(r)
      BY <1>2, <3>1, <3>2 DEF Undisturbed, Alone
    <3>4. LiveProvider(call[r].provider)
      BY <3>1, <3>3 DEF HistoryInv, AloneInv
    <3> QED
      BY <2>3, <3>4
  <2>4. providers'[i] # NoRow
    BY <1>2 DEF LiveProvider
  <2>5. providers[i] # NoRow => providers'[i] # SoftlyDeleted(providers[i])
    <3>1. ASSUME providers[i] # NoRow
          PROVE  SoftlyDeleted(providers[i]).deleted
      BY <1>0, <3>1, RowType DEF SoftlyDeleted, AuthProvider
    <3> QED
      BY <1>2, <3>1 DEF LiveProvider
  <2> QED
    BY <1>0, <2>1, <2>2, <2>3, <2>4, <2>5, ProvidersChange
       DEF ProviderChange, DeletesProvider, ProvidersOf, LiveProvider
<1> QED
  BY <1>1, <1>2

(* What was deleted does not come back.                                    *)
THEOREM NothingComesBack == HistorySpec => NothingResurrected
<1>1. HistoryInv /\ HistoryStep => LivesByCreation \/ UNCHANGED vars
  BY StepLives
<1> QED
  BY <1>1, HistoryInductive, PTL
     DEF HistorySpec, HistoryStep, NothingResurrected

(* A PIN that was updated is not cleaned up, as long as no set-PIN was     *)
(* overlapped.                                                             *)
LEMMA StepPins ==
    ASSUME HistoryInv, HistoryStep
    PROVE  KeepsUpdatedPins
<1> SUFFICES ASSUME NEW p \in Id, LiveProvider(p), providers[p].updated,
                    Alone({"setPin"}, providers[p].user_id),
                    Created(providers[p].user_id), providers'[p] = NoRow
             PROVE  FALSE
  BY DEF KeepsUpdatedPins
<1>0. /\ TypeOK /\ HandlersInv /\ MakersInv /\ [Next]_vars /\ AloneInv
      /\ OwnerInv
      /\ \A r \in Active : r \in Request /\ Fits(r) /\ call[r].at \in Step
  BY HistoryStepIs DEF HistoryInv, AccountsInv, HandlersInv, Alone, Active
<1>1. ASSUME NEW r \in Active, CleansUser(r), p \in OfUser(call[r].user)
      PROVE  FALSE
  <2>1. call[r].user = r /\ providers[p].user_id = r
    BY <1>0, <1>1 DEF CleansUser, Fits, OfUser
  <2>2. call[r].at = "done"
    BY <2>1 DEF Created
  <2> QED
    BY <1>1, <2>2 DEF CleansUser
<1>2. ASSUME NEW r \in Active, CleansProvider(r), p = call[r].provider
      PROVE  FALSE
  <2>1. call[r].at = "cleanUp" /\ call[r].op \in {"createProvider", "setPin"}
    BY <1>0, <1>2 DEF CleansProvider, Fits
  <2>2. CASE call[r].op = "createProvider"
    <3>1. p = r /\ Maker(r)
      BY <1>0, <1>2, <2>1, <2>2 DEF Fits, Maker
    <3> QED
      BY <1>0, <3>1 DEF MakersInv, LiveProvider
  <2>3. CASE call[r].op = "setPin"
    <3>1. providers[p].user_id = call[r].user
      BY <1>0, <1>2, <2>3 DEF OwnerInv, LiveProvider
    <3>2. Undisturbed(r)
      BY <2>3, <3>1 DEF Undisturbed, Alone
    <3> QED
      BY <1>0, <1>2, <2>1, <2>3, <3>2 DEF AloneInv, LiveProvider
  <2> QED
    BY <2>1, <2>2, <2>3
<1>3. /\ providers[p] \in AuthProvider /\ NoRow \notin AuthProvider
      /\ SoftlyDeleted(providers[p]) \in AuthProvider
      /\ \A r \in Active : /\ NewProvider(r) \in AuthProvider
                           /\ Updated(r) \in AuthProvider
  <2>1. providers[p] \in AuthProvider /\ NoRow \notin AuthProvider
    BY <1>0, RowType DEF LiveProvider
  <2> QED
    BY <1>0, <2>1, FieldType DEF SoftlyDeleted, AuthProvider
<1> QED
  BY <1>0, <1>1, <1>2, <1>3, ProvidersChange DEF ProviderChange

(* The PIN whose update was acknowledged stays.                            *)
THEOREM PinsCorrect == HistorySpec => UpdatedPinStays
<1>1. HistoryInv /\ HistoryStep => KeepsUpdatedPins \/ UNCHANGED vars
  BY StepPins
<1> QED
  BY <1>1, HistoryInductive, PTL DEF HistorySpec, HistoryStep, UpdatedPinStays


-----------------------------------------------------------------------------
(* Handlers hold two connections each, at most.                            *)
LEMMA PoolSuffices ==
    ASSUME PoolSize > 2 * Cardinality(Active)
    PROVE  ConnectionFree
<1> DEFINE signing == {r \in Active : /\ call[r].op = "createUser"
                                      /\ call[r].at \in UserTransaction}
           inserting == {r \in Active : call[r].at \in ProviderTransaction}
<1>1. IsFiniteSet(Active)
  <2>1. IsFiniteSet(Request)
    BY AccountsAssumption, FS_Interval DEF Request
  <2>2. Active \subseteq Request
    BY DEF Active
  <2> QED
    BY <2>1, <2>2, FS_Subset
<1>2. signing \subseteq Active /\ inserting \subseteq Active
  OBVIOUS
<1>3. /\ IsFiniteSet(signing) /\ Cardinality(signing) <= Cardinality(Active)
      /\ IsFiniteSet(inserting) /\ Cardinality(inserting) <= Cardinality(Active)
  BY <1>1, <1>2, FS_Subset
<1>4. /\ Cardinality(Active) \in Nat /\ Cardinality(signing) \in Nat
      /\ Cardinality(inserting) \in Nat
  BY <1>1, <1>3, FS_CardinalityType
<1>5. InUse = Cardinality(signing) + Cardinality(inserting)
  BY DEF InUse
<1> HIDE DEF signing, inserting
<1> QED
  BY <1>3, <1>4, <1>5, AccountsAssumption DEF ConnectionFree

(* Who holds the row of a provider is past waiting for rows; who holds a   *)
(* name waits for a provider's row at most.                                *)
LEMMA ProviderHoldersGoOn ==
    ASSUME ConnectionFree, NEW r, NEW q \in ProviderHolders(r)
    PROVE  Ready(q)
<1>1. call[q].at \in {"createIndex", "commitProvider"}
  BY DEF ProviderHolders, ProviderTransaction
<1>2. WaitsFor(q) = {}
  BY <1>1 DEF WaitsFor
<1> QED
  BY <1>2 DEF Ready

LEMMA NameHoldersWait ==
    ASSUME NEW r, NEW q \in NameHolders(r)
    PROVE  WaitsFor(q) \subseteq ProviderHolders(q)
<1>1. call[q].at \notin {"insertUser", "saveDefault"}
  BY DEF NameHolders, UserTransaction
<1> QED
  BY <1>1 DEF WaitsFor

(* As long as the pool has more than two connections for each request in   *)
(* progress, every chain of handlers that wait for each other ends, after  *)
(* two at most, with one that goes on: for any number of requests.         *)
THEOREM NobodyStuck == HistorySpec => []NobodyIsStuck
<1>1. NobodyIsStuck
  <2> SUFFICES ASSUME PoolSize > 2 * Cardinality(Active), NEW r \in Active,
                      ~ Ready(r)
               PROVE  \E q \in WaitsFor(r) :
                        Ready(q) \/ \E s \in WaitsFor(q) : Ready(s)
    BY DEF NobodyIsStuck
  <2>1. ConnectionFree
    BY PoolSuffices
  <2>2. PICK q \in WaitsFor(r) : TRUE
    BY <2>1 DEF Ready
  <2>3. q \in ProviderHolders(r) \/ q \in NameHolders(r)
    BY <2>2 DEF WaitsFor
  <2>4. CASE q \in ProviderHolders(r)
    BY <2>1, <2>2, <2>4, ProviderHoldersGoOn
  <2>5. CASE q \in NameHolders(r) /\ WaitsFor(q) = {}
    BY <2>1, <2>2, <2>5 DEF Ready
  <2>6. CASE q \in NameHolders(r) /\ WaitsFor(q) # {}
    <3>1. PICK s \in WaitsFor(q) : s \in ProviderHolders(q)
      BY <2>6, NameHoldersWait
    <3>2. Ready(s)
      BY <2>1, <3>1, ProviderHoldersGoOn
    <3> QED
      BY <2>2, <3>1, <3>2
  <2> QED
    BY <2>3, <2>4, <2>5, <2>6
<1> QED
  BY <1>1, PTL

=============================================================================
