----------------------- MODULE InternalService_proofs -----------------------
(***************************************************************************)
(* Proofs about the transactions of the internal routes.  The invariants   *)
(* rest on each other: that no wallet is overdrawn on the nonces of its    *)
(* pool having no gap and no repetition, those on what a running send may  *)
(* hold, and both the blacklisting and the funding of a registration on    *)
(* which sends a handler still waits for.                                  *)
(***************************************************************************)
EXTENDS InternalService, FiniteSetTheorems, TLAPS

Handler == {New, CutOff} \union InProgress \union Done

(* The sends of a request that are running.                                *)
Running(r) == {s \in sends : s.by = r}

(* A handler at an await is in progress.                                   *)
LEMMA ActiveType ==
    ASSUME TypeOK, NEW r \in Active
    PROVE  call[r] \in InProgress
<1>1. New.at = "new" /\ CutOff.at = "cut off"
  BY DEF New, CutOff
<1>2. r \in Request /\ call[r].at \in {"sending", "funding"}
  BY DEF Active
<1>3. call[r] \notin {New, CutOff} \union Done
  BY <1>1, <1>2 DEF Done
<1> QED
  BY <1>2, <1>3 DEF TypeOK

(* One that has answered is done.                                          *)
LEMMA DoneType ==
    ASSUME TypeOK, NEW r \in Request, call[r].at = "done"
    PROVE  call[r] \in Done
<1>1. New.at = "new" /\ CutOff.at = "cut off"
  BY DEF New, CutOff
<1>2. call[r] \notin {New, CutOff} \union InProgress
  BY <1>1 DEF InProgress
<1> QED
  BY <1>2 DEF TypeOK

(* A request that has not come is not at an await.                         *)
LEMMA NewIdle ==
    ASSUME NEW r, call[r] = New
    PROVE  r \notin Active /\ call[r].at = "new"
BY DEF Active, New

(* The fields of what a transaction calls.                                 *)
LEMMA MethodType ==
    ASSUME NEW m \in Method
    PROVE  /\ m.method \in {"blacklistUser", "registerUser", "updateOtpWindow",
                            "resetManyOtps", "grantRole", "transfer"}
           /\ m.method \in {"blacklistUser", "registerUser",
                            "updateOtpWindow"} => m.user \in Provider
           /\ m.method = "resetManyOtps" => m.users \in SUBSET Provider
           /\ m.method = "grantRole" =>
                m.role \in Chain!Role /\ m.account \in Wallet
           /\ m.method = "transfer" => m.to \in Wallet /\ m = Transfer(m.to)
<1>1. CASE m \in [method : {"blacklistUser", "registerUser",
                            "updateOtpWindow"}, user : Provider]
  BY <1>1
<1>2. CASE m \in [method : {"resetManyOtps"}, users : SUBSET Provider]
  BY <1>2
<1>3. CASE m \in [method : {"grantRole"}, role : Chain!Role,
                  account : Wallet]
  BY <1>3
<1>4. CASE m \in [method : {"transfer"}, to : Wallet]
  BY <1>4 DEF Transfer
<1> QED
  BY <1>1, <1>2, <1>3, <1>4 DEF Method

(* The calls the handlers make are such.                                   *)
LEMMA CallsType ==
    /\ \A w \in Wallet : Transfer(w) \in Method
    /\ \A p \in Provider, m \in {"blacklistUser", "registerUser",
                                 "updateOtpWindow"} :
            [method |-> m, user |-> p] \in Method
    /\ \A m \in {"blacklistUser", "registerUser", "updateOtpWindow"},
          users \in SUBSET Provider : Calls(m, users) \subseteq Method
    /\ \A users \in SUBSET Provider :
            [method |-> "resetManyOtps", users |-> users] \in Method
    /\ \A role \in Chain!Role, w \in Wallet :
            [method |-> "grantRole", role |-> role, account |-> w] \in Method
BY DEF Transfer, Calls, Method

(* The fields of a running send.                                           *)
LEMMA SendType ==
    ASSUME NEW s \in Sending
    PROVE  /\ s.by \in Request /\ s.from \in Wallet /\ s.does \in Method
           /\ s.at \in {"populate", "broadcast"}
           /\ s.at = "broadcast" => s.nonce \in Nat
BY DEF Sending

(* And of a transaction.                                                   *)
LEMMA TransactionType ==
    ASSUME NEW tx \in Transaction
    PROVE  /\ tx.by \in Request /\ tx.from \in Wallet /\ tx.does \in Method
           /\ tx.nonce \in Nat
BY DEF Transaction

-----------------------------------------------------------------------------
(* What a step does.  It answers a request that just came; starts the      *)
(* sends of one, or the funding of a registration; prepares a send, ends   *)
(* it with an error, or hands its transaction to the node; mines a block;  *)
(* or cuts everything off.                                                 *)
Replies(r) ==
    /\ call[r] = New
    /\ \E o \in Operation, users \in SUBSET Provider, error \in Error :
            Answer(r, o, users, error) /\ (o = "blacklist" => error # "none")
                                       /\ o # "refund"
    /\ UNCHANGED <<nodeVars, sends, faults>>
    /\ live' \in SUBSET Provider
Launches(r) ==
    /\ call[r] = New
    /\ \E o \in Operation \ {"register"}, w \in Wallet,
          users \in SUBSET Provider, calls \in SUBSET Method :
        /\ Launch(r, o, w, users, calls)
        /\ IsFiniteSet(calls) /\ calls # {}
        /\ w = "user" => o = "refund" /\ calls = {Transfer("admin")}
        /\ o = "blacklist" => /\ w = "admin"
                              /\ calls = Calls("blacklistUser", users)
        /\ \A c \in calls : c.method # "registerUser"
        /\ o = "refund" => w = "user"
    /\ UNCHANGED <<nodeVars, faults, live>>
Funding(r) == [by |-> r, from |-> "admin", does |-> Transfer("user"),
               at |-> "populate"]
Funds(r) ==
    /\ call[r] = New
    /\ \E p \in Provider :
        call' = [call EXCEPT ![r] = [at |-> "funding", left |-> 1,
                                     op |-> "register", users |-> {p}]]
    /\ sends' = sends \union {Funding(r)}
    /\ UNCHANGED <<nodeVars, faults, live>>
Prepared(s) == [by |-> s.by, from |-> s.from, does |-> s.does,
                at |-> "broadcast", nonce |-> PendingNonce(s.from)]
Prepares(s) ==
    /\ s.at = "populate"
    /\ sends' = (sends \ {s}) \union {Prepared(s)}
    /\ UNCHANGED <<nodeVars, faults, live, call>>
Fails(s) ==
    /\ \E error \in Error \ {"none"} :
        /\ Failed(s, error)
        /\ error = "funds" => \/ s.does.method = "transfer"
                              \/ s.at = "broadcast" /\ ~ Payable(s)
    /\ UNCHANGED <<nodeVars, faults, live>>
Accepts(s) ==
    /\ s.at = "broadcast"
    /\ Accept(s)
    /\ UNCHANGED <<contractVars, balance, mined, live, faults>>
Idle == UNCHANGED vars

(* The calls of a blacklisting or a window update are as many as the       *)
(* providers they name.                                                    *)
LEMMA CallsFinite ==
    ASSUME NEW users \in SUBSET Provider, NEW m, users # {}
    PROVE  IsFiniteSet(Calls(m, users)) /\ Calls(m, users) # {}
<1>1. IsFiniteSet(users)
  BY InternalAssumption, FS_Subset
<1> DEFINE f == [p \in users |-> [method |-> m, user |-> p]]
<1>2. f \in Surjection(users, Calls(m, users))
  BY DEF Calls, Surjection
<1>3. IsFiniteSet(Calls(m, users))
  BY <1>1, <1>2, FS_Surjection
<1> QED
  BY <1>3 DEF Calls

(* Every step is one of these.                                             *)
LEMMA EveryStepIs ==
    ASSUME TypeOK, [Next]_vars
    PROVE  \/ \E r \in Request : Replies(r) \/ Launches(r) \/ Funds(r)
           \/ \E s \in sends : Prepares(s) \/ Fails(s) \/ Accepts(s)
           \/ \E w \in Wallet : Mine(w)
           \/ Crash
           \/ Idle
<1> DEFINE Known == \/ \E r \in Request : Replies(r) \/ Launches(r) \/ Funds(r)
                    \/ \E s \in sends : Prepares(s) \/ Fails(s) \/ Accepts(s)
                    \/ \E w \in Wallet : Mine(w)
                    \/ Crash
                    \/ Idle
<1>0. live \in SUBSET Provider
  BY DEF TypeOK
<1>1. ASSUME NEW r \in Request, NEW o \in Operation \ {"refund"},
             NEW users \in SUBSET Provider, NEW error \in Error \ {"none"},
             call[r] = New, Answer(r, o, users, error),
             UNCHANGED <<nodeVars, sends, faults, live>>
      PROVE  Known
  <2>1. Replies(r)
    BY <1>0, <1>1 DEF Replies
  <2> QED
    BY <2>1
<1>2. ASSUME NEW r \in Request, NEW o \in Operation \ {"register"},
             NEW w \in Wallet, NEW users \in SUBSET Provider,
             NEW calls \in SUBSET Method,
             call[r] = New, Launch(r, o, w, users, calls),
             IsFiniteSet(calls), calls # {},
             w = "user" => o = "refund" /\ calls = {Transfer("admin")},
             o = "blacklist" => /\ w = "admin"
                                /\ calls = Calls("blacklistUser", users),
             \A c \in calls : c.method # "registerUser",
             o = "refund" => w = "user",
             UNCHANGED <<nodeVars, faults, live>>
      PROVE  Known
  <2>1. Launches(r)
    BY <1>2 DEF Launches
  <2> QED
    BY <2>1
<1> HIDE DEF Known
<1>a. ASSUME NEW r \in Request, NEW o \in Operation \ {"register", "blacklist"},
             NEW w \in Wallet, NEW users \in SUBSET Provider, NEW c \in Method,
             call[r] = New, Launch(r, o, w, users, {c}),
             w = "user" => o = "refund" /\ c = Transfer("admin"),
             c.method # "registerUser", o = "refund" => w = "user",
             UNCHANGED <<nodeVars, faults, live>>
      PROVE  Known
  <2> DEFINE calls == {c}
  <2>1. IsFiniteSet(calls) /\ calls # {} /\ calls \in SUBSET Method
    BY FS_Singleton
  <2>2. /\ Launch(r, o, w, users, calls)
        /\ w = "user" => o = "refund" /\ calls = {Transfer("admin")}
        /\ \A x \in calls : x.method # "registerUser"
    BY <1>a
  <2> HIDE DEF calls
  <2> QED
    BY <1>2, <1>a, <2>1, <2>2
<1>3. ASSUME NEW r \in Request, Blacklist(r)
      PROVE  Known
  <2>1. call[r] = New
    BY <1>3 DEF Blacklist, Arrives
  <2>2. CASE live = {}
    BY <1>1, <1>3, <2>1, <2>2 DEF Blacklist, Operation, Error
  <2>3. CASE live # {}
    <3>1. /\ IsFiniteSet(Calls("blacklistUser", live))
          /\ Calls("blacklistUser", live) # {}
          /\ Calls("blacklistUser", live) \in SUBSET Method
      BY <1>0, <2>3, CallsFinite, CallsType
    <3>2. \A c \in Calls("blacklistUser", live) : c.method # "registerUser"
      BY DEF Calls
    <3>3. Launch(r, "blacklist", "admin", live, Calls("blacklistUser", live))
      BY <1>3, <2>3 DEF Blacklist
    <3>4. /\ "blacklist" \in Operation \ {"register"} /\ "admin" \in Wallet
          /\ UNCHANGED <<nodeVars, faults, live>>
      BY <1>3 DEF Blacklist, Operation, Wallet
    <3> QED
      BY <1>0, <1>2, <2>1, <3>1, <3>2, <3>3, <3>4
  <2> QED
    BY <2>2, <2>3
<1>4. ASSUME NEW r \in Request, RemoveFromBlacklist(r)
      PROVE  Known
  <2> DEFINE error == IF live = {} THEN "not found" ELSE "no function"
  <2>1. error \in Error \ {"none"}
    BY DEF Error
  <2>2. Answer(r, "removeFromBlacklist", live, error) /\ call[r] = New
    BY <1>4 DEF RemoveFromBlacklist, Arrives
  <2> HIDE DEF error
  <2> QED
    BY <1>0, <1>1, <1>4, <2>1, <2>2 DEF RemoveFromBlacklist, Operation
<1>5. ASSUME NEW r \in Request, ResetManyOtps(r)
      PROVE  Known
  <2> DEFINE c == [method |-> "resetManyOtps", users |-> live]
  <2>1. c \in Method /\ c.method = "resetManyOtps"
    BY <1>0, CallsType
  <2>2. call[r] = New
    BY <1>5 DEF ResetManyOtps, Arrives
  <2>3. CASE live = {}
    BY <1>1, <1>5, <2>2, <2>3 DEF ResetManyOtps, Operation, Error
  <2>4. CASE live # {}
    <3>1. Launch(r, "reset", "admin", live, {c})
      BY <1>5, <2>4 DEF ResetManyOtps
    <3> HIDE DEF c
    <3> QED
      BY <1>0, <1>a, <1>5, <2>1, <2>2, <3>1
         DEF ResetManyOtps, Operation, Wallet
  <2> QED
    BY <2>3, <2>4
<1>6. ASSUME NEW r \in Request, NEW role \in Chain!Role,
             GrantRole(r, role, "user")
      PROVE  Known
  <2> DEFINE c == [method |-> "grantRole", role |-> role, account |-> "user"]
  <2>1. c \in Method /\ c.method = "grantRole"
    BY CallsType DEF Wallet
  <2>2. Launch(r, "grantRole", "admin", {}, {c}) /\ call[r] = New
    BY <1>6 DEF GrantRole, Arrives
  <2> HIDE DEF c
  <2> QED
    BY <1>a, <1>6, <2>1, <2>2 DEF GrantRole, Operation, Wallet
<1>7. ASSUME NEW r \in Request, FundUserWallet(r)
      PROVE  Known
  <2>1. Transfer("user") \in Method /\ Transfer("user").method = "transfer"
    BY CallsType DEF Transfer, Wallet
  <2>2. Launch(r, "fund", "admin", {}, {Transfer("user")}) /\ call[r] = New
    BY <1>7 DEF FundUserWallet, Arrives
  <2> QED
    BY <1>a, <1>7, <2>1, <2>2
       DEF FundUserWallet, Operation, Wallet
<1>8. ASSUME NEW r \in Request, RefundToAdminWallet(r)
      PROVE  Known
  <2>1. Transfer("admin") \in Method /\ Transfer("admin").method = "transfer"
    BY CallsType DEF Transfer, Wallet
  <2>2. Launch(r, "refund", "user", {}, {Transfer("admin")}) /\ call[r] = New
    BY <1>8 DEF RefundToAdminWallet, Arrives
  <2> QED
    BY <1>a, <1>8, <2>1, <2>2
       DEF RefundToAdminWallet, Operation, Wallet
<1>9. ASSUME NEW r \in Request, NEW p \in Provider, RegisterUser(r, p)
      PROVE  Known
  <2>1. CASE p \notin live
    BY <1>1, <1>9, <2>1 DEF RegisterUser, Arrives, Operation, Error
  <2>2. CASE p \in live
    <3>1. Funds(r)
      BY <1>9, <2>2 DEF RegisterUser, Arrives, Funds, Funding
    <3> QED
      BY <3>1 DEF Known
  <2> QED
    BY <2>1, <2>2
<1>10. ASSUME NEW r \in Request, NEW p \in Provider, UpdateOtpWindow(r, p)
       PROVE  Known
  <2>1. call[r] = New
    BY <1>10 DEF UpdateOtpWindow, Arrives
  <2>2. CASE p \notin live
    BY <1>1, <1>10, <2>1, <2>2 DEF UpdateOtpWindow, Operation, Error
  <2>3. CASE p \in live
    <3>1. /\ IsFiniteSet(Calls("updateOtpWindow", {p}))
          /\ Calls("updateOtpWindow", {p}) # {}
          /\ Calls("updateOtpWindow", {p}) \in SUBSET Method
      BY CallsFinite, CallsType
    <3>2. \A c \in Calls("updateOtpWindow", {p}) : c.method # "registerUser"
      BY DEF Calls
    <3>3. Launch(r, "window", "admin", {p}, Calls("updateOtpWindow", {p}))
      BY <1>10, <2>3 DEF UpdateOtpWindow
    <3>4. /\ "window" \in Operation \ {"register"} /\ "admin" \in Wallet
          /\ {p} \in SUBSET Provider
          /\ UNCHANGED <<nodeVars, faults, live>>
      BY <1>10 DEF UpdateOtpWindow, Operation, Wallet
    <3> QED
      BY <1>2, <2>1, <3>1, <3>2, <3>3, <3>4
  <2> QED
    BY <2>2, <2>3
<1>11. ASSUME NEW r \in Request, NEW p \in Provider, AddProvider(r, p)
       PROVE  Known
  <2>1. Replies(r)
    BY <1>0, <1>11 DEF AddProvider, Arrives, Replies, Operation, Error
  <2> QED
    BY <2>1 DEF Known
<1>12. ASSUME NEW s \in sends, Populate(s)
       PROVE  Known
  <2>1. CASE Succeeds(s.does, s.from)
    <3>1. Prepares(s)
      BY <1>12, <2>1 DEF Populate, Prepares, Prepared
    <3> QED
      BY <3>1 DEF Known
  <2>2. CASE ~ Succeeds(s.does, s.from)
    <3> DEFINE error == IF s.does.method = "transfer" THEN "funds"
                                                     ELSE "reverted"
    <3>1. /\ error \in Error \ {"none"}
          /\ error = "funds" => s.does.method = "transfer"
      BY DEF Error
    <3>2. Failed(s, error) /\ UNCHANGED <<nodeVars, faults, live>>
      BY <1>12, <2>2 DEF Populate
    <3> HIDE DEF error
    <3>3. Fails(s)
      BY <3>1, <3>2 DEF Fails
    <3> QED
      BY <3>3 DEF Known
  <2> QED
    BY <2>1, <2>2
<1>13. ASSUME NEW s \in sends, Broadcast(s)
       PROVE  Known
  <2>1. CASE Accept(s)
    <3>1. Accepts(s)
      BY <1>13, <2>1 DEF Broadcast, Accepts
    <3> QED
      BY <3>1 DEF Known
  <2>2. CASE Refuse(s)
    <3>1. UNCHANGED <<nodeVars, faults, live>>
      BY <1>13, <2>2 DEF Broadcast, Refuse, nodeVars
    <3>2. \/ Failed(s, "nonce")
          \/ Failed(s, "funds") /\ s.at = "broadcast" /\ ~ Payable(s)
      BY <1>13, <2>2 DEF Broadcast, Refuse
    <3>3. "nonce" \in Error \ {"none"} /\ "funds" \in Error \ {"none"}
      BY DEF Error
    <3>4. "nonce" # "funds"
      OBVIOUS
    <3>5. Fails(s)
      BY <3>1, <3>2, <3>3, <3>4, Zenon DEF Fails
    <3> QED
      BY <3>5 DEF Known
  <2> QED
    BY <1>13, <2>1, <2>2 DEF Broadcast
<1>14. ASSUME \/ \E w \in Wallet : Mine(w)
              \/ Crash
              \/ UNCHANGED vars
       PROVE  Known
  BY <1>14 DEF Known, Idle
<1>15. ASSUME NEW r \in Request, Submit(r)
       PROVE  Known
  BY <1>3, <1>4, <1>5, <1>6, <1>7, <1>8, <1>9, <1>10, <1>11, <1>15 DEF Submit
<1>16. ASSUME NEW r \in Request, Progress(r)
       PROVE  Known
  BY <1>12, <1>13, <1>16 DEF Progress
<1>17. Known
  BY <1>14, <1>15, <1>16 DEF Next
<1> QED
  BY <1>17 DEF Known

-----------------------------------------------------------------------------
(* The pool holds, of each wallet, one transaction per nonce, the nonces   *)
(* without a gap, and no more than the wallet can pay; a send about to be  *)
(* broadcast does not skip a nonce.                                        *)
Held(w) == mined[w] + Cardinality(Of(w))
PoolInv ==
    /\ IsFiniteSet(pool)
    /\ \A w \in Wallet : \A t, u \in Of(w) : t.nonce = u.nonce => t = u
    /\ NoNonceGap
    /\ \A w \in Wallet : Owed(Of(w)) <= balance[w]
    /\ \A s \in sends : s.at = "broadcast" => s.nonce <= Held(s.from)

(* A wallet's part of the pool is finite.                                  *)
LEMMA OfFinite ==
    ASSUME IsFiniteSet(pool), NEW w
    PROVE  /\ IsFiniteSet(Of(w)) /\ Cardinality(Of(w)) \in Nat
           /\ Cardinality(Of(w)) <= Cardinality(pool)
           /\ Cardinality(pool) \in Nat
<1>1. Of(w) \in SUBSET pool
  BY DEF Of
<1> QED
  BY <1>1, FS_Subset, FS_CardinalityType

(* What transactions cost together is a number.                            *)
LEMMA OwedType ==
    ASSUME NEW T, IsFiniteSet(T)
    PROVE  Owed(T) \in Nat
<1> DEFINE Paying == {tx \in T : tx.does.method = "transfer"}
<1>1. Paying \in SUBSET T
  OBVIOUS
<1>2. IsFiniteSet(Paying)
  BY <1>1, FS_Subset
<1>3. Cardinality(T) \in Nat /\ Cardinality(Paying) \in Nat
  BY <1>2, FS_CardinalityType
<1>4. Owed(T) = Gas * Cardinality(T) + Amount * Cardinality(Paying)
  BY DEF Owed
<1> HIDE DEF Paying
<1> QED
  BY <1>3, <1>4, InternalAssumption

(* One more costs its price more.                                          *)
LEMMA OwedAdd ==
    ASSUME NEW T, IsFiniteSet(T), NEW x, x \notin T
    PROVE  /\ Owed(T) \in Nat /\ Owed(T \union {x}) \in Nat
           /\ Cost(x.does) \in Nat
           /\ Owed(T \union {x}) = Owed(T) + Cost(x.does)
<1> DEFINE Paying(U) == {tx \in U : tx.does.method = "transfer"}
<1>1. IsFiniteSet(Paying(T))
  <2>1. Paying(T) \in SUBSET T
    OBVIOUS
  <2> QED
    BY <2>1, FS_Subset
<1>2. /\ Cardinality(T) \in Nat /\ Cardinality(Paying(T)) \in Nat
      /\ Cardinality(T \union {x}) = Cardinality(T) + 1
  BY <1>1, FS_CardinalityType, FS_AddElement
<1>3. CASE x.does.method = "transfer"
  <2>1. Paying(T \union {x}) = Paying(T) \union {x} /\ x \notin Paying(T)
    BY <1>3
  <2>2. Cardinality(Paying(T \union {x})) = Cardinality(Paying(T)) + 1
    BY <1>1, <2>1, FS_AddElement
  <2>3. Cost(x.does) = Gas + Amount
    BY <1>3 DEF Cost
  <2> HIDE DEF Paying
  <2>4. /\ Owed(T) = Gas * Cardinality(T) + Amount * Cardinality(Paying(T))
        /\ Owed(T \union {x}) = Gas * (Cardinality(T) + 1)
                                + Amount * (Cardinality(Paying(T)) + 1)
    BY <1>2, <2>2 DEF Owed, Paying
  <2> QED
    BY <1>2, <2>3, <2>4, InternalAssumption
<1>4. CASE x.does.method # "transfer"
  <2>1. Paying(T \union {x}) = Paying(T)
    BY <1>4
  <2>2. Cost(x.does) = Gas
    BY <1>4 DEF Cost
  <2> HIDE DEF Paying
  <2>3. /\ Owed(T) = Gas * Cardinality(T) + Amount * Cardinality(Paying(T))
        /\ Owed(T \union {x}) = Gas * (Cardinality(T) + 1)
                                + Amount * Cardinality(Paying(T))
    BY <1>2, <2>1 DEF Owed, Paying
  <2> QED
    BY <1>2, <2>2, <2>3, InternalAssumption
<1> QED
  BY <1>3, <1>4

(* And one less costs its price less.                                      *)
LEMMA OwedRemove ==
    ASSUME NEW T, IsFiniteSet(T), NEW x \in T
    PROVE  /\ Owed(T) \in Nat /\ Owed(T \ {x}) \in Nat
           /\ Cost(x.does) \in Nat
           /\ Owed(T) = Owed(T \ {x}) + Cost(x.does)
<1> DEFINE U == T \ {x}
<1>1. IsFiniteSet(U) /\ x \notin U /\ T = U \union {x}
  BY FS_RemoveElement
<1> HIDE DEF U
<1>2. /\ Owed(U) \in Nat /\ Owed(T) \in Nat /\ Cost(x.does) \in Nat
      /\ Owed(T) = Owed(U) + Cost(x.does)
  BY <1>1, OwedAdd
<1> QED
  BY <1>2 DEF U

(* No transactions cost nothing.                                           *)
LEMMA OwedNone == Owed({}) = 0
<1>1. {tx \in {} : tx.does.method = "transfer"} = {}
  OBVIOUS
<1>2. Owed({}) = Gas * 0 + Amount * 0
  BY <1>1, FS_EmptySet DEF Owed
<1> QED
  BY <1>2, InternalAssumption

(* A wallet's pending nonce is the one after those the pool holds.         *)
LEMMA PendingIsNext ==
    ASSUME TypeOK, PoolInv, NEW w \in Wallet
    PROVE  PendingNonce(w) = Held(w) /\ Held(w) \in Nat
<1> DEFINE Free(n) == /\ \A tx \in Of(w) : tx.nonce # n
                      /\ \A k \in mined[w] .. n - 1 :
                            \E tx \in Of(w) : tx.nonce = k
           Candidates == mined[w] .. mined[w] + Cardinality(pool)
<1>1. /\ mined[w] \in Nat /\ Cardinality(Of(w)) \in Nat
      /\ Cardinality(Of(w)) <= Cardinality(pool) /\ Cardinality(pool) \in Nat
  BY OfFinite DEF PoolInv, TypeOK
<1>2. {tx.nonce : tx \in Of(w)} = mined[w] .. Held(w) - 1
  <2>1. mined[w] + Cardinality(Of(w)) - 1 = Held(w) - 1
    BY <1>1 DEF Held
  <2> QED
    BY <2>1, Zenon DEF PoolInv, NoNonceGap
<1>3. Held(w) \in Candidates /\ Held(w) \in Nat
  BY <1>1 DEF Held
<1>4. Free(Held(w))
  <2>1. Held(w) \notin mined[w] .. Held(w) - 1
    BY <1>3
  <2> QED
    BY <1>2, <2>1
<1>5. ASSUME NEW n \in Candidates, Free(n)
      PROVE  n = Held(w)
  <2>0. n \in Nat /\ mined[w] <= n
    BY <1>1
  <2>1. ~ n < Held(w)
    <3>1. n < Held(w) => n \in mined[w] .. Held(w) - 1
      BY <1>1, <1>3, <2>0
    <3> QED
      BY <1>2, <1>5, <3>1
  <2>2. ~ n > Held(w)
    <3>1. n > Held(w) => Held(w) \in mined[w] .. n - 1
      BY <1>1, <1>3, <2>0
    <3>2. Held(w) \notin mined[w] .. Held(w) - 1
      BY <1>3
    <3> QED
      BY <1>2, <1>5, <3>1, <3>2
  <2> QED
    BY <1>3, <2>0, <2>1, <2>2
<1>6. PendingNonce(w) = CHOOSE n \in Candidates : Free(n)
  BY DEF PendingNonce
<1> HIDE DEF Free, Candidates
<1>7. PendingNonce(w) \in Candidates /\ Free(PendingNonce(w))
  BY <1>3, <1>4, <1>6, Zenon
<1> QED
  BY <1>3, <1>5, <1>7

-----------------------------------------------------------------------------
(* A running send belongs to a request that came; a handler runs one send  *)
(* per call and waits for exactly those that are running; an error of one  *)
(* ends it, so that when it answers with success none is left.             *)
SendsInv ==
    /\ IsFiniteSet(sends)
    /\ \A s \in sends : call[s.by] # New
    /\ \A s, t \in sends : s.by = t.by /\ s.does = t.does => s = t
    /\ \A r \in Request :
        /\ call[r].at = "funding" =>
                \E p \in Provider : call[r].users = {p}
        /\ call[r].at = "done" /\ call[r].error = "none" => Running(r) = {}
    /\ AwaitsItsSends

Registration(r, p) ==
    [by |-> r, from |-> "user", at |-> "populate",
     does |-> [method |-> "registerUser", user |-> p]]

(* What the end of a send may mean for its handler: nothing, since it has  *)
(* answered; that the funding is sent and the registration may follow;     *)
(* that it was the last; or that others are still running.                 *)
Unnoticed(s) ==
    /\ s.by \notin Active
    /\ UNCHANGED call
    /\ sends' = sends \ {s}
Funded(s) ==
    /\ s.by \in Active /\ call[s.by].at = "funding"
    /\ \E p \in Provider :
        /\ call'[s.by] = [at |-> "sending", op |-> "register",
                          users |-> {p}, left |-> 1]
        /\ sends' = (sends \ {s}) \union {Registration(s.by, p)}
    /\ \A q \in Request \ {s.by} : call'[q] = call[q]
Last(s) ==
    /\ s.by \in Active /\ call[s.by].at = "sending" /\ call[s.by].left = 1
    /\ call'[s.by] = [at |-> "done", op |-> call[s.by].op,
                      users |-> call[s.by].users, error |-> "none"]
    /\ \A q \in Request \ {s.by} : call'[q] = call[q]
    /\ sends' = sends \ {s}
NotLast(s) ==
    /\ s.by \in Active /\ call[s.by].at = "sending" /\ call[s.by].left # 1
    /\ call'[s.by] = [at |-> "sending", op |-> call[s.by].op,
                      users |-> call[s.by].users, left |-> call[s.by].left - 1]
    /\ \A q \in Request \ {s.by} : call'[q] = call[q]
    /\ sends' = sends \ {s}

(* These are the cases.                                                    *)
LEMMA SentState ==
    ASSUME TypeOK, SendsInv, NEW s \in sends, Sent(s)
    PROVE  /\ Unnoticed(s) \/ Funded(s) \/ Last(s) \/ NotLast(s)
           /\ call' = [q \in Request |-> call'[q]]
<1> DEFINE r == s.by
<1>1. r \in Request /\ call = [q \in Request |-> call[q]]
  BY SendType DEF TypeOK
<1>2. CASE r \notin Active
  BY <1>1, <1>2 DEF Sent, Unnoticed
<1>3. CASE r \in Active /\ call[r].at = "funding"
  <2>1. /\ call[r] \in InProgress
        /\ call[r] = [at |-> "funding", op |-> "register",
                      users |-> call[r].users, left |-> 1]
    BY <1>3, ActiveType DEF InProgress
  <2>2. PICK p \in Provider : call[r].users = {p}
    BY <1>1, <1>3 DEF SendsInv
  <2>3. {[by |-> r, from |-> "user", does |-> c, at |-> "populate"] :
            c \in Calls("registerUser", {p})} = {Registration(r, p)}
    BY DEF Calls, Registration
  <2>4. sends' = (sends \ {s}) \union {Registration(r, p)}
    BY <1>3, <2>2, <2>3 DEF Sent
  <2>5. call' = [call EXCEPT ![r].at = "sending"]
    BY <1>3 DEF Sent
  <2>6. call'[r] = [at |-> "sending", op |-> "register", users |-> {p},
                    left |-> 1]
    <3>1. call'[r] = [call[r] EXCEPT !.at = "sending"]
      BY <1>1, <2>5
    <3> QED
      BY <2>1, <2>2, <3>1
  <2>7. Funded(s)
    BY <1>1, <1>3, <2>4, <2>5, <2>6 DEF Funded
  <2> QED
    BY <1>1, <2>5, <2>7
<1>4. CASE r \in Active /\ call[r].at # "funding"
  <2>0. call[r].at = "sending" /\ sends' = sends \ {s}
    BY <1>4 DEF Active, Sent
  <2>1. call[r] = [at |-> "sending", op |-> call[r].op,
                   users |-> call[r].users, left |-> call[r].left]
    BY <1>4, <2>0, ActiveType DEF InProgress
  <2>2. CASE call[r].left = 1
    <3>1. End(r, "none")
      BY <1>4, <2>2 DEF Sent
    <3>2. Last(s)
      BY <1>1, <1>4, <2>0, <2>2, <3>1 DEF Last, End, Answer
    <3> QED
      BY <1>1, <3>1, <3>2 DEF End, Answer
  <2>3. CASE call[r].left # 1
    <3>1. call' = [call EXCEPT ![r].left = @ - 1]
      BY <1>4, <2>3 DEF Sent
    <3>2. call'[r] = [at |-> "sending", op |-> call[r].op,
                      users |-> call[r].users, left |-> call[r].left - 1]
      BY <1>1, <2>1, <3>1
    <3>3. NotLast(s)
      BY <1>1, <1>4, <2>0, <2>3, <3>1, <3>2 DEF NotLast
    <3> QED
      BY <1>1, <3>1, <3>3
  <2> QED
    BY <2>2, <2>3
<1> QED
  BY <1>2, <1>3, <1>4

(* A failure ends a handler that still waits.                              *)
LEMMA FailedState ==
    ASSUME TypeOK, NEW s \in sends, NEW error, Failed(s, error)
    PROVE  /\ sends' = sends \ {s}
           /\ call' = [q \in Request |-> call'[q]]
           /\ \A q \in Request \ {s.by} : call'[q] = call[q]
           /\ s.by \notin Active => call'[s.by] = call[s.by]
           /\ s.by \in Active =>
                call'[s.by] = [at |-> "done", op |-> call[s.by].op,
                               users |-> call[s.by].users, error |-> error]
<1>1. s.by \in Request /\ call = [q \in Request |-> call[q]]
  BY SendType DEF TypeOK
<1> QED
  BY <1>1 DEF Failed, End, Answer

(* A registration, a funding and a prepared send are typed.                *)
LEMMA NewSendType ==
    /\ \A r \in Request, p \in Provider : Registration(r, p) \in Sending
    /\ \A r \in Request : Funding(r) \in Sending
    /\ \A r \in Request, w \in Wallet, c \in Method :
            [by |-> r, from |-> w, does |-> c, at |-> "populate"] \in Sending
    /\ \A r \in Request, w \in Wallet, c \in Method, n \in Nat :
            [by |-> r, from |-> w, does |-> c, at |-> "broadcast",
             nonce |-> n] \in Sending
BY CallsType DEF Registration, Funding, Sending, Wallet

-----------------------------------------------------------------------------
(* What the broadcast of a transaction does to the pool: it comes after    *)
(* the wallet's others, or takes the place of the one with its nonce.      *)
Broadcasted(s) == [by |-> s.by, from |-> s.from, does |-> s.does,
                   nonce |-> s.nonce]
LEMMA AcceptedPool ==
    ASSUME TypeOK, PoolInv, NEW s \in sends, Accepts(s)
    PROVE  LET w == s.from
               kept == Of(w) \ Rivals(s)
           IN  /\ s.nonce \in Nat /\ w \in Wallet
               /\ Of(w)' = kept \union {Broadcasted(s)}
               /\ \A v \in Wallet \ {w} : Of(v)' = Of(v)
               /\ Broadcasted(s) \notin kept
               /\ \A tx \in kept : tx.nonce # s.nonce
               /\ IsFiniteSet(pool')
               /\ \/ Rivals(s) = {} /\ s.nonce = Held(w)
                  \/ \E x \in Of(w) : Rivals(s) = {x} /\ x.nonce = s.nonce
<1> DEFINE w == s.from
           n == Broadcasted(s)
           kept == Of(w) \ Rivals(s)
<1>1. w \in Wallet /\ s.nonce \in Nat
  BY SendType DEF TypeOK, Accepts
<1>2. n.from = w /\ n.nonce = s.nonce
  BY DEF Broadcasted
<1>3. pool' = (pool \ Rivals(s)) \union {n}
  BY DEF Accepts, Accept, Broadcasted
<1>4. Rivals(s) = {tx \in Of(w) : tx.nonce = s.nonce}
  BY DEF Rivals
<1> HIDE DEF n
<1>5. Of(w)' = kept \union {n}
  BY <1>2, <1>3, <1>4 DEF Of
<1>6. ASSUME NEW v \in Wallet \ {w}
      PROVE  Of(v)' = Of(v)
  <2>1. \A tx \in Rivals(s) : tx.from = w
    BY <1>4 DEF Of
  <2> QED
    BY <1>2, <1>3, <2>1 DEF Of
<1>7. n \notin kept /\ \A tx \in kept : tx.nonce # s.nonce
  BY <1>2, <1>4
<1>8. IsFiniteSet(pool')
  <2>1. IsFiniteSet(pool \ Rivals(s))
    BY FS_Difference DEF PoolInv
  <2> QED
    BY <1>3, <2>1, FS_AddElement
<1>9. CASE Rivals(s) = {}
  <2>1. s.nonce \notin {tx.nonce : tx \in Of(w)}
    BY <1>4, <1>9
  <2>2. s.nonce \notin mined[w] .. mined[w] + Cardinality(Of(w)) - 1
    BY <1>1, <2>1 DEF PoolInv, NoNonceGap
  <2>3. mined[w] \in Nat /\ Cardinality(Of(w)) \in Nat
    BY <1>1, OfFinite DEF TypeOK, PoolInv
  <2>4. s.nonce >= mined[w] /\ s.nonce <= Held(w)
    BY DEF Accepts, Accept, PoolInv
  <2>5. s.nonce = Held(w)
    BY <1>1, <2>2, <2>3, <2>4 DEF Held
  <2> QED
    BY <1>1, <1>5, <1>6, <1>7, <1>8, <1>9, <2>5 DEF n
<1>10. CASE Rivals(s) # {}
  <2>1. PICK x \in Of(w) : x.nonce = s.nonce
    BY <1>4, <1>10
  <2>2. Rivals(s) = {x}
    BY <1>1, <1>4, <2>1 DEF PoolInv
  <2> QED
    BY <1>1, <1>5, <1>6, <1>7, <1>8, <2>1, <2>2 DEF n
<1> QED
  BY <1>9, <1>10

(* What a block takes from the pool: a wallet's first transaction.         *)
LEMMA MinedPool ==
    ASSUME TypeOK, PoolInv, NEW w \in Wallet, NEW tx \in Of(w),
           tx.nonce = mined[w], pool' = pool \ {tx}
    PROVE  /\ Of(w)' = Of(w) \ {tx}
           /\ \A v \in Wallet \ {w} : Of(v)' = Of(v)
           /\ IsFiniteSet(pool')
<1>1. tx.from = w
  BY DEF Of
<1>2. IsFiniteSet(pool')
  BY FS_Difference DEF PoolInv
<1> QED
  BY <1>1, <1>2 DEF Of

(* An interval one longer, at its end.                                     *)
LEMMA IntervalGrows ==
    ASSUME NEW a \in Nat, NEW c \in Nat
    PROVE  (a .. a + c - 1) \union {a + c} = a .. a + (c + 1) - 1
OBVIOUS

(* And one shorter, at its start.                                          *)
LEMMA IntervalShrinks ==
    ASSUME NEW a \in Nat, NEW c \in Nat, c > 0
    PROVE  (a .. a + c - 1) \ {a} = (a + 1) .. (a + 1) + (c - 1) - 1
OBVIOUS

(* What every wallet of a pool must satisfy.                               *)
WalletInv(w) ==
    /\ \A t, u \in Of(w) : t.nonce = u.nonce => t = u
    /\ {tx.nonce : tx \in Of(w)} = mined[w] .. mined[w] + Cardinality(Of(w)) - 1
    /\ Owed(Of(w)) <= balance[w]

(* A step that leaves a wallet's transactions, nonce and money alone.      *)
LEMMA WalletAlone ==
    ASSUME NEW w \in Wallet, WalletInv(w),
           Of(w)' = Of(w), mined'[w] = mined[w],
           balance[w] \in Nat, balance'[w] \in Nat, balance'[w] >= balance[w],
           Owed(Of(w)) \in Nat
    PROVE  WalletInv(w)' /\ Held(w)' = Held(w)
<1> DEFINE T == Of(w)
<1>1. Of(w)' = T /\ Owed(Of(w))' = Owed(T)
  BY DEF Owed
<1>2. Owed(T) <= balance'[w]
  BY DEF WalletInv
<1>3. Held(w)' = Held(w)
  BY <1>1 DEF Held
<1> QED
  BY <1>1, <1>2, <1>3 DEF WalletInv

(* An accepted transaction keeps its wallet's part of the pool in order.   *)
LEMMA AcceptedWallet ==
    ASSUME TypeOK, PoolInv, NEW s \in sends, Accepts(s)
    PROVE  WalletInv(s.from)' /\ Held(s.from)' >= Held(s.from)
<1> DEFINE w == s.from
           n == Broadcasted(s)
           kept == Of(w) \ Rivals(s)
           a == mined[w]
           c == Cardinality(Of(w))
<1>1. /\ s.nonce \in Nat /\ w \in Wallet
      /\ Of(w)' = kept \union {n} /\ n \notin kept
      /\ \A tx \in kept : tx.nonce # s.nonce
      /\ \/ Rivals(s) = {} /\ s.nonce = Held(w)
         \/ \E x \in Of(w) : Rivals(s) = {x} /\ x.nonce = s.nonce
  BY AcceptedPool
<1>2. a \in Nat /\ c \in Nat /\ mined' = mined /\ balance' = balance
  BY <1>1, OfFinite DEF TypeOK, PoolInv, Accepts
<1>3. n.nonce = s.nonce /\ n.does = s.does
  BY DEF Broadcasted
<1>4. \A t, u \in Of(w)' : t.nonce = u.nonce => t = u
  BY <1>1, <1>3 DEF PoolInv
<1>5. IsFiniteSet(kept)
  BY OfFinite, FS_Difference DEF PoolInv
<1>6. Owed(Of(w))' <= balance'[w]
  <2>1. Owed(kept) + Cost(n.does) <= balance[w]
    BY <1>3 DEF Accepts, Accept, Payable
  <2>2. Owed(kept \union {n}) = Owed(kept) + Cost(n.does)
    BY <1>1, <1>5, OwedAdd
  <2>3. Owed(Of(w))' = Owed(kept \union {n})
    BY <1>1 DEF Owed
  <2> QED
    BY <1>2, <2>1, <2>2, <2>3
<1>7. {tx.nonce : tx \in Of(w)} = a .. a + c - 1
  BY <1>1, Zenon DEF PoolInv, NoNonceGap
<1>8. {tx.nonce : tx \in kept \union {n}} =
            {tx.nonce : tx \in kept} \union {s.nonce}
  BY <1>3
<1>9. CASE Rivals(s) = {} /\ s.nonce = Held(w)
  <2>1. kept = Of(w)
    BY <1>9
  <2>2. Cardinality(kept \union {n}) = c + 1
    BY <1>1, <1>5, <2>1, FS_AddElement
  <2>3. s.nonce = a + c
    BY <1>9 DEF Held
  <2>4. {tx.nonce : tx \in kept \union {n}} = a .. a + (c + 1) - 1
    <3>1. (a .. a + c - 1) \union {a + c} = a .. a + (c + 1) - 1
      BY <1>2, IntervalGrows
    <3>2. {tx.nonce : tx \in kept} = a .. a + c - 1
      BY <1>7, <2>1
    <3> QED
      BY <1>8, <2>3, <3>1, <3>2
  <2>5. Cardinality(Of(w))' = c + 1
    BY <1>1, <2>2
  <2>6. Held(w)' = a + (c + 1)
    BY <1>2, <2>5 DEF Held
  <2>7. {tx.nonce : tx \in Of(w)}' = a .. a + (c + 1) - 1
    BY <1>1, <2>4
  <2> QED
    BY <1>2, <1>4, <1>6, <2>5, <2>6, <2>7 DEF WalletInv, Held
<1>10. ASSUME NEW x \in Of(w), Rivals(s) = {x}, x.nonce = s.nonce
       PROVE  WalletInv(w)' /\ Held(w)' >= Held(w)
  <2>1. Of(w) = kept \union {x} /\ x \notin kept
    BY <1>10
  <2>2. Cardinality(kept \union {n}) = c
    <3>1. Cardinality(kept \union {n}) = Cardinality(kept) + 1
      BY <1>1, <1>5, FS_AddElement
    <3>2. Cardinality(kept \union {x}) = Cardinality(kept) + 1
      BY <1>5, <2>1, FS_AddElement
    <3> QED
      BY <2>1, <3>1, <3>2
  <2>3. {tx.nonce : tx \in Of(w)} = {tx.nonce : tx \in kept} \union {s.nonce}
    BY <1>10, <2>1
  <2>4. Cardinality(Of(w))' = c
    BY <1>1, <2>2
  <2>5. {tx.nonce : tx \in Of(w)}' = a .. a + c - 1
    BY <1>1, <1>7, <1>8, <2>3
  <2>6. Held(w)' = Held(w)
    BY <1>2, <2>4 DEF Held
  <2>7. Held(w) \in Nat
    BY <1>2 DEF Held
  <2> QED
    BY <1>2, <1>4, <1>6, <2>4, <2>5, <2>6, <2>7 DEF WalletInv
<1> QED
  BY <1>1, <1>9, <1>10

(* So does a block, which the wallet pays.                                 *)
LEMMA MinedWallet ==
    ASSUME TypeOK, PoolInv, NEW w \in Wallet, NEW tx \in Of(w),
           tx.nonce = mined[w], mined' = [mined EXCEPT ![w] = @ + 1],
           pool' = pool \ {tx}, balance'[w] \in Int,
           balance'[w] >= balance[w] - Cost(tx.does)
    PROVE  /\ WalletInv(w)' /\ Held(w)' = Held(w)
           /\ balance'[w] \in Nat
<1> DEFINE T == Of(w) \ {tx}
           a == mined[w]
           c == Cardinality(Of(w))
<1>1. Of(w)' = T
  BY MinedPool
<1>2. a \in Nat /\ c \in Nat /\ IsFiniteSet(Of(w)) /\ mined'[w] = a + 1
  BY OfFinite DEF TypeOK, PoolInv
<1>3. Cardinality(T) = c - 1 /\ c > 0
  <2>1. Cardinality(T) = c - 1 /\ IsFiniteSet(T)
    BY <1>2, FS_RemoveElement
  <2>2. Cardinality(T) \in Nat
    BY <2>1, FS_CardinalityType
  <2> QED
    BY <1>2, <2>1, <2>2
<1>4. \A t, u \in Of(w)' : t.nonce = u.nonce => t = u
  BY <1>1 DEF PoolInv
<1>5. Owed(Of(w))' <= balance'[w] /\ balance'[w] \in Nat
  <2>1. /\ Owed(Of(w)) = Owed(T) + Cost(tx.does) /\ Owed(T) \in Nat
        /\ Cost(tx.does) \in Nat
    BY <1>2, OwedRemove
  <2>2. Owed(Of(w)) <= balance[w] /\ balance[w] \in Nat
    BY DEF PoolInv, TypeOK
  <2>3. Owed(Of(w))' = Owed(T)
    BY <1>1 DEF Owed
  <2> QED
    BY <2>1, <2>2, <2>3
<1>6. {t.nonce : t \in Of(w)} = a .. a + c - 1
  BY Zenon DEF PoolInv, NoNonceGap
<1>7. {t.nonce : t \in T} = {t.nonce : t \in Of(w)} \ {a}
  BY DEF PoolInv
<1>8. {t.nonce : t \in Of(w)}' = (a + 1) .. (a + 1) + (c - 1) - 1
  BY <1>1, <1>2, <1>3, <1>6, <1>7, IntervalShrinks, Zenon
<1>9. Cardinality(Of(w))' = c - 1
  BY <1>1, <1>3
<1>10. Held(w)' = Held(w)
  BY <1>2, <1>9 DEF Held
<1> QED
  BY <1>2, <1>4, <1>5, <1>8, <1>9, <1>10 DEF WalletInv

(* The parts a wallet at a time.                                           *)
PartsInv ==
    /\ IsFiniteSet(pool)
    /\ \A w \in Wallet : WalletInv(w)
    /\ \A s \in sends : s.at = "broadcast" => s.nonce <= Held(s.from)
LEMMA PoolParts == (PoolInv <=> PartsInv) /\ (PoolInv' <=> PartsInv')
<1>1. PoolInv <=> PartsInv
  BY Zenon DEF PoolInv, PartsInv, WalletInv, NoNonceGap
<1>2. PoolInv' <=> PartsInv'
  BY Zenon DEF PoolInv, PartsInv, WalletInv, NoNonceGap
<1> QED
  BY <1>1, <1>2

(* Money and nonces stay numbers, and only a block moves them.             *)
LEMMA MinedMoney ==
    ASSUME TypeOK, PoolInv, NEW w \in Wallet, NEW tx \in Of(w),
           balance' = [v \in Wallet |->
                    IF v = w THEN balance[v] - Cost(tx.does)
                    ELSE IF tx.does = Transfer(v) THEN balance[v] + Amount
                    ELSE balance[v]]
           \/ balance' = [balance EXCEPT ![w] = @ - Gas]
    PROVE  /\ balance'[w] \in Int
           /\ balance'[w] >= balance[w] - Cost(tx.does)
           /\ \A v \in Wallet \ {w} : balance'[v] \in Nat
                                      /\ balance'[v] >= balance[v]
           /\ DOMAIN balance' = Wallet
           /\ balance' = [v \in Wallet |-> balance'[v]]
<1>1. balance \in [Wallet -> Nat]
  BY DEF TypeOK
<1>2. Cost(tx.does) \in Nat /\ Gas <= Cost(tx.does) /\ Gas \in Nat
      /\ Amount \in Nat
  BY InternalAssumption DEF Cost
<1>3. CASE balance' = [balance EXCEPT ![w] = @ - Gas]
  <2>1. balance'[w] = balance[w] - Gas
    BY <1>1, <1>3
  <2>2. \A v \in Wallet \ {w} : balance'[v] = balance[v]
    BY <1>1, <1>3
  <2>3. DOMAIN balance' = Wallet /\ balance' = [v \in Wallet |-> balance'[v]]
    BY <1>1, <1>3
  <2> QED
    BY <1>1, <1>2, <2>1, <2>2, <2>3
<1>4. CASE balance' = [v \in Wallet |->
                    IF v = w THEN balance[v] - Cost(tx.does)
                    ELSE IF tx.does = Transfer(v) THEN balance[v] + Amount
                    ELSE balance[v]]
  <2>1. /\ balance'[w] = balance[w] - Cost(tx.does)
        /\ DOMAIN balance' = Wallet
        /\ balance' = [v \in Wallet |-> balance'[v]]
    BY <1>4
  <2>2. ASSUME NEW v \in Wallet \ {w}
        PROVE  balance'[v] \in {balance[v], balance[v] + Amount}
    <3>1. CASE tx.does = Transfer(v)
      BY <1>4, <3>1
    <3>2. CASE tx.does # Transfer(v)
      BY <1>4, <3>2
    <3> QED
      BY <3>1, <3>2
  <2> QED
    BY <1>1, <1>2, <2>1, <2>2
<1> QED
  BY <1>3, <1>4

(* A block is what MinedWallet and MinedMoney speak of.                    *)
LEMMA MineState ==
    ASSUME NEW w \in Wallet, Mine(w)
    PROVE  \E tx \in Of(w) :
            /\ tx.nonce = mined[w]
            /\ mined' = [mined EXCEPT ![w] = @ + 1]
            /\ pool' = pool \ {tx}
            /\ \/ /\ Succeeds(tx.does, w)
                  /\ Execute(tx.does, w)
                  /\ balance' = [v \in Wallet |->
                        IF v = w THEN balance[v] - Cost(tx.does)
                        ELSE IF tx.does = Transfer(v) THEN balance[v] + Amount
                        ELSE balance[v]]
               \/ /\ ~ Succeeds(tx.does, w)
                  /\ balance' = [balance EXCEPT ![w] = @ - Gas]
                  /\ UNCHANGED contractVars
            /\ UNCHANGED <<live, sends, call, replaced, faults>>
BY DEF Mine

(* The pool stays in order, and no wallet is overdrawn.                    *)
LEMMA StepPool ==
    ASSUME TypeOK, PoolInv, SendsInv, [Next]_vars
    PROVE  PoolInv' /\ balance' \in [Wallet -> Nat] /\ mined' \in [Wallet -> Nat]
<1> DEFINE Good == /\ PoolInv' /\ balance' \in [Wallet -> Nat]
                   /\ mined' \in [Wallet -> Nat]
           Later(s) == s.at = "broadcast" => s.nonce <= Held(s.from)'
<1>0. /\ balance \in [Wallet -> Nat] /\ mined \in [Wallet -> Nat]
      /\ sends \subseteq Sending
  BY DEF TypeOK
<1>1. ASSUME UNCHANGED nodeVars, \A s \in sends' : s \in sends \/ Later(s)
      PROVE  Good
  <2>1. pool' = pool /\ mined' = mined /\ balance' = balance
    BY <1>1 DEF nodeVars
  <2>2. \A w : Of(w)' = Of(w) /\ Held(w)' = Held(w)
    BY <2>1 DEF Of, Held
  <2>3. \A w : Owed(Of(w))' = Owed(Of(w))
    BY <2>2 DEF Owed
  <2>4. \A w \in Wallet : WalletInv(w)'
    BY <2>1, <2>2, <2>3, PoolParts DEF PartsInv, WalletInv
  <2>5. \A s \in sends' : s.at = "broadcast" => s.nonce <= Held(s.from)'
    BY <1>1, <2>2 DEF PoolInv
  <2>6. PoolInv'
    BY <2>1, <2>4, <2>5, PoolParts DEF PartsInv, PoolInv
  <2> QED
    BY <1>0, <2>1, <2>6
<1>2. ASSUME NEW r \in Request, Replies(r)
      PROVE  Good
  BY <1>1, <1>2 DEF Replies
<1>3. ASSUME NEW r \in Request, Launches(r)
      PROVE  Good
  <2>1. \A s \in sends' : s \in sends \/ s.at = "populate"
    BY <1>3 DEF Launches, Launch
  <2> QED
    BY <1>1, <1>3, <2>1 DEF Launches
<1>4. ASSUME NEW r \in Request, Funds(r)
      PROVE  Good
  <2>1. \A s \in sends' : s \in sends \/ s.at = "populate"
    BY <1>4 DEF Funds, Funding
  <2> QED
    BY <1>1, <1>4, <2>1 DEF Funds
<1>5. ASSUME NEW s \in sends, Prepares(s)
      PROVE  Good
  <2>1. s.from \in Wallet
    BY <1>0, SendType
  <2>2. PendingNonce(s.from) = Held(s.from) /\ Held(s.from) \in Nat
    BY <2>1, PendingIsNext
  <2>3. Held(s.from)' = Held(s.from)
    BY <1>5 DEF Prepares, nodeVars, Held, Of
  <2>4. Prepared(s).nonce = Held(s.from) /\ Prepared(s).from = s.from
    BY <2>2 DEF Prepared
  <2>5. ASSUME NEW t \in sends', t \notin sends
        PROVE  t.nonce <= Held(t.from)'
    <3>1. t.nonce = Held(s.from) /\ t.from = s.from
      BY <1>5, <2>4, <2>5 DEF Prepares
    <3> QED
      BY <2>2, <2>3, <3>1
  <2> HIDE DEF Good
  <2> QED
    BY <1>1, <1>5, <2>5 DEF Prepares
<1>6. ASSUME NEW s \in sends, Fails(s)
      PROVE  Good
  BY <1>1, <1>6 DEF Fails, Failed
<1>7. ASSUME NEW s \in sends, Accepts(s)
      PROVE  Good
  <2>1. mined' = mined /\ balance' = balance
    BY <1>7 DEF Accepts
  <2>2. /\ WalletInv(s.from)' /\ Held(s.from)' >= Held(s.from)
        /\ IsFiniteSet(pool') /\ s.from \in Wallet
        /\ \A v \in Wallet \ {s.from} : Of(v)' = Of(v)
    BY <1>7, AcceptedWallet, AcceptedPool
  <2>3. ASSUME NEW w \in Wallet
        PROVE  WalletInv(w)' /\ Held(w)' >= Held(w) /\ Held(w) \in Nat
               /\ Held(w)' \in Nat
    <3>1. /\ Held(w) \in Nat /\ Owed(Of(w)) \in Nat /\ WalletInv(w)
      <4>1. IsFiniteSet(Of(w)) /\ Cardinality(Of(w)) \in Nat
        BY OfFinite DEF PoolInv
      <4>2. Owed(Of(w)) \in Nat
        BY <4>1, OwedType
      <4> QED
        BY <1>0, <4>1, <4>2, PoolParts DEF Held, PartsInv
    <3>2. Held(w)' \in Nat
      <4>1. Cardinality(Of(w)') \in Nat
        BY <2>2, OfFinite, FS_CardinalityType, FS_Subset DEF Of
      <4> QED
        BY <1>0, <2>1, <4>1 DEF Held
    <3>3. CASE w = s.from
      BY <2>2, <3>1, <3>2, <3>3
    <3>4. CASE w # s.from
      <4>1. WalletInv(w)' /\ Held(w)' = Held(w)
        BY <1>0, <2>1, <2>2, <3>1, <3>4, WalletAlone
      <4> QED
        BY <3>1, <4>1
    <3> QED
      BY <3>3, <3>4
  <2>4. ASSUME NEW t \in sends', t.at = "broadcast"
        PROVE  t.nonce <= Held(t.from)'
    <3>1. Sent(s)
      BY <1>7 DEF Accepts, Accept
    <3>2. t \in sends
      <4>1. \A p : Registration(s.by, p).at = "populate"
        BY DEF Registration
      <4>2. Unnoticed(s) \/ Funded(s) \/ Last(s) \/ NotLast(s)
        BY <3>1, SentState
      <4>3. t \in sends \/ \E p : t = Registration(s.by, p)
        BY <2>4, <4>2 DEF Unnoticed, Funded, Last, NotLast
      <4> QED
        BY <2>4, <4>1, <4>3
    <3>3. t.nonce <= Held(t.from) /\ t.nonce \in Nat /\ t.from \in Wallet
      BY <1>0, <2>4, <3>2, SendType DEF PoolInv
    <3> QED
      BY <2>3, <3>3
  <2>5. PoolInv'
    BY <2>2, <2>3, <2>4, PoolParts DEF PartsInv
  <2> QED
    BY <1>0, <2>1, <2>5
<1>8. ASSUME NEW w \in Wallet, Mine(w)
      PROVE  Good
  <2>1. PICK tx \in Of(w) :
            /\ tx.nonce = mined[w]
            /\ mined' = [mined EXCEPT ![w] = @ + 1]
            /\ pool' = pool \ {tx}
            /\ \/ balance' = [v \in Wallet |->
                        IF v = w THEN balance[v] - Cost(tx.does)
                        ELSE IF tx.does = Transfer(v) THEN balance[v] + Amount
                        ELSE balance[v]]
               \/ balance' = [balance EXCEPT ![w] = @ - Gas]
            /\ UNCHANGED <<live, sends, call, replaced, faults>>
    BY <1>8, MineState
  <2>2. /\ balance'[w] \in Int
        /\ balance'[w] >= balance[w] - Cost(tx.does)
        /\ \A v \in Wallet \ {w} : balance'[v] \in Nat
                                      /\ balance'[v] >= balance[v]
        /\ balance' = [v \in Wallet |-> balance'[v]]
    BY <2>1, MinedMoney
  <2>3. WalletInv(w)' /\ Held(w)' = Held(w) /\ balance'[w] \in Nat
    BY <2>1, <2>2, MinedWallet
  <2>4. IsFiniteSet(pool') /\ \A v \in Wallet \ {w} : Of(v)' = Of(v)
    BY <2>1, MinedPool
  <2>5. ASSUME NEW v \in Wallet
        PROVE  WalletInv(v)' /\ Held(v)' = Held(v)
    <3>1. CASE v # w
      <4>1. IsFiniteSet(Of(v)) /\ WalletInv(v)
        BY OfFinite, PoolParts DEF PoolInv, PartsInv
      <4>2. Owed(Of(v)) \in Nat
        BY <4>1, OwedType
      <4>3. mined'[v] = mined[v]
        BY <1>0, <2>1, <3>1
      <4> QED
        BY <1>0, <2>2, <2>4, <3>1, <4>1, <4>2, <4>3, WalletAlone
    <3> QED
      BY <2>3, <3>1
  <2>6. \A s \in sends' : s.at = "broadcast" => s.nonce <= Held(s.from)'
    BY <1>0, <2>1, <2>5, SendType DEF PoolInv
  <2>7. PoolInv'
    BY <2>4, <2>5, <2>6, PoolParts DEF PartsInv
  <2>8. balance' \in [Wallet -> Nat] /\ mined' \in [Wallet -> Nat]
    BY <1>0, <2>1, <2>2, <2>3
  <2> QED
    BY <2>7, <2>8
<1>9. ASSUME Crash
      PROVE  Good
  BY <1>1, <1>9 DEF Crash
<1>10. ASSUME Idle
       PROVE  Good
  BY <1>1, <1>10 DEF Idle, vars, nodeVars
<1> HIDE DEF Good
<1>11. Good
  BY <1>2, <1>3, <1>4, <1>5, <1>6, <1>7, <1>8, <1>9, <1>10, EveryStepIs
<1> QED
  BY <1>11 DEF Good

-----------------------------------------------------------------------------
(* A block that executes a call leaves the contract typed.                 *)
ContractTyped ==
    /\ otpRecords \in [Provider -> Chain!OTPData]
    /\ blacklisted \in [Provider -> BOOLEAN]
    /\ roles \in [Chain!Role -> SUBSET Wallet]
    /\ log \in [Provider -> Seq(Chain!Event)]

(* Events are appended to the logs.                                        *)
LEMMA EmitType ==
    ASSUME log \in [Provider -> Seq(Chain!Event)], NEW users,
           NEW event \in Chain!Event, Chain!Emit(users, event)
    PROVE  log' \in [Provider -> Seq(Chain!Event)]
<1>1. \A p \in Provider : log[p] \in Seq(Chain!Event)
  OBVIOUS
<1>2. \A p \in Provider : Append(log[p], event) \in Seq(Chain!Event)
  BY <1>1
<1> QED
  BY <1>1, <1>2 DEF Chain!Emit

(* The commitment of a registration is some digest but zero.               *)
LEMMA CommitmentType == (CHOOSE d \in Digest : d # Zero) \in Digest \ {Zero}
<1>1. \E d \in Digest : d # Zero
  BY InternalAssumption
<1> QED
  BY <1>1

(* What a block executes, by the method called.                            *)
LEMMA ExecuteType ==
    ASSUME ContractTyped, NEW c \in Method, NEW w \in Wallet, Execute(c, w)
    PROVE  ContractTyped'
<1> USE DEF ContractTyped
<1>1. CASE c.method = "blacklistUser"
  <2>1. Chain!BlacklistUser(c.user, w) /\ c.user \in Provider
    BY <1>1, MethodType DEF Execute
  <2>2. log' \in [Provider -> Seq(Chain!Event)]
    BY <2>1, EmitType DEF Chain!BlacklistUser, Chain!Event
  <2> QED
    BY <2>1, <2>2 DEF Chain!BlacklistUser
<1>2. CASE c.method = "registerUser"
  <2> DEFINE d == CHOOSE x \in Digest : x # Zero
  <2>1. Chain!RegisterUser(c.user, d, w, w) /\ c.user \in Provider
    BY <1>2, MethodType DEF Execute
  <2>2. d \in Digest
    BY CommitmentType
  <2> HIDE DEF d
  <2>3. log' \in [Provider -> Seq(Chain!Event)]
    BY <2>1, EmitType DEF Chain!RegisterUser, Chain!Event
  <2>4. otpRecords' \in [Provider -> Chain!OTPData]
    BY <2>1, <2>2 DEF Chain!RegisterUser, Chain!OTPData
  <2> QED
    BY <2>1, <2>3, <2>4 DEF Chain!RegisterUser
<1>3. CASE c.method = "updateOtpWindow"
  <2>1. Chain!UpdateOtpWindow(c.user, 1, 2, w) /\ c.user \in Provider
    BY <1>3, MethodType DEF Execute
  <2>2. log' \in [Provider -> Seq(Chain!Event)]
    BY <2>1, EmitType DEF Chain!UpdateOtpWindow, Chain!Event
  <2>3. otpRecords' \in [Provider -> Chain!OTPData]
    BY <2>1 DEF Chain!UpdateOtpWindow, Chain!OTPData
  <2> QED
    BY <2>1, <2>2, <2>3 DEF Chain!UpdateOtpWindow
<1>4. CASE c.method = "resetManyOtps"
  <2>1. Chain!ResetManyOtps(c.users, w)
    BY <1>4, MethodType DEF Execute
  <2>2. log' \in [Provider -> Seq(Chain!Event)]
    BY <2>1, EmitType DEF Chain!ResetManyOtps, Chain!Event
  <2>3. Chain!EmptyRecord \in Chain!OTPData
    BY InternalAssumption DEF Chain!EmptyRecord, Chain!OTPData
  <2> QED
    BY <2>1, <2>2, <2>3 DEF Chain!ResetManyOtps
<1>5. CASE c.method = "grantRole"
  <2>1. Chain!GrantRole(c.role, c.account, w) /\ c.account \in Wallet
    BY <1>5, MethodType DEF Execute
  <2> QED
    BY <2>1 DEF Chain!GrantRole
<1>6. CASE c.method = "transfer"
  BY <1>6 DEF Execute, contractVars
<1> QED
  BY <1>1, <1>2, <1>3, <1>4, <1>5, <1>6, MethodType

(* One handler written, typed.                                             *)
LEMMA OneCallType ==
    ASSUME TypeOK, NEW r \in Request,
           call' = [q \in Request |-> call'[q]],
           \A q \in Request \ {r} : call'[q] = call[q],
           call'[r] \in Handler
    PROVE  call' \in [Request -> Handler]
<1>1. call \in [Request -> Handler]
  BY DEF TypeOK, Handler
<1>2. \A q \in Request : call'[q] \in Handler
  BY <1>1
<1> QED
  BY <1>2

(* A step keeps every type: no nonce, price or count leaves the numbers.   *)
LEMMA StepType ==
    ASSUME TypeOK, PoolInv, SendsInv, [Next]_vars
    PROVE  TypeOK'
<1> DEFINE Chained == ContractTyped' /\ live' \in SUBSET Provider
           Money == /\ balance' \in [Wallet -> Nat]
                    /\ mined' \in [Wallet -> Nat]
           Pooled == pool' \in SUBSET Transaction /\ replaced' \in SUBSET Request
           Sends == sends' \in SUBSET Sending
           Calling == call' \in [Request -> Handler]
           Faulty == faults' \in 0 .. MaxFaults
           Typed == Chained /\ Pooled /\ Sends /\ Calling /\ Faulty
<1>0. /\ ContractTyped /\ live \in SUBSET Provider
      /\ pool \in SUBSET Transaction /\ replaced \in SUBSET Request
      /\ sends \in SUBSET Sending /\ call \in [Request -> Handler]
      /\ faults \in 0 .. MaxFaults
  BY DEF TypeOK, ContractTyped, Handler
<1>1. Money
  BY StepPool
<1>2. /\ UNCHANGED contractVars => ContractTyped'
      /\ UNCHANGED live => live' \in SUBSET Provider
      /\ UNCHANGED nodeVars => ContractTyped' /\ Pooled
      /\ UNCHANGED <<pool, replaced>> => Pooled
      /\ UNCHANGED sends => Sends
      /\ UNCHANGED call => Calling
      /\ UNCHANGED faults => Faulty
  BY <1>0 DEF contractVars, nodeVars, ContractTyped
<1> HIDE DEF Pooled, Sends, Calling, Faulty
<1>3. ASSUME NEW r \in Request, Replies(r)
      PROVE  Typed
  <2>1. PICK o \in Operation, users \in SUBSET Provider, error \in Error :
            Answer(r, o, users, error)
    BY <1>3 DEF Replies
  <2>2. [at |-> "done", op |-> o, users |-> users, error |-> error] \in Handler
    BY DEF Handler, Done
  <2>3. Calling
    BY <1>0, <2>1, <2>2 DEF Answer, Calling
  <2> QED
    BY <1>2, <1>3, <2>3 DEF Replies
<1>4. ASSUME NEW r \in Request, Launches(r)
      PROVE  Typed
  <2>1. PICK o \in Operation, w \in Wallet, users \in SUBSET Provider,
             calls \in SUBSET Method :
                Launch(r, o, w, users, calls) /\ IsFiniteSet(calls)
                /\ calls # {}
    BY <1>4 DEF Launches
  <2>2. Cardinality(calls) \in Nat \ {0}
    BY <2>1, FS_CardinalityType, FS_EmptySet
  <2>3. [at |-> "sending", op |-> o, users |-> users,
         left |-> Cardinality(calls)] \in Handler
    BY <2>2 DEF Handler, InProgress
  <2>4. Calling
    BY <1>0, <2>1, <2>3 DEF Launch, Calling
  <2>5. Sends
    BY <1>0, <2>1, NewSendType DEF Launch, Sends
  <2> QED
    BY <1>2, <1>4, <2>4, <2>5 DEF Launches
<1>5. ASSUME NEW r \in Request, Funds(r)
      PROVE  Typed
  <2>1. PICK p \in Provider :
            call' = [call EXCEPT ![r] = [at |-> "funding", left |-> 1,
                                         op |-> "register", users |-> {p}]]
    BY <1>5 DEF Funds
  <2>2. [at |-> "funding", left |-> 1, op |-> "register", users |-> {p}]
            \in Handler
    BY DEF Handler, InProgress
  <2>3. Calling
    BY <1>0, <2>1, <2>2 DEF Calling
  <2>4. Sends
    BY <1>0, <1>5, NewSendType DEF Funds, Sends
  <2> QED
    BY <1>2, <1>5, <2>3, <2>4 DEF Funds
<1>6. ASSUME NEW s \in sends, Prepares(s)
      PROVE  Typed
  <2>1. PendingNonce(s.from) \in Nat
    BY <1>0, SendType, PendingIsNext
  <2>2. Prepared(s) \in Sending
    BY <1>0, <2>1, SendType, NewSendType DEF Prepared
  <2>3. Sends
    BY <1>0, <1>6, <2>2 DEF Prepares, Sends
  <2> QED
    BY <1>2, <1>6, <2>3 DEF Prepares
<1>7. ASSUME NEW s \in sends, Fails(s)
      PROVE  Typed
  <2>0. s.by \in Request
    BY <1>0, SendType
  <2>1. PICK error \in Error : Failed(s, error)
    BY <1>7 DEF Fails
  <2>2. s.by \in Active => /\ call[s.by].op \in Operation
                           /\ call[s.by].users \in SUBSET Provider
    BY ActiveType DEF InProgress, Operation
  <2>3. s.by \in Active =>
            [at |-> "done", op |-> call[s.by].op, users |-> call[s.by].users,
             error |-> error] \in Handler
    BY <2>2 DEF Handler, Done
  <2>4. call'[s.by] \in Handler
    BY <1>0, <2>0, <2>1, <2>3, FailedState
  <2>5. Calling
    BY <2>0, <2>1, <2>4, FailedState, OneCallType DEF Calling
  <2>6. Sends
    BY <1>0, <2>1, FailedState DEF Sends
  <2> QED
    BY <1>2, <1>7, <2>5, <2>6 DEF Fails
<1>8. ASSUME NEW s \in sends, Accepts(s)
      PROVE  Typed
  <2>0. /\ s.by \in Request /\ s.from \in Wallet /\ s.does \in Method
        /\ s.nonce \in Nat
    BY <1>0, <1>8, SendType DEF Accepts
  <2>1. Sent(s)
    BY <1>8 DEF Accepts, Accept
  <2>2. Unnoticed(s) \/ Funded(s) \/ Last(s) \/ NotLast(s)
    BY <2>1, SentState
  <2>3. Sends
    <3>1. \A t \in sends' : t \in sends
                            \/ \E p \in Provider : t = Registration(s.by, p)
      BY <2>2 DEF Unnoticed, Funded, Last, NotLast
    <3> QED
      BY <1>0, <2>0, <3>1, NewSendType DEF Sends
  <2>4. s.by \in Active => /\ call[s.by].op \in Operation
                           /\ call[s.by].users \in SUBSET Provider
                           /\ call[s.by].left \in Nat \ {0}
    BY ActiveType DEF InProgress, Operation
  <2>6. call'[s.by] \in Handler
    <3>1. CASE Funded(s)
      BY <3>1 DEF Funded, Handler, InProgress, Operation
    <3>2. CASE Last(s)
      BY <2>4, <3>2 DEF Last, Handler, Done, Error
    <3>3. CASE NotLast(s)
      <4>1. call[s.by].left - 1 \in Nat \ {0}
        BY <2>4, <3>3 DEF NotLast
      <4> QED
        BY <2>4, <3>3, <4>1 DEF NotLast, Handler, InProgress
    <3> QED
      BY <1>0, <2>0, <2>2, <3>1, <3>2, <3>3 DEF Unnoticed
  <2>7. \A q \in Request \ {s.by} : call'[q] = call[q]
    BY <2>2 DEF Unnoticed, Funded, Last, NotLast
  <2>8. Calling
    BY <2>0, <2>1, <2>6, <2>7, SentState, OneCallType DEF Calling
  <2>9. Pooled
    <3>1. Broadcasted(s) \in Transaction
      BY <2>0 DEF Broadcasted, Transaction
    <3>2. pool' \in SUBSET Transaction
      BY <1>0, <1>8, <3>1 DEF Accepts, Accept, Broadcasted
    <3>3. \A tx \in Rivals(s) : tx.by \in Request
      BY <1>0, TransactionType DEF Rivals, Of
    <3>4. replaced' \in SUBSET Request
      BY <1>0, <1>8, <3>3 DEF Accepts, Accept
    <3> QED
      BY <3>2, <3>4 DEF Pooled
  <2> QED
    BY <1>0, <1>2, <1>8, <2>3, <2>8, <2>9 DEF Accepts
<1>9. ASSUME NEW w \in Wallet, Mine(w)
      PROVE  Typed
  <2>1. PICK tx \in Of(w) :
            /\ pool' = pool \ {tx}
            /\ Execute(tx.does, w) \/ UNCHANGED contractVars
            /\ UNCHANGED <<live, sends, call, replaced, faults>>
    BY <1>9, MineState
  <2>2. tx.does \in Method
    BY <1>0, TransactionType DEF Of
  <2>3. ContractTyped'
    BY <1>0, <1>2, <2>1, <2>2, ExecuteType
  <2>4. Pooled
    BY <1>0, <2>1 DEF Pooled
  <2> QED
    BY <1>2, <2>1, <2>3, <2>4
<1>10. ASSUME Crash
       PROVE  Typed
  <2>1. CutOff \in Handler
    BY DEF Handler
  <2>2. Calling
    BY <1>0, <1>10, <2>1 DEF Crash, Calling
  <2>3. Sends /\ Faulty
    BY <1>0, <1>10, InternalAssumption DEF Crash, Sends, Faulty
  <2> QED
    BY <1>2, <1>10, <2>2, <2>3 DEF Crash
<1>11. ASSUME Idle
       PROVE  Typed
  BY <1>2, <1>11 DEF Idle, vars
<1>12. Typed
  <2> HIDE DEF Typed
  <2> QED
    BY <1>3, <1>4, <1>5, <1>6, <1>7, <1>8, <1>9, <1>10, <1>11, EveryStepIs
<1> QED
  BY <1>1, <1>12
     DEF Pooled, Sends, Calling, Faulty, TypeOK, ContractTyped, Handler

-----------------------------------------------------------------------------
(* The invariant of the sends, a request at a time.                        *)
HandlerInv(r) ==
    /\ call[r] = New => Running(r) = {}
    /\ call[r].at = "funding" => \E p \in Provider : call[r].users = {p}
    /\ call[r].at = "done" /\ call[r].error = "none" => Running(r) = {}
    /\ r \in Active => call[r].left = Cardinality(Running(r))
DistinctSends == \A s, t \in sends : s.by = t.by /\ s.does = t.does => s = t

(* It is the invariant.                                                    *)
LEMMA SendsParts ==
    ASSUME TypeOK, TypeOK'
    PROVE  /\ SendsInv <=> /\ IsFiniteSet(sends) /\ DistinctSends
                           /\ \A r \in Request : HandlerInv(r)
           /\ SendsInv' <=> /\ IsFiniteSet(sends') /\ DistinctSends'
                            /\ \A r \in Request : HandlerInv(r)'
<1>1. /\ \A s \in sends : s.by \in Request
      /\ \A s \in sends' : s.by \in Request
  BY SendType DEF TypeOK
<1>2. Active \subseteq Request /\ Active' \subseteq Request
  BY DEF Active
<1>3. SendsInv <=> /\ IsFiniteSet(sends) /\ DistinctSends
                   /\ \A r \in Request : HandlerInv(r)
  <2>1. (\A s \in sends : call[s.by] # New)
            <=> (\A r \in Request : call[r] = New => Running(r) = {})
    BY <1>1 DEF Running
  <2>2. AwaitsItsSends <=> (\A r \in Request :
                r \in Active => call[r].left = Cardinality(Running(r)))
    <3>1. AwaitsItsSends <=> (\A r \in Active :
                call[r].left = Cardinality(Running(r)))
      BY Zenon DEF AwaitsItsSends, Running
    <3> QED
      BY <1>2, <3>1
  <2>3. (\A r \in Request : HandlerInv(r)) <=>
            /\ (\A r \in Request : call[r] = New => Running(r) = {})
            /\ (\A r \in Request :
                /\ call[r].at = "funding" =>
                        \E p \in Provider : call[r].users = {p}
                /\ call[r].at = "done" /\ call[r].error = "none"
                    => Running(r) = {})
            /\ (\A r \in Request :
                r \in Active => call[r].left = Cardinality(Running(r)))
    BY Zenon DEF HandlerInv
  <2> QED
    BY <2>1, <2>2, <2>3, Zenon DEF SendsInv, DistinctSends
<1>4. SendsInv' <=> /\ IsFiniteSet(sends') /\ DistinctSends'
                   /\ \A r \in Request : HandlerInv(r)'
  <2>1. (\A s \in sends : call[s.by] # New)'
            <=> (\A r \in Request : call[r] = New => Running(r) = {})'
    BY <1>1 DEF Running
  <2>2. AwaitsItsSends' <=> (\A r \in Request :
                r \in Active => call[r].left = Cardinality(Running(r)))'
    <3>1. AwaitsItsSends' <=> (\A r \in Active :
                call[r].left = Cardinality(Running(r)))'
      BY Zenon DEF AwaitsItsSends, Running
    <3> QED
      BY <1>2, <3>1
  <2>3. (\A r \in Request : HandlerInv(r))' <=>
            /\ (\A r \in Request : call[r] = New => Running(r) = {})'
            /\ (\A r \in Request :
                /\ call[r].at = "funding" =>
                        \E p \in Provider : call[r].users = {p}
                /\ call[r].at = "done" /\ call[r].error = "none"
                    => Running(r) = {})'
            /\ (\A r \in Request :
                r \in Active => call[r].left = Cardinality(Running(r)))'
    BY Zenon DEF HandlerInv
  <2> QED
    BY <2>1, <2>2, <2>3, Zenon DEF SendsInv, DistinctSends
<1> QED
  BY <1>3, <1>4

(* A request that a step leaves alone.                                     *)
LEMMA HandlerAlone ==
    ASSUME NEW q \in Request, HandlerInv(q), call'[q] = call[q],
           Running(q)' = Running(q)
    PROVE  HandlerInv(q)'
BY DEF HandlerInv, Active

(* Handlers wait for what runs, whatever the step.                         *)
LEMMA StepSends ==
    ASSUME TypeOK, PoolInv, SendsInv, [Next]_vars
    PROVE  SendsInv'
<1> DEFINE Good == /\ IsFiniteSet(sends') /\ DistinctSends'
                   /\ \A r \in Request : HandlerInv(r)'
<1>0. /\ IsFiniteSet(sends) /\ DistinctSends
      /\ \A r \in Request : HandlerInv(r)
      /\ TypeOK'
  BY StepType, SendsParts
<1>1. /\ call \in [Request -> Handler] /\ sends \subseteq Sending
      /\ \A s \in sends : s.by \in Request
  BY SendType DEF TypeOK, Handler
<1>2. ASSUME UNCHANGED <<call, sends>>
      PROVE  Good
  BY <1>0, <1>2, HandlerAlone DEF DistinctSends, Running
<1>3. ASSUME NEW r \in Request, Replies(r)
      PROVE  Good
  <2>1. PICK o, users, error : Answer(r, o, users, error)
    BY <1>3 DEF Replies
  <2>2. sends' = sends /\ call[r] = New
    BY <1>3 DEF Replies
  <2>3. \A q : Running(q)' = Running(q)
    BY <2>2 DEF Running
  <2>4. call'[r].at = "done" /\ \A q \in Request \ {r} : call'[q] = call[q]
    BY <1>1, <2>1 DEF Answer
  <2>5. HandlerInv(r)'
    <3>1. New.at = "new"
      BY DEF New
    <3> QED
      BY <1>0, <2>2, <2>3, <2>4, <3>1 DEF HandlerInv, Active
  <2> QED
    BY <1>0, <2>2, <2>3, <2>4, <2>5, HandlerAlone DEF DistinctSends
<1>4. ASSUME NEW r \in Request, Launches(r)
      PROVE  Good
  <2>1. PICK o, w, users, calls :
            /\ Launch(r, o, w, users, calls)
            /\ IsFiniteSet(calls)
    BY <1>4 DEF Launches
  <2> DEFINE Started(c) == [by |-> r, from |-> w, does |-> c, at |-> "populate"]
             started == {Started(c) : c \in calls}
  <2>2. sends' = sends \union started
    BY <2>1 DEF Launch
  <2>3. Running(r) = {}
    BY <1>0, <1>4 DEF HandlerInv, Launches
  <2>4. /\ \A s \in started : s.by = r
        /\ \A s, t \in started : s.does = t.does => s = t
    OBVIOUS
  <2>5. IsFiniteSet(started) /\ Cardinality(started) = Cardinality(calls)
    <3> DEFINE f == [c \in calls |-> Started(c)]
    <3>1. f \in Bijection(calls, started)
      BY DEF Bijection, Injection, Surjection, IsInjective
    <3>2. ExistsBijection(calls, started)
      BY <3>1 DEF ExistsBijection
    <3> QED
      BY <2>1, <3>2, FS_Bijection
  <2>6. /\ call'[r].at = "sending" /\ call'[r].left = Cardinality(calls)
        /\ \A q \in Request \ {r} : call'[q] = call[q]
    BY <1>1, <2>1 DEF Launch
  <2> HIDE DEF started
  <2>7. Running(r)' = started
    BY <2>2, <2>3, <2>4 DEF Running
  <2>8. \A q \in Request \ {r} : Running(q)' = Running(q)
    BY <2>2, <2>4 DEF Running
  <2>9. HandlerInv(r)'
    <3>1. New.at = "new"
      BY DEF New
    <3> QED
      BY <2>5, <2>6, <2>7, <3>1 DEF HandlerInv, Active
  <2>10. DistinctSends'
    BY <1>0, <2>2, <2>3, <2>4 DEF DistinctSends, Running
  <2>11. IsFiniteSet(sends')
    BY <1>0, <2>2, <2>5, FS_Union
  <2> QED
    BY <1>0, <2>6, <2>8, <2>9, <2>10, <2>11, HandlerAlone
<1>5. ASSUME NEW r \in Request, Funds(r)
      PROVE  Good
  <2>1. PICK p \in Provider :
            call' = [call EXCEPT ![r] = [at |-> "funding", left |-> 1,
                                         op |-> "register", users |-> {p}]]
    BY <1>5 DEF Funds
  <2>2. sends' = sends \union {Funding(r)} /\ Funding(r).by = r
    BY <1>5 DEF Funds, Funding
  <2>3. Running(r) = {}
    BY <1>0, <1>5 DEF HandlerInv, Funds
  <2>4. /\ call'[r].at = "funding" /\ call'[r].left = 1
        /\ call'[r].users = {p}
        /\ \A q \in Request \ {r} : call'[q] = call[q]
    BY <1>1, <2>1
  <2>5. Running(r)' = {Funding(r)}
    BY <2>2, <2>3 DEF Running
  <2>6. \A q \in Request \ {r} : Running(q)' = Running(q)
    BY <2>2 DEF Running
  <2>7. HandlerInv(r)'
    <3>1. New.at = "new"
      BY DEF New
    <3>2. Cardinality({Funding(r)}) = 1
      BY FS_Singleton
    <3> QED
      BY <2>4, <2>5, <3>1, <3>2 DEF HandlerInv, Active
  <2>8. DistinctSends'
    BY <1>0, <2>2, <2>3 DEF DistinctSends, Running
  <2>9. IsFiniteSet(sends')
    BY <1>0, <2>2, FS_AddElement
  <2> QED
    BY <1>0, <2>4, <2>6, <2>7, <2>8, <2>9, HandlerAlone
<1>6. ASSUME NEW s \in sends, Prepares(s)
      PROVE  Good
  <2> DEFINE n == Prepared(s)
  <2>1. /\ n.by = s.by /\ n.does = s.does /\ n.at = "broadcast"
        /\ s.at = "populate"
    BY <1>6 DEF Prepared, Prepares
  <2>2. sends' = (sends \ {s}) \union {n} /\ call' = call
    BY <1>6 DEF Prepares
  <2> HIDE DEF n
  <2>3. n \notin sends
    BY <1>0, <2>1 DEF DistinctSends
  <2>4. DistinctSends'
    BY <1>0, <2>1, <2>2 DEF DistinctSends
  <2>5. IsFiniteSet(sends \ {s}) /\ IsFiniteSet(sends')
    BY <1>0, <2>2, FS_RemoveElement, FS_AddElement
  <2>6. ASSUME NEW q \in Request
        PROVE  HandlerInv(q)'
    <3>1. CASE q # s.by
      <4>1. Running(q)' = Running(q)
        BY <2>1, <2>2, <3>1 DEF Running
      <4> QED
        BY <1>0, <2>2, <4>1, HandlerAlone
    <3>2. CASE q = s.by
      <4>1. /\ Running(q)' = (Running(q) \ {s}) \union {n}
            /\ s \in Running(q) /\ n \notin Running(q)
        BY <2>1, <2>2, <2>3, <3>2 DEF Running
      <4>2. IsFiniteSet(Running(q)) /\ IsFiniteSet(Running(q) \ {s})
        <5>1. Running(q) \in SUBSET sends
          BY DEF Running
        <5> QED
          BY <1>0, <5>1, FS_Subset, FS_RemoveElement
      <4>3. Cardinality(Running(q)') = Cardinality(Running(q))
        <5>1. Cardinality(Running(q) \ {s}) = Cardinality(Running(q)) - 1
          BY <4>1, <4>2, FS_RemoveElement
        <5>2. Cardinality(Running(q)') = Cardinality(Running(q) \ {s}) + 1
          BY <4>1, <4>2, FS_AddElement
        <5>3. Cardinality(Running(q)) \in Nat
          BY <4>2, FS_CardinalityType
        <5> QED
          BY <5>1, <5>2, <5>3
      <4> QED
        BY <1>0, <2>2, <4>1, <4>3 DEF HandlerInv, Active
    <3> QED
      BY <3>1, <3>2
  <2> QED
    BY <2>4, <2>5, <2>6
<1>7. ASSUME NEW s \in sends, sends' = sends \ {s},
             \A q \in Request \ {s.by} : call'[q] = call[q],
             HandlerInv(s.by)'
      PROVE  Good
  <2>1. \A q \in Request \ {s.by} : Running(q)' = Running(q)
    BY <1>7 DEF Running
  <2>2. IsFiniteSet(sends')
    BY <1>0, <1>7, FS_RemoveElement
  <2>3. DistinctSends'
    BY <1>0, <1>7 DEF DistinctSends
  <2> QED
    BY <1>0, <1>7, <2>1, <2>2, <2>3, HandlerAlone
<1>8. ASSUME NEW s \in sends, sends' = sends \ {s}, s.by \notin Active,
             call'[s.by] = call[s.by]
      PROVE  HandlerInv(s.by)'
  <2>1. Running(s.by)' \subseteq Running(s.by)
    BY <1>8 DEF Running
  <2> QED
    BY <1>0, <1>1, <1>8, <2>1 DEF HandlerInv, Active
<1>9. ASSUME NEW s \in sends, Fails(s)
      PROVE  Good
  <2>1. PICK error \in Error \ {"none"} : Failed(s, error)
    BY <1>9 DEF Fails
  <2>2. /\ sends' = sends \ {s}
        /\ \A q \in Request \ {s.by} : call'[q] = call[q]
        /\ s.by \notin Active => call'[s.by] = call[s.by]
        /\ s.by \in Active =>
                call'[s.by] = [at |-> "done", op |-> call[s.by].op,
                               users |-> call[s.by].users, error |-> error]
    BY <2>1, FailedState
  <2>3. HandlerInv(s.by)'
    <3>1. CASE s.by \in Active
      <4>1. New.at = "new"
        BY DEF New
      <4>2. call'[s.by].at = "done" /\ call'[s.by].error # "none"
        BY <2>1, <2>2, <3>1
      <4> QED
        BY <4>1, <4>2 DEF HandlerInv, Active
    <3> QED
      BY <1>8, <2>2, <3>1
  <2> QED
    BY <1>7, <2>2, <2>3
<1>10. ASSUME NEW s \in sends, Accepts(s)
       PROVE  Good
  <2> DEFINE r == s.by
  <2>0. Unnoticed(s) \/ Funded(s) \/ Last(s) \/ NotLast(s)
    BY <1>10, SentState DEF Accepts, Accept
  <2>1. r \in Request /\ New.at = "new"
    BY <1>1 DEF New
  <2>2. IsFiniteSet(Running(r)) /\ s \in Running(r)
    <3>1. Running(r) \in SUBSET sends
      BY DEF Running
    <3>2. IsFiniteSet(Running(r))
      BY <1>0, <3>1, FS_Subset
    <3> QED
      BY <3>2 DEF Running
  <2>3. r \in Active => call[r].left = Cardinality(Running(r))
    BY <1>0, <2>1 DEF HandlerInv
  <2>4. /\ IsFiniteSet(Running(r) \ {s})
        /\ Cardinality(Running(r) \ {s}) = Cardinality(Running(r)) - 1
    BY <2>2, FS_RemoveElement
  <2>5. ASSUME r \in Active, call[r].left = 1
        PROVE  Running(r) = {s}
    <3>1. Cardinality(Running(r) \ {s}) = 0
      BY <2>3, <2>4, <2>5
    <3>2. Running(r) \ {s} = {}
      BY <2>4, <3>1, FS_EmptySet
    <3> QED
      BY <2>2, <3>2
  <2>6. CASE Unnoticed(s)
    BY <1>7, <1>8, <2>6 DEF Unnoticed
  <2>7. CASE Funded(s)
    <3>1. call[r].left = 1
      BY <2>7, ActiveType DEF Funded, InProgress
    <3>2. Running(r) = {s}
      BY <2>5, <2>7, <3>1 DEF Funded
    <3>3. PICK p \in Provider :
                /\ call'[r] = [at |-> "sending", op |-> "register",
                               users |-> {p}, left |-> 1]
                /\ sends' = (sends \ {s}) \union {Registration(r, p)}
      BY <2>7 DEF Funded
    <3> DEFINE n == Registration(r, p)
    <3>4. n.by = r
      BY DEF Registration
    <3> HIDE DEF n
    <3>5. Running(r)' = {n} /\ \A q \in Request \ {r} : Running(q)' = Running(q)
      BY <3>2, <3>3, <3>4 DEF Running, n
    <3>6. Cardinality({n}) = 1
      BY FS_Singleton
    <3>7. HandlerInv(r)'
      <4>1. call'[r].at = "sending" /\ call'[r].left = 1
        BY <3>3
      <4> QED
        BY <2>1, <3>5, <3>6, <4>1 DEF HandlerInv, Active
    <3>8. IsFiniteSet(sends \ {s})
      BY <1>0, FS_RemoveElement
    <3>9. IsFiniteSet(sends')
      BY <3>3, <3>8, FS_AddElement DEF n
    <3>10. DistinctSends'
      BY <1>0, <3>2, <3>3, <3>4 DEF DistinctSends, Running, n
    <3>11. \A q \in Request \ {r} : call'[q] = call[q]
      BY <2>7 DEF Funded
    <3> QED
      BY <1>0, <3>5, <3>7, <3>9, <3>10, <3>11, HandlerAlone
  <2>8. CASE Last(s)
    <3>1. Running(r) = {s}
      BY <2>5, <2>8 DEF Last
    <3>2. Running(r)' = {}
      BY <2>8, <3>1 DEF Last, Running
    <3>3. call'[r].at = "done"
      BY <2>8 DEF Last
    <3>4. HandlerInv(r)'
      BY <2>1, <3>2, <3>3 DEF HandlerInv, Active
    <3> QED
      BY <1>7, <2>8, <3>4 DEF Last
  <2>9. CASE NotLast(s)
    <3>1. Running(r)' = Running(r) \ {s}
      BY <2>9 DEF NotLast, Running
    <3>2. call'[r].at = "sending" /\ call'[r].left = call[r].left - 1
      BY <2>9 DEF NotLast
    <3>3. HandlerInv(r)'
      BY <2>1, <2>3, <2>4, <2>9, <3>1, <3>2 DEF HandlerInv, Active, NotLast
    <3> QED
      BY <1>7, <2>9, <3>3 DEF NotLast
  <2> QED
    BY <2>0, <2>6, <2>7, <2>8, <2>9
<1>11. ASSUME NEW w \in Wallet, Mine(w)
       PROVE  Good
  BY <1>2, <1>11 DEF Mine
<1>12. ASSUME Crash
       PROVE  Good
  <2>1. sends' = {}
    BY <1>12 DEF Crash
  <2>2. CutOff.at = "cut off"
    BY DEF CutOff
  <2>3. \A q \in Request : call'[q].at \notin {"sending", "funding"}
    BY <1>12, <2>2 DEF Crash, Active
  <2>4. \A q \in Request : HandlerInv(q)'
    BY <2>1, <2>3 DEF HandlerInv, Running, Active
  <2>5. IsFiniteSet(sends')
    BY <2>1, FS_EmptySet
  <2> QED
    BY <2>1, <2>4, <2>5 DEF DistinctSends
<1>13. ASSUME Idle
       PROVE  Good
  BY <1>2, <1>13 DEF Idle, vars
<1> HIDE DEF Good
<1>14. Good
  BY <1>3, <1>4, <1>5, <1>6, <1>9, <1>10, <1>11, <1>12, <1>13, EveryStepIs
<1> QED
  BY <1>0, <1>14, SendsParts DEF Good

-----------------------------------------------------------------------------
(* At the start the user's wallet has what its registrations left it.      *)
LEMMA InitTyped == Init => TypeOK /\ PoolInv /\ SendsInv
<1> SUFFICES ASSUME Init
             PROVE  TypeOK /\ PoolInv /\ SendsInv
  OBVIOUS
<1>1. PICK enrolled \in SUBSET live :
        /\ otpRecords = [p \in Provider |->
                IF p \in enrolled
                THEN [Chain!EmptyRecord EXCEPT !.index = 1,
                        !.commitmentValue = CHOOSE d \in Digest : d # Zero]
                ELSE Chain!EmptyRecord]
        /\ log = [p \in Provider |->
                    IF p \in enrolled THEN <<"UserRegistered">> ELSE <<>>]
        /\ balance = [w \in Wallet |->
                IF w = "admin" THEN AdminBalance
                ELSE Cardinality(enrolled) * (Amount - Gas)]
        /\ mined = [w \in Wallet |-> Cardinality(enrolled)]
  BY DEF Init
<1>2. /\ live \in SUBSET Provider
      /\ blacklisted = [p \in Provider |-> FALSE]
      /\ roles = [role \in Chain!Role |-> {"admin"}]
      /\ pool = {} /\ sends = {} /\ replaced = {} /\ faults = 0
      /\ call = [r \in Request |-> New]
  BY DEF Init
<1>3. Cardinality(enrolled) \in Nat
  <2>1. IsFiniteSet(enrolled)
    <3>1. enrolled \in SUBSET Provider
      BY <1>2
    <3> QED
      BY <3>1, InternalAssumption, FS_Subset
  <2> QED
    BY <2>1, FS_CardinalityType
<1>4. balance \in [Wallet -> Nat] /\ mined \in [Wallet -> Nat]
  <2>1. Cardinality(enrolled) * (Amount - Gas) \in Nat
    BY <1>3, InternalAssumption
  <2> QED
    BY <1>1, <1>3, <2>1, InternalAssumption
<1>5. otpRecords \in [Provider -> Chain!OTPData]
  <2> DEFINE d == CHOOSE x \in Digest : x # Zero
             e == [Chain!EmptyRecord EXCEPT !.index = 1,
                                            !.commitmentValue = d]
  <2>1. d \in Digest
    BY CommitmentType
  <2> HIDE DEF d
  <2>2. Chain!EmptyRecord \in Chain!OTPData /\ e \in Chain!OTPData
    BY <2>1, InternalAssumption DEF Chain!EmptyRecord, Chain!OTPData
  <2>3. otpRecords = [p \in Provider |-> IF p \in enrolled THEN e
                                         ELSE Chain!EmptyRecord]
    BY <1>1 DEF d
  <2> HIDE DEF e
  <2> QED
    BY <2>2, <2>3
<1>6. log \in [Provider -> Seq(Chain!Event)]
  <2>1. /\ <<"UserRegistered">> \in Seq(Chain!Event)
        /\ <<>> \in Seq(Chain!Event)
    BY DEF Chain!Event
  <2> QED
    BY <1>1, <2>1
<1>7. TypeOK
  <2>1. roles \in [Chain!Role -> SUBSET Wallet]
    BY <1>2 DEF Wallet
  <2> QED
    BY <1>2, <1>4, <1>5, <1>6, <2>1, InternalAssumption DEF TypeOK
<1>8. PoolInv
  <2>1. \A w : Of(w) = {}
    BY <1>2 DEF Of
  <2>2. Cardinality({}) = 0 /\ IsFiniteSet({})
    BY FS_EmptySet
  <2>3. ASSUME NEW w \in Wallet
        PROVE  WalletInv(w)
    <3>1. mined[w] \in Nat /\ balance[w] \in Nat
      BY <1>4
    <3>2. mined[w] .. mined[w] + Cardinality(Of(w)) - 1 = {}
      BY <2>1, <2>2, <3>1
    <3>3. Owed(Of(w)) <= balance[w]
      BY <2>1, <3>1, OwedNone
    <3> QED
      BY <2>1, <3>2, <3>3 DEF WalletInv
  <2> QED
    BY <1>2, <2>2, <2>3, PoolParts DEF PartsInv
<1>9. SendsInv
  <2>1. New.at = "new"
    BY DEF New
  <2>2. \A r \in Request : call[r].at = "new"
    BY <1>2, <2>1
  <2>3. IsFiniteSet(sends)
    BY <1>2, FS_EmptySet
  <2> QED
    BY <1>2, <2>2, <2>3 DEF SendsInv, AwaitsItsSends, Active
<1> QED
  BY <1>7, <1>8, <1>9

(* The invariants that every other rests on.                               *)
BaseInv == TypeOK /\ PoolInv /\ SendsInv
LEMMA BaseCorrect == Spec => []BaseInv
<1>1. Init => BaseInv
  BY InitTyped DEF BaseInv
<1>2. BaseInv /\ [Next]_vars => BaseInv'
  BY StepType, StepPool, StepSends DEF BaseInv
<1> QED
  BY <1>1, <1>2, PTL DEF Spec

(* The chain, the node and the handlers keep their types, and no wallet is *)
(* overdrawn: a transaction the node accepts is one the wallet still can   *)
(* pay when it is mined.                                                   *)
THEOREM InternalTypeCorrect == Spec => []TypeOK
BY BaseCorrect, PTL DEF BaseInv

(* No collision, replacement, refusal or restart leaves a gap in a         *)
(* wallet's nonces.                                                        *)
THEOREM NonceCorrect == Spec => []NoNonceGap
<1>1. BaseInv => NoNonceGap
  BY DEF BaseInv, PoolInv
<1> QED
  BY <1>1, BaseCorrect, PTL

(* No handler waits for a send that has ended, or misses one.              *)
THEOREM WaitingCorrect == Spec => []AwaitsItsSends
<1>1. BaseInv => AwaitsItsSends
  BY DEF BaseInv, SendsInv
<1> QED
  BY <1>1, BaseCorrect, PTL

-----------------------------------------------------------------------------
(* What a step may do to a request, whichever it is: nothing; answer it at *)
(* once, which no refund and no good blacklisting is; start it; fund its   *)
(* registration; move it on; answer it; or cut it off.                     *)
Answers(q) ==
    /\ call[q] = New /\ call'[q].at = "done" /\ call'[q].op # "refund"
    /\ call'[q].op = "blacklist" => call'[q].error # "none"
Blacklisting(p) == [method |-> "blacklistUser", user |-> p]
Starts(q) ==
    /\ call[q] = New /\ call'[q].at \in {"sending", "funding"}
    /\ call'[q].op = "blacklist" =>
        \A p \in call'[q].users : \E x \in sends' :
            x.by = q /\ x.from = "admin" /\ x.does = Blacklisting(p)
MovesOn(q) ==
    /\ q \in Active /\ q \in Active'
    /\ \/ /\ call[q].at = "sending"
          /\ call'[q].op = call[q].op /\ call'[q].users = call[q].users
       \/ call[q].at = "funding" /\ call'[q].op = "register"
    /\ call'[q].at = "sending"
Finishes(q) ==
    /\ q \in Active /\ call'[q].at = "done"
    /\ call'[q].op = call[q].op /\ call'[q].users = call[q].users
CutsOff(q) == q \in Active /\ call'[q] = CutOff
Treats(q) ==
    \/ call'[q] = call[q] \/ Answers(q) \/ Starts(q) \/ MovesOn(q)
    \/ Finishes(q) \/ CutsOff(q)

(* Every step treats every request in one of these ways.                   *)
LEMMA EveryStepTreats ==
    ASSUME BaseInv, [Next]_vars, NEW q \in Request
    PROVE  Treats(q)
<1> USE DEF BaseInv
<1>0. call \in [Request -> Handler]
  BY DEF TypeOK, Handler
<1>1. ASSUME UNCHANGED call
      PROVE  Treats(q)
  BY <1>1 DEF Treats
<1>2. ASSUME NEW r \in Request, Replies(r)
      PROVE  Treats(q)
  BY <1>0, <1>2 DEF Replies, Answer, Treats, Answers
<1>3. ASSUME NEW r \in Request, Launches(r) \/ Funds(r)
      PROVE  Treats(q)
  <2>1. CASE q = r
    <3>1. CASE Funds(r)
      <4>1. /\ call[q] = New /\ call'[q].at = "funding"
            /\ call'[q].op = "register"
        BY <1>0, <2>1, <3>1 DEF Funds
      <4> QED
        BY <4>1 DEF Treats, Starts
    <3>2. CASE Launches(r)
      <4>1. PICK o, w, users, calls :
                /\ Launch(r, o, w, users, calls)
                /\ o = "blacklist" => /\ w = "admin"
                                      /\ calls = Calls("blacklistUser", users)
        BY <3>2 DEF Launches
      <4>2. /\ call[q] = New /\ call'[q].at = "sending"
            /\ call'[q].op = o /\ call'[q].users = users
        BY <1>0, <2>1, <3>2, <4>1 DEF Launches, Launch
      <4>3. ASSUME o = "blacklist", NEW p \in users
            PROVE  \E x \in sends' :
                    x.by = q /\ x.from = "admin" /\ x.does = Blacklisting(p)
        <5> DEFINE x == [by |-> r, from |-> w, does |-> Blacklisting(p),
                         at |-> "populate"]
        <5>1. Blacklisting(p) \in calls
          BY <4>1, <4>3 DEF Calls, Blacklisting
        <5>2. x \in sends'
          BY <4>1, <5>1 DEF Launch
        <5> QED
          BY <2>1, <4>1, <4>3, <5>2
      <4>4. Starts(q)
        BY <4>2, <4>3 DEF Starts
      <4> QED
        BY <4>4 DEF Treats
    <3> QED
      BY <1>3, <3>1, <3>2
  <2>2. CASE q # r
    <3>1. call'[q] = call[q]
      BY <1>0, <1>3, <2>2 DEF Launches, Launch, Funds
    <3> QED
      BY <3>1 DEF Treats
  <2> QED
    BY <2>1, <2>2
<1>4. ASSUME NEW s \in sends, Fails(s)
      PROVE  Treats(q)
  <2>1. PICK error \in Error \ {"none"} : Failed(s, error)
    BY <1>4 DEF Fails
  <2>2. CASE q = s.by /\ q \in Active
    <3>1. call'[q] = [at |-> "done", op |-> call[q].op,
                      users |-> call[q].users, error |-> error]
      BY <2>1, <2>2, FailedState
    <3>2. Finishes(q)
      BY <2>2, <3>1 DEF Finishes
    <3> QED
      BY <3>2 DEF Treats
  <2>3. CASE ~ (q = s.by /\ q \in Active)
    BY <2>1, <2>3, FailedState DEF Treats
  <2> QED
    BY <2>2, <2>3
<1>5. ASSUME NEW s \in sends, Accepts(s)
      PROVE  Treats(q)
  <2>1. Unnoticed(s) \/ Funded(s) \/ Last(s) \/ NotLast(s)
    BY <1>5, SentState DEF Accepts, Accept
  <2>2. CASE q # s.by \/ Unnoticed(s)
    BY <2>1, <2>2 DEF Unnoticed, Funded, Last, NotLast, Treats
  <2>3. CASE q = s.by /\ Funded(s)
    <3>1. MovesOn(q)
      BY <2>3 DEF Funded, MovesOn, Active
    <3> QED
      BY <3>1 DEF Treats
  <2>4. CASE q = s.by /\ Last(s)
    <3>1. Finishes(q)
      BY <2>4 DEF Last, Finishes
    <3> QED
      BY <3>1 DEF Treats
  <2>5. CASE q = s.by /\ NotLast(s)
    <3>1. MovesOn(q)
      BY <2>5 DEF NotLast, MovesOn, Active
    <3> QED
      BY <3>1 DEF Treats
  <2> QED
    BY <2>1, <2>2, <2>3, <2>4, <2>5
<1>6. ASSUME Crash
      PROVE  Treats(q)
  BY <1>6 DEF Crash, Treats, CutsOff
<1> QED
  BY <1>1, <1>2, <1>3, <1>4, <1>5, <1>6, EveryStepIs
     DEF Prepares, Mine, Idle, vars

-----------------------------------------------------------------------------
(* A blacklisting that still may be acknowledged, or was: whoever it names *)
(* is blacklisted, or a transaction that will do so is on its way, from    *)
(* the administrator, who keeps the role.  This is inductive only together *)
(* with SendsInv: an acknowledged blacklisting has no send left to fail.   *)
Claims(r) ==
    /\ \/ call[r].at = "sending"
       \/ call[r].at = "done" /\ call[r].error = "none"
    /\ call[r].op = "blacklist"
Underway(r, p) ==
    \/ blacklisted[p]
    \/ \E x \in sends \union pool :
            x.by = r /\ x.from = "admin" /\ x.does = Blacklisting(p)
BlacklistInv ==
    /\ "admin" \in roles["ADMIN_ROLE"]
    /\ \A r \in Request \ replaced :
            Claims(r) => \A p \in call[r].users : Underway(r, p)

(* Executing a call takes no one off the blacklist and no role away, and   *)
(* blacklists whom it should.                                              *)
LEMMA ExecuteKeeps ==
    ASSUME ContractTyped, NEW c \in Method, NEW w \in Wallet, Execute(c, w)
    PROVE  /\ \A p \in Provider : blacklisted[p] => blacklisted'[p]
           /\ roles["ADMIN_ROLE"] \subseteq roles'["ADMIN_ROLE"]
           /\ \A p \in Provider : c = Blacklisting(p) => blacklisted'[p]
<1>0. "ADMIN_ROLE" \in Chain!Role
  BY DEF Chain!Role
<1>1. CASE c.method = "blacklistUser"
  <2>1. Chain!BlacklistUser(c.user, w) /\ c.user \in Provider
    BY <1>1, MethodType DEF Execute
  <2> QED
    BY <2>1 DEF Chain!BlacklistUser, ContractTyped, Blacklisting
<1>2. ASSUME c.method # "blacklistUser", UNCHANGED blacklisted
      PROVE  /\ \A p \in Provider : blacklisted[p] => blacklisted'[p]
             /\ \A p \in Provider : c = Blacklisting(p) => blacklisted'[p]
  BY <1>2 DEF Blacklisting
<1>3. CASE c.method = "registerUser"
  <2>1. UNCHANGED <<blacklisted, roles>>
    BY <1>3 DEF Execute, Chain!RegisterUser
  <2> QED
    BY <1>2, <1>3, <2>1
<1>4. CASE c.method = "updateOtpWindow"
  <2>1. UNCHANGED <<blacklisted, roles>>
    BY <1>4 DEF Execute, Chain!UpdateOtpWindow
  <2> QED
    BY <1>2, <1>4, <2>1
<1>5. CASE c.method = "resetManyOtps"
  <2>1. UNCHANGED <<blacklisted, roles>>
    BY <1>5 DEF Execute, Chain!ResetManyOtps
  <2> QED
    BY <1>2, <1>5, <2>1
<1>6. CASE c.method = "grantRole"
  <2>1. Chain!GrantRole(c.role, c.account, w)
    BY <1>6 DEF Execute
  <2>2. roles["ADMIN_ROLE"] \subseteq roles'["ADMIN_ROLE"]
    BY <1>0, <2>1 DEF Chain!GrantRole, ContractTyped
  <2> QED
    BY <1>2, <1>6, <2>1, <2>2 DEF Chain!GrantRole
<1>7. CASE c.method = "transfer"
  BY <1>2, <1>7 DEF Execute, contractVars
<1> QED
  BY <1>1, <1>3, <1>4, <1>5, <1>6, <1>7, MethodType

(* Only a block touches the contract.                                      *)
LEMMA ContractAlone ==
    ASSUME [Next]_vars, TypeOK, ~ \E w \in Wallet : Mine(w)
    PROVE  UNCHANGED contractVars
BY EveryStepIs
   DEF Replies, Launches, Funds, Prepares, Fails, Accepts, Crash, Idle, vars,
       nodeVars

(* A transaction on its way stays so, unless it is replaced, mined, failed *)
(* by an error that ends its handler, or cut off with it.                  *)
LEMMA OnItsWay ==
    ASSUME BaseInv, [Next]_vars, NEW x \in sends \union pool,
           x.by \notin replaced'
    PROVE  \/ \E y \in sends' \union pool' :
                y.by = x.by /\ y.from = x.from /\ y.does = x.does
           \/ \E w \in Wallet : Mine(w) /\ x \in Of(w) \ pool'
           \/ x \in sends /\ Fails(x)
           \/ x \in sends /\ Crash
<1> DEFINE Stays == \E y \in sends' \union pool' :
                        y.by = x.by /\ y.from = x.from /\ y.does = x.does
<1>1. ASSUME x \in sends' \union pool'
      PROVE  Stays
  BY <1>1
<1>2. ASSUME NEW s \in sends, Prepares(s)
      PROVE  Stays
  <2>1. pool' = pool /\ sends' = (sends \ {s}) \union {Prepared(s)}
    BY <1>2 DEF Prepares, nodeVars
  <2>2. CASE x = s /\ x \notin pool
    <3>1. /\ Prepared(s).by = s.by /\ Prepared(s).from = s.from
          /\ Prepared(s).does = s.does
      BY DEF Prepared
    <3>2. Prepared(s) \in sends'
      BY <2>1
    <3> QED
      BY <2>2, <3>1, <3>2
  <2> QED
    BY <1>1, <2>1, <2>2
<1>3. ASSUME NEW s \in sends, Accepts(s)
      PROVE  Stays
  <2>1. \A t \in sends : t = s \/ t \in sends'
    BY <1>3, SentState
       DEF BaseInv, Accepts, Accept, Unnoticed, Funded, Last, NotLast
  <2>2. /\ pool' = (pool \ Rivals(s)) \union {Broadcasted(s)}
        /\ replaced' = replaced \union {tx.by : tx \in Rivals(s)}
    BY <1>3 DEF Accepts, Accept, Broadcasted
  <2>3. /\ Broadcasted(s).by = s.by /\ Broadcasted(s).from = s.from
        /\ Broadcasted(s).does = s.does /\ Broadcasted(s) \in pool'
    BY <2>2 DEF Broadcasted
  <2>4. x \notin Rivals(s)
    BY <2>2
  <2> QED
    BY <1>1, <2>1, <2>2, <2>3, <2>4
<1>4. ASSUME NEW s \in sends, Fails(s)
      PROVE  Stays \/ (x = s /\ x \in sends)
  BY <1>1, <1>4 DEF Fails, Failed, nodeVars
<1>5. ASSUME NEW w \in Wallet, Mine(w)
      PROVE  Stays \/ \E v \in Wallet : Mine(v) /\ x \in Of(v) \ pool'
  <2>1. PICK tx \in Of(w) : pool' = pool \ {tx} /\ sends' = sends
    BY <1>5, MineState
  <2> QED
    BY <1>1, <1>5, <2>1
<1>6. ASSUME Crash
      PROVE  Stays \/ x \in sends
  BY <1>1, <1>6 DEF Crash, nodeVars
<1>7. ASSUME \/ \E r \in Request : Replies(r) \/ Launches(r) \/ Funds(r)
             \/ Idle
      PROVE  Stays
  BY <1>1, <1>7 DEF Replies, Launches, Launch, Funds, Idle, vars, nodeVars
<1> HIDE DEF Stays
<1>8. \/ Stays
      \/ \E w \in Wallet : Mine(w) /\ x \in Of(w) \ pool'
      \/ x \in sends /\ Fails(x)
      \/ x \in sends /\ Crash
  BY <1>2, <1>3, <1>4, <1>5, <1>6, <1>7, EveryStepIs DEF BaseInv
<1> QED
  BY <1>8 DEF Stays

(* Who is blacklisted stays so, and the administrator keeps the role.      *)
LEMMA StepKeeps ==
    ASSUME BaseInv, [Next]_vars
    PROVE  /\ \A p \in Provider : blacklisted[p] => blacklisted'[p]
           /\ roles["ADMIN_ROLE"] \subseteq roles'["ADMIN_ROLE"]
<1>1. CASE UNCHANGED contractVars
  BY <1>1 DEF contractVars
<1>2. CASE \E w \in Wallet : Mine(w)
  <2>1. PICK w \in Wallet : Mine(w)
    BY <1>2
  <2>2. PICK tx \in Of(w) : Execute(tx.does, w) \/ UNCHANGED contractVars
    BY <2>1, MineState
  <2>3. tx.does \in Method /\ ContractTyped
    BY TransactionType DEF Of, BaseInv, TypeOK, ContractTyped
  <2> QED
    BY <1>1, <2>2, <2>3, ExecuteKeeps
<1> QED
  BY <1>1, <1>2, ContractAlone DEF BaseInv

(* So a blacklisting stays under way until it is done.                     *)
LEMMA StepBlacklists ==
    ASSUME BaseInv, BlacklistInv, [Next]_vars
    PROVE  BlacklistInv'
<1>1. "admin" \in roles'["ADMIN_ROLE"]
  BY StepKeeps DEF BlacklistInv
<1>2. ASSUME NEW r \in Request, r \notin replaced', Claims(r)',
             NEW p \in call'[r].users
      PROVE  Underway(r, p)'
  <2>1. r \notin replaced
    <3>1. replaced \subseteq replaced'
      BY EveryStepIs
         DEF Replies, Launches, Funds, Prepares, Fails, Accepts, Accept, Mine,
             Crash, Idle, vars, nodeVars, BaseInv
    <3> QED
      BY <1>2, <3>1
  <2>2. Treats(r)
    BY EveryStepTreats
  <2>3. CASE Starts(r)
    <3>1. \E x \in sends' :
            x.by = r /\ x.from = "admin" /\ x.does = Blacklisting(p)
      BY <1>2, <2>3 DEF Starts, Claims
    <3> QED
      BY <3>1 DEF Underway
  <2>4. ~ Answers(r) /\ ~ CutsOff(r)
    <3>1. CutOff.at = "cut off"
      BY DEF CutOff
    <3> QED
      BY <1>2, <3>1 DEF Answers, CutsOff, Claims
  <2>5. CASE call'[r] = call[r] \/ MovesOn(r) \/ Finishes(r)
    <3>1. Claims(r) /\ call'[r].users = call[r].users
      <4>1. CASE call'[r] = call[r]
        BY <1>2, <4>1 DEF Claims
      <4>2. CASE MovesOn(r)
        BY <1>2, <4>2 DEF Claims, MovesOn
      <4>3. CASE Finishes(r)
        <5>1. r \in Active /\ call[r].op = "blacklist"
          BY <1>2, <4>3 DEF Claims, Finishes
        <5>2. call[r].at = "sending"
          BY <5>1, ActiveType DEF BaseInv, InProgress
        <5> QED
          BY <4>3, <5>1, <5>2 DEF Claims, Finishes
      <4> QED
        BY <2>5, <4>1, <4>2, <4>3
    <3>2. Underway(r, p)
      BY <1>2, <2>1, <3>1 DEF BlacklistInv
    <3>3. p \in Provider
      <4>1. call'[r] \in Handler /\ call'[r].at \in {"sending", "done"}
        BY <1>2, StepType DEF BaseInv, TypeOK, Handler, Claims
      <4>2. call'[r].users \in SUBSET Provider
        <5>1. New.at = "new" /\ CutOff.at = "cut off"
          BY DEF New, CutOff
        <5> QED
          BY <4>1, <5>1 DEF Handler, InProgress, Done
      <4> QED
        BY <4>2
    <3>4. CASE blacklisted[p]
      BY <3>3, <3>4, StepKeeps DEF Underway
    <3>5. ASSUME NEW x \in sends \union pool, x.by = r, x.from = "admin",
                 x.does = Blacklisting(p)
          PROVE  Underway(r, p)'
      <4>1. CASE \E w \in Wallet : Mine(w) /\ x \in Of(w) \ pool'
        <5>1. PICK w \in Wallet : Mine(w) /\ x \in Of(w) \ pool'
          BY <4>1
        <5>2. w = "admin"
          BY <3>5, <5>1 DEF Of
        <5>3. PICK tx \in Of(w) :
                /\ pool' = pool \ {tx}
                /\ Execute(tx.does, w) \/ ~ Succeeds(tx.does, w)
          BY <5>1, MineState
        <5>4. tx = x
          BY <5>1, <5>3 DEF Of
        <5>5. Succeeds(Blacklisting(p), "admin")
          BY DEF Succeeds, Blacklisting, BlacklistInv, Chain!HasRole
        <5>6. Execute(Blacklisting(p), "admin")
          BY <3>5, <5>2, <5>3, <5>4, <5>5
        <5>7. /\ Blacklisting(p) \in Method /\ "admin" \in Wallet
              /\ ContractTyped
          BY <3>3, CallsType DEF Blacklisting, Wallet, BaseInv, TypeOK,
             ContractTyped
        <5>8. blacklisted'[p]
          BY <3>3, <5>6, <5>7, ExecuteKeeps
        <5> QED
          BY <5>8 DEF Underway
      <4>2. CASE x \in sends /\ (Fails(x) \/ Crash)
        <5>1. x \in Running(r)
          BY <3>5, <4>2 DEF Running
        <5>2. call[r].at = "sending"
          BY <3>1, <5>1 DEF Claims, BaseInv, SendsInv
        <5>3. r \in Active
          BY <5>2 DEF Active
        <5>4. ~ Crash
          BY <1>2, <2>4, <5>3 DEF Crash, CutsOff
        <5>5. PICK error \in Error \ {"none"} : Failed(x, error)
          BY <4>2, <5>4 DEF Fails
        <5>6. call'[r] = [at |-> "done", op |-> call[r].op,
                          users |-> call[r].users, error |-> error]
          BY <3>5, <4>2, <5>3, <5>5, FailedState DEF BaseInv
        <5>7. ~ Claims(r)'
          BY <5>6 DEF Claims
        <5> QED
          BY <1>2, <5>7
      <4>3. CASE \E y \in sends' \union pool' :
                    y.by = x.by /\ y.from = x.from /\ y.does = x.does
        BY <3>5, <4>3 DEF Underway
      <4> QED
        BY <1>2, <3>5, <4>1, <4>2, <4>3, OnItsWay
    <3> QED
      BY <3>2, <3>4, <3>5 DEF Underway
  <2> QED
    BY <2>2, <2>3, <2>4, <2>5 DEF Treats
<1> QED
  BY <1>1, <1>2 DEF BlacklistInv

(* A blacklisting acknowledged holds when the node has mined what it had,  *)
(* unless a transaction of it was replaced.                                *)
THEOREM BlacklistingCorrect == Spec => []BlacklistingHolds
<1>1. Init => BlacklistInv
  <2>1. New.at = "new" /\ "ADMIN_ROLE" \in Chain!Role
    BY DEF New, Chain!Role
  <2>2. ASSUME Init
        PROVE  /\ \A r \in Request : call[r].at = "new"
               /\ "admin" \in roles["ADMIN_ROLE"]
    BY <2>1, <2>2 DEF Init
  <2> QED
    BY <2>2 DEF BlacklistInv, Claims
<1>2. BaseInv /\ BlacklistInv /\ [Next]_vars => BlacklistInv'
  BY StepBlacklists
<1>3. BaseInv /\ BlacklistInv => BlacklistingHolds
  BY DEF BlacklistInv, BlacklistingHolds, Quiet, Answered, Claims, Underway
<1> QED
  BY <1>1, <1>2, <1>3, BaseCorrect, PTL DEF Spec

-----------------------------------------------------------------------------
(* What the sends of fundings, registrations and refunds are, and who made *)
(* the transactions of the user's wallet.                                  *)
Refunded == \E q \in Request : /\ call[q].at = "done"
                               /\ call[q].op = "refund"
                               /\ call[q].error = "none"
Registers(x) == x.from = "user" /\ x.does.method = "registerUser"
Fits(s) ==
    /\ s.does.method = "registerUser" => s.from = "user"
    /\ s.from = "user" => \/ Registers(s)
                          \/ /\ call[s.by].at = "sending"
                             /\ call[s.by].op = "refund"
    /\ call[s.by].at = "funding" =>
            s.from = "admin" /\ s.does = Transfer("user")
    /\ call[s.by].at = "sending" /\ call[s.by].op = "register" => Registers(s)
Single(r) == call[r].at = "sending" /\ call[r].op = "refund" => call[r].left = 1
RegisterInv ==
    /\ \A s \in sends : Fits(s)
    /\ \A r \in Request : Single(r)
    /\ \A tx \in pool : tx.from = "user" => Registers(tx) \/ Refunded

(* A refund that was acknowledged stays so.                                *)
LEMMA RefundedStays ==
    ASSUME BaseInv, [Next]_vars, Refunded
    PROVE  Refunded'
<1>1. PICK q \in Request : /\ call[q].at = "done" /\ call[q].op = "refund"
                           /\ call[q].error = "none"
  BY DEF Refunded
<1>2. New.at = "new"
  BY DEF New
<1>3. call'[q] = call[q]
  BY <1>1, <1>2, EveryStepTreats
     DEF Treats, Answers, Starts, MovesOn, Finishes, CutsOff, Active
<1> QED
  BY <1>1, <1>3 DEF Refunded

(* The handler that waits for one send has no other.                       *)
LEMMA OnlySend ==
    ASSUME BaseInv, NEW s \in sends, s.by \in Active, call[s.by].left = 1,
           NEW t \in sends, t.by = s.by
    PROVE  t = s
<1>1. Running(s.by) \in SUBSET sends
  BY DEF Running
<1>2. IsFiniteSet(Running(s.by)) /\ s \in Running(s.by) /\ t \in Running(s.by)
  BY <1>1, FS_Subset DEF BaseInv, SendsInv, Running
<1>3. Cardinality(Running(s.by)) = 1
  BY DEF BaseInv, SendsInv, AwaitsItsSends, Running
<1> QED
  BY <1>2, <1>3, FS_Singleton

(* A step that only takes a send away, whose handler may answer, leaves    *)
(* the others as they were.                                                *)
LEMMA RegisterLess ==
    ASSUME BaseInv, RegisterInv, NEW s \in sends, sends' = sends \ {s},
           \A q \in Request \ {s.by} : call'[q] = call[q],
           Finishes(s.by) \/ call'[s.by] = call[s.by] \/ NotLast(s)
    PROVE  (\A t \in sends' : Fits(t)') /\ (\A r \in Request : Single(r)')
<1>0. \A t \in sends : t.by \in Request
  BY SendType DEF BaseInv, TypeOK
<1>1. ASSUME NEW t \in sends'
      PROVE  Fits(t)'
  <2>0. t \in sends /\ t # s /\ t.by \in Request /\ Fits(t)
    BY <1>0, <1>1 DEF RegisterInv
  <2>1. CASE call'[t.by] = call[t.by]
    BY <2>0, <2>1 DEF Fits
  <2>2. CASE t.by = s.by /\ call[s.by].op = "refund"
             /\ call[s.by].at = "sending"
    <3>1. s.by \in Active /\ call[s.by].left = 1
      BY <2>0, <2>2 DEF Active, RegisterInv, Single
    <3> QED
      BY <2>0, <2>2, <3>1, OnlySend
  <2>3. CASE t.by = s.by /\ Finishes(s.by)
             /\ ~ (call[s.by].op = "refund" /\ call[s.by].at = "sending")
    BY <2>0, <2>3 DEF Finishes, Fits
  <2>4. CASE t.by = s.by /\ NotLast(s) /\ call[s.by].op # "refund"
    BY <2>0, <2>4 DEF NotLast, Fits
  <2> QED
    BY <2>0, <2>1, <2>2, <2>3, <2>4 DEF NotLast
<1>2. ASSUME NEW r \in Request
      PROVE  Single(r)'
  <2>0. Single(r)
    BY DEF RegisterInv
  <2>1. CASE call'[r] = call[r]
    BY <2>0, <2>1 DEF Single
  <2>2. CASE r = s.by /\ Finishes(s.by)
    BY <2>2 DEF Finishes, Single
  <2>3. CASE r = s.by /\ NotLast(s)
    BY <2>0, <2>3 DEF NotLast, Single
  <2> QED
    BY <2>1, <2>2, <2>3
<1> QED
  BY <1>1, <1>2

(* What the sends and the pool say of registrations is kept.               *)
LEMMA StepRegisters ==
    ASSUME BaseInv, RegisterInv, [Next]_vars
    PROVE  RegisterInv'
<1> DEFINE Good == /\ \A t \in sends' : Fits(t)'
                   /\ \A r \in Request : Single(r)'
           Paid == \A tx \in pool' : tx.from = "user" => Registers(tx) \/ Refunded'
<1>0. /\ \A t \in sends : t.by \in Request /\ Fits(t)
      /\ \A r \in Request : Single(r)
      /\ call \in [Request -> Handler]
  BY SendType DEF BaseInv, TypeOK, RegisterInv, Handler
<1>1. ASSUME \A tx \in pool' : tx \in pool
      PROVE  Paid
  BY <1>1, RefundedStays DEF RegisterInv
<1>2. ASSUME UNCHANGED <<sends, call>>
      PROVE  Good
  BY <1>0, <1>2 DEF Fits, Single
<1>3. ASSUME NEW r \in Request, Replies(r)
      PROVE  Good /\ Paid
  <2>1. call'[r].at = "done" /\ \A q \in Request \ {r} : call'[q] = call[q]
    BY <1>0, <1>3 DEF Replies, Answer
  <2>2. \A t \in sends : t.by # r
    BY <1>3 DEF Replies, BaseInv, SendsInv
  <2>3. sends' = sends /\ pool' = pool
    BY <1>3 DEF Replies, nodeVars
  <2>4. \A t \in sends' : Fits(t)'
    BY <1>0, <2>1, <2>2, <2>3 DEF Fits
  <2>5. \A q \in Request : Single(q)'
    BY <1>0, <2>1 DEF Single
  <2> QED
    BY <1>1, <2>3, <2>4, <2>5
<1>4. ASSUME NEW r \in Request, Launches(r)
      PROVE  Good /\ Paid
  <2>1. PICK o \in Operation \ {"register"}, w \in Wallet,
             users \in SUBSET Provider, calls \in SUBSET Method :
            /\ Launch(r, o, w, users, calls)
            /\ w = "user" => o = "refund" /\ calls = {Transfer("admin")}
            /\ o = "refund" => w = "user"
            /\ \A c \in calls : c.method # "registerUser"
    BY <1>4 DEF Launches
  <2>2. /\ call'[r].at = "sending" /\ call'[r].op = o
        /\ call'[r].left = Cardinality(calls)
        /\ \A q \in Request \ {r} : call'[q] = call[q]
    BY <1>0, <2>1 DEF Launch
  <2>3. \A t \in sends : t.by # r
    BY <1>4 DEF Launches, BaseInv, SendsInv
  <2>4. ASSUME NEW t \in sends'
        PROVE  Fits(t)'
    <3>1. CASE t \in sends
      BY <1>0, <2>2, <2>3, <3>1 DEF Fits
    <3>2. CASE t \notin sends
      <4>1. t.by = r /\ t.from = w /\ t.does \in calls
        BY <2>1, <3>2 DEF Launch
      <4> QED
        BY <2>1, <2>2, <4>1 DEF Fits
    <3> QED
      BY <3>1, <3>2
  <2>5. ASSUME NEW q \in Request
        PROVE  Single(q)'
    <3>1. CASE q = r /\ o = "refund"
      <4>1. Cardinality(calls) = 1
        BY <2>1, <3>1, FS_Singleton
      <4> QED
        BY <2>2, <3>1, <4>1 DEF Single
    <3> QED
      BY <1>0, <2>2, <3>1 DEF Single
  <2> QED
    BY <1>1, <1>4, <2>4, <2>5 DEF Launches, nodeVars
<1>5. ASSUME NEW r \in Request, Funds(r)
      PROVE  Good /\ Paid
  <2>1. /\ call'[r].at = "funding"
        /\ \A q \in Request \ {r} : call'[q] = call[q]
    BY <1>0, <1>5 DEF Funds
  <2>2. \A t \in sends : t.by # r
    BY <1>5 DEF Funds, BaseInv, SendsInv
  <2>3. ASSUME NEW t \in sends'
        PROVE  Fits(t)'
    <3>1. CASE t \in sends
      BY <1>0, <2>1, <2>2, <3>1 DEF Fits
    <3>2. CASE t = Funding(r)
      <4>1. t.by = r /\ t.from = "admin" /\ t.does = Transfer("user")
            /\ t.does.method = "transfer"
        BY <3>2 DEF Funding, Transfer
      <4> QED
        BY <2>1, <4>1 DEF Fits
    <3> QED
      BY <1>5, <3>1, <3>2 DEF Funds
  <2>4. \A q \in Request : Single(q)'
    BY <1>0, <2>1 DEF Single
  <2> QED
    BY <1>1, <1>5, <2>3, <2>4 DEF Funds, nodeVars
<1>6. ASSUME NEW s \in sends, Prepares(s)
      PROVE  Good /\ Paid
  <2>1. /\ Prepared(s).by = s.by /\ Prepared(s).from = s.from
        /\ Prepared(s).does = s.does
    BY DEF Prepared
  <2>2. sends' = (sends \ {s}) \union {Prepared(s)} /\ call' = call
    BY <1>6 DEF Prepares
  <2>3. ASSUME NEW t \in sends'
        PROVE  Fits(t)'
    <3>1. PICK u \in sends : t.by = u.by /\ t.from = u.from /\ t.does = u.does
      BY <2>1, <2>2
    <3> QED
      BY <1>0, <2>2, <3>1 DEF Fits, Registers
  <2>4. \A q \in Request : Single(q)'
    BY <1>0, <2>2 DEF Single
  <2> QED
    BY <1>1, <1>6, <2>3, <2>4 DEF Prepares, nodeVars
<1>7. ASSUME NEW s \in sends, Fails(s)
      PROVE  Good /\ Paid
  <2>1. PICK error : Failed(s, error)
    BY <1>7 DEF Fails
  <2>2. /\ sends' = sends \ {s}
        /\ \A q \in Request \ {s.by} : call'[q] = call[q]
        /\ s.by \notin Active => call'[s.by] = call[s.by]
        /\ s.by \in Active =>
                call'[s.by] = [at |-> "done", op |-> call[s.by].op,
                               users |-> call[s.by].users, error |-> error]
    BY <2>1, FailedState DEF BaseInv
  <2>a. s.by \in Active => Finishes(s.by)
    BY <2>2 DEF Finishes
  <2>3. Good
    BY <2>2, <2>a, RegisterLess
  <2> QED
    BY <1>1, <1>7, <2>3 DEF Fails, nodeVars
<1>8. ASSUME NEW s \in sends, Accepts(s)
      PROVE  Good /\ Paid
  <2>0. /\ Unnoticed(s) \/ Funded(s) \/ Last(s) \/ NotLast(s)
        /\ s.by \in Request
    BY <1>0, <1>8, SentState DEF Accepts, Accept, BaseInv
  <2>1. ASSUME Unnoticed(s) \/ Last(s) \/ NotLast(s)
        PROVE  Good
    <3>1. /\ sends' = sends \ {s}
          /\ \A q \in Request \ {s.by} : call'[q] = call[q]
          /\ Finishes(s.by) \/ call'[s.by] = call[s.by] \/ NotLast(s)
      BY <2>1 DEF Unnoticed, Last, NotLast, Finishes
    <3> QED
      BY <3>1, RegisterLess
  <2>2. ASSUME Funded(s)
        PROVE  Good
    <3>1. PICK p \in Provider :
                /\ call'[s.by] = [at |-> "sending", op |-> "register",
                                  users |-> {p}, left |-> 1]
                /\ sends' = (sends \ {s}) \union {Registration(s.by, p)}
      BY <2>2 DEF Funded
    <3>2. call[s.by].left = 1 /\ s.by \in Active
      BY <2>2, ActiveType DEF Funded, InProgress, BaseInv
    <3>3. \A t \in sends : t.by = s.by => t = s
      BY <3>2, OnlySend
    <3>4. /\ Registration(s.by, p).by = s.by
          /\ Registers(Registration(s.by, p))
      BY DEF Registration, Registers
    <3>5. \A q \in Request \ {s.by} : call'[q] = call[q]
      BY <2>2 DEF Funded
    <3>6. ASSUME NEW t \in sends'
          PROVE  Fits(t)'
      <4>1. CASE t \in sends /\ t # s
        BY <1>0, <3>3, <3>5, <4>1 DEF Fits
      <4>2. CASE t.by = s.by /\ Registers(t)
        BY <3>1, <4>2 DEF Fits, Registers
      <4> QED
        BY <3>1, <3>4, <4>1, <4>2
    <3>7. \A q \in Request : Single(q)'
      BY <1>0, <3>1, <3>5 DEF Single
    <3> QED
      BY <3>6, <3>7
  <2>3. Good
    BY <2>0, <2>1, <2>2
  <2>4. ASSUME s.from = "user"
        PROVE  Registers(Broadcasted(s)) \/ Refunded'
    <3>1. CASE Registers(s)
      BY <3>1 DEF Registers, Broadcasted
    <3>2. CASE call[s.by].at = "sending" /\ call[s.by].op = "refund"
      <4>1. s.by \in Active /\ call[s.by].left = 1
        BY <1>0, <2>0, <3>2 DEF Active, Single
      <4>2. Last(s)
        BY <2>0, <3>2, <4>1 DEF Unnoticed, Funded, NotLast
      <4> QED
        BY <2>0, <3>2, <4>2 DEF Last, Refunded
    <3> QED
      BY <1>0, <2>4, <3>1, <3>2 DEF Fits
  <2>5. Broadcasted(s).from = s.from
    BY DEF Broadcasted
  <2>6. \A tx \in pool' : tx \in pool \/ tx = Broadcasted(s)
    BY <1>8 DEF Accepts, Accept, Broadcasted
  <2>7. Paid
    BY <2>4, <2>5, <2>6, RefundedStays DEF RegisterInv
  <2> QED
    BY <2>3, <2>7
<1>9. ASSUME NEW w \in Wallet, Mine(w)
      PROVE  Good /\ Paid
  BY <1>1, <1>2, <1>9, MineState
<1>10. ASSUME Crash
       PROVE  Good /\ Paid
  <2>1. sends' = {} /\ pool' = pool
    BY <1>10 DEF Crash, nodeVars
  <2>2. CutOff.at = "cut off"
    BY DEF CutOff
  <2>3. \A q \in Request : Single(q)'
    BY <1>10, <2>2 DEF Crash, Active, Single
  <2> QED
    BY <1>1, <2>1, <2>3
<1>11. ASSUME Idle
       PROVE  Good /\ Paid
  BY <1>1, <1>2, <1>11 DEF Idle, vars, nodeVars
<1> HIDE DEF Good, Paid
<1>12. Good /\ Paid
  BY <1>3, <1>4, <1>5, <1>6, <1>7, <1>8, <1>9, <1>10, <1>11, EveryStepIs
     DEF BaseInv
<1> QED
  BY <1>12 DEF Good, Paid, RegisterInv

-----------------------------------------------------------------------------
(* The user's wallet has, with the fundings that wait in the pool, what    *)
(* its transactions there and the registrations still to be broadcast      *)
(* cost: o is owed, r registrations are running, b is the balance and f    *)
(* fundings wait.                                                          *)
Solvent(o, r, b, f) == o + Gas * r <= b + Amount * f
Registrations == {s \in sends : s.does.method = "registerUser"}
MoneyInv ==
    replaced = {} /\ ~ Refunded =>
        Solvent(Owed(Of("user")), Cardinality(Registrations),
                balance["user"], Cardinality(Fundings))

(* The arithmetic of it: a registration ends or money arrives; its         *)
(* transaction enters the pool, and leaves it; a funding enters the pool   *)
(* and may start a registration, which it pays; and it leaves the pool.    *)
LEMMA SolventStays ==
    ASSUME NEW o \in Nat, NEW r \in Nat, NEW b \in Nat, NEW f \in Nat,
           Solvent(o, r, b, f)
    PROVE  /\ \A r1, b1 \in Nat : r1 <= r /\ b <= b1 => Solvent(o, r1, b1, f)
           /\ Solvent(o + Gas, r - 1, b, f)
           /\ Solvent(o - Gas, r, b - Gas, f)
           /\ \A r1 \in Nat : r1 <= r + 1 => Solvent(o, r1, b, f + 1)
           /\ Solvent(o, r, b + Amount, f - 1)
<1>1. /\ Gas \in Nat /\ Amount \in Nat /\ Gas <= Amount
      /\ o + Gas * r <= b + Amount * f
  BY InternalAssumption DEF Solvent
<1>2. ASSUME NEW m \in Nat, NEW n \in Nat, m <= n
      PROVE  Gas * m <= Gas * n /\ Gas * m \in Nat /\ Gas * n \in Nat
  BY <1>1, <1>2
<1>3. /\ Gas * (r - 1) = Gas * r - Gas /\ Gas * (r + 1) = Gas * r + Gas
      /\ Amount * (f - 1) = Amount * f - Amount
      /\ Amount * (f + 1) = Amount * f + Amount
      /\ Gas * r \in Nat /\ Amount * f \in Nat
  BY <1>1
<1>4. ASSUME NEW r1 \in Nat, NEW b1 \in Nat, r1 <= r, b <= b1
      PROVE  Solvent(o, r1, b1, f)
  <2>1. Gas * r1 <= Gas * r /\ Gas * r1 \in Nat
    BY <1>2, <1>4
  <2> QED
    BY <1>1, <1>3, <1>4, <2>1 DEF Solvent
<1>5. ASSUME NEW r1 \in Nat, r1 <= r + 1
      PROVE  Solvent(o, r1, b, f + 1)
  <2>1. Gas * r1 <= Gas * (r + 1) /\ Gas * r1 \in Nat
    BY <1>2, <1>5
  <2> QED
    BY <1>1, <1>3, <2>1 DEF Solvent
<1>6. Solvent(o + Gas, r - 1, b, f) /\ Solvent(o - Gas, r, b - Gas, f)
  BY <1>1, <1>3 DEF Solvent
<1>7. Solvent(o, r, b + Amount, f - 1)
  BY <1>1, <1>3 DEF Solvent
<1> QED
  BY <1>4, <1>5, <1>6, <1>7

(* Fewer transactions cost no more.                                        *)
LEMMA OwedLess ==
    ASSUME NEW T, IsFiniteSet(T), NEW U \in SUBSET T
    PROVE  Owed(U) \in Nat /\ Owed(T) \in Nat /\ Owed(U) <= Owed(T)
<1> DEFINE Paying(X) == {tx \in X : tx.does.method = "transfer"}
           a == Cardinality(U)
           b == Cardinality(T)
           c == Cardinality(Paying(U))
           d == Cardinality(Paying(T))
<1>1. /\ IsFiniteSet(U) /\ IsFiniteSet(Paying(T))
      /\ Paying(U) \in SUBSET Paying(T) /\ Paying(T) \in SUBSET T
  <2>1. Paying(U) \in SUBSET Paying(T) /\ Paying(T) \in SUBSET T
    OBVIOUS
  <2> HIDE DEF Paying
  <2> QED
    BY <2>1, FS_Subset
<1>2. IsFiniteSet(Paying(U))
  BY <1>1, FS_Subset
<1>3. Owed(U) = Gas * a + Amount * c /\ Owed(T) = Gas * b + Amount * d
  BY DEF Owed
<1> HIDE DEF Paying
<1>4. a \in Nat /\ b \in Nat /\ c \in Nat /\ d \in Nat /\ a <= b /\ c <= d
  BY <1>1, <1>2, FS_Subset, FS_CardinalityType
<1> HIDE DEF a, b, c, d
<1>5. /\ Gas * a <= Gas * b /\ Gas * a \in Nat /\ Gas * b \in Nat
      /\ Amount * c <= Amount * d /\ Amount * c \in Nat /\ Amount * d \in Nat
  BY <1>4, InternalAssumption
<1> QED
  BY <1>3, <1>5

(* The sets that are counted are finite.                                   *)
LEMMA CountedFinite ==
    ASSUME BaseInv
    PROVE  /\ IsFiniteSet(Registrations) /\ Cardinality(Registrations) \in Nat
           /\ IsFiniteSet(Fundings) /\ Cardinality(Fundings) \in Nat
           /\ IsFiniteSet(Of("user")) /\ Owed(Of("user")) \in Nat
           /\ balance["user"] \in Nat
<1>1. Registrations \in SUBSET sends /\ Fundings \in SUBSET Of("admin")
  BY DEF Registrations, Fundings
<1>2. IsFiniteSet(sends) /\ IsFiniteSet(Of("admin")) /\ IsFiniteSet(Of("user"))
  BY OfFinite DEF BaseInv, SendsInv, PoolInv
<1>3. balance["user"] \in Nat
  BY DEF BaseInv, TypeOK, Wallet
<1> QED
  BY <1>1, <1>2, <1>3, FS_Subset, FS_CardinalityType, OwedType

(* Every step keeps the wallet solvent, until someone takes its money or a *)
(* transaction is replaced.                                                *)
LEMMA StepMoney ==
    ASSUME BaseInv, RegisterInv, MoneyInv, [Next]_vars
    PROVE  MoneyInv'
<1> SUFFICES ASSUME replaced' = {}, ~ Refunded'
             PROVE  Solvent(Owed(Of("user")), Cardinality(Registrations),
                            balance["user"], Cardinality(Fundings))'
  BY DEF MoneyInv
<1> DEFINE o == Owed(Of("user"))
           r == Cardinality(Registrations)
           b == balance["user"]
           f == Cardinality(Fundings)
           Good == Solvent(o', r', b', f')
<1>0. /\ BaseInv' /\ RegisterInv'
      /\ o \in Nat /\ r \in Nat /\ b \in Nat /\ f \in Nat
      /\ o' \in Nat /\ r' \in Nat /\ b' \in Nat /\ f' \in Nat
      /\ IsFiniteSet(Registrations) /\ IsFiniteSet(Fundings)
      /\ IsFiniteSet(Registrations')
  <2>1. BaseInv' /\ RegisterInv'
    BY StepType, StepPool, StepSends, StepRegisters DEF BaseInv
  <2>2. /\ Registrations' \in SUBSET sends' /\ Of("user")' \in SUBSET pool'
        /\ Fundings' \in SUBSET pool'
    BY DEF Registrations, Fundings, Of
  <2>3. IsFiniteSet(sends') /\ IsFiniteSet(pool')
    BY <2>1 DEF BaseInv, SendsInv, PoolInv
  <2>4. /\ IsFiniteSet(Registrations') /\ IsFiniteSet(Fundings')
        /\ IsFiniteSet(Of("user")')
    BY <2>2, <2>3, FS_Subset
  <2>5. r' \in Nat /\ f' \in Nat
    BY <2>4, FS_CardinalityType
  <2>6. o' \in Nat
    <3>1. Owed(Of("user")') \in Nat
      BY <2>4, OwedType
    <3> QED
      BY <3>1 DEF Owed
  <2>7. b' \in Nat
    BY <2>1 DEF BaseInv, TypeOK, Wallet
  <2> QED
    BY <2>1, <2>4, <2>5, <2>6, <2>7, CountedFinite
<1>1. Solvent(o, r, b, f)
  <2>1. replaced = {}
    <3>1. replaced \subseteq replaced'
      BY EveryStepIs
         DEF Replies, Launches, Funds, Prepares, Fails, Accepts, Accept, Mine,
             Crash, Idle, vars, nodeVars, BaseInv
    <3> QED
      BY <3>1
  <2> QED
    BY <2>1, RefundedStays DEF MoneyInv
<1>2. ASSUME UNCHANGED <<pool, balance>>, Registrations' \subseteq Registrations
      PROVE  Good
  <2>1. Of("user")' = Of("user") /\ f' = f /\ b' = b
    BY <1>2 DEF Of, Fundings
  <2>2. o' = o
    BY <2>1 DEF Owed
  <2>3. r' <= r
    BY <1>0, <1>2, FS_Subset
  <2> HIDE DEF o, r, b, f
  <2>4. \A r1, b1 \in Nat : r1 <= r /\ b <= b1 => Solvent(o, r1, b1, f)
    BY <1>0, <1>1, SolventStays
  <2> QED
    BY <1>0, <2>1, <2>2, <2>3, <2>4
<1>3. ASSUME NEW q \in Request, Replies(q)
      PROVE  Good
  BY <1>2, <1>3 DEF Replies, nodeVars, Registrations
<1>4. ASSUME NEW q \in Request, Launches(q)
      PROVE  Good
  <2>1. \A t \in sends' : t \in sends \/ t.does.method # "registerUser"
    BY <1>4 DEF Launches, Launch
  <2> QED
    BY <1>2, <1>4, <2>1 DEF Launches, nodeVars, Registrations
<1>5. ASSUME NEW q \in Request, Funds(q)
      PROVE  Good
  <2>1. Funding(q).does.method # "registerUser"
    BY DEF Funding, Transfer
  <2> QED
    BY <1>2, <1>5, <2>1 DEF Funds, nodeVars, Registrations
<1>6. ASSUME NEW s \in sends, Prepares(s)
      PROVE  Good
  <2>1. Prepared(s).does = s.does
    BY DEF Prepared
  <2>2. /\ pool' = pool /\ balance' = balance
        /\ sends' = (sends \ {s}) \union {Prepared(s)}
    BY <1>6 DEF Prepares, nodeVars
  <2>3. CASE s.does.method # "registerUser"
    BY <1>2, <2>1, <2>2, <2>3 DEF Registrations
  <2>4. CASE s.does.method = "registerUser"
    <3> DEFINE R == Registrations
    <3>1. R' = (R \ {s}) \union {Prepared(s)} /\ s \in R
      BY <2>1, <2>2, <2>4 DEF Registrations
    <3>2. Cardinality(R \ {s}) = r - 1 /\ IsFiniteSet(R \ {s})
      BY <1>0, <3>1, FS_RemoveElement
    <3>3. r' <= r
      <4>1. CASE Prepared(s) \in R \ {s}
        <5>1. Registrations' = R \ {s}
          BY <3>1, <4>1
        <5> QED
          BY <1>0, <3>2, <5>1
      <4>2. CASE Prepared(s) \notin R \ {s}
        BY <1>0, <3>1, <3>2, <4>2, FS_AddElement
      <4> QED
        BY <4>1, <4>2
    <3>4. Of("user")' = Of("user") /\ f' = f /\ b' = b
      BY <2>2 DEF Of, Fundings
    <3>5. o' = o
      BY <3>4 DEF Owed
    <3> HIDE DEF o, r, b, f
    <3>6. \A r1, b1 \in Nat : r1 <= r /\ b <= b1 => Solvent(o, r1, b1, f)
      BY <1>0, <1>1, SolventStays
    <3> QED
      BY <1>0, <3>3, <3>4, <3>5, <3>6
  <2> QED
    BY <2>3, <2>4
<1>7. ASSUME NEW s \in sends, Fails(s)
      PROVE  Good
  BY <1>2, <1>7 DEF Fails, Failed, nodeVars, Registrations
<1>8. ASSUME NEW s \in sends, Accepts(s)
      PROVE  Good
  <2> DEFINE n == Broadcasted(s)
  <2>0. /\ Unnoticed(s) \/ Funded(s) \/ Last(s) \/ NotLast(s)
        /\ s.by \in Request /\ s.from \in Wallet /\ Fits(s)
        /\ balance' = balance
    BY <1>8, SentState, SendType
       DEF Accepts, Accept, BaseInv, TypeOK, RegisterInv
  <2>1. n.from = s.from /\ n.does = s.does /\ n \in pool'
    BY <1>8 DEF Broadcasted, Accepts, Accept
  <2>2. Rivals(s) = {}
    BY <1>8 DEF Accepts, Accept
  <2>3. /\ Of(s.from)' = Of(s.from) \union {n} /\ n \notin Of(s.from)
        /\ \A v \in Wallet \ {s.from} : Of(v)' = Of(v)
    BY <1>8, <2>2, AcceptedPool DEF BaseInv
  <2> HIDE DEF n
  <2>4. CASE s.from = "user"
    <3>1. Registers(s)
      BY <1>0, <2>1, <2>4 DEF RegisterInv, Registers
    <3>2. Registrations' = Registrations \ {s} /\ s \in Registrations
      <4>1. ~ Funded(s)
        BY <2>0, <2>4 DEF Funded, Fits
      <4> QED
        BY <2>0, <3>1, <4>1
           DEF Unnoticed, Last, NotLast, Registrations, Registers
    <3>3. r' = r - 1
      BY <1>0, <3>2, FS_RemoveElement
    <3>4. f' = f /\ b' = b
      BY <2>0, <2>3, <2>4 DEF Fundings, Wallet
    <3>5. o' = o + Gas
      <4>1. /\ IsFiniteSet(Of("user"))
            /\ Of("user")' = Of("user") \union {n} /\ n \notin Of("user")
        BY <2>3, <2>4, OfFinite DEF BaseInv, PoolInv
      <4>2. Owed(Of("user") \union {n}) = o + Cost(n.does)
        BY <4>1, OwedAdd
      <4>3. Cost(n.does) = Gas
        BY <2>1, <3>1 DEF Cost, Registers
      <4> QED
        BY <4>1, <4>2, <4>3 DEF Owed
    <3> HIDE DEF o, r, b, f
    <3>6. Solvent(o + Gas, r - 1, b, f)
      BY <1>0, <1>1, SolventStays
    <3> QED
      BY <3>3, <3>4, <3>5, <3>6
  <2>5. CASE s.from = "admin"
    <3>1. Of("user")' = Of("user") /\ b' = b
      BY <2>0, <2>3, <2>5 DEF Wallet
    <3>2. o' = o
      BY <3>1 DEF Owed
    <3>3. s.does.method # "registerUser"
      BY <2>0, <2>5 DEF Fits
    <3>4. CASE s.does = Transfer("user")
      <4>1. Fundings' = Fundings \union {n} /\ n \notin Fundings
        BY <2>1, <2>3, <2>5, <3>4 DEF Fundings
      <4>2. f' = f + 1
        BY <1>0, <4>1, FS_AddElement
      <4>3. r' <= r + 1
        <5>1. \E x : Registrations' \subseteq Registrations \union {x}
          BY <2>0 DEF Unnoticed, Funded, Last, NotLast, Registrations
        <5>2. PICK x : Registrations' \subseteq Registrations \union {x}
          BY <5>1
        <5>3. /\ IsFiniteSet(Registrations \union {x})
              /\ Cardinality(Registrations \union {x}) <= r + 1
          <6>1. CASE x \in Registrations
            <7>1. Registrations \union {x} = Registrations
              BY <6>1
            <7> QED
              BY <1>0, <7>1
          <6>2. CASE x \notin Registrations
            <7>1. /\ IsFiniteSet(Registrations \union {x})
                  /\ Cardinality(Registrations \union {x})
                        = Cardinality(Registrations) + 1
              BY <1>0, <6>2, FS_AddElement
            <7> QED
              BY <1>0, <7>1
          <6> QED
            BY <6>1, <6>2
        <5>4. r' <= Cardinality(Registrations \union {x})
          BY <5>2, <5>3, FS_Subset
        <5>5. Cardinality(Registrations \union {x}) \in Nat
          BY <5>3, FS_CardinalityType
        <5> QED
          BY <1>0, <5>3, <5>4, <5>5
      <4> HIDE DEF o, r, b, f
      <4>4. \A r1 \in Nat : r1 <= r + 1 => Solvent(o, r1, b, f + 1)
        BY <1>0, <1>1, SolventStays
      <4> QED
        BY <1>0, <3>1, <3>2, <4>2, <4>3, <4>4
    <3>5. CASE s.does # Transfer("user")
      <4>1. Fundings' = Fundings
        BY <2>1, <2>3, <2>5, <3>5 DEF Fundings
      <4>2. Registrations' \subseteq Registrations
        <5>1. ~ Funded(s)
          BY <2>0, <3>5 DEF Funded, Fits
        <5> QED
          BY <2>0, <5>1 DEF Unnoticed, Last, NotLast, Registrations
      <4>3. r' <= r
        BY <1>0, <4>2, FS_Subset
      <4> HIDE DEF o, r, b
      <4>4. \A r1, b1 \in Nat : r1 <= r /\ b <= b1 => Solvent(o, r1, b1, f)
        BY <1>0, <1>1, SolventStays
      <4> QED
        BY <1>0, <3>1, <3>2, <4>1, <4>3, <4>4
    <3> QED
      BY <3>4, <3>5
  <2> QED
    BY <2>0, <2>4, <2>5 DEF Wallet
<1>9. ASSUME NEW w \in Wallet, Mine(w)
      PROVE  Good
  <2>1. PICK tx \in Of(w) :
            /\ tx.nonce = mined[w]
            /\ pool' = pool \ {tx}
            /\ \/ balance' = [v \in Wallet |->
                        IF v = w THEN balance[v] - Cost(tx.does)
                        ELSE IF tx.does = Transfer(v) THEN balance[v] + Amount
                        ELSE balance[v]]
               \/ /\ ~ Succeeds(tx.does, w)
                  /\ balance' = [balance EXCEPT ![w] = @ - Gas]
            /\ sends' = sends
    BY <1>9, MineState
  <2>2. /\ Of(w)' = Of(w) \ {tx}
        /\ \A v \in Wallet \ {w} : Of(v)' = Of(v)
    BY <2>1, MinedPool DEF BaseInv
  <2>3. r' = r
    BY <2>1 DEF Registrations
  <2>4. balance \in [Wallet -> Nat] /\ tx.from = w /\ tx \in pool
    BY DEF BaseInv, TypeOK, Of
  <2>5. CASE w = "user"
    <3>1. Registers(tx)
      BY <2>4, <2>5, RefundedStays DEF RegisterInv
    <3>2. Cost(tx.does) = Gas
      BY <3>1 DEF Cost, Registers
    <3>3. b' = b - Gas
      BY <2>1, <2>4, <2>5, <3>2
    <3>4. f' = f
      BY <2>2, <2>5 DEF Fundings, Wallet
    <3>5. o' = o - Gas
      <4>1. IsFiniteSet(Of("user")) /\ Of("user")' = Of("user") \ {tx}
        BY <2>2, <2>5, OfFinite DEF BaseInv, PoolInv
      <4>2. /\ o = Owed(Of("user") \ {tx}) + Gas
            /\ Owed(Of("user") \ {tx}) \in Nat
        BY <2>5, <3>2, <4>1, OwedRemove
      <4>3. o' = Owed(Of("user") \ {tx})
        BY <4>1 DEF Owed
      <4> QED
        BY <4>2, <4>3, InternalAssumption
    <3> HIDE DEF o, r, b, f
    <3>6. Solvent(o - Gas, r, b - Gas, f)
      BY <1>0, <1>1, SolventStays
    <3> QED
      BY <2>3, <3>3, <3>4, <3>5, <3>6
  <2>6. CASE w = "admin"
    <3>1. Of("user")' = Of("user") /\ "user" \in Wallet /\ w # "user"
      BY <2>2, <2>6 DEF Wallet
    <3>2. o' = o
      BY <3>1 DEF Owed
    <3>3. CASE tx.does = Transfer("user")
      <4>1. Fundings' = Fundings \ {tx} /\ tx \in Fundings
        BY <2>2, <2>6, <3>3 DEF Fundings
      <4>2. f' = f - 1
        BY <1>0, <4>1, FS_RemoveElement
      <4>3. Succeeds(tx.does, w)
        <5>1. IsFiniteSet(Of("admin"))
          BY OfFinite DEF BaseInv, PoolInv
        <5>2. /\ Owed(Of("admin")) = Owed(Of("admin") \ {tx})
                                     + Cost(tx.does)
              /\ Owed(Of("admin") \ {tx}) \in Nat
              /\ Owed(Of("admin")) \in Nat
          BY <2>6, <5>1, OwedRemove
        <5>3. Owed(Of("admin")) <= balance["admin"] /\ balance["admin"] \in Nat
          BY <2>4 DEF BaseInv, PoolInv, Wallet
        <5>4. tx.does.method = "transfer"
          BY <3>3 DEF Transfer
        <5>5. Cost(tx.does) = Gas + Amount
          BY <5>4 DEF Cost
        <5>6. balance["admin"] >= Amount
          BY <5>2, <5>3, <5>5, InternalAssumption
        <5> QED
          BY <2>6, <5>4, <5>6 DEF Succeeds
      <4>4. b' = b + Amount
        BY <2>1, <2>4, <3>1, <3>3, <4>3
      <4> HIDE DEF o, r, b, f
      <4>5. Solvent(o, r, b + Amount, f - 1)
        BY <1>0, <1>1, SolventStays
      <4> QED
        BY <2>3, <3>2, <4>2, <4>4, <4>5
    <3>4. CASE tx.does # Transfer("user")
      <4>1. Fundings' = Fundings
        BY <2>2, <2>6, <3>4 DEF Fundings
      <4>2. b' = b
        BY <2>1, <2>4, <3>1, <3>4
      <4> HIDE DEF o, r, b
      <4> QED
        BY <1>1, <2>3, <3>2, <4>1, <4>2
    <3> QED
      BY <3>3, <3>4
  <2> QED
    BY <2>5, <2>6 DEF Wallet
<1>10. ASSUME Crash
       PROVE  Good
  BY <1>2, <1>10 DEF Crash, nodeVars, Registrations
<1>11. ASSUME Idle
       PROVE  Good
  BY <1>2, <1>11 DEF Idle, vars, nodeVars, Registrations
<1> HIDE DEF Good
<1>12. Good
  BY <1>3, <1>4, <1>5, <1>6, <1>7, <1>8, <1>9, <1>10, <1>11, EveryStepIs
     DEF BaseInv
<1> QED
  BY <1>12 DEF Good

(* A registration is refused for want of money only while a funding waits, *)
(* a transaction was replaced or someone asked for a refund.               *)
THEOREM FundingCorrect == Spec => FundingPays
<1>1. Init => RegisterInv /\ MoneyInv
  <2> SUFFICES ASSUME Init
               PROVE  RegisterInv /\ MoneyInv
    OBVIOUS
  <2>1. BaseInv
    BY InitTyped DEF BaseInv
  <2>2. /\ pool = {} /\ sends = {} /\ New.at = "new"
        /\ \A r \in Request : call[r] = New
    BY DEF Init, New
  <2>3. RegisterInv
    BY <2>2 DEF RegisterInv, Single
  <2>4. Of("user") = {} /\ Registrations = {} /\ Fundings = {}
    BY <2>2 DEF Of, Registrations, Fundings
  <2>5. Cardinality({}) = 0
    BY FS_EmptySet
  <2>6. balance["user"] \in Nat
    BY <2>1, CountedFinite
  <2>7. Solvent(0, 0, balance["user"], 0)
    BY <2>6, InternalAssumption DEF Solvent
  <2> QED
    BY <2>3, <2>4, <2>5, <2>7, OwedNone DEF MoneyInv
<1>2. RegisterInv /\ MoneyInv /\ BaseInv /\ [Next]_vars
        => RegisterInv' /\ MoneyInv'
  BY StepRegisters, StepMoney
<1>3. RegisterInv /\ MoneyInv /\ BaseInv /\ [Next]_vars => Unpaid
  <2> SUFFICES ASSUME RegisterInv, MoneyInv, BaseInv, [Next]_vars,
                      NEW r \in Request, RefusedUnfunded(r),
                      Fundings = {}, replaced = {}, ~ Refunding
               PROVE  FALSE
    BY DEF Unpaid
  <2>1. /\ r \in Active /\ call[r].op = "register" /\ call[r].at = "sending"
        /\ call'[r].at = "done" /\ call'[r].error = "funds"
    BY DEF RefusedUnfunded
  <2>2. PICK s \in sends : Fails(s) /\ s.by = r
    <3> DEFINE Failing == \E s \in sends : Fails(s) /\ s.by = r
    <3>1. call'[r] # call[r] /\ call[r] # New /\ call'[r] # CutOff
      <4>1. New.at = "new" /\ CutOff.at = "cut off"
        BY DEF New, CutOff
      <4> QED
        BY <2>1, <4>1
    <3>2. call \in [Request -> Handler] /\ r \in Request
      BY DEF BaseInv, TypeOK, Handler
    <3>3. ASSUME NEW q \in Request, Replies(q) \/ Launches(q) \/ Funds(q)
          PROVE  FALSE
      BY <3>1, <3>2, <3>3 DEF Replies, Answer, Launches, Launch, Funds
    <3>4. ASSUME NEW t \in sends, Fails(t)
          PROVE  Failing
      <4>1. PICK error : Failed(t, error)
        BY <3>4 DEF Fails
      <4>2. t.by = r
        BY <3>1, <3>2, <4>1, FailedState DEF BaseInv
      <4> QED
        BY <3>4, <4>2
    <3>5. ASSUME NEW t \in sends, Accepts(t)
          PROVE  FALSE
      <4>1. Unnoticed(t) \/ Funded(t) \/ Last(t) \/ NotLast(t)
        BY <3>5, SentState DEF Accepts, Accept, BaseInv
      <4>2. t.by = r /\ ~ Unnoticed(t)
        BY <3>1, <3>2, <4>1 DEF Unnoticed, Funded, Last, NotLast
      <4> QED
        BY <2>1, <4>1, <4>2 DEF Funded, Last, NotLast
    <3>6. ~ Crash
      BY <2>1, <3>1 DEF Crash
    <3> HIDE DEF Failing
    <3>7. Failing
      BY <3>1, <3>3, <3>4, <3>5, <3>6, EveryStepIs
         DEF BaseInv, Prepares, Mine, Idle, vars
    <3> QED
      BY <3>7 DEF Failing
  <2>3. Registers(s)
    BY <2>1, <2>2 DEF RegisterInv, Fits
  <2>4. ~ Payable(s)
    <3>1. PICK error \in Error \ {"none"} :
            /\ Failed(s, error)
            /\ error = "funds" => \/ s.does.method = "transfer"
                                  \/ s.at = "broadcast" /\ ~ Payable(s)
      BY <2>2 DEF Fails
    <3>2. call'[r] = [at |-> "done", op |-> call[r].op,
                      users |-> call[r].users, error |-> error]
      BY <2>1, <2>2, <3>1, FailedState DEF BaseInv
    <3>3. error = "funds"
      BY <2>1, <3>2
    <3> QED
      BY <2>3, <3>1, <3>3 DEF Registers
  <2>5. Solvent(Owed(Of("user")), Cardinality(Registrations),
                balance["user"], 0)
    <3>1. ~ Refunded
      <4>1. New.at = "new" /\ CutOff.at = "cut off"
        BY DEF New, CutOff
      <4> QED
        BY <4>1 DEF Refunded, Refunding
    <3>2. Cardinality(Fundings) = 0
      BY FS_EmptySet
    <3> QED
      BY <3>1, <3>2 DEF MoneyInv
  <2>6. Cardinality(Registrations) \in Nat \ {0}
    <3>1. s \in Registrations
      BY <2>3 DEF Registrations, Registers
    <3> QED
      BY <3>1, CountedFinite, FS_EmptySet
  <2>7. Owed(Of("user")) + Gas <= balance["user"]
    <3> DEFINE c == Cardinality(Registrations)
    <3>1. Gas * c >= Gas /\ Gas * c \in Nat /\ Amount * 0 = 0
      BY <2>6, InternalAssumption
    <3> HIDE DEF c
    <3>2. Owed(Of("user")) + Gas * c <= balance["user"] + Amount * 0
      BY <2>5 DEF Solvent, c
    <3> QED
      BY <3>1, <3>2, CountedFinite, InternalAssumption
  <2>8. /\ Owed(Of("user") \ Rivals(s)) <= Owed(Of("user"))
        /\ Owed(Of("user") \ Rivals(s)) \in Nat /\ Owed(Of("user")) \in Nat
    BY OwedLess, CountedFinite
  <2>9. Cost(s.does) = Gas /\ s.from = "user"
    BY <2>3 DEF Cost, Registers
  <2> QED
    BY <2>4, <2>7, <2>8, <2>9, CountedFinite, InternalAssumption DEF Payable
<1> QED
  BY <1>1, <1>2, <1>3, BaseCorrect, PTL DEF Spec, FundingPays

=============================================================================
