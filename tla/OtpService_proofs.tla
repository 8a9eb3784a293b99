------------------------- MODULE OtpService_proofs -------------------------
(***************************************************************************)
(* Proofs about the service: its stores, handlers and transactions are     *)
(* well typed, and the contract's commitment moves from one password of a  *)
(* provider to its successor only.  Whatever overlaps, fails or comes      *)
(* late, database and contract stay together for every provider that was   *)
(* not disturbed, and no verification of it that was sent is undone.       *)
(***************************************************************************)
EXTENDS OtpServiceHistory, TLAPS

Handler == {New, CutOff} \union InProgress \union Done
Receipt == {"none", "pending", "success", "reverted"}

-----------------------------------------------------------------------------
(* A handler that moves to a typed state keeps all handlers typed.         *)
LEMMA GotoType ==
    ASSUME call \in [Request -> Handler], NEW r \in Request,
           NEW state \in Handler, Goto(r, state)
    PROVE  call' \in [Request -> Handler]
BY DEF Goto

(* So does one that answers.                                               *)
LEMMA AnswerType ==
    ASSUME call \in [Request -> Handler], NEW r \in Request,
           NEW o \in Operation, NEW success \in BOOLEAN, Answer(r, o, success)
    PROVE  call' \in [Request -> Handler]
<1>1. [at |-> "done", op |-> o, ok |-> success] \in Handler
  BY DEF Handler, Done
<1> QED
  BY <1>1, GotoType DEF Answer

(* What a handler holds at each of its awaits.                             *)
LEMMA HeldTypes ==
    ASSUME call \in [Request -> Handler], NEW r \in Request
    PROVE  /\ call[r].at \in {"registerIndex", "generateIndex",
                              "registerSend", "generateSend"} =>
                call[r].provider \in Provider /\ call[r].pin \in Pin
           /\ call[r].at = "registerSend" => call[r].index \in 1 .. MaxIndex
           /\ call[r].at = "generateSend" =>
                call[r].index \in 1 .. MaxIndex - 1 /\ call[r].start \in Nat
           /\ call[r].at \in {"generateCache", "verifyIndex", "verifySend"} =>
                call[r].entry \in CachedOtpValue
           /\ call[r].at = "verifySend" => call[r].index \in Nat
           /\ call[r].at \in {"incrementRead", "incrementSave"} =>
                call[r].provider \in Provider
           /\ call[r].at = "incrementSave" =>
                call[r].otp_index \in Nat \ {0}
<1> DEFINE h == call[r]
<1>1. h \in Handler
  OBVIOUS
<1> HIDE DEF h
<1>2. CASE h \in {New, CutOff} \union Done
  <2>1. CASE h = New
    <3>1. h.at = "new"
      BY <2>1 DEF New
    <3> QED
      BY <3>1 DEF h
  <2>2. CASE h = CutOff
    <3>1. h.at = "cut off"
      BY <2>2 DEF CutOff
    <3> QED
      BY <3>1 DEF h
  <2>3. CASE h \in Done
    <3>1. h.at = "done"
      BY <2>3 DEF Done
    <3> QED
      BY <3>1 DEF h
  <2> QED
    BY <1>2, <2>1, <2>2, <2>3
<1>3. CASE h \in [at : {"registerIndex", "generateIndex"},
                  provider : Provider, pin : Pin]
  BY <1>3 DEF h
<1>4. CASE h \in [at : {"registerSend"}, provider : Provider, pin : Pin,
                  index : 1 .. MaxIndex]
  BY <1>4 DEF h
<1>5. CASE h \in [at : {"generateSend"}, provider : Provider, pin : Pin,
                  index : 1 .. MaxIndex - 1, start : Nat]
  BY <1>5 DEF h
<1>6. CASE h \in [at : {"generateCache"}, entry : CachedOtpValue]
  BY <1>6 DEF h
<1>7. CASE h \in [at : {"verifyIndex"}, entry : CachedOtpValue]
  BY <1>7 DEF h
<1>8. CASE h \in [at : {"verifySend"}, entry : CachedOtpValue, index : Nat]
  BY <1>8 DEF h
<1>9. CASE h \in [at : {"incrementRead"}, provider : Provider]
  BY <1>9 DEF h
<1>10. CASE h \in [at : {"incrementSave"}, provider : Provider,
                   otp_index : Nat \ {0}]
  BY <1>10 DEF h
<1> QED
  BY <1>1, <1>2, <1>3, <1>4, <1>5, <1>6, <1>7, <1>8, <1>9, <1>10
     DEF Handler, InProgress

(* The fields of each kind of transaction.                                 *)
LEMMA TransactionTypes ==
    ASSUME NEW tx \in Transaction
    PROVE  /\ tx.method \in {"registerUser", "updateOtpWindow", "verifyOtp",
                             "resetManyOtps"}
           /\ tx.by \in Request
           /\ tx.method \in {"registerUser", "updateOtpWindow", "verifyOtp"}
                => tx.user \in Provider
           /\ tx.method \in {"registerUser", "verifyOtp"}
                => tx.commitment \in Digest
           /\ tx.method = "updateOtpWindow" => tx.start \in Nat /\ tx.end \in Nat
           /\ tx.method = "verifyOtp" => tx.index \in Nat /\ tx.otp \in Raw
           /\ tx.method = "resetManyOtps" => tx.users \in SUBSET Provider
BY DEF Transaction

(* An entry for a password whose successor can be derived is typed.        *)
LEMMA EntryType ==
    ASSUME NEW p \in Provider, NEW pin \in Pin, NEW i \in 1 .. MaxIndex - 1
    PROVE  /\ Entry(p, pin, i) \in CachedOtpValue
           /\ <<pin, i>> \in Raw /\ <<pin, i + 1>> \in Raw
<1>1. i \in 1 .. MaxIndex /\ i + 1 \in 1 .. MaxIndex
  BY ServiceAssumption
<1>2. <<pin, i>> \in Raw /\ <<pin, i + 1>> \in Raw
  BY <1>1 DEF Raw
<1>3. Keccak[<<pin, i + 1>>] \in Digest
  BY <1>2, ServiceAssumption
<1> QED
  BY <1>2, <1>3 DEF Entry, CachedOtpValue

(* A typed transaction leaves the network's state typed.                   *)
LEMMA BroadcastType ==
    ASSUME pending \in [Wallet -> Seq(Transaction)],
           receipt \in [Request -> Receipt],
           NEW r \in Request, NEW w \in Wallet, NEW tx \in Transaction,
           Broadcast(r, w, tx)
    PROVE  /\ pending' \in [Wallet -> Seq(Transaction)]
           /\ receipt' \in [Request -> Receipt]
<1>1. Append(pending[w], tx) \in Seq(Transaction)
  OBVIOUS
<1> QED
  BY <1>1 DEF Broadcast, Receipt

(* What the handlers send is typed.                                        *)
LEMMA SentTypes ==
    ASSUME call \in [Request -> Handler], NEW r \in Request
    PROVE  /\ call[r].at = "registerSend" => RegisterTx(r) \in Transaction
           /\ call[r].at = "generateSend" => WindowTx(r) \in Transaction
           /\ call[r].at = "verifySend" => VerifyTx(r) \in Transaction
           /\ [method |-> "resetManyOtps", by |-> r, users |-> Provider]
                    \in Transaction
<1>1. ASSUME call[r].at = "registerSend" PROVE RegisterTx(r) \in Transaction
  <2>1. /\ call[r].provider \in Provider
        /\ <<call[r].pin, call[r].index>> \in Raw
    BY <1>1, HeldTypes DEF Raw
  <2>2. Keccak[<<call[r].pin, call[r].index>>] \in Digest
    BY <2>1, ServiceAssumption
  <2> QED
    BY <2>1, <2>2 DEF RegisterTx, Transaction
<1>2. ASSUME call[r].at = "generateSend" PROVE WindowTx(r) \in Transaction
  <2>1. /\ call[r].provider \in Provider
        /\ call[r].start \in Nat /\ call[r].start + Duration \in Nat
    BY <1>2, HeldTypes, ServiceAssumption
  <2> QED
    BY <2>1 DEF WindowTx, Transaction
<1>3. ASSUME call[r].at = "verifySend" PROVE VerifyTx(r) \in Transaction
  <2>1. call[r].entry \in CachedOtpValue /\ call[r].index \in Nat
    BY <1>3, HeldTypes
  <2> QED
    BY <2>1 DEF VerifyTx, CachedOtpValue, Transaction
<1>4. [method |-> "resetManyOtps", by |-> r, users |-> Provider]
            \in Transaction
  BY DEF Transaction
<1> QED
  BY <1>1, <1>2, <1>3, <1>4

(* A transaction that its block executes leaves the records typed.         *)
LEMMA ExecuteType ==
    ASSUME otpRecords \in [Provider -> Chain!OTPData],
           NEW tx \in Transaction, NEW w \in Wallet, Execute(tx, w)
    PROVE  otpRecords' \in [Provider -> Chain!OTPData] /\ now' = now
<1>1. CASE tx.method = "registerUser"
  <2>1. Chain!RegisterUser(tx.user, tx.commitment, w, w)
    BY <1>1 DEF Execute
  <2> QED
    BY <1>1, <2>1, TransactionTypes, 0 \in Nat, 1 \in Nat
       DEF Chain!RegisterUser, Chain!OTPData
<1>2. CASE tx.method = "updateOtpWindow"
  <2>1. Chain!UpdateOtpWindow(tx.user, tx.start, tx.end, w)
    BY <1>2 DEF Execute
  <2> QED
    BY <1>2, <2>1, TransactionTypes DEF Chain!UpdateOtpWindow, Chain!OTPData
<1>3. CASE tx.method = "verifyOtp"
  <2>1. Chain!VerifyOtp(tx.user, tx.index, tx.otp, tx.commitment, w, w)
    BY <1>3 DEF Execute
  <2> QED
    BY <1>3, <2>1, TransactionTypes DEF Chain!VerifyOtp, Chain!OTPData
<1>4. CASE tx.method = "resetManyOtps"
  <2>1. Chain!ResetManyOtps(tx.users, w)
    BY <1>4 DEF Execute
  <2> QED
    BY <1>4, <2>1, TransactionTypes, ServiceAssumption
       DEF Chain!ResetManyOtps, Chain!EmptyRecord, Chain!OTPData
<1> QED
  BY <1>1, <1>2, <1>3, <1>4, TransactionTypes

-----------------------------------------------------------------------------
(* The stores are well typed at the start.                                 *)
LEMMA InitTyped == Init => TypeOK
<1>1. Chain!EmptyRecord \in Chain!OTPData
  BY ServiceAssumption, 0 \in Nat DEF Chain!EmptyRecord, Chain!OTPData
<1>2. [w \in Wallet |-> <<>>] \in [Wallet -> Seq(Transaction)]
  OBVIOUS
<1> QED
  BY <1>1, <1>2, ServiceAssumption DEF Init, TypeOK

(* No step of a handler, a block, the clock or a crash breaks a type: a    *)
(* password or commitment is only derived from an index within MaxIndex.   *)
LEMMA StepTyped ==
    ASSUME TypeOK, [Next]_vars
    PROVE  TypeOK'
<1>0. /\ call \in [Request -> Handler]
      /\ pending \in [Wallet -> Seq(Transaction)]
      /\ receipt \in [Request -> Receipt]
      /\ otpRecords \in [Provider -> Chain!OTPData]
      /\ now \in 1 .. MaxTime + 1 /\ now \in Nat
      /\ otpIndex \in [Provider -> Nat \ {0}]
      /\ secret \in [Provider -> Pin]
      /\ cache \in [Code -> CachedOtpValue \union {NoEntry}]
      /\ faults \in 0 .. MaxFaults
  BY ServiceAssumption DEF TypeOK, Handler, Receipt
<1> DEFINE Calls == call' \in [Request -> Handler]
           Chained == /\ otpRecords' \in [Provider -> Chain!OTPData]
                      /\ now' \in 1 .. MaxTime + 1
           Net == /\ pending' \in [Wallet -> Seq(Transaction)]
                  /\ receipt' \in [Request -> Receipt]
           Saved == /\ otpIndex' \in [Provider -> Nat \ {0}]
                    /\ secret' \in [Provider -> Pin]
           Memory == cache' \in [Code -> CachedOtpValue \union {NoEntry}]
           Faulty == faults' \in 0 .. MaxFaults
           Typed == Calls /\ Chained /\ Net /\ Saved /\ Memory /\ Faulty
<1>1. /\ UNCHANGED chainVars => Chained
      /\ UNCHANGED netVars => Net
      /\ UNCHANGED dbVars => Saved
      /\ UNCHANGED cache => Memory
      /\ UNCHANGED faults => Faulty
  BY <1>0 DEF chainVars, netVars, dbVars
<1>2. ASSUME NEW r \in Request, NEW o \in Operation,
             NEW success \in BOOLEAN, Answer(r, o, success)
      PROVE  Calls
  BY <1>0, <1>2, AnswerType
<1>3. ASSUME NEW r \in Request, NEW state \in Handler, Goto(r, state)
      PROVE  Calls
  BY <1>0, <1>3, GotoType
<1>4. ASSUME NEW r \in Request, NEW w \in Wallet, NEW tx \in Transaction,
             Send(r, w, tx)
      PROVE  Net
  BY <1>0, <1>4, BroadcastType DEF Send
<1>5. {"register", "generate", "verify", "reset", "setPin"} = Operation
  BY DEF Operation
<1> HIDE DEF Calls, Chained, Net, Saved, Memory, Faulty
<1>6. ASSUME NEW r \in Request, NEW p \in Provider, NEW pin \in Pin,
             RegisterPassword(r, p, pin)
      PROVE  Typed
  <2>1. [at |-> "registerIndex", provider |-> p, pin |-> pin] \in Handler
    BY DEF Handler, InProgress
  <2> QED
    BY <1>1, <1>2, <1>3, <1>5, <1>6, <2>1 DEF RegisterPassword
<1>7. ASSUME NEW r \in Request, NEW p \in Provider, NEW pin \in Pin,
             GeneratePassword(r, p, pin)
      PROVE  Typed
  <2>1. [at |-> "generateIndex", provider |-> p, pin |-> pin] \in Handler
    BY DEF Handler, InProgress
  <2> QED
    BY <1>1, <1>2, <1>3, <1>5, <1>7, <2>1 DEF GeneratePassword
<1>8. ASSUME NEW r \in Request, NEW p \in Provider, NEW pin \in Pin,
             SetPin(r, p, pin)
      PROVE  Typed
  <2>1. Saved
    BY <1>0, <1>8 DEF SetPin, Saved
  <2> QED
    BY <1>1, <1>2, <1>5, <1>8, <2>1 DEF SetPin
<1>9. ASSUME NEW r \in Request, NEW code \in Code, VerifyLookup(r, code)
      PROVE  Typed
  <2>1. CASE cache[code] = NoEntry
    BY <1>1, <1>2, <1>5, <1>9, <2>1 DEF VerifyLookup
  <2>2. CASE cache[code] # NoEntry
    <3>1. cache[code] \in CachedOtpValue
      BY <1>0, <2>2
    <3>2. [at |-> "verifyIndex", entry |-> cache[code]] \in Handler
      BY <3>1 DEF Handler, InProgress
    <3> QED
      BY <1>1, <1>3, <1>9, <2>2, <3>2 DEF VerifyLookup
  <2> QED
    BY <2>1, <2>2
<1>10. ASSUME NEW r \in Request, ResetMany(r)
       PROVE  Typed
  <2>1. "admin" \in Wallet
    BY DEF Wallet
  <2>2. Net
    BY <1>0, <1>1, <1>4, <1>10, <2>1, SentTypes DEF ResetMany
  <2> QED
    BY <1>1, <1>2, <1>5, <1>10, <2>2 DEF ResetMany
<1>11. ASSUME NEW r \in Request, RegisterIndex(r)
       PROVE  Typed
  <2>1. call[r].provider \in Provider /\ call[r].pin \in Pin
    BY <1>0, <1>11, HeldTypes DEF RegisterIndex
  <2>2. otpIndex[call[r].provider] \in 1 .. MaxIndex
    BY <1>0, <1>11, <2>1, ServiceAssumption DEF RegisterIndex
  <2>3. [at |-> "registerSend", provider |-> call[r].provider,
         pin |-> call[r].pin, index |-> otpIndex[call[r].provider]]
              \in Handler
    BY <2>1, <2>2 DEF Handler, InProgress
  <2> QED
    BY <1>1, <1>3, <1>11, <2>3 DEF RegisterIndex
<1>12. ASSUME NEW r \in Request, RegisterSend(r)
       PROVE  Typed
  <2>1. Net
    BY <1>0, <1>1, <1>4, <1>12, SentTypes DEF RegisterSend, Wallet
  <2>2. Calls
    BY <1>2, <1>5, <1>12 DEF RegisterSend
  <2> QED
    BY <1>1, <1>12, <2>1, <2>2 DEF RegisterSend
<1>13. ASSUME NEW r \in Request, GenerateIndex(r)
       PROVE  Typed
  <2>1. call[r].provider \in Provider /\ call[r].pin \in Pin
    BY <1>0, <1>13, HeldTypes DEF GenerateIndex
  <2>2. otpIndex[call[r].provider] \in 1 .. MaxIndex - 1
    BY <1>0, <1>13, <2>1, ServiceAssumption DEF GenerateIndex
  <2>3. [at |-> "generateSend", provider |-> call[r].provider,
         pin |-> call[r].pin, index |-> otpIndex[call[r].provider],
         start |-> now] \in Handler
    BY <1>0, <2>1, <2>2 DEF Handler, InProgress
  <2> QED
    BY <1>1, <1>3, <1>13, <2>3 DEF GenerateIndex
<1>14. ASSUME NEW r \in Request, GenerateSend(r)
       PROVE  Typed
  <2> DEFINE entry == Entry(call[r].provider, call[r].pin, call[r].index)
  <2>1. Net
    BY <1>0, <1>1, <1>4, <1>14, SentTypes DEF GenerateSend, Wallet
  <2>2. entry \in CachedOtpValue
    BY <1>0, <1>14, HeldTypes, EntryType DEF GenerateSend
  <2>3. [at |-> "generateCache", entry |-> entry] \in Handler
    BY <2>2 DEF Handler, InProgress
  <2>4. Calls
    BY <1>2, <1>3, <1>5, <1>14, <2>3 DEF GenerateSend
  <2> QED
    BY <1>1, <1>14, <2>1, <2>4 DEF GenerateSend
<1>15. ASSUME NEW r \in Request, GenerateCache(r)
       PROVE  Typed
  <2>1. call[r].entry \in CachedOtpValue
    BY <1>0, <1>15, HeldTypes DEF GenerateCache
  <2>2. Memory
    BY <1>0, <1>15, <2>1 DEF GenerateCache, Memory
  <2> QED
    BY <1>1, <1>2, <1>5, <1>15, <2>2 DEF GenerateCache
<1>16. ASSUME NEW r \in Request, VerifyIndex(r)
       PROVE  Typed
  <2>1. call[r].entry \in CachedOtpValue
    BY <1>0, <1>16, HeldTypes DEF VerifyIndex
  <2>2. otpIndex[call[r].entry.auth_provider_id] \in Nat
    BY <1>0, <2>1 DEF CachedOtpValue
  <2>3. [at |-> "verifySend", entry |-> call[r].entry,
         index |-> otpIndex[call[r].entry.auth_provider_id]] \in Handler
    BY <2>1, <2>2 DEF Handler, InProgress
  <2> QED
    BY <1>1, <1>3, <1>16, <2>3 DEF VerifyIndex
<1>17. ASSUME NEW r \in Request, VerifySend(r)
       PROVE  Typed
  <2>1. Net
    BY <1>0, <1>1, <1>4, <1>17, SentTypes DEF VerifySend, Wallet
  <2>2. call[r].entry \in CachedOtpValue
    BY <1>0, <1>17, HeldTypes DEF VerifySend
  <2>3. [at |-> "incrementRead",
         provider |-> call[r].entry.auth_provider_id] \in Handler
    BY <2>2 DEF CachedOtpValue, Handler, InProgress
  <2>4. Calls
    BY <1>2, <1>3, <1>5, <1>17, <2>3 DEF VerifySend, ToIncrement
  <2> QED
    BY <1>1, <1>17, <2>1, <2>4 DEF VerifySend
<1>18. ASSUME NEW r \in Request, IncrementRead(r)
       PROVE  Typed
  <2>1. call[r].provider \in Provider
    BY <1>0, <1>18, HeldTypes DEF IncrementRead
  <2>2. otpIndex[call[r].provider] + 1 \in Nat \ {0}
    BY <1>0, <2>1
  <2>3. [at |-> "incrementSave", provider |-> call[r].provider,
         otp_index |-> otpIndex[call[r].provider] + 1] \in Handler
    BY <2>1, <2>2 DEF Handler, InProgress
  <2> QED
    BY <1>1, <1>3, <1>18, <2>3 DEF IncrementRead
<1>19. ASSUME NEW r \in Request, IncrementSave(r)
       PROVE  Typed
  <2>1. call[r].otp_index \in Nat \ {0}
    BY <1>0, <1>19, HeldTypes DEF IncrementSave
  <2>2. Saved
    BY <1>0, <1>19, <2>1 DEF IncrementSave, Saved
  <2> QED
    BY <1>1, <1>2, <1>5, <1>19, <2>2 DEF IncrementSave
<1>20. ASSUME NEW r \in Request, AnswerLost(r)
       PROVE  Typed
  <2>1. Faulty
    BY <1>0, <1>20, ServiceAssumption DEF AnswerLost, Faulty
  <2>2. Net
    BY <1>0, <1>4, <1>20, SentTypes DEF AnswerLost, Wallet
  <2>3. Calls
    BY <1>2, <1>5, <1>20 DEF AnswerLost
  <2> QED
    BY <1>1, <1>20, <2>1, <2>2, <2>3 DEF AnswerLost
<1>21. ASSUME NEW r \in Request, IncrementFails(r)
       PROVE  Typed
  <2>1. Faulty
    BY <1>0, <1>21, ServiceAssumption DEF IncrementFails, Faulty
  <2> QED
    BY <1>1, <1>2, <1>5, <1>21, <2>1 DEF IncrementFails
<1>22. ASSUME NEW w \in Wallet, Mine(w)
       PROVE  Typed
  <2> DEFINE tx == Head(pending[w])
  <2>1. pending[w] \in Seq(Transaction) /\ pending[w] # <<>>
    BY <1>0, <1>22 DEF Mine
  <2>2. tx \in Transaction /\ Tail(pending[w]) \in Seq(Transaction)
    BY <2>1
  <2>3. Net
    BY <1>0, <1>22, <2>2 DEF Mine, Net, Receipt
  <2> HIDE DEF tx
  <2>4. Chained
    <3>1. CASE Execute(tx, w)
      BY <1>0, <2>2, <3>1, ExecuteType DEF Chained
    <3>2. CASE UNCHANGED chainVars
      BY <1>1, <3>2
    <3> QED
      BY <1>22, <3>1, <3>2 DEF Mine, tx
  <2>5. Calls
    BY <1>0, <1>22 DEF Mine, Calls
  <2> QED
    BY <1>1, <1>22, <2>3, <2>4, <2>5 DEF Mine
<1>23. ASSUME Tick PROVE Typed
  <2>1. Chained
    BY <1>0, <1>23, ServiceAssumption DEF Tick, Chained
  <2>2. Calls
    BY <1>0, <1>23 DEF Tick, Calls
  <2> QED
    BY <1>1, <1>23, <2>1, <2>2 DEF Tick
<1>24. ASSUME Crash PROVE Typed
  <2>1. Faulty
    BY <1>0, <1>24, ServiceAssumption DEF Crash, Faulty
  <2>2. Memory
    BY <1>24 DEF Crash, Memory
  <2>3. Calls
    <3>1. CutOff \in Handler
      BY DEF Handler
    <3> QED
      BY <1>0, <1>24, <3>1 DEF Crash, Calls
  <2> QED
    BY <1>1, <1>24, <2>1, <2>2, <2>3 DEF Crash
<1>25. ASSUME UNCHANGED vars PROVE Typed
  <2>1. Calls
    BY <1>0, <1>25 DEF vars, Calls
  <2> QED
    BY <1>1, <1>25, <2>1 DEF vars, chainVars, netVars, dbVars
<1>26. Typed
  <2> HIDE DEF Typed
  <2> QED
    BY <1>6, <1>7, <1>8, <1>9, <1>10, <1>11, <1>12, <1>13, <1>14, <1>15,
       <1>16, <1>17, <1>18, <1>19, <1>20, <1>21, <1>22, <1>23, <1>24, <1>25
       DEF Next, Submit, Continue
<1> QED
  BY <1>26 DEF Calls, Chained, Net, Saved, Memory, Faulty, TypeOK, Handler,
               Receipt

(* Every store, transaction and handler holds values of its type.  A       *)
(* password or commitment is only derived from an index within MaxIndex,   *)
(* and otp_index never falls below 1.                                      *)
THEOREM ServiceTypeCorrect == Spec => []TypeOK
BY InitTyped, StepTyped, PTL DEF Spec

-----------------------------------------------------------------------------
(* An entry, and a verification, name the password after the one they use. *)
Linked(entry) ==
    /\ entry.raw_otp[2] < MaxIndex
    /\ entry.new_commitment_value =
            Keccak[<<entry.raw_otp[1], entry.raw_otp[2] + 1>>]

LinkedTx(tx) ==
    tx.method = "verifyOtp" =>
        /\ tx.otp[2] < MaxIndex
        /\ tx.commitment = Keccak[<<tx.otp[1], tx.otp[2] + 1>>]

(* The invariant behind ChainMovesForward: whatever is cached, held by a   *)
(* handler or waiting for its block is linked.                             *)
HoldsEntry == {"generateCache", "verifyIndex", "verifySend"}
CacheLinked == \A c \in Code : cache[c] # NoEntry => Linked(cache[c])
HeldLinked ==
    \A r \in Request : call[r].at \in HoldsEntry => Linked(call[r].entry)
SentLinked ==
    \A w \in Wallet : \A i \in 1 .. Len(pending[w]) : LinkedTx(pending[w][i])
LinkInv == CacheLinked /\ HeldLinked /\ SentLinked

(* A handler that moves on holds a linked entry or none.                   *)
LEMMA GotoLinked ==
    ASSUME TypeOK, HeldLinked, NEW r \in Request, NEW state, Goto(r, state),
           state.at \in HoldsEntry => Linked(state.entry)
    PROVE  HeldLinked'
<1> SUFFICES ASSUME NEW q \in Request, call'[q].at \in HoldsEntry
             PROVE  Linked(call'[q].entry)
  BY DEF HeldLinked, Linked
<1>1. call'[q] = IF q = r THEN state ELSE call[q]
  BY DEF TypeOK, Goto
<1> QED
  BY <1>1 DEF HeldLinked

(* One that answers holds none.                                            *)
LEMMA AnswerLinked ==
    ASSUME TypeOK, HeldLinked, NEW r \in Request, NEW o, NEW success,
           Answer(r, o, success)
    PROVE  HeldLinked'
<1> DEFINE state == [at |-> "done", op |-> o, ok |-> success]
<1>1. state.at \notin HoldsEntry /\ Goto(r, state)
  BY DEF Answer, HoldsEntry
<1> HIDE DEF state
<1> QED
  BY <1>1, GotoLinked

(* A linked transaction joins linked ones.                                 *)
LEMMA BroadcastLinked ==
    ASSUME TypeOK, SentLinked, NEW r \in Request, NEW w \in Wallet,
           NEW tx \in Transaction, LinkedTx(tx), Broadcast(r, w, tx)
    PROVE  SentLinked'
<1> SUFFICES ASSUME NEW v \in Wallet, NEW i \in 1 .. Len(pending'[v])
             PROVE  LinkedTx(pending'[v][i])
  BY DEF SentLinked, LinkedTx
<1>1. pending[v] \in Seq(Transaction)
  BY DEF TypeOK
<1>2. pending'[v] = IF v = w THEN Append(pending[v], tx) ELSE pending[v]
  BY DEF TypeOK, Broadcast
<1>3. CASE v = w /\ i = Len(pending[v]) + 1
  BY <1>1, <1>2, <1>3
<1>4. CASE v # w \/ i # Len(pending[v]) + 1
  <2>1. i \in 1 .. Len(pending[v]) /\ pending'[v][i] = pending[v][i]
    BY <1>1, <1>2, <1>4
  <2> QED
    BY <2>1 DEF SentLinked
<1> QED
  BY <1>3, <1>4

(* What is sent is linked: a verification is made of the entry held.       *)
LEMMA SentIsLinked ==
    ASSUME HeldLinked, NEW r \in Request
    PROVE  /\ LinkedTx(RegisterTx(r)) /\ LinkedTx(WindowTx(r))
           /\ LinkedTx([method |-> "resetManyOtps", by |-> r,
                        users |-> Provider])
           /\ call[r].at = "verifySend" => LinkedTx(VerifyTx(r))
BY DEF LinkedTx, RegisterTx, WindowTx, VerifyTx, HeldLinked, HoldsEntry, Linked

(* Nothing is cached, held or sent at the start.                           *)
LEMMA InitLinked == Init => LinkInv
BY DEF Init, LinkInv, CacheLinked, HeldLinked, SentLinked, New, HoldsEntry

(* Nothing but a linked entry is ever cached, held or sent: every entry is *)
(* built by generateOtp, and verifyOtp passes it on as it is.              *)
LEMMA StepLinked ==
    ASSUME TypeOK, LinkInv, [Next]_vars
    PROVE  LinkInv'
<1>0. /\ call \in [Request -> Handler]
      /\ CacheLinked /\ HeldLinked /\ SentLinked
  BY DEF TypeOK, Handler, LinkInv
<1>1. /\ UNCHANGED cache => CacheLinked'
      /\ UNCHANGED call => HeldLinked'
      /\ UNCHANGED netVars => SentLinked'
  BY <1>0 DEF CacheLinked, HeldLinked, SentLinked, netVars
<1>2. ASSUME NEW r \in Request, NEW o, NEW success, Answer(r, o, success)
      PROVE  HeldLinked'
  BY <1>0, <1>2, AnswerLinked
<1>3. ASSUME NEW r \in Request, NEW w \in Wallet, NEW tx \in Transaction,
             LinkedTx(tx), Send(r, w, tx)
      PROVE  SentLinked'
  BY <1>0, <1>3, BroadcastLinked DEF Send
<1> HIDE DEF CacheLinked, HeldLinked, SentLinked
<1>4. ASSUME NEW r \in Request, NEW p \in Provider, NEW pin \in Pin,
             \/ RegisterPassword(r, p, pin)
             \/ GeneratePassword(r, p, pin)
             \/ SetPin(r, p, pin)
      PROVE  LinkInv'
  <2>1. HeldLinked'
    <3>1. CASE \E step \in {"registerIndex", "generateIndex"} :
                  Goto(r, [at |-> step, provider |-> p, pin |-> pin])
      BY <1>0, <3>1, GotoLinked DEF HoldsEntry
    <3>2. CASE \E o \in Operation, success \in BOOLEAN :
                  Answer(r, o, success)
      BY <1>2, <3>2
    <3> QED
      BY <1>4, <3>1, <3>2
         DEF RegisterPassword, GeneratePassword, SetPin, Operation
  <2> QED
    BY <1>1, <1>4, <2>1
       DEF RegisterPassword, GeneratePassword, SetPin, LinkInv
<1>5. ASSUME NEW r \in Request, NEW code \in Code, VerifyLookup(r, code)
      PROVE  LinkInv'
  <2>1. CASE cache[code] = NoEntry
    BY <1>1, <1>2, <1>5, <2>1 DEF VerifyLookup, LinkInv
  <2>2. CASE cache[code] # NoEntry
    <3>1. Linked(cache[code])
      BY <1>0, <2>2 DEF CacheLinked
    <3>2. HeldLinked'
      BY <1>0, <1>5, <2>2, <3>1, GotoLinked DEF VerifyLookup
    <3> QED
      BY <1>1, <1>5, <3>2 DEF VerifyLookup, LinkInv
  <2> QED
    BY <2>1, <2>2
<1>6. ASSUME NEW r \in Request, ResetMany(r)
      PROVE  LinkInv'
  <2>1. SentLinked'
    BY <1>0, <1>1, <1>3, <1>6, SentTypes, SentIsLinked DEF ResetMany, Wallet
  <2> QED
    BY <1>1, <1>2, <1>6, <2>1 DEF ResetMany, LinkInv
<1>7. ASSUME NEW r \in Request, RegisterIndex(r) \/ GenerateIndex(r)
      PROVE  LinkInv'
  <2>1. HeldLinked'
    BY <1>0, <1>7, GotoLinked DEF RegisterIndex, GenerateIndex, HoldsEntry
  <2> QED
    BY <1>1, <1>7, <2>1 DEF RegisterIndex, GenerateIndex, LinkInv
<1>8. ASSUME NEW r \in Request, RegisterSend(r)
      PROVE  LinkInv'
  <2>1. SentLinked'
    BY <1>0, <1>1, <1>3, <1>8, SentTypes, SentIsLinked
       DEF RegisterSend, Wallet
  <2> QED
    BY <1>1, <1>2, <1>8, <2>1 DEF RegisterSend, LinkInv
<1>9. ASSUME NEW r \in Request, GenerateSend(r)
      PROVE  LinkInv'
  <2> DEFINE entry == Entry(call[r].provider, call[r].pin, call[r].index)
  <2>1. SentLinked'
    BY <1>0, <1>1, <1>3, <1>9, SentTypes, SentIsLinked
       DEF GenerateSend, Wallet
  <2>2. Linked(entry)
    <3>1. call[r].index \in 1 .. MaxIndex - 1
      BY <1>0, <1>9, HeldTypes DEF GenerateSend
    <3> QED
      BY <3>1, ServiceAssumption DEF Linked, Entry
  <2> HIDE DEF entry
  <2>3. ASSUME Goto(r, [at |-> "generateCache", entry |-> entry])
        PROVE  HeldLinked'
    BY <1>0, <2>2, <2>3, GotoLinked
  <2>4. ASSUME Answer(r, "generate", FALSE)
        PROVE  HeldLinked'
    BY <1>2, <2>4
  <2>5. HeldLinked'
    BY <1>9, <2>3, <2>4 DEF GenerateSend, entry
  <2> QED
    BY <1>1, <1>9, <2>1, <2>5 DEF GenerateSend, LinkInv
<1>10. ASSUME NEW r \in Request, GenerateCache(r)
       PROVE  LinkInv'
  <2>1. Linked(call[r].entry)
    BY <1>0, <1>10 DEF GenerateCache, HeldLinked, HoldsEntry
  <2>2. CacheLinked'
    <3> SUFFICES ASSUME NEW c \in Code, cache'[c] # NoEntry
                 PROVE  Linked(cache'[c])
      BY DEF CacheLinked, Linked
    <3>1. cache'[c] = call[r].entry \/ cache'[c] = cache[c]
      BY <1>10 DEF GenerateCache, TypeOK
    <3> QED
      BY <1>0, <2>1, <3>1 DEF CacheLinked
  <2> QED
    BY <1>1, <1>2, <1>10, <2>2 DEF GenerateCache, LinkInv
<1>11. ASSUME NEW r \in Request, VerifyIndex(r)
       PROVE  LinkInv'
  <2>1. Linked(call[r].entry)
    BY <1>0, <1>11 DEF VerifyIndex, HeldLinked, HoldsEntry
  <2>2. HeldLinked'
    BY <1>0, <1>11, <2>1, GotoLinked DEF VerifyIndex
  <2> QED
    BY <1>1, <1>11, <2>2 DEF VerifyIndex, LinkInv
<1>12. ASSUME NEW r \in Request, VerifySend(r)
       PROVE  LinkInv'
  <2>1. SentLinked'
    BY <1>0, <1>1, <1>3, <1>12, SentTypes, SentIsLinked
       DEF VerifySend, Wallet
  <2>2. HeldLinked'
    BY <1>0, <1>2, <1>12, GotoLinked DEF VerifySend, ToIncrement, HoldsEntry
  <2> QED
    BY <1>1, <1>12, <2>1, <2>2 DEF VerifySend, LinkInv
<1>13. ASSUME NEW r \in Request, IncrementRead(r) \/ IncrementSave(r)
       PROVE  LinkInv'
  <2>1. HeldLinked'
    BY <1>0, <1>2, <1>13, GotoLinked
       DEF IncrementRead, IncrementSave, HoldsEntry
  <2> QED
    BY <1>1, <1>13, <2>1 DEF IncrementRead, IncrementSave, LinkInv
<1>14. ASSUME NEW r \in Request, AnswerLost(r)
       PROVE  LinkInv'
  <2>1. SentLinked'
    BY <1>0, <1>3, <1>14, SentTypes, SentIsLinked DEF AnswerLost, Wallet
  <2> QED
    BY <1>1, <1>2, <1>14, <2>1 DEF AnswerLost, LinkInv
<1>15. ASSUME NEW r \in Request, IncrementFails(r)
       PROVE  LinkInv'
  BY <1>1, <1>2, <1>15 DEF IncrementFails, LinkInv
<1>16. ASSUME NEW w \in Wallet, Mine(w)
       PROVE  LinkInv'
  <2>1. SentLinked'
    <3> SUFFICES ASSUME NEW v \in Wallet, NEW i \in 1 .. Len(pending'[v])
                 PROVE  LinkedTx(pending'[v][i])
      BY DEF SentLinked, LinkedTx
    <3>1. pending[v] \in Seq(Transaction)
      BY DEF TypeOK
    <3>2. \/ pending'[v] = pending[v]
          \/ pending[v] # <<>> /\ pending'[v] = Tail(pending[v])
      BY <1>16 DEF Mine, TypeOK
    <3>3. \E j \in 1 .. Len(pending[v]) : pending'[v][i] = pending[v][j]
      <4>1. CASE pending'[v] = pending[v]
        BY <4>1
      <4>2. CASE pending[v] # <<>> /\ pending'[v] = Tail(pending[v])
        <5>1. /\ i + 1 \in 1 .. Len(pending[v])
              /\ pending'[v][i] = pending[v][i + 1]
          BY <3>1, <4>2
        <5> QED
          BY <5>1
      <4> QED
        BY <3>2, <4>1, <4>2
    <3> QED
      BY <1>0, <3>3 DEF SentLinked
  <2> QED
    BY <1>1, <1>16, <2>1 DEF Mine, LinkInv
<1>17. ASSUME Tick \/ UNCHANGED vars
       PROVE  LinkInv'
  BY <1>1, <1>17 DEF Tick, vars, netVars, LinkInv
<1>18. ASSUME Crash
       PROVE  LinkInv'
  <2>1. CacheLinked'
    BY <1>18 DEF Crash, CacheLinked
  <2>2. HeldLinked'
    <3> SUFFICES ASSUME NEW q \in Request, call'[q].at \in HoldsEntry
                 PROVE  Linked(call'[q].entry)
      BY DEF HeldLinked, Linked
    <3>1. call'[q] = CutOff \/ call'[q] = call[q]
      BY <1>18 DEF Crash
    <3>2. CutOff.at \notin HoldsEntry
      BY DEF CutOff, HoldsEntry
    <3> QED
      BY <1>0, <3>1, <3>2 DEF HeldLinked
  <2> QED
    BY <1>1, <1>18, <2>1, <2>2 DEF Crash, LinkInv
<1> QED
  BY <1>4, <1>5, <1>6, <1>7, <1>8, <1>9, <1>10, <1>11, <1>12, <1>13,
     <1>14, <1>15, <1>16, <1>17, <1>18 DEF Next, Submit, Continue

(* What a block does to the commitments: nothing, a registration over none *)
(* or a reset, or a verification that moves one forward.                   *)
LEMMA ExecuteMoves ==
    ASSUME TypeOK, NEW w \in Wallet, NEW tx \in Transaction, LinkedTx(tx),
           Execute(tx, w)
    PROVE  MovesForward
<1>0. otpRecords \in [Provider -> Chain!OTPData]
  BY DEF TypeOK
<1>1. CASE tx.method = "registerUser"
  <2>1. Chain!RegisterUser(tx.user, tx.commitment, w, w)
    BY <1>1 DEF Execute
  <2> QED
    BY <1>0, <2>1
       DEF Chain!RegisterUser, Chain!CanRegisterUser, MovesForward
<1>2. CASE tx.method = "updateOtpWindow"
  <2>1. Chain!UpdateOtpWindow(tx.user, tx.start, tx.end, w)
    BY <1>2 DEF Execute
  <2> QED
    BY <1>0, <2>1 DEF Chain!UpdateOtpWindow, MovesForward
<1>3. CASE tx.method = "verifyOtp"
  <2>1. Chain!VerifyOtp(tx.user, tx.index, tx.otp, tx.commitment, w, w)
    BY <1>3 DEF Execute
  <2>2. tx.otp \in Raw
    BY <1>3, TransactionTypes
  <2>3. /\ Keccak[tx.otp] = otpRecords[tx.user].commitmentValue
        /\ tx.otp[2] < MaxIndex
        /\ tx.commitment = Keccak[<<tx.otp[1], tx.otp[2] + 1>>]
    BY <1>3, <2>1 DEF Chain!VerifyOtp, Chain!CanVerifyOtp, LinkedTx
  <2>4. Successor(otpRecords[tx.user].commitmentValue, tx.commitment)
    BY <2>2, <2>3 DEF Successor
  <2>5. \A p \in Provider :
            \/ otpRecords'[p] = otpRecords[p]
            \/ /\ p = tx.user
               /\ otpRecords'[p].commitmentValue = tx.commitment
               /\ otpRecords'[p].index = otpRecords[p].index + 1
    BY <1>0, <2>1 DEF Chain!VerifyOtp
  <2> QED
    BY <2>4, <2>5 DEF MovesForward
<1>4. CASE tx.method = "resetManyOtps"
  <2>1. Chain!ResetManyOtps(tx.users, w)
    BY <1>4 DEF Execute
  <2> QED
    BY <2>1 DEF Chain!ResetManyOtps, Chain!EmptyRecord, MovesForward
<1> QED
  BY <1>1, <1>2, <1>3, <1>4, TransactionTypes

(* While a provider stays registered its commitment moves from one         *)
(* password to the successor only, in step with the index, whatever        *)
(* requests overlap and whatever is lost, late or restarted: only a block  *)
(* with a linked verification moves it.                                    *)
THEOREM ChainCorrect == Spec => ChainMovesForward
<1>1. ASSUME TypeOK, LinkInv, [Next]_vars
      PROVE  MovesForward
  <2> USE <1>1
  <2>1. UNCHANGED otpRecords => MovesForward
    BY DEF MovesForward
  <2>2. ASSUME NEW w \in Wallet, Mine(w)
        PROVE  MovesForward
    <3> DEFINE tx == Head(pending[w])
    <3>1. pending[w] \in Seq(Transaction) /\ pending[w] # <<>>
      BY <2>2 DEF Mine, TypeOK
    <3>2. tx \in Transaction /\ 1 \in 1 .. Len(pending[w])
          /\ tx = pending[w][1]
      BY <3>1
    <3>3. LinkedTx(tx)
      BY <3>2 DEF LinkInv, SentLinked
    <3> HIDE DEF tx
    <3>4. Execute(tx, w) \/ UNCHANGED chainVars
      BY <2>2 DEF Mine, tx
    <3> QED
      BY <2>1, <3>2, <3>3, <3>4, ExecuteMoves DEF chainVars
  <2>3. ASSUME NEW r \in Request,
               Submit(r) \/ Continue(r) \/ AnswerLost(r) \/ IncrementFails(r)
        PROVE  UNCHANGED otpRecords
    BY <2>3 DEF Submit, Continue, RegisterPassword, GeneratePassword, SetPin,
         VerifyLookup, ResetMany, RegisterIndex, RegisterSend, GenerateIndex,
         GenerateSend, GenerateCache, VerifyIndex, VerifySend, IncrementRead,
         IncrementSave, AnswerLost, IncrementFails, chainVars
  <2>4. ASSUME Tick \/ Crash \/ UNCHANGED vars
        PROVE  UNCHANGED otpRecords
    BY <2>4 DEF Tick, Crash, vars, chainVars
  <2> QED
    BY <2>1, <2>2, <2>3, <2>4 DEF Next
<1> QED
  BY <1>1, InitTyped, StepTyped, InitLinked, StepLinked, PTL
     DEF Spec, ChainMovesForward

-----------------------------------------------------------------------------
(* The history variable restricts nothing: what the service does, it does  *)
(* with it as well.                                                        *)
LEMMA HistoryStep ==
    /\ HistoryInit => Init
    /\ [HistoryNext]_historyVars => [Next]_vars
BY DEF HistoryInit, HistoryNext, historyVars

LEMMA HistoryIsService == HistorySpec => Spec
BY HistoryStep, PTL DEF HistorySpec, Spec

(* What the handlers of a provider hold: at most one of them verifies;     *)
(* a registration derives its commitment from the text and the index the   *)
(* provider has, and a verification has the index and counts it up by one. *)
Alone(p) ==
    \A q, r \in Request : Verifies(q, p) /\ Verifies(r, p) => q = r
Holds(r, p) ==
    /\ call[r].at \in {"registerIndex", "registerSend"}
            /\ call[r].provider = p => call[r].pin = secret[p]
    /\ call[r].at = "registerSend" /\ call[r].provider = p
            /\ ~ Registered(p) => call[r].index = 1
    /\ call[r].at = "verifySend" /\ call[r].entry.auth_provider_id = p =>
            call[r].index = otpIndex[p]
    /\ call[r].at = "incrementSave" /\ call[r].provider = p =>
            call[r].otp_index = otpIndex[p] + 1
HandlersInv(p) == Alone(p) /\ \A r \in Request : Holds(r, p)

(* What waits for its block: each wallet sends methods of its own, and a   *)
(* window that is opened ends some time.                                   *)
Waiting(w) == {pending[w][i] : i \in 1 .. Len(pending[w])}
TxOk(w, tx) ==
    /\ w = "user" => tx.method \in {"registerUser", "verifyOtp"}
    /\ w = "admin" => tx.method \in {"updateOtpWindow", "resetManyOtps"}
    /\ tx.method = "updateOtpWindow" => tx.end # 0
PendingInv == \A w \in Wallet : \A tx \in Waiting(w) : TxOk(w, tx)

(* A registration that waits for its block commits to the first password.  *)
FirstInv(p) ==
    ~ Registered(p) =>
        \A tx \in Waiting("user") :
            tx.method = "registerUser" /\ tx.user = p =>
                tx.commitment = Keccak[<<secret[p], 1>>]

(* The verifications of a provider that wait for their block, and whether  *)
(* one that was sent has still to be counted in the database.              *)
Flying(tx, p) == tx.method = "verifyOtp" /\ tx.user = p
InFlight(p) == {i \in 1 .. Len(pending["user"]) : Flying(pending["user"][i], p)}
Due(p) == \E r \in Request : Counting(r, p)

(* At most one verification of a provider waits for its block, and its     *)
(* block will accept it while the window is open.                          *)
Acceptable(tx, p) ==
    /\ Registered(p)
    /\ tx.index = otpRecords[p].index
    /\ tx.otp = <<secret[p], otpRecords[p].index>>
    /\ otpRecords[p].endTime # 0
FlightInv(p) ==
    /\ \A i, j \in InFlight(p) : i = j
    /\ \A i \in InFlight(p) : Acceptable(pending["user"][i], p)

(* The database's index is the contract's, give or take a verification the *)
(* contract has still to accept and one the database has still to count.   *)
Agree(p) ==
    /\ otpRecords[p].index \in 1 .. MaxIndex
    /\ otpRecords[p].commitmentValue =
            Keccak[<<secret[p], otpRecords[p].index>>]
    /\ otpIndex[p] + (IF Due(p) THEN 1 ELSE 0) =
            otpRecords[p].index + (IF InFlight(p) = {} THEN 0 ELSE 1)
Untouched(p) == otpIndex[p] = 1 /\ InFlight(p) = {} /\ ~ Due(p)
StepInv(p) ==
    /\ Registered(p) => Agree(p)
    /\ ~ Registered(p) => Untouched(p)

(* The inductive invariant: of the whole, and of a provider that was not   *)
(* disturbed.                                                              *)
AgreeInv(p) == FlightInv(p) /\ StepInv(p)
TogetherInv(p) == HandlersInv(p) /\ FirstInv(p) /\ AgreeInv(p)

HistoryInv ==
    /\ TypeOK /\ LinkInv /\ PendingInv
    /\ \A p \in Provider : p \notin disturbed => TogetherInv(p)

(* A step that does not disturb a provider.                                *)
Spared(p) ==
    /\ ~ PinChanged(p) /\ ~ Withdrawn(p) /\ Alone(p)'
    /\ ~ Uncounted(p) /\ ~ Late(p)

LEMMA Undisturbed ==
    ASSUME HistoryNext, NEW p \in Provider, p \notin disturbed'
    PROVE  p \notin disturbed /\ Spared(p)
BY DEF HistoryNext, Spared, Alone, Overlapping

(* Its PIN and registration stay.                                          *)
LEMMA SparedKeeps ==
    ASSUME NEW p \in Provider, Spared(p)
    PROVE  /\ secret'[p] = secret[p]
           /\ Registered(p) => otpRecords'[p].commitmentValue # Zero
BY DEF Spared, PinChanged, Withdrawn, Registered

-----------------------------------------------------------------------------
(* A step of a request: it arrives, goes on, or meets a fault.             *)
Move(r) == Submit(r) \/ Continue(r) \/ AnswerLost(r) \/ IncrementFails(r)

LEMMA StepKinds ==
    ASSUME [Next]_vars
    PROVE  \/ \E r \in Request : Move(r)
           \/ \E w \in Wallet : Mine(w)
           \/ Tick \/ Crash \/ UNCHANGED vars
BY DEF Next, Move

ResetTx(r) == [method |-> "resetManyOtps", by |-> r, users |-> Provider]

(* The verification is sent, and either it will be counted or its answer   *)
(* was lost.                                                               *)
SendsVerification(r) ==
    /\ call[r].at = "verifySend" /\ Send(r, "user", VerifyTx(r))
    /\ \/ /\ call'[r].at = "incrementRead"
          /\ call'[r].provider = call[r].entry.auth_provider_id
       \/ call'[r].at = "done" /\ faults' # faults

(* A request that has sent nothing but what is no verification, and never  *)
(* will.                                                                   *)
Past(r) ==
    \/ call[r].at \in {"generateCache", "cut off"}
    \/ call[r].at = "done" /\ call[r].op \in {"register", "generate", "reset"}

(* What a request's step leaves alone, and what it sends.                  *)
Transmits(r) ==
    \/ UNCHANGED netVars
    \/ /\ call[r].at = "registerSend" /\ Past(r)'
       /\ Send(r, "user", RegisterTx(r))
    \/ /\ call[r].at = "generateSend" /\ Past(r)'
       /\ Send(r, "admin", WindowTx(r))
    \/ SendsVerification(r)
    \/ /\ call[r].at = "new" /\ Past(r)'
       /\ Send(r, "admin", ResetTx(r))

(* What a handler holds when it gets where it is, and what it then leaves  *)
(* behind.                                                                 *)
Lands(r) ==
    LET h == call'[r] IN
    /\ h.at = "registerIndex" => h.pin = secret[h.provider]
    /\ h.at = "registerSend" =>
            /\ call[r].at = "registerIndex"
            /\ h.provider = call[r].provider /\ h.pin = call[r].pin
            /\ h.index = otpIndex[h.provider]
    /\ h.at = "verifySend" =>
            h.index = otpIndex[h.entry.auth_provider_id]
    /\ h.at = "incrementRead" => SendsVerification(r)
    /\ h.at = "incrementSave" =>
            /\ call[r].at = "incrementRead"
            /\ h.provider = call[r].provider
            /\ h.otp_index = otpIndex[h.provider] + 1
    /\ call[r].at = "incrementRead" =>
            h.at = "incrementSave" \/ (h.at = "done" /\ faults' # faults)
    /\ call[r].at = "incrementSave" =>
            h.at = "done" /\ (IncrementSave(r) \/ faults' # faults)

Moved(r) ==
    /\ \A q \in Request \ {r} : call'[q] = call[q]
    /\ UNCHANGED <<otpRecords, now>>
    /\ UNCHANGED otpIndex \/ IncrementSave(r)
    /\ Transmits(r) /\ Lands(r)

(* A handler that answers lands nowhere.                                   *)
LEMMA AnswerMoves ==
    ASSUME TypeOK, NEW r \in Request, NEW o, NEW success,
           Answer(r, o, success)
    PROVE  /\ \A q \in Request \ {r} : call'[q] = call[q]
           /\ call'[r].at = "done" /\ call'[r].op = o
           /\ call[r].at \notin {"incrementRead", "incrementSave"} => Lands(r)
<1>1. call \in [Request -> Handler]
  BY DEF TypeOK, Handler
<1>2. /\ \A q \in Request \ {r} : call'[q] = call[q]
      /\ call'[r].at = "done" /\ call'[r].op = o
  BY <1>1 DEF Answer, Goto
<1> QED
  BY <1>2 DEF Lands

LEMMA MoveKeeps ==
    ASSUME TypeOK, NEW r \in Request, Move(r)
    PROVE  Moved(r)
<1>0. call \in [Request -> Handler] /\ faults \in Nat
  BY ServiceAssumption DEF TypeOK, Handler
<1> DEFINE Others == \A q \in Request \ {r} : call'[q] = call[q]
           Still == UNCHANGED <<otpRecords, now, otpIndex>>
<1> HIDE DEF Others, Still
<1>1. ASSUME NEW state, Goto(r, state)
      PROVE  Others /\ call'[r] = state
  BY <1>0, <1>1 DEF Goto, Others
<1>2. ASSUME NEW o, NEW success, Answer(r, o, success)
      PROVE  /\ Others /\ call'[r].at = "done" /\ call'[r].op = o
             /\ call[r].at \notin {"incrementRead", "incrementSave"} =>
                    Lands(r)
  BY <1>2, AnswerMoves DEF Others
<1>3. /\ UNCHANGED netVars => Transmits(r)
      /\ UNCHANGED <<chainVars, dbVars>> => Still
  BY DEF Transmits, chainVars, dbVars, Still
<1>4. ASSUME Others, Still, Transmits(r), Lands(r)
      PROVE  Moved(r)
  BY <1>4 DEF Moved, Others, Still
<1>5. ASSUME NEW o, Arrives(r, o)
      PROVE  call[r].at = "new"
  BY <1>5 DEF Arrives, New
<1>6. ASSUME NEW p \in Provider, NEW pin \in Pin,
             \/ RegisterPassword(r, p, pin)
             \/ GeneratePassword(r, p, pin)
             \/ SetPin(r, p, pin)
      PROVE  Moved(r)
  <2>1. call[r].at = "new"
    BY <1>5, <1>6 DEF RegisterPassword, GeneratePassword, SetPin
  <2>2. Still /\ Transmits(r)
    BY <1>3, <1>6
       DEF RegisterPassword, GeneratePassword, SetPin, Still, chainVars
  <2>3. CASE \E o, success : Answer(r, o, success)
    BY <1>2, <1>4, <2>1, <2>2, <2>3
  <2>4. ASSUME NEW step \in {"registerIndex", "generateIndex"},
               Goto(r, [at |-> step, provider |-> p, pin |-> pin]),
               secret[p] = pin
        PROVE  Moved(r)
    <3>1. /\ call'[r].at = step /\ call'[r].provider = p
          /\ call'[r].pin = pin /\ Others
      BY <1>1, <2>4
    <3>2. Lands(r)
      BY <2>1, <2>4, <3>1 DEF Lands
    <3> QED
      BY <1>4, <2>2, <3>1, <3>2
  <2> QED
    BY <1>6, <2>3, <2>4 DEF RegisterPassword, GeneratePassword, SetPin
<1>7. ASSUME NEW code \in Code, VerifyLookup(r, code)
      PROVE  Moved(r)
  <2>1. call[r].at = "new" /\ Still /\ Transmits(r)
    BY <1>3, <1>5, <1>7 DEF VerifyLookup
  <2>2. CASE Answer(r, "verify", FALSE)
    BY <1>2, <1>4, <2>1, <2>2
  <2>3. CASE Goto(r, [at |-> "verifyIndex", entry |-> cache[code]])
    <3>1. call'[r].at = "verifyIndex" /\ Others
      BY <1>1, <2>3
    <3>2. Lands(r)
      BY <2>1, <3>1 DEF Lands
    <3> QED
      BY <1>4, <2>1, <3>1, <3>2
  <2> QED
    BY <1>7, <2>2, <2>3 DEF VerifyLookup
<1>8. ASSUME ResetMany(r)
      PROVE  Moved(r)
  <2>1. /\ call[r].at = "new" /\ Still /\ Others /\ Lands(r)
        /\ Past(r)'
    BY <1>2, <1>3, <1>5, <1>8 DEF ResetMany, Past
  <2>2. Transmits(r)
    BY <1>3, <1>8, <2>1 DEF ResetMany, Transmits, ResetTx
  <2> QED
    BY <1>4, <2>1, <2>2
<1>9. CASE RegisterIndex(r)
  <2>1. /\ call'[r].at = "registerSend"
        /\ call'[r].provider = call[r].provider
        /\ call'[r].pin = call[r].pin
        /\ call'[r].index = otpIndex[call[r].provider]
        /\ call[r].at = "registerIndex" /\ Others
    BY <1>1, <1>9 DEF RegisterIndex
  <2>2. Lands(r)
    BY <2>1 DEF Lands
  <2> QED
    BY <1>3, <1>4, <1>9, <2>1, <2>2 DEF RegisterIndex
<1>10. CASE GenerateIndex(r)
  <2>1. /\ call'[r].at = "generateSend" /\ call[r].at = "generateIndex"
        /\ Others
    BY <1>1, <1>10 DEF GenerateIndex
  <2>2. Lands(r)
    BY <2>1 DEF Lands
  <2> QED
    BY <1>3, <1>4, <1>10, <2>1, <2>2 DEF GenerateIndex
<1>11. CASE RegisterSend(r)
  <2>1. /\ call[r].at = "registerSend" /\ Past(r)' /\ Others
        /\ Still /\ Lands(r)
    BY <1>2, <1>3, <1>11 DEF RegisterSend, Past
  <2>2. Transmits(r)
    BY <1>3, <1>11, <2>1 DEF RegisterSend, Transmits
  <2> QED
    BY <1>4, <2>1, <2>2
<1>12. CASE GenerateSend(r)
  <2> DEFINE state == [at |-> "generateCache",
                       entry |-> Entry(call[r].provider, call[r].pin,
                                       call[r].index)]
  <2>1. /\ call[r].at = "generateSend" /\ Still
        /\ \/ Send(r, "admin", WindowTx(r)) /\ Goto(r, state)
           \/ Answer(r, "generate", FALSE) /\ UNCHANGED netVars
    BY <1>3, <1>12 DEF GenerateSend
  <2>2. state.at = "generateCache"
    OBVIOUS
  <2> HIDE DEF state
  <2>3. CASE Answer(r, "generate", FALSE) /\ UNCHANGED netVars
    BY <1>2, <1>3, <1>4, <2>1, <2>3
  <2>4. CASE Send(r, "admin", WindowTx(r)) /\ Goto(r, state)
    <3>1. call'[r].at = "generateCache" /\ Others
      BY <1>1, <2>2, <2>4
    <3>2. Lands(r)
      BY <2>1, <3>1 DEF Lands
    <3>3. Transmits(r)
      BY <2>1, <2>4, <3>1 DEF Transmits, Past
    <3> QED
      BY <1>4, <2>1, <3>1, <3>2, <3>3
  <2> QED
    BY <2>1, <2>3, <2>4
<1>13. CASE GenerateCache(r)
  BY <1>2, <1>3, <1>4, <1>13 DEF GenerateCache
<1>14. CASE VerifyIndex(r)
  <2>1. /\ call[r].at = "verifyIndex" /\ call'[r].at = "verifySend"
        /\ call'[r].entry = call[r].entry
        /\ call'[r].index = otpIndex[call[r].entry.auth_provider_id]
        /\ Others
    BY <1>1, <1>14 DEF VerifyIndex
  <2>2. Lands(r)
    BY <2>1 DEF Lands
  <2> QED
    BY <1>3, <1>4, <1>14, <2>1, <2>2 DEF VerifyIndex
<1>15. CASE VerifySend(r)
  <2>1. call[r].at = "verifySend" /\ Still
    BY <1>3, <1>15 DEF VerifySend
  <2>2. CASE Answer(r, "verify", FALSE) /\ UNCHANGED netVars
    BY <1>2, <1>3, <1>4, <2>1, <2>2
  <2>3. CASE Send(r, "user", VerifyTx(r)) /\ ToIncrement(r)
    <3>1. /\ call'[r].at = "incrementRead" /\ Others
          /\ call'[r].provider = call[r].entry.auth_provider_id
      BY <1>1, <2>3 DEF ToIncrement
    <3>2. SendsVerification(r)
      BY <2>1, <2>3, <3>1 DEF SendsVerification
    <3>3. Lands(r)
      BY <2>1, <3>1, <3>2 DEF Lands
    <3>4. Transmits(r)
      BY <3>2 DEF Transmits
    <3> QED
      BY <1>4, <2>1, <3>1, <3>3, <3>4
  <2> QED
    BY <1>15, <2>2, <2>3 DEF VerifySend
<1>16. CASE IncrementRead(r)
  <2>1. /\ call[r].at = "incrementRead" /\ call'[r].at = "incrementSave"
        /\ call'[r].provider = call[r].provider
        /\ call'[r].otp_index = otpIndex[call[r].provider] + 1
        /\ Others
    BY <1>1, <1>16 DEF IncrementRead
  <2>2. Lands(r)
    BY <2>1 DEF Lands
  <2> QED
    BY <1>3, <1>4, <1>16, <2>1, <2>2 DEF IncrementRead
<1>17. CASE IncrementSave(r)
  <2>1. /\ call[r].at = "incrementSave" /\ call'[r].at = "done" /\ Others
        /\ UNCHANGED <<otpRecords, now>>
    BY <1>2, <1>17 DEF IncrementSave, chainVars
  <2>2. Lands(r)
    BY <1>17, <2>1 DEF Lands
  <2> QED
    BY <1>3, <1>17, <2>1, <2>2 DEF IncrementSave, Moved, Others
<1>18. CASE AnswerLost(r)
  <2>1. Still /\ faults' # faults
    BY <1>0, <1>3, <1>18 DEF AnswerLost
  <2>2. /\ call[r].at \in {"registerSend", "generateSend", "verifySend"}
        /\ Others /\ call'[r].at = "done" /\ Lands(r)
    BY <1>2, <1>18 DEF AnswerLost
  <2>3. call[r].at # "verifySend" => Past(r)'
    BY <1>2, <1>18 DEF AnswerLost, Past
  <2>4. Transmits(r)
    BY <1>18, <2>1, <2>2, <2>3 DEF AnswerLost, Transmits, SendsVerification
  <2> QED
    BY <1>4, <2>1, <2>2, <2>4
<1>19. CASE IncrementFails(r)
  <2>1. Still /\ Transmits(r) /\ faults' # faults
    BY <1>0, <1>3, <1>19 DEF IncrementFails
  <2>2. Others /\ call'[r].at = "done"
    BY <1>2, <1>19 DEF IncrementFails
  <2>3. Lands(r)
    BY <2>1, <2>2 DEF Lands
  <2> QED
    BY <1>4, <2>1, <2>2, <2>3
<1> QED
  BY <1>6, <1>7, <1>8, <1>9, <1>10, <1>11, <1>12, <1>13, <1>14, <1>15,
     <1>16, <1>17, <1>18, <1>19 DEF Move, Submit, Continue

(* What a request has past it, it has for good.                            *)
LEMMA PastStays ==
    ASSUME TypeOK, [Next]_vars, NEW q \in Request, Past(q)
    PROVE  Past(q)'
<1>1. ASSUME NEW r \in Request, Move(r)
      PROVE  Past(q)'
  <2>1. CASE q # r
    BY <1>1, <2>1, MoveKeeps DEF Moved, Past
  <2>2. CASE q = r /\ GenerateCache(r)
    BY <2>2, AnswerMoves DEF GenerateCache, Past
  <2>3. CASE q = r /\ ~ GenerateCache(r)
    <3>1. CASE Submit(r)
      <4>1. call[r] = New /\ New.at = "new"
        BY <3>1 DEF Submit, Arrives, RegisterPassword, GeneratePassword,
             SetPin, VerifyLookup, ResetMany, New
      <4> QED
        BY <2>3, <4>1 DEF Past
    <3>2. CASE Continue(r)
      <4>1. call[r].at \notin {"generateCache", "cut off", "done"}
        BY <2>3, <3>2 DEF Continue, RegisterIndex, RegisterSend,
             GenerateIndex, GenerateSend, VerifyIndex, VerifySend,
             IncrementRead, IncrementSave
      <4> QED
        BY <2>3, <4>1 DEF Past
    <3>3. CASE AnswerLost(r) \/ IncrementFails(r)
      <4>1. call[r].at \notin {"generateCache", "cut off", "done"}
        BY <3>3 DEF AnswerLost, IncrementFails
      <4> QED
        BY <2>3, <4>1 DEF Past
    <3> QED
      BY <1>1, <3>1, <3>2, <3>3 DEF Move
  <2> QED
    BY <2>1, <2>2, <2>3
<1>2. ASSUME (\E w \in Wallet : Mine(w)) \/ Tick \/ Crash \/ UNCHANGED vars
      PROVE  Past(q)'
  <2>1. call'[q] = call[q] \/ (call'[q] = CutOff /\ CutOff.at = "cut off")
    BY <1>2 DEF Mine, Tick, Crash, vars, CutOff
  <2> QED
    BY <2>1 DEF Past
<1> QED
  BY <1>1, <1>2, StepKinds

-----------------------------------------------------------------------------
(* What the handlers of a spared provider have read stays so when a        *)
(* request goes on: only the one that verifies changes the index.          *)
LEMMA MoveHandlers ==
    ASSUME TypeOK, NEW p \in Provider, TogetherInv(p), Spared(p),
           NEW r \in Request, Move(r)
    PROVE  HandlersInv(p)'
<1>0. /\ Alone(p) /\ \A q \in Request : Holds(q, p)
      /\ call \in [Request -> Handler] /\ otpIndex \in [Provider -> Nat \ {0}]
  BY DEF TogetherInv, HandlersInv, TypeOK, Handler
<1>1. Moved(r) /\ secret'[p] = secret[p]
  BY MoveKeeps, SparedKeeps
<1>2. UNCHANGED otpRecords /\ \A q \in Request \ {r} : call'[q] = call[q]
  BY <1>1 DEF Moved
<1>3. ASSUME NEW q \in Request \ {r}, Verifies(q, p)
      PROVE  otpIndex'[p] = otpIndex[p]
  <2>1. CASE UNCHANGED otpIndex
    BY <2>1
  <2>2. CASE IncrementSave(r)
    <3>1. call[r].at = "incrementSave" /\ ~ Counting(r, p)
      BY <1>0, <1>3, <2>2 DEF IncrementSave, Alone, Verifies
    <3>2. call[r].provider # p /\ call[r].provider \in Provider
      BY <1>0, <3>1, HeldTypes DEF Counting
    <3> QED
      BY <1>0, <2>2, <3>2 DEF IncrementSave
  <2> QED
    BY <1>1, <2>1, <2>2 DEF Moved
<1>4. ASSUME call'[r].at \in {"registerSend", "verifySend", "incrementSave"}
      PROVE  UNCHANGED otpIndex
  <2>1. ~ IncrementSave(r)
    <3>1. IncrementSave(r) => call'[r].at = "done"
      BY <1>0 DEF IncrementSave, Answer, Goto
    <3> QED
      BY <1>4, <3>1
  <2> QED
    BY <1>1, <2>1 DEF Moved
<1>5. ASSUME NEW q \in Request
      PROVE  Holds(q, p)'
  <2>1. CASE q = r
    <3>1. Lands(r)
      BY <1>1 DEF Moved
    <3>2. call'[r].at = "registerSend" /\ call'[r].provider = p
                /\ ~ Registered(p) => call'[r].index = 1
      BY <3>1 DEF Lands, TogetherInv, AgreeInv, StepInv, Untouched
    <3>3. call[r].at = "registerIndex" /\ call[r].provider = p
                => call[r].pin = secret[p]
      BY <1>0 DEF Holds
    <3> QED
      BY <1>1, <1>2, <1>4, <2>1, <3>1, <3>2, <3>3
         DEF Holds, Lands, Registered
  <2>2. CASE q # r
    <3>1. call'[q] = call[q] /\ Holds(q, p)
      BY <1>0, <1>2, <2>2
    <3> QED
      BY <1>1, <1>2, <1>3, <2>2, <3>1
         DEF Holds, Registered, Verifies, Counting
  <2> QED
    BY <2>1, <2>2
<1> QED
  BY <1>5 DEF Spared, HandlersInv

(* So it does in the other steps.                                          *)
LEMMA RestHandlers ==
    ASSUME TypeOK, NEW p \in Provider, TogetherInv(p), Spared(p),
           (\E w \in Wallet : Mine(w)) \/ Tick \/ Crash
    PROVE  HandlersInv(p)'
<1>1. UNCHANGED otpIndex /\ secret'[p] = secret[p]
  BY SparedKeeps DEF Mine, Tick, Crash, dbVars
<1>2. Registered(p) => otpRecords'[p].commitmentValue # Zero
  BY SparedKeeps
<1>3. ASSUME NEW q \in Request
      PROVE  Holds(q, p)'
  <2>1. call'[q] = call[q] \/ call'[q] = CutOff
    BY <1>3 DEF Mine, Tick, Crash
  <2>2. Holds(q, p)
    BY DEF TogetherInv, HandlersInv
  <2>3. CASE call'[q] = CutOff
    <3>1. CutOff.at = "cut off"
      BY DEF CutOff
    <3>2. call'[q].at = "cut off"
      BY <2>3, <3>1
    <3> QED
      BY <3>2 DEF Holds
  <2>4. CASE call'[q] = call[q]
    BY <1>1, <1>2, <2>2, <2>4 DEF Holds, Registered
  <2> QED
    BY <2>1, <2>3, <2>4
<1> QED
  BY <1>3 DEF Spared, HandlersInv

-----------------------------------------------------------------------------
(* A step adds what it sends to what waits, and a block takes from it.     *)
LEMMA WaitingSent ==
    ASSUME TypeOK, NEW r \in Request, NEW w \in Wallet, NEW tx \in Transaction,
           Send(r, w, tx), NEW v \in Wallet, NEW t \in Waiting(v)'
    PROVE  t \in Transaction /\ (t \in Waiting(v) \/ (v = w /\ t = tx))
<1>1. pending[v] \in Seq(Transaction)
  BY DEF TypeOK
<1>2. pending'[v] = IF v = w THEN Append(pending[v], tx) ELSE pending[v]
  BY DEF TypeOK, Send, Broadcast
<1>3. PICK i \in 1 .. Len(pending'[v]) : t = pending'[v][i]
  BY DEF Waiting
<1> QED
  BY <1>1, <1>2, <1>3 DEF Waiting

LEMMA WaitingMined ==
    ASSUME TypeOK, NEW w \in Wallet, Mine(w), NEW v \in Wallet,
           NEW t \in Waiting(v)'
    PROVE  t \in Waiting(v) /\ t \in Transaction
<1>1. pending[v] \in Seq(Transaction)
  BY DEF TypeOK
<1>2. \/ pending'[v] = pending[v]
      \/ pending[v] # <<>> /\ pending'[v] = Tail(pending[v])
  BY DEF Mine, TypeOK
<1>3. PICK i \in 1 .. Len(pending'[v]) : t = pending'[v][i]
  BY DEF Waiting
<1>4. CASE pending'[v] = pending[v]
  BY <1>1, <1>3, <1>4 DEF Waiting
<1>5. CASE pending[v] # <<>> /\ pending'[v] = Tail(pending[v])
  <2>1. i + 1 \in 1 .. Len(pending[v]) /\ t = pending[v][i + 1]
    BY <1>1, <1>3, <1>5
  <2> QED
    BY <1>1, <2>1 DEF Waiting
<1> QED
  BY <1>2, <1>4, <1>5

(* What a request sends, by the handler that sends it.                     *)
LEMMA MoveSends ==
    ASSUME TypeOK, NEW r \in Request, Move(r), NEW v \in Wallet,
           NEW t \in Waiting(v)'
    PROVE  \/ t \in Waiting(v)
           \/ v = "user" /\ t = RegisterTx(r) /\ call[r].at = "registerSend"
                /\ Send(r, v, t)
           \/ v = "admin" /\ t = WindowTx(r) /\ call[r].at = "generateSend"
           \/ v = "user" /\ t = VerifyTx(r) /\ call[r].at = "verifySend"
           \/ v = "admin" /\ t = ResetTx(r)
<1>0. call \in [Request -> Handler] /\ Transmits(r)
  BY MoveKeeps DEF TypeOK, Handler, Moved
<1>1. "user" \in Wallet /\ "admin" \in Wallet
  BY DEF Wallet
<1>2. CASE UNCHANGED netVars
  BY <1>2 DEF netVars, Waiting
<1>3. CASE call[r].at = "registerSend" /\ Send(r, "user", RegisterTx(r))
  <2>1. PICK tx \in Transaction : tx = RegisterTx(r)
    BY <1>0, <1>3, SentTypes
  <2> QED
    BY <1>1, <1>3, <2>1, WaitingSent
<1>4. CASE call[r].at = "generateSend" /\ Send(r, "admin", WindowTx(r))
  <2>1. PICK tx \in Transaction : tx = WindowTx(r)
    BY <1>0, <1>4, SentTypes
  <2> QED
    BY <1>1, <1>4, <2>1, WaitingSent
<1>5. CASE call[r].at = "verifySend" /\ Send(r, "user", VerifyTx(r))
  <2>1. PICK tx \in Transaction : tx = VerifyTx(r)
    BY <1>0, <1>5, SentTypes
  <2> QED
    BY <1>1, <1>5, <2>1, WaitingSent
<1>6. CASE Send(r, "admin", ResetTx(r))
  <2>1. PICK tx \in Transaction : tx = ResetTx(r)
    BY <1>0, SentTypes DEF ResetTx
  <2> QED
    BY <1>1, <1>6, <2>1, WaitingSent
<1> QED
  BY <1>0, <1>2, <1>3, <1>4, <1>5, <1>6 DEF Transmits, SendsVerification

(* Each wallet keeps to its methods, and every window has an end.          *)
LEMMA StepPending ==
    ASSUME TypeOK, PendingInv, [Next]_vars
    PROVE  PendingInv'
<1> SUFFICES ASSUME NEW v \in Wallet, NEW t \in Waiting(v)'
             PROVE  TxOk(v, t)
  BY DEF PendingInv, TxOk
<1>1. ASSUME NEW r \in Request, Move(r)
      PROVE  TxOk(v, t)
  <2>1. call[r].at = "generateSend" => WindowTx(r).end # 0
    <3>1. call[r].at = "generateSend" => call[r].start \in Nat
      BY HeldTypes DEF TypeOK, Handler
    <3> QED
      BY <3>1, ServiceAssumption DEF WindowTx
  <2>2. TxOk("user", RegisterTx(r)) /\ TxOk("user", VerifyTx(r))
    BY DEF TxOk, RegisterTx, VerifyTx
  <2>3. TxOk("admin", ResetTx(r))
    BY DEF TxOk, ResetTx
  <2>4. call[r].at = "generateSend" => TxOk("admin", WindowTx(r))
    <3>1. WindowTx(r).method = "updateOtpWindow"
      BY DEF WindowTx
    <3> QED
      BY <2>1, <3>1 DEF TxOk
  <2>5. t \in Waiting(v) => TxOk(v, t)
    BY DEF PendingInv
  <2> HIDE DEF TxOk
  <2> QED
    BY <1>1, <2>2, <2>3, <2>4, <2>5, MoveSends
<1>2. ASSUME NEW w \in Wallet, Mine(w)
      PROVE  TxOk(v, t)
  BY <1>2, WaitingMined DEF PendingInv
<1>3. ASSUME Tick \/ Crash \/ UNCHANGED vars
      PROVE  TxOk(v, t)
  BY <1>3 DEF Tick, Crash, vars, netVars, PendingInv, Waiting
<1> QED
  BY <1>1, <1>2, <1>3, StepKinds

(* A registration of a spared provider that waits commits to the first     *)
(* password: it was derived from the index 1 and the text that is still    *)
(* the provider's.                                                         *)
LEMMA StepFirst ==
    ASSUME TypeOK, NEW p \in Provider, TogetherInv(p), Spared(p), [Next]_vars
    PROVE  FirstInv(p)'
<1>0. FirstInv(p) /\ \A q \in Request : Holds(q, p)
  BY DEF TogetherInv, HandlersInv
<1>1. secret'[p] = secret[p] /\ (Registered(p) => Registered(p)')
  BY SparedKeeps DEF Registered
<1> SUFFICES ASSUME ~ Registered(p)', NEW t \in Waiting("user")',
                    t.method = "registerUser", t.user = p
             PROVE  t.commitment = Keccak[<<secret[p], 1>>]
  BY <1>1 DEF FirstInv
<1>2. CASE t \in Waiting("user")
  BY <1>0, <1>1, <1>2 DEF FirstInv
<1>3. ASSUME NEW r \in Request, Move(r), t \notin Waiting("user")
      PROVE  t.commitment = Keccak[<<secret[p], 1>>]
  <2>1. VerifyTx(r).method # "registerUser"
    BY DEF VerifyTx
  <2>2. t = RegisterTx(r) /\ call[r].at = "registerSend"
    BY <1>3, <2>1, MoveSends DEF Wallet
  <2>3. call[r].provider = p
    BY <2>2 DEF RegisterTx
  <2>4. call[r].pin = secret[p] /\ call[r].index = 1
    BY <1>0, <1>1, <2>2, <2>3 DEF Holds
  <2> QED
    BY <2>2, <2>4 DEF RegisterTx
<1>4. ASSUME NEW w \in Wallet, Mine(w)
      PROVE  t \in Waiting("user")
  BY <1>4, WaitingMined DEF Wallet
<1>5. ASSUME Tick \/ Crash \/ UNCHANGED vars
      PROVE  t \in Waiting("user")
  BY <1>5 DEF Tick, Crash, vars, netVars, Waiting
<1> QED
  BY <1>2, <1>3, <1>4, <1>5, StepKinds

-----------------------------------------------------------------------------
(* Broadcasting adds at most one verification to those of a provider.      *)
LEMMA SendFlight ==
    ASSUME TypeOK, NEW r \in Request, NEW w \in Wallet, NEW tx \in Transaction,
           Send(r, w, tx), NEW p \in Provider
    PROVE  LET n == Len(pending["user"]) + 1 IN
           /\ \A i \in InFlight(p) : pending'["user"][i] = pending["user"][i]
           /\ IF w = "user" /\ Flying(tx, p)
              THEN /\ InFlight(p)' = InFlight(p) \union {n}
                   /\ pending'["user"][n] = tx
              ELSE InFlight(p)' = InFlight(p)
<1> DEFINE s == pending["user"]
           n == Len(s) + 1
<1>1. s \in Seq(Transaction)
  BY DEF TypeOK, Wallet
<1>2. pending'["user"] = IF w = "user" THEN Append(s, tx) ELSE s
  BY DEF TypeOK, Send, Broadcast, Wallet
<1>3. CASE w # "user"
  BY <1>2, <1>3 DEF InFlight
<1>4. CASE w = "user"
  <2>1. /\ Len(pending'["user"]) = n /\ pending'["user"][n] = tx
        /\ \A i \in 1 .. Len(s) : pending'["user"][i] = s[i]
    BY <1>1, <1>2, <1>4
  <2>2. Len(s) \in Nat
    BY <1>1
  <2>3. 1 .. n = (1 .. Len(s)) \union {n} /\ n \notin 1 .. Len(s)
    BY <2>2
  <2>4. InFlight(p)' =
            {i \in 1 .. n : Flying(pending'["user"][i], p)}
    BY <2>1 DEF InFlight, Flying
  <2>5. InFlight(p) = {i \in 1 .. Len(s) : Flying(s[i], p)}
    BY DEF InFlight
  <2> HIDE DEF s, n, Flying
  <2>6. InFlight(p)' = {i \in 1 .. Len(s) : Flying(s[i], p)}
                        \union {i \in {n} : Flying(tx, p)}
    BY <2>1, <2>3, <2>4
  <2>7. InFlight(p)' = InFlight(p) \union {i \in {n} : Flying(tx, p)}
    BY <2>5, <2>6
  <2>8. \A i \in InFlight(p) : pending'["user"][i] = s[i]
    BY <2>1, <2>5
  <2> QED
    BY <1>4, <2>1, <2>7, <2>8 DEF s, n
<1> QED
  BY <1>3, <1>4

(* A block takes the oldest, and the others move up.                       *)
LEMMA MineFlight ==
    ASSUME TypeOK, NEW w \in Wallet, Mine(w), NEW p \in Provider
    PROVE  IF w = "user"
           THEN /\ \A i \in InFlight(p)' :
                    /\ i + 1 \in InFlight(p)
                    /\ pending'["user"][i] = pending["user"][i + 1]
                /\ \A i \in InFlight(p) : i # 1 => i - 1 \in InFlight(p)'
                /\ 1 \in InFlight(p) <=> Flying(Head(pending["user"]), p)
           ELSE InFlight(p)' = InFlight(p) /\ pending'["user"] = pending["user"]
<1> DEFINE s == pending["user"]
<1>1. s \in Seq(Transaction)
  BY DEF TypeOK, Wallet
<1>2. CASE w # "user"
  <2>1. pending'["user"] = s
    BY <1>2 DEF Mine, TypeOK, Wallet
  <2> QED
    BY <1>2, <2>1 DEF InFlight
<1>3. CASE w = "user"
  <2>1. s # <<>> /\ pending'["user"] = Tail(s)
    BY <1>3 DEF Mine, TypeOK, Wallet
  <2>2. /\ Len(s) \in Nat /\ Len(s) > 0 /\ Len(Tail(s)) = Len(s) - 1
        /\ Head(s) = s[1]
        /\ \A i \in 1 .. Len(s) - 1 : Tail(s)[i] = s[i + 1]
    BY <1>1, <2>1
  <2> HIDE DEF s
  <2>3. /\ InFlight(p)' =
            {i \in 1 .. Len(s) - 1 : Flying(pending'["user"][i], p)}
        /\ InFlight(p) = {i \in 1 .. Len(s) : Flying(s[i], p)}
    BY <2>1, <2>2 DEF InFlight, Flying, s
  <2> HIDE DEF Flying
  <2>4. ASSUME NEW i \in InFlight(p)'
        PROVE  i + 1 \in InFlight(p) /\ pending'["user"][i] = s[i + 1]
    BY <2>1, <2>2, <2>3, <2>4
  <2>5. ASSUME NEW i \in InFlight(p), i # 1
        PROVE  i - 1 \in InFlight(p)'
    <3>1. /\ i - 1 \in 1 .. Len(s) - 1 /\ (i - 1) + 1 = i /\ i \in 1 .. Len(s)
          /\ Flying(s[i], p)
      BY <2>2, <2>3, <2>5
    <3>2. pending'["user"][i - 1] = s[i]
      BY <2>1, <2>2, <3>1
    <3> QED
      BY <2>3, <3>1, <3>2
  <2>6. 1 \in InFlight(p) <=> Flying(Head(s), p)
    BY <2>2, <2>3
  <2> QED
    BY <1>3, <2>4, <2>5, <2>6 DEF s
<1> QED
  BY <1>2, <1>3

(* What AgreeInv says of a provider in the next state, and in this one.    *)
AgreesNext(p) ==
    /\ \A i, j \in InFlight(p)' : i = j
    /\ \A i \in InFlight(p)' :
        /\ otpRecords'[p].commitmentValue # Zero
        /\ pending'["user"][i].index = otpRecords'[p].index
        /\ pending'["user"][i].otp = <<secret'[p], otpRecords'[p].index>>
        /\ otpRecords'[p].endTime # 0
    /\ otpRecords'[p].commitmentValue # Zero =>
        /\ otpRecords'[p].index \in 1 .. MaxIndex
        /\ otpRecords'[p].commitmentValue =
                Keccak[<<secret'[p], otpRecords'[p].index>>]
        /\ otpIndex'[p] + (IF Due(p)' THEN 1 ELSE 0) =
                otpRecords'[p].index + (IF InFlight(p)' = {} THEN 0 ELSE 1)
    /\ otpRecords'[p].commitmentValue = Zero =>
        otpIndex'[p] = 1 /\ InFlight(p)' = {} /\ ~ Due(p)'

LEMMA AgreeNext ==
    ASSUME NEW p \in Provider, AgreesNext(p)
    PROVE  AgreeInv(p)'
BY DEF AgreesNext, AgreeInv, FlightInv, StepInv, Acceptable, Agree,
       Untouched, Registered

LEMMA AgreeNow ==
    ASSUME NEW p \in Provider, AgreeInv(p)
    PROVE  /\ \A i, j \in InFlight(p) : i = j
           /\ \A i \in InFlight(p) :
                /\ otpRecords[p].commitmentValue # Zero
                /\ pending["user"][i].index = otpRecords[p].index
                /\ pending["user"][i].otp = <<secret[p], otpRecords[p].index>>
                /\ otpRecords[p].endTime # 0
           /\ otpRecords[p].commitmentValue # Zero =>
                /\ otpRecords[p].index \in 1 .. MaxIndex
                /\ otpRecords[p].commitmentValue =
                        Keccak[<<secret[p], otpRecords[p].index>>]
                /\ otpIndex[p] + (IF Due(p) THEN 1 ELSE 0) =
                        otpRecords[p].index
                            + (IF InFlight(p) = {} THEN 0 ELSE 1)
           /\ otpRecords[p].commitmentValue = Zero =>
                otpIndex[p] = 1 /\ InFlight(p) = {} /\ ~ Due(p)
BY DEF AgreeInv, FlightInv, StepInv, Acceptable, Agree, Untouched, Registered

(* When a verification of a provider is sent, no other of its waits for    *)
(* its block or to be counted, and it is the one the contract expects.     *)
LEMMA VerifySent ==
    ASSUME TypeOK, NEW p \in Provider, TogetherInv(p), NEW r \in Request,
           call[r].at = "verifySend", call[r].entry.auth_provider_id = p,
           Send(r, "user", VerifyTx(r))
    PROVE  LET tx == VerifyTx(r)
           IN /\ tx \in Transaction
              /\ Flying(tx, p) /\ tx.user = p
              /\ Registered(p) /\ tx.index = otpRecords[p].index
              /\ tx.otp = <<secret[p], otpRecords[p].index>>
              /\ otpRecords[p].endTime # 0
              /\ otpIndex[p] = otpRecords[p].index
              /\ InFlight(p) = {} /\ ~ Due(p)
<1> DEFINE tx == VerifyTx(r)
<1>1. call \in [Request -> Handler] /\ otpRecords \in [Provider -> Chain!OTPData]
      /\ now \in 1 .. MaxTime + 1 /\ otpIndex \in [Provider -> Nat \ {0}]
      /\ secret \in [Provider -> Pin]
      /\ AgreeInv(p) /\ Alone(p) /\ \A q \in Request : Holds(q, p)
  BY DEF TypeOK, Handler, TogetherInv, HandlersInv
<1>2. call[r].entry.raw_otp \in Raw
  BY <1>1, HeldTypes DEF CachedOtpValue
<1>3. tx \in Transaction
  BY <1>1, SentTypes
<1>4. /\ tx.method = "verifyOtp" /\ tx.user = p /\ tx.index = call[r].index
      /\ tx.otp = call[r].entry.raw_otp
  BY DEF VerifyTx
<1> HIDE DEF tx
<1>5. Chain!CanVerifyOtp(tx.user, tx.index, tx.otp, "user", "user")
  BY <1>4 DEF Send, Succeeds, tx
<1>6. /\ otpRecords[p].index = tx.index /\ now <= otpRecords[p].endTime
      /\ Keccak[tx.otp] = otpRecords[p].commitmentValue
  BY <1>4, <1>5 DEF Chain!CanVerifyOtp
<1>7. otpRecords[p].commitmentValue # Zero
  BY <1>2, <1>4, <1>6, ServiceAssumption
<1>8. otpRecords[p].endTime # 0
  BY <1>1, <1>6 DEF Chain!OTPData
<1>9. tx.otp = <<secret[p], otpRecords[p].index>>
  <2>1. otpRecords[p].index \in 1 .. MaxIndex
    BY <1>1, <1>7, AgreeNow
  <2>2. <<secret[p], otpRecords[p].index>> \in Raw
    BY <1>1, <2>1 DEF Raw
  <2>3. Keccak[tx.otp] = Keccak[<<secret[p], otpRecords[p].index>>]
    BY <1>1, <1>6, <1>7, AgreeNow
  <2> QED
    BY <1>2, <1>4, <2>2, <2>3, ServiceAssumption
<1>10. ~ Due(p)
  <2> SUFFICES ASSUME NEW s \in Request, Counting(s, p)
               PROVE  FALSE
    BY DEF Due
  <2>1. Verifies(s, p) /\ Verifies(r, p)
    BY DEF Verifies
  <2>2. s = r
    BY <1>1, <2>1 DEF Alone
  <2> QED
    BY <2>2 DEF Counting
<1>11. otpIndex[p] = otpRecords[p].index
  BY <1>1, <1>4, <1>6 DEF Holds
<1>12. InFlight(p) = {}
  <2>1. /\ otpIndex[p] + (IF Due(p) THEN 1 ELSE 0) =
                otpRecords[p].index + (IF InFlight(p) = {} THEN 0 ELSE 1)
        /\ otpRecords[p].index \in 1 .. MaxIndex
    BY <1>1, <1>7, AgreeNow
  <2> QED
    BY <1>10, <1>11, <2>1
<1> QED
  BY <1>3, <1>4, <1>6, <1>7, <1>8, <1>9, <1>10, <1>11, <1>12
     DEF tx, Flying, Registered

-----------------------------------------------------------------------------
(* Database and contract stay together when a request goes on.  Whatever   *)
(* it does, one of three things happens to a spared provider: a            *)
(* verification of it is sent and waits to be counted,                     *)
LEMMA SendAgree ==
    ASSUME TypeOK, NEW p \in Provider, TogetherInv(p), Spared(p),
           NEW r \in Request, Move(r), SendsVerification(r),
           call[r].entry.auth_provider_id = p
    PROVE  AgreeInv(p)'
<1>0. Moved(r) /\ secret'[p] = secret[p] /\ AgreeInv(p)
  BY MoveKeeps, SparedKeeps DEF TogetherInv
<1>1. call[r].at = "verifySend" /\ Send(r, "user", VerifyTx(r))
  BY DEF SendsVerification
<1>2. PICK tx \in Transaction : tx = VerifyTx(r)
  BY <1>1, VerifySent
<1>3. /\ Flying(tx, p) /\ tx.user = p
      /\ Registered(p) /\ tx.index = otpRecords[p].index
      /\ tx.otp = <<secret[p], otpRecords[p].index>>
      /\ otpRecords[p].endTime # 0
      /\ otpIndex[p] = otpRecords[p].index
      /\ InFlight(p) = {} /\ ~ Due(p)
  BY <1>1, <1>2, VerifySent
<1>4. UNCHANGED <<otpRecords, otpIndex>>
  <2>1. ~ IncrementSave(r)
    BY <1>1 DEF IncrementSave
  <2> QED
    BY <1>0, <2>1 DEF Moved
<1>5. /\ InFlight(p)' = {Len(pending["user"]) + 1}
      /\ pending'["user"][Len(pending["user"]) + 1] = tx
  BY <1>1, <1>2, <1>3, SendFlight DEF Wallet
<1>6. Due(p)'
  <2>1. pending' # pending
    <3>1. InFlight(p)' # InFlight(p)
      BY <1>3, <1>5
    <3> QED
      BY <3>1 DEF InFlight, Flying
  <2>2. Verifies(r, p)
    BY <1>1 DEF Verifies
  <2>3. call'[r] # call[r]
    BY <1>1 DEF SendsVerification
  <2>4. faults' = faults
    BY <2>1, <2>2, <2>3 DEF Spared, Uncounted
  <2>5. call'[r].at = "incrementRead" /\ call'[r].provider = p
    BY <2>4 DEF SendsVerification
  <2> QED
    BY <2>5 DEF Due, Counting
<1>7. /\ otpRecords[p].commitmentValue # Zero
      /\ otpRecords[p].index \in 1 .. MaxIndex
      /\ otpRecords[p].commitmentValue =
            Keccak[<<secret[p], otpRecords[p].index>>]
  BY <1>0, <1>3, AgreeNow DEF Registered
<1>8. AgreesNext(p)
  BY <1>0, <1>3, <1>4, <1>5, <1>6, <1>7 DEF AgreesNext
<1> QED
  BY <1>8, AgreeNext

(* the one that waits is counted,                                          *)
LEMMA SaveAgree ==
    ASSUME TypeOK, NEW p \in Provider, TogetherInv(p), Spared(p),
           NEW r \in Request, IncrementSave(r), call[r].provider = p
    PROVE  AgreeInv(p)'
<1>0. /\ secret'[p] = secret[p] /\ AgreeInv(p) /\ Alone(p)
      /\ Holds(r, p) /\ call \in [Request -> Handler]
      /\ otpIndex \in [Provider -> Nat \ {0}] /\ otpIndex[p] \in Nat
      /\ otpRecords[p].index \in Nat
  BY SparedKeeps
     DEF TogetherInv, HandlersInv, TypeOK, Handler, Chain!OTPData
<1>1. /\ call[r].at = "incrementSave" /\ call'[r].at = "done"
      /\ \A q \in Request \ {r} : call'[q] = call[q]
      /\ UNCHANGED <<otpRecords, pending>>
  BY <1>0 DEF IncrementSave, Answer, Goto, chainVars, netVars
<1>2. otpIndex'[p] = otpIndex[p] + 1
  BY <1>0, <1>1 DEF IncrementSave, Holds
<1>3. Due(p)
  BY <1>1 DEF Due, Counting
<1>4. ~ Due(p)'
  <2> SUFFICES ASSUME NEW q \in Request, Counting(q, p)'
               PROVE  FALSE
    BY DEF Due
  <2>1. q # r
    BY <1>1 DEF Counting
  <2>2. Counting(q, p) /\ Counting(r, p)
    BY <1>1, <2>1 DEF Counting
  <2> QED
    BY <1>0, <2>1, <2>2 DEF Alone, Verifies
<1>5. InFlight(p)' = InFlight(p)
  BY <1>1 DEF InFlight, Flying
<1>6. otpIndex[p] + 1 = otpRecords[p].index
                            + (IF InFlight(p) = {} THEN 0 ELSE 1)
  BY <1>0, <1>3, AgreeNow
<1>7. /\ otpRecords[p].commitmentValue # Zero
      /\ otpRecords[p].index \in 1 .. MaxIndex
      /\ otpRecords[p].commitmentValue =
            Keccak[<<secret[p], otpRecords[p].index>>]
      /\ \A i, j \in InFlight(p) : i = j
      /\ \A i \in InFlight(p) :
            /\ pending["user"][i].index = otpRecords[p].index
            /\ pending["user"][i].otp = <<secret[p], otpRecords[p].index>>
            /\ otpRecords[p].endTime # 0
  BY <1>0, <1>3, AgreeNow
<1>8. AgreesNext(p)
  BY <1>0, <1>1, <1>2, <1>4, <1>5, <1>6, <1>7 DEF AgreesNext
<1> QED
  BY <1>8, AgreeNext

(* or nothing that matters to the two.                                     *)
LEMMA SameAgree ==
    ASSUME NEW p \in Provider, AgreeInv(p), Spared(p),
           otpRecords'[p] = otpRecords[p], otpIndex'[p] = otpIndex[p],
           Due(p)' <=> Due(p), InFlight(p)' = InFlight(p),
           \A i \in InFlight(p) : pending'["user"][i] = pending["user"][i]
    PROVE  AgreeInv(p)'
<1>1. AgreesNext(p)
  BY AgreeNow, SparedKeeps DEF AgreesNext
<1> QED
  BY <1>1, AgreeNext

LEMMA MoveAgree ==
    ASSUME TypeOK, NEW p \in Provider, TogetherInv(p), Spared(p),
           NEW r \in Request, Move(r)
    PROVE  AgreeInv(p)'
<1>0. /\ Moved(r) /\ Lands(r) /\ Transmits(r) /\ UNCHANGED otpRecords
      /\ \A q \in Request \ {r} : call'[q] = call[q]
      /\ AgreeInv(p) /\ call \in [Request -> Handler]
      /\ otpIndex \in [Provider -> Nat \ {0}]
  BY MoveKeeps DEF Moved, TogetherInv, TypeOK, Handler
<1>1. CASE SendsVerification(r) /\ call[r].entry.auth_provider_id = p
  BY <1>1, SendAgree
<1>2. CASE IncrementSave(r) /\ call[r].provider = p
  BY <1>2, SaveAgree
<1>3. CASE /\ ~ (SendsVerification(r) /\ call[r].entry.auth_provider_id = p)
           /\ ~ (IncrementSave(r) /\ call[r].provider = p)
  <2>1. otpIndex'[p] = otpIndex[p]
    <3>1. CASE UNCHANGED otpIndex
      BY <3>1
    <3>2. CASE IncrementSave(r)
      <4>1. call[r].provider \in Provider /\ call[r].provider # p
        BY <1>0, <1>3, <3>2, HeldTypes DEF IncrementSave
      <4> QED
        BY <1>0, <3>2, <4>1 DEF IncrementSave
    <3> QED
      BY <1>0, <3>1, <3>2 DEF Moved
  <2>2. Counting(r, p)' <=> Counting(r, p)
    <3>1. ASSUME Counting(r, p), call'[r] # call[r]
          PROVE  Counting(r, p)'
      <4>1. faults' = faults
        BY <3>1 DEF Spared, Uncounted
      <4>2. CASE call[r].at = "incrementRead"
        BY <1>0, <3>1, <4>1, <4>2 DEF Lands, Counting
      <4>3. CASE call[r].at = "incrementSave"
        BY <1>0, <1>3, <3>1, <4>1, <4>3 DEF Lands, Counting
      <4> QED
        BY <3>1, <4>2, <4>3 DEF Counting
    <3>2. ASSUME Counting(r, p)'
          PROVE  Counting(r, p)
      <4>1. CASE call'[r].at = "incrementRead"
        <5>1. /\ SendsVerification(r)
              /\ call'[r].provider = call[r].entry.auth_provider_id
          BY <1>0, <4>1 DEF Lands, SendsVerification
        <5> QED
          BY <1>3, <3>2, <5>1 DEF Counting
      <4>2. CASE call'[r].at = "incrementSave"
        BY <1>0, <3>2, <4>2 DEF Lands, Counting
      <4> QED
        BY <3>2, <4>1, <4>2 DEF Counting
    <3>3. call'[r] = call[r] => (Counting(r, p)' <=> Counting(r, p))
      BY DEF Counting
    <3> QED
      BY <3>1, <3>2, <3>3
  <2>3. Due(p)' <=> Due(p)
    <3>1. \A q \in Request \ {r} : Counting(q, p)' <=> Counting(q, p)
      BY <1>0 DEF Counting
    <3> QED
      BY <2>2, <3>1 DEF Due
  <2>4. /\ InFlight(p)' = InFlight(p)
        /\ \A i \in InFlight(p) : pending'["user"][i] = pending["user"][i]
    <3>1. CASE UNCHANGED netVars
      BY <3>1 DEF netVars, InFlight, Flying
    <3>2. ASSUME NEW w \in Wallet, NEW tx \in Transaction, Send(r, w, tx),
                 ~ Flying(tx, p)
          PROVE  /\ InFlight(p)' = InFlight(p)
                 /\ \A i \in InFlight(p) :
                        pending'["user"][i] = pending["user"][i]
      BY <3>2, SendFlight
    <3>3. CASE call[r].at = "registerSend" /\ Send(r, "user", RegisterTx(r))
      BY <1>0, <3>2, <3>3, SentTypes DEF RegisterTx, Flying, Wallet
    <3>4. CASE call[r].at = "generateSend" /\ Send(r, "admin", WindowTx(r))
      BY <1>0, <3>2, <3>4, SentTypes DEF WindowTx, Flying, Wallet
    <3>5. CASE SendsVerification(r)
      <4>1. VerifyTx(r) \in Transaction /\ Send(r, "user", VerifyTx(r))
        BY <1>0, <3>5, SentTypes DEF SendsVerification
      <4>2. ~ Flying(VerifyTx(r), p)
        BY <1>3, <3>5 DEF VerifyTx, Flying
      <4> QED
        BY <3>2, <4>1, <4>2 DEF Wallet
    <3>6. CASE Send(r, "admin", ResetTx(r))
      BY <1>0, <3>2, <3>6, SentTypes DEF ResetTx, Flying, Wallet
    <3> QED
      BY <1>0, <3>1, <3>3, <3>4, <3>5, <3>6 DEF Transmits
  <2> QED
    BY <1>0, <2>1, <2>3, <2>4, SameAgree
<1> QED
  BY <1>1, <1>2, <1>3

(* A restart cuts no verification of a spared provider off that is still   *)
(* to be counted, and the clock moves nothing.                             *)
LEMMA RestAgree ==
    ASSUME TypeOK, NEW p \in Provider, TogetherInv(p), Spared(p),
           Tick \/ Crash
    PROVE  AgreeInv(p)'
<1>1. UNCHANGED <<otpRecords, otpIndex, pending>>
  BY DEF Tick, Crash, chainVars, netVars, dbVars
<1>2. InFlight(p)' = InFlight(p)
  BY <1>1 DEF InFlight, Flying
<1>3. ASSUME NEW r \in Request
      PROVE  Counting(r, p)' <=> Counting(r, p)
  <2>1. CASE call'[r] = call[r]
    BY <2>1 DEF Counting
  <2>2. CASE call'[r] # call[r]
    <3>1. Crash
      BY <2>2 DEF Tick
    <3>2. faults' # faults
      BY <3>1, ServiceAssumption DEF Crash, TypeOK
    <3>3. ~ Counting(r, p)
      BY <2>2, <3>2 DEF Spared, Uncounted
    <3>4. call'[r] = CutOff /\ CutOff.at = "cut off"
      BY <2>2, <3>1 DEF Crash, CutOff
    <3> QED
      BY <3>3, <3>4 DEF Counting
  <2> QED
    BY <2>1, <2>2
<1>4. Due(p)' <=> Due(p)
  BY <1>3 DEF Due
<1> QED
  BY <1>1, <1>2, <1>4, SameAgree DEF TogetherInv

-----------------------------------------------------------------------------
(* A verification of a spared provider that its block comes to is the one  *)
(* the contract expects: it fails only when the window is not open.        *)
LEMMA FlyingSucceeds ==
    ASSUME TypeOK, NEW p \in Provider, AgreeInv(p), Spared(p), Mine("user"),
           Flying(Head(pending["user"]), p)
    PROVE  Succeeds(Head(pending["user"]), "user")
<1> DEFINE tx == Head(pending["user"])
<1>1. /\ pending["user"] \in Seq(Transaction) /\ pending["user"] # <<>>
      /\ pending'["user"] = Tail(pending["user"])
  BY DEF Mine, TypeOK, Wallet
<1>2. 1 \in InFlight(p) /\ tx = pending["user"][1]
  BY <1>1 DEF InFlight
<1> HIDE DEF tx
<1>3. tx.method = "verifyOtp" /\ tx.user = p
  BY DEF Flying, tx
<1>4. /\ otpRecords[p].commitmentValue =
            Keccak[<<secret[p], otpRecords[p].index>>]
      /\ tx.index = otpRecords[p].index
      /\ tx.otp = <<secret[p], otpRecords[p].index>>
      /\ otpRecords[p].endTime # 0
  BY <1>2, AgreeNow
<1>5. now \in otpRecords[p].startTime .. otpRecords[p].endTime
  BY <1>1, <1>3, <1>4 DEF Spared, Late, tx
<1>6. /\ otpRecords[p].startTime \in Nat /\ otpRecords[p].endTime \in Nat
      /\ now \in Nat
  BY ServiceAssumption DEF TypeOK, Chain!OTPData
<1>7. Chain!CanVerifyOtp(tx.user, tx.index, tx.otp, "user", "user")
  BY <1>3, <1>4, <1>5, <1>6 DEF Chain!CanVerifyOtp
<1> QED
  BY <1>3, <1>7 DEF Succeeds, tx

(* What a block may do to a spared provider: register it when it was not,  *)
(* open a window, accept its verification, or nothing.                     *)
RegistersFirst(tx, p) ==
    /\ ~ Flying(tx, p) /\ ~ Registered(p)
    /\ otpRecords'[p].index = 1
    /\ otpRecords'[p].commitmentValue = Keccak[<<secret[p], 1>>]
OpensWindow(tx, p) ==
    /\ ~ Flying(tx, p) /\ otpRecords'[p].endTime # 0
    /\ otpRecords'[p].index = otpRecords[p].index
    /\ otpRecords'[p].commitmentValue = otpRecords[p].commitmentValue
AcceptsNext(tx, p) ==
    /\ Flying(tx, p) /\ otpRecords[p].index < MaxIndex
    /\ otpRecords'[p].index = otpRecords[p].index + 1
    /\ otpRecords'[p].commitmentValue =
            Keccak[<<secret[p], otpRecords[p].index + 1>>]
LeavesAlone(tx, p) ==
    /\ ~ Flying(tx, p)
    /\ \/ otpRecords'[p] = otpRecords[p]
       \/ /\ ~ Registered(p) /\ otpRecords'[p].commitmentValue = Zero

LEMMA BlockKinds ==
    ASSUME TypeOK, LinkInv, PendingInv, NEW p \in Provider, TogetherInv(p),
           Spared(p), NEW w \in Wallet, Mine(w), NEW tx, tx = Head(pending[w])
    PROVE  /\ \/ RegistersFirst(tx, p) \/ OpensWindow(tx, p)
              \/ AcceptsNext(tx, p) \/ LeavesAlone(tx, p)
           /\ Flying(tx, p) => w = "user"
<1>0. /\ AgreeInv(p) /\ FirstInv(p) /\ SentLinked
      /\ otpRecords \in [Provider -> Chain!OTPData]
      /\ pending[w] \in Seq(Transaction) /\ pending[w] # <<>>
  BY DEF TogetherInv, LinkInv, TypeOK, Mine
<1>1. tx \in Transaction /\ 1 \in 1 .. Len(pending[w]) /\ tx = pending[w][1]
  BY <1>0
<1>2. tx \in Waiting(w) /\ TxOk(w, tx) /\ LinkedTx(tx)
  BY <1>0, <1>1 DEF PendingInv, Waiting, SentLinked
<1>3. Flying(tx, p) => w = "user"
  BY <1>2 DEF Flying, TxOk, Wallet
<1>4. \/ Execute(tx, w)
      \/ ~ Succeeds(tx, w) /\ UNCHANGED chainVars
  BY DEF Mine
<1>5. CASE ~ Succeeds(tx, w) /\ UNCHANGED chainVars
  <2>1. ~ Flying(tx, p)
    BY <1>0, <1>3, <1>5, FlyingSucceeds
  <2> QED
    BY <1>3, <1>5, <2>1 DEF LeavesAlone, chainVars
<1>6. CASE Execute(tx, w)
  <2>1. CASE tx.method = "registerUser"
    <3>1. /\ Chain!RegisterUser(tx.user, tx.commitment, w, w)
          /\ w = "user" /\ tx.user \in Provider
      BY <1>1, <1>2, <1>6, <2>1, TransactionTypes DEF Execute, TxOk, Wallet
    <3>2. ~ Flying(tx, p)
      BY <2>1 DEF Flying
    <3>3. CASE tx.user = p
      <4>1. /\ ~ Registered(p) /\ otpRecords'[p].index = 1
            /\ otpRecords'[p].commitmentValue = tx.commitment
        BY <1>0, <3>1, <3>3
           DEF Chain!RegisterUser, Chain!CanRegisterUser, Registered
      <4>2. tx.commitment = Keccak[<<secret[p], 1>>]
        BY <1>0, <1>2, <2>1, <3>1, <3>3, <4>1 DEF FirstInv
      <4> QED
        BY <1>3, <3>2, <4>1, <4>2 DEF RegistersFirst
    <3>4. CASE tx.user # p
      <4>1. otpRecords'[p] = otpRecords[p]
        BY <1>0, <3>1, <3>4 DEF Chain!RegisterUser
      <4> QED
        BY <1>3, <3>2, <4>1 DEF LeavesAlone
    <3> QED
      BY <3>3, <3>4
  <2>2. CASE tx.method = "updateOtpWindow"
    <3>1. /\ Chain!UpdateOtpWindow(tx.user, tx.start, tx.end, w)
          /\ tx.end # 0 /\ tx.user \in Provider
      BY <1>1, <1>2, <1>6, <2>2, TransactionTypes DEF Execute, TxOk
    <3>2. ~ Flying(tx, p)
      BY <2>2 DEF Flying
    <3>3. CASE tx.user = p
      <4>1. /\ otpRecords'[p].endTime = tx.end
            /\ otpRecords'[p].index = otpRecords[p].index
            /\ otpRecords'[p].commitmentValue = otpRecords[p].commitmentValue
        BY <1>0, <3>1, <3>3 DEF Chain!UpdateOtpWindow
      <4> QED
        BY <1>3, <3>1, <3>2, <4>1 DEF OpensWindow
    <3>4. CASE tx.user # p
      <4>1. otpRecords'[p] = otpRecords[p]
        BY <1>0, <3>1, <3>4 DEF Chain!UpdateOtpWindow
      <4> QED
        BY <1>3, <3>2, <4>1 DEF LeavesAlone
    <3> QED
      BY <3>3, <3>4
  <2>3. CASE tx.method = "verifyOtp"
    <3>1. /\ Chain!VerifyOtp(tx.user, tx.index, tx.otp, tx.commitment, w, w)
          /\ tx.user \in Provider
      BY <1>1, <1>6, <2>3, TransactionTypes DEF Execute
    <3>2. CASE tx.user = p
      <4>1. Flying(tx, p) /\ w = "user"
        BY <1>3, <2>3, <3>2 DEF Flying
      <4>2. 1 \in InFlight(p)
        BY <1>1, <4>1 DEF InFlight
      <4>3. tx.otp = <<secret[p], otpRecords[p].index>>
        BY <1>0, <1>1, <4>1, <4>2, AgreeNow
      <4>4. /\ otpRecords[p].index < MaxIndex
            /\ tx.commitment = Keccak[<<secret[p], otpRecords[p].index + 1>>]
        BY <1>2, <2>3, <4>3 DEF LinkedTx
      <4>5. /\ otpRecords'[p].index = otpRecords[p].index + 1
            /\ otpRecords'[p].commitmentValue = tx.commitment
        BY <1>0, <3>1, <3>2 DEF Chain!VerifyOtp
      <4> QED
        BY <4>1, <4>4, <4>5 DEF AcceptsNext
    <3>3. CASE tx.user # p
      <4>1. otpRecords'[p] = otpRecords[p] /\ ~ Flying(tx, p)
        BY <1>0, <3>1, <3>3 DEF Chain!VerifyOtp, Flying
      <4> QED
        BY <1>3, <4>1 DEF LeavesAlone
    <3> QED
      BY <3>2, <3>3
  <2>4. CASE tx.method = "resetManyOtps"
    <3>1. Chain!ResetManyOtps(tx.users, w) /\ ~ Flying(tx, p)
      BY <1>6, <2>4 DEF Execute, Flying
    <3>2. \/ otpRecords'[p] = otpRecords[p]
          \/ otpRecords'[p].commitmentValue = Zero
      BY <3>1 DEF Chain!ResetManyOtps, Chain!EmptyRecord
    <3>3. Registered(p) => otpRecords'[p].commitmentValue # Zero
      BY SparedKeeps
    <3> QED
      BY <1>3, <3>1, <3>2, <3>3 DEF LeavesAlone
  <2> QED
    BY <1>1, <2>1, <2>2, <2>3, <2>4, TransactionTypes
<1> QED
  BY <1>4, <1>5, <1>6

(* A block keeps them together: it accepts what was counted, or will be.   *)
LEMMA BlockAgree ==
    ASSUME TypeOK, LinkInv, PendingInv, NEW p \in Provider, TogetherInv(p),
           Spared(p), NEW w \in Wallet, Mine(w)
    PROVE  AgreeInv(p)'
<1>0. /\ otpRecords \in [Provider -> Chain!OTPData]
      /\ otpIndex \in [Provider -> Nat \ {0}] /\ secret \in [Provider -> Pin]
      /\ MaxIndex \in Nat \ {0} /\ AgreeInv(p)
      /\ secret'[p] = secret[p]
      /\ Registered(p) => otpRecords'[p].commitmentValue # Zero
  BY ServiceAssumption, SparedKeeps DEF TypeOK, TogetherInv
<1>1. PICK tx : tx = Head(pending[w])
  OBVIOUS
<1>2. /\ \/ RegistersFirst(tx, p) \/ OpensWindow(tx, p)
         \/ AcceptsNext(tx, p) \/ LeavesAlone(tx, p)
      /\ Flying(tx, p) => w = "user"
      /\ UNCHANGED <<otpIndex, call>>
  BY <1>1, BlockKinds DEF Mine, dbVars
<1>3. Due(p)' <=> Due(p)
  BY <1>2 DEF Due, Counting
<1> SUFFICES AgreesNext(p)
  BY AgreeNext
<1>5. /\ otpRecords[p].commitmentValue # Zero =>
            /\ otpRecords[p].index \in 1 .. MaxIndex
            /\ otpRecords[p].commitmentValue =
                    Keccak[<<secret[p], otpRecords[p].index>>]
            /\ otpIndex[p] + (IF Due(p) THEN 1 ELSE 0) =
                otpRecords[p].index + (IF InFlight(p) = {} THEN 0 ELSE 1)
      /\ otpRecords[p].commitmentValue = Zero =>
            otpIndex[p] = 1 /\ InFlight(p) = {} /\ ~ Due(p)
      /\ \A i, j \in InFlight(p) : i = j
      /\ \A i \in InFlight(p) :
            /\ otpRecords[p].commitmentValue # Zero
            /\ pending["user"][i].index = otpRecords[p].index
            /\ pending["user"][i].otp = <<secret[p], otpRecords[p].index>>
            /\ otpRecords[p].endTime # 0
  BY <1>0, AgreeNow
<1>6. ASSUME ~ Flying(tx, p)
      PROVE  /\ InFlight(p)' = {} <=> InFlight(p) = {}
             /\ \A i, j \in InFlight(p)' : i = j
             /\ \A i \in InFlight(p)' : \E j \in InFlight(p) :
                    pending'["user"][i] = pending["user"][j]
  <2>1. CASE w # "user"
    BY <1>5, <2>1, MineFlight
  <2>2. CASE w = "user"
    <3>1. /\ \A i \in InFlight(p)' :
                /\ i + 1 \in InFlight(p)
                /\ pending'["user"][i] = pending["user"][i + 1]
          /\ \A i \in InFlight(p) : i # 1 => i - 1 \in InFlight(p)'
          /\ 1 \notin InFlight(p)
      BY <1>1, <1>6, <2>2, MineFlight
    <3>2. ASSUME NEW i \in InFlight(p)', NEW j \in InFlight(p)'
          PROVE  i = j
      <4>1. i + 1 = j + 1
        BY <1>5, <3>1, <3>2
      <4>2. i \in Nat /\ j \in Nat
        BY <3>2 DEF InFlight
      <4> QED
        BY <4>1, <4>2
    <3> QED
      BY <3>1, <3>2
  <2> QED
    BY <2>1, <2>2
<1>7. CASE LeavesAlone(tx, p)
  <2>1. ~ Flying(tx, p)
    BY <1>7 DEF LeavesAlone
  <2>2. CASE otpRecords'[p] = otpRecords[p]
    BY <1>0, <1>2, <1>3, <1>5, <1>6, <2>1, <2>2 DEF AgreesNext
  <2>3. CASE ~ Registered(p) /\ otpRecords'[p].commitmentValue = Zero
    BY <1>2, <1>3, <1>5, <1>6, <2>1, <2>3 DEF AgreesNext, Registered
  <2> QED
    BY <1>7, <2>2, <2>3 DEF LeavesAlone
<1>8. CASE RegistersFirst(tx, p)
  <2>1. /\ ~ Flying(tx, p) /\ otpRecords[p].commitmentValue = Zero
        /\ otpRecords'[p].index = 1
        /\ otpRecords'[p].commitmentValue = Keccak[<<secret[p], 1>>]
    BY <1>8 DEF RegistersFirst, Registered
  <2>2. InFlight(p)' = {} /\ ~ Due(p)' /\ otpIndex'[p] = 1
    BY <1>2, <1>3, <1>5, <1>6, <2>1
  <2>3. 1 \in 1 .. MaxIndex /\ <<secret[p], 1>> \in Raw
    BY <1>0 DEF Raw
  <2>4. otpRecords'[p].commitmentValue # Zero
    BY <2>1, <2>3, ServiceAssumption
  <2> QED
    BY <1>0, <2>1, <2>2, <2>3, <2>4 DEF AgreesNext
<1>9. CASE OpensWindow(tx, p)
  BY <1>0, <1>2, <1>3, <1>5, <1>6, <1>9 DEF AgreesNext, OpensWindow
<1>10. CASE AcceptsNext(tx, p)
  <2>1. w = "user" /\ Flying(tx, p)
    BY <1>2, <1>10 DEF AcceptsNext
  <2>2. 1 \in InFlight(p)
    BY <1>1, <2>1, MineFlight
  <2>3. InFlight(p)' = {}
    <3> SUFFICES ASSUME NEW i \in InFlight(p)' PROVE FALSE
      OBVIOUS
    <3>1. i + 1 \in InFlight(p)
      BY <2>1, MineFlight
    <3>2. i + 1 = 1
      BY <1>5, <2>2, <3>1
    <3>3. i \in Nat /\ i >= 1
      BY DEF InFlight
    <3> QED
      BY <3>2, <3>3
  <2>4. otpRecords[p].commitmentValue # Zero
    BY <1>5, <2>2
  <2>5. /\ otpRecords[p].index < MaxIndex
        /\ otpRecords'[p].index = otpRecords[p].index + 1
        /\ otpRecords'[p].commitmentValue =
                Keccak[<<secret[p], otpRecords[p].index + 1>>]
    BY <1>10 DEF AcceptsNext
  <2>6. otpRecords[p].index \in 1 .. MaxIndex
        /\ otpIndex[p] + (IF Due(p) THEN 1 ELSE 0) = otpRecords[p].index + 1
    BY <1>5, <2>2, <2>4
  <2>7. otpRecords'[p].index \in 1 .. MaxIndex
    BY <1>0, <2>5, <2>6
  <2>8. otpRecords'[p].commitmentValue # Zero
    BY <1>0, <2>4
       DEF Registered
  <2>9. otpIndex'[p] + (IF Due(p)' THEN 1 ELSE 0) = otpRecords'[p].index + 0
    BY <1>2, <1>3, <2>5, <2>6, <2>7
  <2> QED
    BY <1>0, <2>3, <2>5, <2>7, <2>8, <2>9 DEF AgreesNext
<1> QED
  BY <1>2, <1>7, <1>8, <1>9, <1>10

-----------------------------------------------------------------------------
(* At the start nobody asks for anything and no provider is registered.    *)
LEMMA InitHistory == HistoryInit => HistoryInv
<1> SUFFICES ASSUME HistoryInit
             PROVE  HistoryInv
  OBVIOUS
<1>1. Init /\ TypeOK /\ LinkInv
  BY HistoryStep, InitTyped, InitLinked
<1>2. \A r \in Request : call[r].at = "new"
  BY <1>1 DEF Init, New
<1>3. \A w \in Wallet : Waiting(w) = {}
  BY <1>1 DEF Init, Waiting
<1>4. ASSUME NEW p \in Provider
      PROVE  TogetherInv(p)
  <2>1. otpRecords[p].commitmentValue = Zero /\ otpIndex[p] = 1
    BY <1>1 DEF Init, Chain!EmptyRecord
  <2>2. HandlersInv(p)
    BY <1>2 DEF HandlersInv, Alone, Holds, Verifies, Counting
  <2>3. FirstInv(p)
    BY <1>3 DEF FirstInv, Wallet
  <2>4. InFlight(p) = {} /\ ~ Due(p)
    BY <1>1, <1>2 DEF Init, InFlight, Due, Counting, Wallet
  <2>5. AgreeInv(p)
    BY <2>1, <2>4 DEF AgreeInv, FlightInv, StepInv, Untouched, Registered
  <2> QED
    BY <2>2, <2>3, <2>5 DEF TogetherInv
<1> QED
  BY <1>1, <1>3, <1>4 DEF HistoryInv, PendingInv

(* A provider stays together until it is disturbed.                        *)
LEMMA StepTogether ==
    ASSUME HistoryInv, HistoryNext, NEW p \in Provider, p \notin disturbed'
    PROVE  TogetherInv(p)'
<1>0. /\ Spared(p) /\ TogetherInv(p) /\ TypeOK /\ LinkInv /\ PendingInv
      /\ [Next]_vars /\ Next
  BY Undisturbed, HistoryStep DEF HistoryInv, HistoryNext
<1>1. FirstInv(p)'
  BY <1>0, StepFirst
<1>2. ASSUME NEW r \in Request, Move(r)
      PROVE  HandlersInv(p)' /\ AgreeInv(p)'
  BY <1>0, <1>2, MoveHandlers, MoveAgree
<1>3. ASSUME (\E w \in Wallet : Mine(w)) \/ Tick \/ Crash
      PROVE  HandlersInv(p)' /\ AgreeInv(p)'
  BY <1>0, <1>3, RestHandlers, BlockAgree, RestAgree
<1>4. HandlersInv(p)' /\ AgreeInv(p)'
  BY <1>0, <1>2, <1>3 DEF Next, Move
<1> QED
  BY <1>1, <1>4 DEF TogetherInv

(* The invariant holds throughout.                                         *)
LEMMA HistoryInductive == HistorySpec => []HistoryInv
<1>1. ASSUME HistoryInv, [HistoryNext]_historyVars
      PROVE  HistoryInv'
  <2>1. TypeOK' /\ LinkInv' /\ PendingInv'
    BY <1>1, HistoryStep, StepTyped, StepLinked, StepPending DEF HistoryInv
  <2>2. ASSUME NEW p \in Provider, p \notin disturbed'
        PROVE  TogetherInv(p)'
    <3>1. CASE HistoryNext
      BY <1>1, <2>2, <3>1, StepTogether
    <3>2. CASE UNCHANGED historyVars
      <4>1. TogetherInv(p)
        BY <1>1, <2>2, <3>2 DEF HistoryInv, historyVars
      <4>2. UNCHANGED <<otpRecords, now, pending, otpIndex, secret, call>>
        BY <3>2 DEF historyVars, vars
      <4>3. HandlersInv(p)'
        BY <4>1, <4>2 DEF TogetherInv, HandlersInv, Alone, Holds, Verifies,
                          Counting, Registered
      <4>4. FirstInv(p)'
        BY <4>1, <4>2 DEF TogetherInv, FirstInv, Waiting, Registered
      <4>5. InFlight(p)' = InFlight(p) /\ (Due(p)' <=> Due(p))
        BY <4>2 DEF InFlight, Flying, Due, Counting
      <4>6. AgreeInv(p)'
        BY <4>1, <4>2, <4>5
           DEF TogetherInv, AgreeInv, FlightInv, StepInv, Acceptable, Agree,
               Untouched, Registered
      <4> QED
        BY <4>3, <4>4, <4>6 DEF TogetherInv
    <3> QED
      BY <1>1, <3>1, <3>2
  <2> QED
    BY <2>1, <2>2 DEF HistoryInv
<1> QED
  BY <1>1, InitHistory, PTL DEF HistorySpec

(* Whatever requests overlap, codes collide, answers are lost, the server  *)
(* restarts and blocks come late: the password generateOtp would derive    *)
(* next is the one the contract has committed to, at the index it expects, *)
(* whenever all is quiet, for every provider to which none of the five     *)
(* disturbances happened.  incrementOtpIndex counts exactly the            *)
(* verifications the contract accepts, although it does not wait for them. *)
THEOREM RedeemableCorrect == HistorySpec => []Redeemable
<1>1. HistoryInv => Redeemable
  <2> SUFFICES ASSUME HistoryInv, Quiet, NEW p \in Provider \ disturbed,
                      Registered(p)
               PROVE  /\ otpRecords[p].index = otpIndex[p]
                      /\ otpRecords[p].commitmentValue =
                            Keccak[<<secret[p], otpIndex[p]>>]
    BY DEF Redeemable
  <2>1. InFlight(p) = {}
    BY DEF Quiet, InFlight, Wallet
  <2>2. ~ Due(p)
    BY DEF Quiet, Due, Counting, Active
  <2>3. /\ otpIndex[p] + 0 = otpRecords[p].index + 0
        /\ otpRecords[p].commitmentValue =
                Keccak[<<secret[p], otpRecords[p].index>>]
    BY <2>1, <2>2, AgreeNow DEF HistoryInv, TogetherInv, Registered
  <2>4. otpIndex[p] \in Nat /\ otpRecords[p].index \in Nat
    BY DEF HistoryInv, TypeOK, Chain!OTPData
  <2> QED
    BY <2>3, <2>4
<1> QED
  BY <1>1, HistoryInductive, PTL

(* Only a block takes the oldest transaction away.                         *)
LEMMA TakenByBlock ==
    ASSUME TypeOK, Next, pending["user"] # <<>>,
           pending'["user"] = Tail(pending["user"])
    PROVE  Mine("user")
<1>1. /\ pending["user"] \in Seq(Transaction)
      /\ pending \in [Wallet -> Seq(Transaction)]
      /\ "user" \in Wallet /\ "admin" \in Wallet
  BY DEF TypeOK, Wallet
<1> DEFINE s == pending["user"]
           t == pending'["user"]
<1>2. Len(s) \in Nat /\ s # <<>> /\ Len(t) = Len(s) - 1
  BY <1>1
<1> HIDE DEF s, t
<1>3. t # s
  BY <1>2
<1>4. ASSUME NEW r \in Request, NEW w \in Wallet, NEW tx \in Transaction,
             Send(r, w, tx)
      PROVE  FALSE
  <2>1. t = IF w = "user" THEN Append(s, tx) ELSE s
    BY <1>1, <1>4 DEF Send, Broadcast, s, t
  <2>2. Len(Append(s, tx)) = Len(s) + 1
    BY <1>1 DEF s
  <2>3. CASE t = Append(s, tx)
    <3>1. Len(t) = Len(s) + 1
      BY <2>2, <2>3
    <3> QED
      BY <1>2, <3>1
  <2> QED
    BY <1>3, <2>1, <2>3
<1>5. ASSUME NEW r \in Request, Move(r)
      PROVE  FALSE
  <2>1. Transmits(r) /\ call \in [Request -> Handler]
    BY <1>5, MoveKeeps DEF Moved, TypeOK, Handler
  <2>2. CASE UNCHANGED netVars
    BY <1>3, <2>2 DEF netVars, s, t
  <2> QED
    BY <1>1, <1>4, <2>1, <2>2, SentTypes
       DEF Transmits, SendsVerification, ResetTx
<1>6. ~ Mine("admin")
  BY <1>1, <1>3 DEF Mine, s, t
<1>7. ~ Tick /\ ~ Crash
  BY <1>3 DEF Tick, Crash, netVars, s, t
<1> QED
  BY <1>5, <1>6, <1>7 DEF Next, Move, Wallet

(* A verification that was broadcast is accepted by the block it comes in, *)
(* however late, unless its provider was disturbed: verifyOtp may answer   *)
(* before it is mined, for what it was told by estimateGas then still      *)
(* holds.                                                                  *)
THEOREM SentAcceptedCorrect == HistorySpec => SentIsAccepted
<1>1. ASSUME HistoryInv, HistoryNext
      PROVE  HeadAccepted
  <2> DEFINE tx == Head(pending["user"])
  <2> SUFFICES ASSUME pending["user"] # <<>>,
                      pending'["user"] = Tail(pending["user"]),
                      tx.method = "verifyOtp", tx.user \notin disturbed'
               PROVE  receipt'[tx.by] = "success"
    BY DEF HeadAccepted
  <2>1. TypeOK /\ Next
    BY <1>1 DEF HistoryInv, HistoryNext
  <2>2. Mine("user")
    BY <2>1, TakenByBlock
  <2>3. tx \in Transaction
    BY <2>1 DEF TypeOK, Wallet
  <2> HIDE DEF tx
  <2>4. tx.user \in Provider /\ tx.by \in Request
    BY <2>3, TransactionTypes
  <2>5. Spared(tx.user) /\ AgreeInv(tx.user)
    BY <1>1, <2>4, Undisturbed DEF HistoryInv, TogetherInv
  <2>6. Succeeds(tx, "user")
    BY <2>1, <2>2, <2>4, <2>5, FlyingSucceeds DEF Flying, tx
  <2>7. receipt' = [receipt EXCEPT ![tx.by] = "success"]
    BY <2>2, <2>6 DEF Mine, tx
  <2> QED
    BY <2>1, <2>4, <2>7 DEF TypeOK
<1>2. ASSUME HistoryInv, [HistoryNext]_historyVars
      PROVE  [HeadAccepted]_historyVars
  BY <1>1, <1>2
<1> QED
  BY <1>2, HistoryInductive, PTL DEF HistorySpec, SentIsAccepted

-----------------------------------------------------------------------------
(* What was reverted was no verification of a provider that was never      *)
(* disturbed.                                                              *)
SentPast == \A w \in Wallet : \A tx \in Waiting(w) :
                tx.method # "verifyOtp" => Past(tx.by)
RevertedPast == disturbed = {} =>
                    \A r \in Request : receipt[r] = "reverted" => Past(r)

LEMMA StepSentPast ==
    ASSUME TypeOK, SentPast, [Next]_vars
    PROVE  SentPast'
<1> SUFFICES ASSUME NEW v \in Wallet, NEW t \in Waiting(v)',
                    t.method # "verifyOtp"
             PROVE  Past(t.by)'
  BY DEF SentPast
<1>1. ASSUME t \in Waiting(v)
      PROVE  Past(t.by)'
  <2>1. t \in Transaction
    BY <1>1 DEF TypeOK, Waiting
  <2>2. t.by \in Request /\ Past(t.by)
    BY <1>1, <2>1, TransactionTypes DEF SentPast
  <2> QED
    BY <2>2, PastStays
<1>2. ASSUME NEW r \in Request, Move(r), t \notin Waiting(v)
      PROVE  Past(t.by)'
  <2>1. t = RegisterTx(r) \/ t = WindowTx(r) \/ t = VerifyTx(r) \/ t = ResetTx(r)
    BY <1>2, MoveSends
  <2>2. t.by = r /\ t # VerifyTx(r)
    BY <2>1 DEF RegisterTx, WindowTx, VerifyTx, ResetTx
  <2>3. ~ UNCHANGED netVars
    BY <1>2 DEF netVars, Waiting
  <2>4. Past(r)' \/ SendsVerification(r)
    BY <1>2, <2>3, MoveKeeps DEF Moved, Transmits
  <2>5. CASE SendsVerification(r)
    <3>1. /\ VerifyTx(r) \in Transaction /\ Send(r, "user", VerifyTx(r))
          /\ "user" \in Wallet
      BY <2>5, SentTypes DEF SendsVerification, TypeOK, Handler, Wallet
    <3> QED
      BY <1>2, <2>2, <3>1, WaitingSent
  <2> QED
    BY <2>2, <2>4, <2>5
<1>3. ASSUME NEW w \in Wallet, Mine(w)
      PROVE  t \in Waiting(v)
  BY <1>3, WaitingMined
<1>4. ASSUME Tick \/ Crash \/ UNCHANGED vars
      PROVE  t \in Waiting(v)
  BY <1>4 DEF Tick, Crash, vars, netVars, Waiting
<1> QED
  BY <1>1, <1>2, <1>3, <1>4, StepKinds

LEMMA StepRevertedPast ==
    ASSUME HistoryInv, SentPast, RevertedPast, [HistoryNext]_historyVars
    PROVE  RevertedPast'
<1> SUFFICES ASSUME disturbed' = {}, NEW q \in Request,
                    receipt'[q] = "reverted"
             PROVE  Past(q)'
  BY DEF RevertedPast
<1>0. /\ TypeOK /\ PendingInv /\ [Next]_vars /\ disturbed = {}
      /\ receipt \in [Request -> Receipt]
  BY HistoryStep DEF HistoryInv, HistoryNext, historyVars, TypeOK, Receipt
<1> SUFFICES Past(q)
  BY <1>0, PastStays
<1>1. CASE receipt[q] = "reverted"
  BY <1>0, <1>1 DEF RevertedPast
<1>2. ASSUME NEW w \in Wallet, Mine(w), receipt[q] # "reverted"
      PROVE  Past(q)
  <2> DEFINE tx == Head(pending[w])
  <2>1. pending[w] \in Seq(Transaction) /\ pending[w] # <<>>
    BY <1>0, <1>2 DEF Mine, TypeOK
  <2>2. tx \in Transaction /\ tx \in Waiting(w)
    BY <2>1 DEF Waiting
  <2>3. /\ ~ Succeeds(tx, w)
        /\ receipt' = [receipt EXCEPT ![tx.by] = "reverted"]
    BY <1>0, <1>2 DEF Mine
  <2> HIDE DEF tx
  <2>4. q = tx.by
    BY <1>0, <1>2, <2>3
  <2>5. CASE tx.method = "verifyOtp"
    <3>1. w = "user" /\ tx.user \in Provider /\ Flying(tx, tx.user)
      BY <1>0, <2>2, <2>5, TransactionTypes
         DEF PendingInv, TxOk, Wallet, Flying
    <3>2. HistoryNext
      BY <1>0, <1>2, <2>3, <2>4 DEF historyVars, vars
    <3>3. Spared(tx.user) /\ AgreeInv(tx.user)
      BY <3>1, <3>2, Undisturbed DEF HistoryInv, TogetherInv
    <3> QED
      BY <1>0, <1>2, <2>3, <3>1, <3>3, FlyingSucceeds DEF tx
  <2>6. CASE tx.method # "verifyOtp"
    BY <2>2, <2>4, <2>6 DEF SentPast
  <2> QED
    BY <2>5, <2>6
<1>3. ASSUME NEW r \in Request, Move(r)
      PROVE  receipt[q] = "reverted"
  <2>1. ASSUME NEW w, NEW tx, Send(r, w, tx)
        PROVE  receipt[q] = "reverted"
    BY <1>0, <2>1 DEF Send, Broadcast
  <2>2. Transmits(r)
    BY <1>0, <1>3, MoveKeeps DEF Moved
  <2> QED
    BY <2>1, <2>2 DEF Transmits, SendsVerification, netVars
<1>4. ASSUME Tick \/ Crash \/ UNCHANGED vars
      PROVE  receipt[q] = "reverted"
  BY <1>4 DEF Tick, Crash, vars, netVars
<1> QED
  BY <1>0, <1>1, <1>2, <1>3, <1>4, StepKinds

(* So until a provider is disturbed, no verification the user was told had *)
(* succeeded reverts.                                                      *)
THEOREM AcknowledgedCorrect ==
    HistorySpec => [](disturbed = {} => AcknowledgedStands)
<1>1. HistoryInit => SentPast /\ RevertedPast
  BY HistoryStep DEF Init, SentPast, RevertedPast, Waiting
<1>2. ASSUME HistoryInv, SentPast, RevertedPast, [HistoryNext]_historyVars
      PROVE  SentPast' /\ RevertedPast'
  BY <1>2, HistoryStep, StepSentPast, StepRevertedPast DEF HistoryInv
<1>3. RevertedPast => (disturbed = {} => AcknowledgedStands)
  <2> SUFFICES ASSUME RevertedPast, disturbed = {}, NEW r \in Request,
                      Acknowledged(r), receipt[r] = "reverted"
               PROVE  FALSE
    BY DEF AcknowledgedStands
  <2>1. call[r].at = "done" /\ call[r].op = "verify"
    BY DEF Acknowledged
  <2> QED
    BY <2>1 DEF RevertedPast, Past
<1> QED
  BY <1>1, <1>2, <1>3, HistoryInductive, PTL DEF HistorySpec

=============================================================================
