--------------------------- MODULE Banking_proofs ---------------------------
(***************************************************************************)
(* Proofs about accounts and payments: the tables, the cache and the       *)
(* handlers are well typed, and no interleaving of requests and restarts   *)
(* overdraws an account.  Of requests that no other one overlaps: a payment*)
(* takes exactly its amount, and a user gets no second account.            *)
(***************************************************************************)
EXTENDS BankingHistory, FiniteSetTheorems, TLAPS

Handler == {New, CutOff} \union InProgress \union Done

-----------------------------------------------------------------------------
(* A handler that moves to a typed state keeps all handlers typed.         *)
LEMMA GotoType ==
    ASSUME call \in [Request -> Handler], NEW r \in Request,
           NEW state \in Handler, Goto(r, state)
    PROVE  call' \in [Request -> Handler]
BY DEF Goto

(* So does one that answers.                                               *)
LEMMA AnswerType ==
    ASSUME call \in [Request -> Handler], NEW r \in Request,
           NEW o \in Operation, NEW success \in BOOLEAN, Answer(r, o, success)
    PROVE  call' \in [Request -> Handler]
<1>1. [at |-> "done", op |-> o, ok |-> success] \in Handler
  BY DEF Handler, Done
<1> QED
  BY <1>1, GotoType DEF Answer

(* What a handler holds at each of its awaits.                             *)
LEMMA HeldTypes ==
    ASSUME call \in [Request -> Handler], NEW r \in Request
    PROVE  /\ call[r].at \in {"insert", "deposit"} =>
                call[r].user \in User /\ call[r].amount \in Amount
           /\ call[r].at \in {"balance", "otp", "update", "history"} =>
                call[r].txn \in Request /\ call[r].payment \in Payment
           /\ call[r].at \in {"otp", "update", "history"} =>
                call[r].balance \in Int
<1> DEFINE h == call[r]
<1>1. h \in Handler
  OBVIOUS
<1> HIDE DEF h
<1>2. CASE h \in {New, CutOff} \union Done
  <2>1. CASE h = New
    <3>1. h.at = "new"
      BY <2>1 DEF New
    <3> QED
      BY <3>1 DEF h
  <2>2. CASE h = CutOff
    <3>1. h.at = "cut off"
      BY <2>2 DEF CutOff
    <3> QED
      BY <3>1 DEF h
  <2>3. CASE h \in Done
    <3>1. h.at = "done"
      BY <2>3 DEF Done
    <3> QED
      BY <3>1 DEF h
  <2> QED
    BY <1>2, <2>1, <2>2, <2>3
<1>3. CASE h \in [at : {"insert", "deposit"}, user : User, amount : Amount]
  BY <1>3 DEF h
<1>4. CASE h \in [at : {"balance"}, txn : Request, payment : Payment]
  BY <1>4 DEF h
<1>5. CASE h \in [at : {"otp", "update", "history"}, txn : Request,
                  payment : Payment, balance : Int]
  BY <1>5 DEF h
<1> QED
  BY <1>1, <1>2, <1>3, <1>4, <1>5 DEF Handler, InProgress

(* The states a handler may go to.                                         *)
LEMMA HeldInsert ==
    ASSUME NEW u \in User, NEW amount \in Amount
    PROVE  /\ [at |-> "insert", user |-> u, amount |-> amount] \in Handler
           /\ [at |-> "deposit", user |-> u, amount |-> amount] \in Handler
BY DEF Handler, InProgress

(* A handler that has found its payment.                                   *)
LEMMA HeldBalance ==
    ASSUME NEW txn \in Request, NEW p \in Payment
    PROVE  [at |-> "balance", txn |-> txn, payment |-> p] \in Handler
BY DEF Handler, InProgress

(* A handler that has read the balance.                                    *)
LEMMA HeldPayment ==
    ASSUME NEW step \in {"otp", "update", "history"}, NEW txn \in Request,
           NEW p \in Payment, NEW b \in Int
    PROVE  [at |-> step, txn |-> txn, payment |-> p, balance |-> b] \in Handler
BY DEF Handler, InProgress

(* A transfer never gets past the history rows it inserts: they lack an    *)
(* ipfs_cid, and the database rolls it back.                               *)
LEMMA TransferRefused ==
    ASSUME NEW r \in Request, NEW from \in User, NEW to \in User,
           NEW amount \in Amount, Transfer(r, from, to, amount)
    PROVE  UNCHANGED tables /\ Answer(r, "transfer", FALSE)
BY DEF Transfer, TransferRow, Insertable

-----------------------------------------------------------------------------
(* Everything holds values of its type: what a handler writes to a table   *)
(* it has taken from a request, the cache or the table itself.             *)
THEOREM BankingTypeCorrect == Spec => []TypeOK
<1> USE BankingAssumption
<1>1. Init => TypeOK
  BY DEF Init, TypeOK
<1>2. ASSUME TypeOK, [Next]_vars
      PROVE  TypeOK'
  <2> USE <1>2
  <2>0. /\ call \in [Request -> Handler]
        /\ accounts \in Seq(Account) /\ history \in Seq(HistoryRow)
        /\ payments \in [Request -> Payment \union {NoPayment}]
        /\ debits \in SUBSET (Request \X Request)
        /\ crashes \in 0 .. MaxCrashes
    BY DEF TypeOK, Handler
  <2> DEFINE Rest == /\ accounts' \in Seq(Account)
                     /\ history' \in Seq(HistoryRow)
                     /\ payments' \in [Request -> Payment \union {NoPayment}]
                     /\ debits' \in SUBSET (Request \X Request)
                     /\ crashes' \in 0 .. MaxCrashes
  <2>1. ASSUME NEW r \in Request, NEW u \in User, NEW amount \in Amount,
               CreateAccount(r, u, amount)
        PROVE  call' \in [Request -> Handler] /\ Rest
    <3>1. Rest
      BY <2>0, <2>1 DEF CreateAccount, tables
    <3>2. CASE Goto(r, [at |-> "insert", user |-> u, amount |-> amount])
      BY <2>0, <3>1, <3>2, HeldInsert, GotoType
    <3>3. CASE Answer(r, "createAccount", FALSE)
      BY <2>0, <3>1, <3>3, AnswerType DEF Operation
    <3> QED
      BY <2>1, <3>1, <3>2, <3>3 DEF CreateAccount
  <2>2. ASSUME NEW r \in Request, NEW u \in User, NEW amount \in Amount,
               InitiatePayment(r, u, amount)
        PROVE  call' \in [Request -> Handler] /\ Rest
    <3>1. [user_id |-> u, amount |-> amount, status |-> "PENDING"] \in Payment
      BY DEF Payment
    <3>2. Rest
      BY <2>0, <2>2, <3>1 DEF InitiatePayment, tables
    <3> QED
      BY <2>0, <2>2, <3>2, AnswerType DEF InitiatePayment, Operation
  <2>3. ASSUME NEW r \in Request, NEW u \in User, NEW to \in User,
               NEW amount \in Amount, Transfer(r, u, to, amount)
        PROVE  call' \in [Request -> Handler] /\ Rest
    <3>1. UNCHANGED tables /\ Answer(r, "transfer", FALSE)
      BY <2>3, TransferRefused
    <3>2. Rest
      BY <2>0, <2>3, <3>1 DEF Transfer, tables
    <3> QED
      BY <2>0, <3>1, <3>2, AnswerType DEF Operation
  <2>4. ASSUME NEW r \in Request, NEW u \in User, NEW t \in Request,
               VerifyLookup(r, u, t)
        PROVE  call' \in [Request -> Handler] /\ Rest
    <3>1. Rest
      BY <2>0, <2>4 DEF VerifyLookup, tables
    <3>2. CASE /\ payments[t] # NoPayment
               /\ Goto(r, [at |-> "balance", txn |-> t,
                           payment |-> payments[t]])
      <4>1. payments[t] \in Payment
        BY <2>0, <3>2
      <4> QED
        BY <2>0, <3>1, <3>2, <4>1, HeldBalance, GotoType
    <3>3. CASE Answer(r, "verify", FALSE)
      BY <2>0, <3>1, <3>3, AnswerType DEF Operation
    <3> QED
      BY <2>4, <3>1, <3>2, <3>3 DEF VerifyLookup
  <2>5. ASSUME NEW r \in Request, InsertAccount(r)
        PROVE  call' \in [Request -> Handler] /\ Rest
    <3>1. call[r].user \in User /\ call[r].amount \in Amount
      BY <2>0, <2>5, HeldTypes DEF InsertAccount
    <3>2. [user_id |-> call[r].user, balance |-> call[r].amount] \in Account
      BY <3>1 DEF Account
    <3>3. Rest
      BY <2>0, <2>5, <3>2 DEF InsertAccount
    <3>4. CASE Goto(r, [at |-> "deposit", user |-> call[r].user,
                        amount |-> call[r].amount])
      BY <2>0, <3>1, <3>3, <3>4, HeldInsert, GotoType
    <3>5. CASE Answer(r, "createAccount", TRUE)
      BY <2>0, <3>3, <3>5, AnswerType DEF Operation
    <3> QED
      BY <2>5, <3>3, <3>4, <3>5 DEF InsertAccount
  <2>6. ASSUME NEW r \in Request, RecordDeposit(r)
        PROVE  call' \in [Request -> Handler] /\ Rest
    <3> DEFINE row == [user_id |-> call[r].user, amount |-> call[r].amount,
                       before |-> 0, after |-> call[r].amount,
                       reference_id |-> "null", ipfs_cid |-> "cid"]
    <3>1. call[r].user \in User /\ call[r].amount \in Amount
      BY <2>0, <2>6, HeldTypes DEF RecordDeposit
    <3>2. row \in HistoryRow
      BY <3>1, 0 \in Int DEF HistoryRow
    <3>3. /\ history' = Append(history, row) \/ history' = history
          /\ UNCHANGED <<accounts, payments, debits, crashes>>
      BY <2>6 DEF RecordDeposit
    <3>4. history' \in Seq(HistoryRow)
      <4>1. history \in Seq(HistoryRow)
        BY <2>0
      <4> HIDE DEF row
      <4>2. Append(history, row) \in Seq(HistoryRow)
        BY <3>2, <4>1
      <4> QED
        BY <3>3, <4>1, <4>2
    <3>5. Rest
      BY <2>0, <3>3, <3>4
    <3> QED
      BY <2>0, <2>6, <3>5, AnswerType DEF RecordDeposit, Operation
  <2>7. ASSUME NEW r \in Request, VerifyBalance(r)
        PROVE  call' \in [Request -> Handler] /\ Rest
    <3>1. Rest
      BY <2>0, <2>7 DEF VerifyBalance, tables
    <3>2. CASE \E i \in RowsOf(call[r].payment.user_id) :
                  Goto(r, [at |-> "otp", txn |-> call[r].txn,
                           payment |-> call[r].payment,
                           balance |-> accounts[i].balance])
      <4>1. PICK i \in RowsOf(call[r].payment.user_id) :
                  Goto(r, [at |-> "otp", txn |-> call[r].txn,
                           payment |-> call[r].payment,
                           balance |-> accounts[i].balance])
        BY <3>2
      <4>2. accounts[i].balance \in Int
        <5>1. accounts[i] \in Account
          BY <2>0 DEF RowsOf
        <5> QED
          BY <5>1 DEF Account
      <4>3. call[r].txn \in Request /\ call[r].payment \in Payment
        BY <2>0, <2>7, HeldTypes DEF VerifyBalance
      <4> QED
        BY <2>0, <3>1, <4>1, <4>2, <4>3, HeldPayment, GotoType
    <3>3. CASE Answer(r, "verify", FALSE)
      BY <2>0, <3>1, <3>3, AnswerType DEF Operation
    <3> QED
      BY <2>7, <3>1, <3>2, <3>3 DEF VerifyBalance
  <2>8. ASSUME NEW r \in Request, VerifyOtp(r)
        PROVE  call' \in [Request -> Handler] /\ Rest
    <3>1. Rest
      BY <2>0, <2>8 DEF VerifyOtp, tables
    <3>2. CASE Goto(r, Holding(r, "update"))
      <4>1. /\ call[r].txn \in Request /\ call[r].payment \in Payment
            /\ call[r].balance \in Int
        BY <2>0, <2>8, HeldTypes DEF VerifyOtp
      <4>2. Holding(r, "update") \in Handler
        BY <4>1, HeldPayment DEF Holding
      <4> QED
        BY <2>0, <3>1, <3>2, <4>2, GotoType
    <3>3. CASE Answer(r, "verify", FALSE)
      BY <2>0, <3>1, <3>3, AnswerType DEF Operation
    <3> QED
      BY <2>8, <3>1, <3>2, <3>3 DEF VerifyOtp
  <2>9. ASSUME NEW r \in Request, UpdateBalance(r)
        PROVE  call' \in [Request -> Handler] /\ Rest
    <3>1. /\ call[r].txn \in Request /\ call[r].payment \in Payment
          /\ call[r].balance \in Int
      BY <2>0, <2>9, HeldTypes DEF UpdateBalance
    <3>2. accounts' \in Seq(Account)
      BY <2>0, <2>9, <3>1 DEF UpdateBalance, SetBalance, RowsOf, Account, Payment
    <3>3. Rest
      BY <2>0, <2>9, <3>1, <3>2 DEF UpdateBalance
    <3> QED
      BY <2>0, <2>9, <3>1, <3>3, HeldPayment, GotoType
         DEF UpdateBalance, Holding
  <2>10. ASSUME NEW r \in Request, RecordPayment(r)
         PROVE  call' \in [Request -> Handler] /\ Rest
    <3>1. UNCHANGED history /\ Answer(r, "verify", FALSE)
      BY <2>10 DEF RecordPayment, Insertable
    <3>2. Rest
      BY <2>0, <2>10, <3>1 DEF RecordPayment
    <3> QED
      BY <2>0, <3>1, <3>2, AnswerType DEF Operation
  <2>11. CASE Crash
    <3>1. Rest
      BY <2>0, <2>11 DEF Crash, tables
    <3>2. call' \in [Request -> Handler]
      BY <2>0, <2>11 DEF Crash, Handler
    <3> QED
      BY <3>1, <3>2 DEF TypeOK, Handler
  <2>12. CASE UNCHANGED vars
    BY <2>12 DEF vars, tables, TypeOK
  <2> QED
    BY <2>1, <2>2, <2>3, <2>4, <2>5, <2>6, <2>7, <2>8, <2>9, <2>10, <2>11,
       <2>12 DEF Next, Submit, Continue, TypeOK, Handler
<1> QED
  BY <1>1, <1>2, PTL DEF Spec

-----------------------------------------------------------------------------
(* What a handler has checked before its await still holds after it, of    *)
(* the locals it goes on with: the amount it will insert is not negative,  *)
(* and the balance it read covers the payment.                             *)
Checked ==
    \A r \in Request :
        /\ call[r].at = "insert" => call[r].amount >= 0
        /\ call[r].at \in {"otp", "update"} =>
                call[r].balance >= call[r].payment.amount

(* A handler that moves to a checked state keeps all handlers checked.     *)
LEMMA GotoChecked ==
    ASSUME call \in [Request -> Handler], Checked, NEW r \in Request,
           NEW state, Goto(r, state),
           state.at = "insert" => state.amount >= 0,
           state.at \in {"otp", "update"} =>
                state.balance >= state.payment.amount
    PROVE  Checked'
<1>1. ASSUME NEW q \in Request
      PROVE  call'[q] = IF q = r THEN state ELSE call[q]
  BY DEF Goto
<1> QED
  BY <1>1 DEF Checked

(* A handler that answers has nothing left to check.                       *)
LEMMA AnswerChecked ==
    ASSUME call \in [Request -> Handler], Checked, NEW r \in Request,
           NEW o, NEW success, Answer(r, o, success)
    PROVE  Checked'
<1> DEFINE state == [at |-> "done", op |-> o, ok |-> success]
<1>1. state.at = "done" /\ Goto(r, state)
  BY DEF Answer
<1> HIDE DEF state
<1> QED
  BY <1>1, GotoChecked

(* Writing a balance that is not negative keeps every balance so.          *)
LEMMA SetBalanceKeeps ==
    ASSUME accounts \in Seq(Account), NoOverdraft,
           NEW i \in 1 .. Len(accounts), NEW b \in Int, b >= 0,
           SetBalance(i, b)
    PROVE  NoOverdraft'
<1>1. Len(accounts') = Len(accounts)
  BY DEF SetBalance
<1>2. ASSUME NEW j \in 1 .. Len(accounts)
      PROVE  accounts'[j].balance >= 0
  BY DEF SetBalance, NoOverdraft
<1> QED
  BY <1>1, <1>2 DEF NoOverdraft

(* So does a new row with such a balance.                                  *)
LEMMA AppendKeeps ==
    ASSUME accounts \in Seq(Account), NoOverdraft, NEW row \in Account,
           row.balance >= 0, accounts' = Append(accounts, row)
    PROVE  NoOverdraft'
BY DEF NoOverdraft

(* No interleaving of requests and restarts overdraws an account: although *)
(* verifyTransactionOtp writes a balance computed from one it read before  *)
(* the OTP was verified, and other requests move the account meanwhile,    *)
(* what it writes is not negative.                                         *)
THEOREM NoOverdraftCorrect == Spec => []NoOverdraft
<1> USE BankingAssumption
<1>1. Init => NoOverdraft /\ Checked
  BY DEF Init, NoOverdraft, Checked, New
<1>2. ASSUME TypeOK, TypeOK', NoOverdraft, Checked, [Next]_vars
      PROVE  NoOverdraft' /\ Checked'
  <2> USE <1>2
  <2>0. /\ call \in [Request -> Handler]
        /\ accounts \in Seq(Account)
        /\ payments \in [Request -> Payment \union {NoPayment}]
    BY DEF TypeOK, Handler
  <2>00. accounts' = accounts => NoOverdraft'
    BY DEF NoOverdraft
  <2>1. ASSUME NEW r \in Request, NEW u \in User, NEW amount \in Amount,
               CreateAccount(r, u, amount)
        PROVE  NoOverdraft' /\ Checked'
    <3>1. NoOverdraft'
      BY <2>00, <2>1 DEF CreateAccount, tables
    <3>2. CASE Goto(r, [at |-> "insert", user |-> u, amount |-> amount])
      <4> DEFINE state == [at |-> "insert", user |-> u, amount |-> amount]
      <4>1. state.at = "insert" /\ state.amount >= 0
        BY <2>1 DEF CreateAccount
      <4> HIDE DEF state
      <4> QED
        BY <2>0, <3>1, <3>2, <4>1, GotoChecked DEF state
    <3>3. CASE Answer(r, "createAccount", FALSE)
      BY <2>0, <3>1, <3>3, AnswerChecked
    <3> QED
      BY <2>1, <3>2, <3>3 DEF CreateAccount
  <2>2. ASSUME NEW r \in Request, NEW u \in User, NEW amount \in Amount,
               InitiatePayment(r, u, amount)
        PROVE  NoOverdraft' /\ Checked'
    BY <2>0, <2>00, <2>2, AnswerChecked DEF InitiatePayment, tables
  <2>3. ASSUME NEW r \in Request, NEW u \in User, NEW to \in User,
               NEW amount \in Amount, Transfer(r, u, to, amount)
        PROVE  NoOverdraft' /\ Checked'
    BY <2>0, <2>00, <2>3, TransferRefused, AnswerChecked DEF tables
  <2>4. ASSUME NEW r \in Request, NEW u \in User, NEW t \in Request,
               VerifyLookup(r, u, t)
        PROVE  NoOverdraft' /\ Checked'
    <3>1. NoOverdraft'
      BY <2>00, <2>4 DEF VerifyLookup, tables
    <3>2. CASE Goto(r, [at |-> "balance", txn |-> t, payment |-> payments[t]])
      <4> DEFINE state == [at |-> "balance", txn |-> t, payment |-> payments[t]]
      <4>1. state.at = "balance" /\ Goto(r, state)
        BY <3>2
      <4> HIDE DEF state
      <4> QED
        BY <2>0, <3>1, <4>1, GotoChecked
    <3>3. CASE Answer(r, "verify", FALSE)
      BY <2>0, <3>1, <3>3, AnswerChecked
    <3> QED
      BY <2>4, <3>2, <3>3 DEF VerifyLookup
  <2>5. ASSUME NEW r \in Request, InsertAccount(r)
        PROVE  NoOverdraft' /\ Checked'
    <3> DEFINE row == [user_id |-> call[r].user, balance |-> call[r].amount]
    <3>1. /\ call[r].user \in User /\ call[r].amount \in Amount
          /\ call[r].amount >= 0
      BY <2>0, <2>5, HeldTypes DEF InsertAccount, Checked
    <3>2. row \in Account /\ row.balance >= 0
      BY <3>1 DEF Account
    <3>3. accounts' = Append(accounts, row)
      BY <2>5 DEF InsertAccount
    <3>4. NoOverdraft'
      <4> HIDE DEF row
      <4> QED
        BY <2>0, <3>2, <3>3, AppendKeeps
    <3>5. CASE Goto(r, [at |-> "deposit", user |-> call[r].user,
                        amount |-> call[r].amount])
      <4> DEFINE state == [at |-> "deposit", user |-> call[r].user,
                           amount |-> call[r].amount]
      <4>1. state.at = "deposit" /\ Goto(r, state)
        BY <3>5
      <4> HIDE DEF state
      <4> QED
        BY <2>0, <3>4, <4>1, GotoChecked
    <3>6. CASE Answer(r, "createAccount", TRUE)
      BY <2>0, <3>4, <3>6, AnswerChecked
    <3> QED
      BY <2>5, <3>5, <3>6 DEF InsertAccount
  <2>6. ASSUME NEW r \in Request, RecordDeposit(r)
        PROVE  NoOverdraft' /\ Checked'
    BY <2>0, <2>00, <2>6, AnswerChecked DEF RecordDeposit
  <2>7. ASSUME NEW r \in Request, VerifyBalance(r)
        PROVE  NoOverdraft' /\ Checked'
    <3>1. NoOverdraft'
      BY <2>00, <2>7 DEF VerifyBalance, tables
    <3>2. ASSUME NEW i \in RowsOf(call[r].payment.user_id),
                 accounts[i].balance >= call[r].payment.amount,
                 Goto(r, [at |-> "otp", txn |-> call[r].txn,
                          payment |-> call[r].payment,
                          balance |-> accounts[i].balance])
          PROVE  Checked'
      <4> DEFINE state == [at |-> "otp", txn |-> call[r].txn,
                           payment |-> call[r].payment,
                           balance |-> accounts[i].balance]
      <4>1. state.at = "otp" /\ state.balance >= state.payment.amount
        BY <3>2
      <4>2. Goto(r, state)
        BY <3>2
      <4> HIDE DEF state
      <4> QED
        BY <2>0, <4>1, <4>2, GotoChecked
    <3>3. CASE Answer(r, "verify", FALSE)
      BY <2>0, <3>1, <3>3, AnswerChecked
    <3> QED
      BY <2>7, <3>1, <3>2, <3>3 DEF VerifyBalance
  <2>8. ASSUME NEW r \in Request, VerifyOtp(r)
        PROVE  NoOverdraft' /\ Checked'
    <3>1. NoOverdraft'
      BY <2>00, <2>8 DEF VerifyOtp, tables
    <3>2. CASE Goto(r, Holding(r, "update"))
      <4> DEFINE state == Holding(r, "update")
      <4>1. /\ state.balance = call[r].balance
            /\ state.payment = call[r].payment
            /\ state.at = "update"
        BY DEF Holding
      <4>2. call[r].balance >= call[r].payment.amount
        BY <2>8 DEF VerifyOtp, Checked
      <4> HIDE DEF state
      <4>3. state.balance >= state.payment.amount
        BY <4>1, <4>2
      <4> QED
        BY <2>0, <3>1, <3>2, <4>1, <4>3, GotoChecked DEF state
    <3>3. CASE Answer(r, "verify", FALSE)
      BY <2>0, <3>1, <3>3, AnswerChecked
    <3> QED
      BY <2>8, <3>2, <3>3 DEF VerifyOtp
  <2>9. ASSUME NEW r \in Request, UpdateBalance(r)
        PROVE  NoOverdraft' /\ Checked'
    <3>1. /\ call[r].payment.amount \in Int /\ call[r].balance \in Int
          /\ call[r].balance >= call[r].payment.amount
      BY <2>0, <2>9, HeldTypes DEF UpdateBalance, Checked, Payment
    <3>2. PICK i \in RowsOf(call[r].payment.user_id) :
             SetBalance(i, call[r].balance - call[r].payment.amount)
      BY <2>9 DEF UpdateBalance
    <3>3. NoOverdraft'
      BY <2>0, <3>1, <3>2, SetBalanceKeeps DEF RowsOf
    <3>4. Checked'
      <4> DEFINE state == Holding(r, "history")
      <4>1. state.at = "history"
        BY DEF Holding
      <4>2. Goto(r, state)
        BY <2>9 DEF UpdateBalance
      <4> HIDE DEF state
      <4> QED
        BY <2>0, <4>1, <4>2, GotoChecked
    <3> QED
      BY <3>3, <3>4
  <2>10. ASSUME NEW r \in Request, RecordPayment(r)
         PROVE  NoOverdraft' /\ Checked'
    <3>1. Answer(r, "verify", FALSE) /\ UNCHANGED accounts
      BY <2>10 DEF RecordPayment, Insertable
    <3> QED
      BY <2>0, <2>00, <3>1, AnswerChecked
  <2>11. CASE Crash
    <3>1. NoOverdraft'
      BY <2>00, <2>11 DEF Crash, tables
    <3>2. ASSUME NEW q \in Request
          PROVE  call'[q] = CutOff \/ call'[q] = call[q]
      BY <2>11 DEF Crash
    <3>3. CutOff.at = "cut off"
      BY DEF CutOff
    <3> QED
      BY <3>1, <3>2, <3>3 DEF Checked
  <2>12. CASE UNCHANGED vars
    BY <2>12 DEF vars, tables, NoOverdraft, Checked
  <2> QED
    BY <2>1, <2>2, <2>3, <2>4, <2>5, <2>6, <2>7, <2>8, <2>9, <2>10, <2>11,
       <2>12 DEF Next, Submit, Continue
<1> QED
  BY <1>1, <1>2, BankingTypeCorrect, PTL DEF Spec

-----------------------------------------------------------------------------
(* A request that overlaps another is noted.                               *)
OverlapInv ==
    /\ overlapped \subseteq Request
    /\ \A q, r \in Active : q # r => q \in overlapped

(* Nobody has moved the account of a payment that was not overlapped since *)
(* its balance was read.                                                   *)
FreshInv ==
    \A r \in Request \ overlapped :
        call[r].at \in {"otp", "update"} =>
            \A i \in RowsOf(call[r].payment.user_id) :
                RowsOf(call[r].payment.user_id) = {i} =>
                    accounts[i].balance = call[r].balance

(* While no requests have overlapped, a user who is about to get an        *)
(* account has none, and nobody has two.                                   *)
OneInv ==
    overlapped = {} =>
        /\ \A i, j \in 1 .. Len(accounts) :
                accounts[i].user_id = accounts[j].user_id => i = j
        /\ \A r \in Request :
                call[r].at = "insert" => RowsOf(call[r].user) = {}

(* A set with two different elements has more than one.                    *)
LEMMA TwoAreMany ==
    ASSUME NEW S, IsFiniteSet(S), NEW q \in S, NEW r \in S, q # r
    PROVE  Cardinality(S) > 1
<1>1. IsFiniteSet({q}) /\ Cardinality({q}) = 1
  BY FS_Singleton
<1>2. IsFiniteSet({q} \union {r})
  BY <1>1, FS_AddElement
<1>3. Cardinality({q} \union {r}) = 2
  <2>1. r \notin {q}
    OBVIOUS
  <2>2. Cardinality({q} \union {r}) = Cardinality({q}) + 1
    BY <1>1, <2>1, FS_AddElement
  <2> QED
    BY <1>1, <2>2
<1>4. Cardinality({q} \union {r}) <= Cardinality(S)
  <2>1. {q} \union {r} \subseteq S
    OBVIOUS
  <2> QED
    BY <2>1, FS_Subset
<1>5. Cardinality(S) \in Nat
  BY FS_CardinalityType
<1> QED
  BY <1>3, <1>4, <1>5

(* Overlapping is noted, and a note stays.                                 *)
LEMMA StepOverlap ==
    ASSUME OverlapInv, [HistoryNext]_<<vars, overlapped>>
    PROVE  OverlapInv' /\ overlapped \subseteq overlapped'
<1>1. CASE HistoryNext
  <2>1. Active' \subseteq Request /\ IsFiniteSet(Active')
    <3>1. Active' \subseteq Request
      BY DEF Active
    <3>2. IsFiniteSet(Request)
      BY FS_Interval, BankingAssumption DEF Request
    <3> QED
      BY <3>1, <3>2, FS_Subset
  <2>2. ASSUME NEW q \in Active', NEW r \in Active', q # r
        PROVE  q \in overlapped'
    <3>1. Cardinality(Active') > 1
      BY <2>1, <2>2, TwoAreMany
    <3> QED
      BY <1>1, <3>1 DEF HistoryNext
  <2> QED
    BY <1>1, <2>1, <2>2 DEF HistoryNext, OverlapInv
<1>2. CASE UNCHANGED <<vars, overlapped>>
  BY <1>2 DEF OverlapInv, Active, vars
<1> QED
  BY <1>1, <1>2

(* What one request's step does: it moves no other handler, and it moves   *)
(* an account only to insert one or to update a balance.                   *)
LEMMA StepOf ==
    ASSUME TypeOK, NEW r \in Request, Submit(r) \/ Continue(r)
    PROVE  /\ \A q \in Request \ {r} : call'[q] = call[q]
           /\ \/ UNCHANGED accounts
              \/ call[r].at = "insert" /\ InsertAccount(r)
              \/ call[r].at = "update" /\ UpdateBalance(r)
<1>0. call \in [Request -> Handler]
  BY DEF TypeOK, Handler
<1>1. ASSUME NEW state, Goto(r, state)
      PROVE  \A q \in Request \ {r} : call'[q] = call[q]
  BY <1>0, <1>1 DEF Goto
<1>2. ASSUME NEW o, NEW success, Answer(r, o, success)
      PROVE  \A q \in Request \ {r} : call'[q] = call[q]
  BY <1>1, <1>2 DEF Answer
<1>3. ASSUME NEW u \in User, NEW amount \in Amount, NEW to \in User,
             Transfer(r, u, to, amount)
      PROVE  /\ \A q \in Request \ {r} : call'[q] = call[q]
             /\ UNCHANGED accounts
  BY <1>2, <1>3, TransferRefused DEF tables
<1>4. ASSUME NEW u \in User, NEW amount \in Amount,
             \/ CreateAccount(r, u, amount)
             \/ InitiatePayment(r, u, amount)
      PROVE  /\ \A q \in Request \ {r} : call'[q] = call[q]
             /\ UNCHANGED accounts
  BY <1>1, <1>2, <1>4 DEF CreateAccount, InitiatePayment, tables
<1>5. ASSUME NEW u \in User, NEW t \in Request, VerifyLookup(r, u, t)
      PROVE  /\ \A q \in Request \ {r} : call'[q] = call[q]
             /\ UNCHANGED accounts
  BY <1>1, <1>2, <1>5 DEF VerifyLookup, tables
<1>6. CASE InsertAccount(r)
  BY <1>1, <1>2, <1>6 DEF InsertAccount
<1>7. CASE UpdateBalance(r)
  BY <1>1, <1>7 DEF UpdateBalance
<1>8. CASE RecordDeposit(r) \/ RecordPayment(r)
  BY <1>2, <1>8 DEF RecordDeposit, RecordPayment
<1>9. CASE VerifyBalance(r) \/ VerifyOtp(r)
  BY <1>1, <1>2, <1>9 DEF VerifyBalance, VerifyOtp, tables
<1> QED
  BY <1>3, <1>4, <1>5, <1>6, <1>7, <1>8, <1>9 DEF Submit, Continue

(* Which step brings a handler where it is: the account it looked for was  *)
(* not there, the balance it holds is that of a row of the payment's user, *)
(* an accepted OTP leaves what it holds, and it records what it took.      *)
LEMMA ArrivesBy ==
    ASSUME TypeOK, NEW r \in Request, Submit(r) \/ Continue(r)
    PROVE  /\ call'[r].at = "insert" => RowsOf(call'[r].user) = {}
           /\ call'[r].at = "otp" =>
                \E i \in RowsOf(call'[r].payment.user_id) :
                    call'[r].balance = accounts[i].balance
           /\ call'[r].at = "update" =>
                /\ call[r].at = "otp"
                /\ call'[r].payment = call[r].payment
                /\ call'[r].balance = call[r].balance
           /\ call'[r].at \in {"otp", "update"} => UNCHANGED accounts
           /\ call'[r].at = "history" => UpdateBalance(r)
<1> DEFINE h == call'[r]
           Ok == /\ h.at = "insert" => RowsOf(h.user) = {}
                 /\ h.at = "otp" => \E i \in RowsOf(h.payment.user_id) :
                                        h.balance = accounts[i].balance
                 /\ h.at = "update" => /\ call[r].at = "otp"
                                       /\ h.payment = call[r].payment
                                       /\ h.balance = call[r].balance
                 /\ h.at \in {"otp", "update"} => UNCHANGED accounts
                 /\ h.at = "history" => UpdateBalance(r)
<1>0. call \in [Request -> Handler]
  BY DEF TypeOK, Handler
<1>1. ASSUME NEW state, Goto(r, state)
      PROVE  h = state
  BY <1>0, <1>1 DEF Goto
<1>2. ASSUME NEW o, NEW success, Answer(r, o, success)
      PROVE  h.at = "done"
  BY <1>1, <1>2 DEF Answer
<1> HIDE DEF h
<1>3. h.at \in {"done", "deposit", "balance"} => Ok
  OBVIOUS
<1> HIDE DEF Ok
<1>4. ASSUME NEW u \in User, NEW amount \in Amount, NEW to \in User,
             Transfer(r, u, to, amount)
      PROVE  Ok
  BY <1>2, <1>3, <1>4, TransferRefused
<1>5. ASSUME NEW u \in User, NEW amount \in Amount,
             CreateAccount(r, u, amount)
      PROVE  Ok
  <2>1. CASE /\ RowsOf(u) = {}
             /\ Goto(r, [at |-> "insert", user |-> u, amount |-> amount])
    <3>1. h.at = "insert" /\ h.user = u
      BY <1>1, <2>1
    <3> QED
      BY <2>1, <3>1 DEF Ok
  <2>2. CASE Answer(r, "createAccount", FALSE)
    BY <1>2, <1>3, <2>2
  <2> QED
    BY <1>5, <2>1, <2>2 DEF CreateAccount
<1>6. ASSUME NEW u \in User, NEW amount \in Amount,
             InitiatePayment(r, u, amount)
      PROVE  Ok
  BY <1>2, <1>3, <1>6 DEF InitiatePayment
<1>7. ASSUME NEW u \in User, NEW t \in Request, VerifyLookup(r, u, t)
      PROVE  Ok
  <2>1. CASE Goto(r, [at |-> "balance", txn |-> t, payment |-> payments[t]])
    <3>1. h.at = "balance"
      BY <1>1, <2>1
    <3> QED
      BY <1>3, <3>1
  <2>2. CASE Answer(r, "verify", FALSE)
    BY <1>2, <1>3, <2>2
  <2> QED
    BY <1>7, <2>1, <2>2 DEF VerifyLookup
<1>8. CASE InsertAccount(r)
  <2>1. CASE Goto(r, [at |-> "deposit", user |-> call[r].user,
                      amount |-> call[r].amount])
    <3>1. h.at = "deposit"
      BY <1>1, <2>1
    <3> QED
      BY <1>3, <3>1 DEF Ok, h
  <2>2. CASE Answer(r, "createAccount", TRUE)
    BY <1>2, <1>3, <2>2 DEF Ok, h
  <2> QED
    BY <1>8, <2>1, <2>2 DEF InsertAccount
<1>9. CASE RecordDeposit(r) \/ RecordPayment(r)
  BY <1>2, <1>3, <1>9 DEF RecordDeposit, RecordPayment, Ok, h
<1>10. CASE VerifyBalance(r)
  <2>1. ASSUME NEW i \in RowsOf(call[r].payment.user_id),
               Goto(r, [at |-> "otp", txn |-> call[r].txn,
                        payment |-> call[r].payment,
                        balance |-> accounts[i].balance])
        PROVE  Ok
    <3>1. /\ h.at = "otp" /\ h.payment = call[r].payment
          /\ h.balance = accounts[i].balance
      BY <1>1, <2>1
    <3>2. UNCHANGED accounts
      BY <1>10 DEF VerifyBalance, tables
    <3> QED
      BY <2>1, <3>1, <3>2 DEF Ok
  <2>2. CASE Answer(r, "verify", FALSE)
    BY <1>2, <1>3, <2>2 DEF Ok, h
  <2> QED
    BY <1>10, <2>1, <2>2 DEF VerifyBalance, Ok, h
<1>11. CASE VerifyOtp(r)
  <2>1. CASE Goto(r, Holding(r, "update"))
    <3>1. /\ h.at = "update" /\ h.payment = call[r].payment
          /\ h.balance = call[r].balance
      BY <1>1, <2>1 DEF Holding
    <3>2. UNCHANGED accounts /\ call[r].at = "otp"
      BY <1>11 DEF VerifyOtp, tables
    <3> QED
      BY <3>1, <3>2 DEF Ok, h
  <2>2. CASE Answer(r, "verify", FALSE)
    BY <1>2, <1>3, <2>2 DEF Ok, h
  <2> QED
    BY <1>11, <2>1, <2>2 DEF VerifyOtp
<1>12. CASE UpdateBalance(r)
  <2>1. h.at = "history"
    BY <1>1, <1>12 DEF UpdateBalance, Holding
  <2> QED
    BY <1>12, <2>1 DEF Ok, h
<1>13. Ok
  BY <1>4, <1>5, <1>6, <1>7, <1>8, <1>9, <1>10, <1>11, <1>12
     DEF Submit, Continue, Ok, h
<1> QED
  BY <1>13 DEF Ok, h

(* A crash moves no account and leaves no handler halfway.                 *)
LEMMA CrashEnds ==
    ASSUME Crash, NEW r \in Request
    PROVE  UNCHANGED accounts /\ r \notin Active' /\ call'[r].at # "history"
<1>1. CutOff.at = "cut off"
  BY DEF CutOff
<1>2. call'[r] = IF r \in Active THEN CutOff ELSE call[r]
  BY DEF Crash
<1> QED
  BY <1>1, <1>2 DEF Crash, tables, Active

(* A request whose handler is halfway is active.                           *)
LEMMA HalfwayActive ==
    ASSUME NEW r \in Request,
           call[r].at \in {"insert", "otp", "update"}
    PROVE  r \in Active
BY DEF Active

(* A step of one request that moves the accounts while another is halfway  *)
(* overlaps it.                                                            *)
LEMMA MovedUnderway ==
    ASSUME TypeOK, OverlapInv, NEW r \in Request, Submit(r) \/ Continue(r),
           NEW q \in Request \ {r}, call[q].at \in {"insert", "otp", "update"},
           q \notin overlapped
    PROVE  UNCHANGED accounts
<1>1. q \in Active
  BY HalfwayActive
<1>2. ASSUME call[r].at \in {"insert", "update"}
      PROVE  FALSE
  <2>1. r \in Active
    BY <1>2, HalfwayActive
  <2> QED
    BY <1>1, <2>1 DEF OverlapInv
<1> QED
  BY <1>2, StepOf

(* What a payment has read stays true until it is taken.                   *)
LEMMA StepFresh ==
    ASSUME TypeOK, OverlapInv, FreshInv, [HistoryNext]_<<vars, overlapped>>
    PROVE  FreshInv'
<1> SUFFICES ASSUME NEW q \in Request, q \notin overlapped',
                    call'[q].at \in {"otp", "update"},
                    NEW i \in RowsOf(call[q].payment.user_id)',
                    RowsOf(call[q].payment.user_id)' = {i}
             PROVE  accounts'[i].balance = call'[q].balance
  BY DEF FreshInv
<1>0. q \notin overlapped
  BY StepOverlap
<1> DEFINE Kept == /\ call[q].at \in {"otp", "update"}
                   /\ call'[q].payment = call[q].payment
                   /\ call'[q].balance = call[q].balance
                   /\ UNCHANGED accounts
<1>1. ASSUME Kept
      PROVE  accounts'[i].balance = call'[q].balance
  BY <1>0, <1>1 DEF FreshInv, RowsOf
<1>2. ASSUME NEW r \in Request, Submit(r) \/ Continue(r), q # r
      PROVE  Kept
  <2>1. call'[q] = call[q]
    BY <1>2, StepOf
  <2> QED
    BY <1>0, <1>2, <2>1, MovedUnderway
<1>3. ASSUME Submit(q) \/ Continue(q), call'[q].at = "update"
      PROVE  Kept
  BY <1>3, ArrivesBy
<1>4. ASSUME Submit(q) \/ Continue(q), call'[q].at = "otp"
      PROVE  accounts'[i].balance = call'[q].balance
  <2>1. UNCHANGED accounts
    BY <1>4, ArrivesBy
  <2>2. PICK j \in RowsOf(call'[q].payment.user_id) :
            call'[q].balance = accounts[j].balance
    BY <1>4, ArrivesBy
  <2>3. j = i
    BY <2>1, <2>2 DEF RowsOf
  <2> QED
    BY <2>1, <2>2, <2>3
<1>5. ASSUME Crash
      PROVE  FALSE
  <2>1. q \notin Active'
    BY <1>5, CrashEnds
  <2> QED
    BY <2>1 DEF Active
<1>6. ASSUME UNCHANGED <<vars, overlapped>>
      PROVE  Kept
  BY <1>6 DEF vars, tables
<1> QED
  BY <1>1, <1>2, <1>3, <1>4, <1>5, <1>6 DEF HistoryNext, Next

(* Nobody gets a second account.                                           *)
LEMMA StepOne ==
    ASSUME TypeOK, OverlapInv, OneInv, [HistoryNext]_<<vars, overlapped>>
    PROVE  OneInv'
<1> SUFFICES ASSUME overlapped' = {}
             PROVE  /\ \A i, j \in 1 .. Len(accounts') :
                        accounts'[i].user_id = accounts'[j].user_id => i = j
                    /\ \A q \in Request :
                        call'[q].at = "insert" =>
                            RowsOf(call[q].user)' = {}
  BY DEF OneInv
<1>0. overlapped = {}
  BY StepOverlap
<1> DEFINE Single == \A i, j \in 1 .. Len(accounts') :
                        accounts'[i].user_id = accounts'[j].user_id => i = j
           Absent(q) == call'[q].at = "insert" => RowsOf(call[q].user)' = {}
<1>1. ASSUME UNCHANGED accounts
      PROVE  Single
  BY <1>0, <1>1 DEF OneInv
<1>2. ASSUME NEW q \in Request, UNCHANGED accounts, call'[q] = call[q]
      PROVE  Absent(q)
  BY <1>0, <1>2 DEF OneInv, RowsOf
<1>3. ASSUME NEW r \in Request, Submit(r) \/ Continue(r)
      PROVE  Single
  <2>1. CASE call[r].at = "insert" /\ InsertAccount(r)
    <3> DEFINE row == [user_id |-> call[r].user, balance |-> call[r].amount]
    <3>1. accounts' = Append(accounts, row) /\ row.user_id = call[r].user
      BY <2>1 DEF InsertAccount
    <3> HIDE DEF row
    <3>2. \A i \in 1 .. Len(accounts) : accounts[i].user_id # call[r].user
      BY <1>0, <2>1 DEF OneInv, RowsOf
    <3>3. accounts \in Seq(Account)
      BY DEF TypeOK
    <3>4. \A i, j \in 1 .. Len(accounts) :
                accounts[i].user_id = accounts[j].user_id => i = j
      BY <1>0 DEF OneInv
    <3>5. /\ Len(accounts') = Len(accounts) + 1
          /\ accounts'[Len(accounts) + 1] = row
          /\ \A i \in 1 .. Len(accounts) : accounts'[i] = accounts[i]
      BY <3>1, <3>3
    <3> QED
      BY <3>1, <3>2, <3>3, <3>4, <3>5
  <2>2. CASE call[r].at = "update" /\ UpdateBalance(r)
    <3>1. PICK i \in RowsOf(call[r].payment.user_id) :
             SetBalance(i, call[r].balance - call[r].payment.amount)
      BY <2>2 DEF UpdateBalance
    <3>2. accounts \in Seq(Account)
      BY DEF TypeOK
    <3>3. /\ Len(accounts') = Len(accounts)
          /\ \A j \in 1 .. Len(accounts) :
                accounts'[j].user_id = accounts[j].user_id
      BY <3>1, <3>2 DEF SetBalance, Account
    <3> QED
      BY <1>0, <3>3 DEF OneInv
  <2> QED
    BY <1>1, <1>3, <2>1, <2>2, StepOf
<1>4. ASSUME NEW r \in Request, Submit(r) \/ Continue(r),
             NEW q \in Request, call'[q].at = "insert"
      PROVE  RowsOf(call[q].user)' = {}
  <2>1. CASE q # r
    <3>1. call'[q] = call[q]
      BY <1>4, <2>1, StepOf
    <3>2. UNCHANGED accounts
      BY <1>0, <1>4, <2>1, <3>1, MovedUnderway
    <3> QED
      BY <1>2, <1>4, <3>1, <3>2
  <2>2. CASE q = r
    <3>1. RowsOf(call'[r].user) = {}
      BY <1>4, <2>2, ArrivesBy
    <3>2. UNCHANGED accounts
      <4>1. ASSUME NEW state, Goto(r, state)
            PROVE  call'[r] = state
        BY <4>1 DEF Goto, TypeOK
      <4>2. ASSUME InsertAccount(r)
            PROVE  call'[r].at \in {"deposit", "done"}
        BY <4>1, <4>2 DEF InsertAccount, Answer
      <4>3. ASSUME UpdateBalance(r)
            PROVE  call'[r].at = "history"
        BY <4>1, <4>3 DEF UpdateBalance, Holding
      <4> QED
        BY <1>4, <2>2, <4>2, <4>3, StepOf
    <3> QED
      BY <2>2, <3>1, <3>2 DEF RowsOf
  <2> QED
    BY <2>1, <2>2
<1>5. CASE Crash
  <2>1. ASSUME NEW q \in Request
        PROVE  UNCHANGED accounts /\ call'[q].at # "insert"
    BY <1>5, CrashEnds DEF Active
  <2>2. UNCHANGED accounts
    BY <1>5 DEF Crash, tables
  <2> QED
    BY <1>1, <2>1, <2>2
<1>6. CASE UNCHANGED <<vars, overlapped>>
  BY <1>1, <1>2, <1>6 DEF vars, tables
<1> QED
  BY <1>3, <1>4, <1>5, <1>6 DEF HistoryNext, Next

(* A behaviour with the history variable is one without it.                *)
LEMMA HistoryBehaves == HistorySpec => Spec
<1>1. HistoryInit => Init
  BY DEF HistoryInit
<1>2. [HistoryNext]_<<vars, overlapped>> => [Next]_vars
  BY DEF HistoryNext
<1> QED
  BY <1>1, <1>2, PTL DEF HistorySpec, Spec

(* The inductive invariant of accounts and the requests that overlapped.   *)
LEMMA BankingHistoryInv ==
    HistorySpec => [](TypeOK /\ OverlapInv /\ FreshInv /\ OneInv)
<1>1. HistoryInit => OverlapInv /\ FreshInv /\ OneInv
  <2> SUFFICES ASSUME HistoryInit
               PROVE  OverlapInv /\ FreshInv /\ OneInv
    OBVIOUS
  <2>1. \A r \in Request : call[r].at = "new"
    BY DEF HistoryInit, Init, New
  <2>2. OverlapInv
    BY <2>1 DEF HistoryInit, OverlapInv, Active
  <2>3. FreshInv
    BY <2>1 DEF FreshInv
  <2>4. OneInv
    BY <2>1, BankingAssumption DEF HistoryInit, Init, OneInv
  <2> QED
    BY <2>2, <2>3, <2>4
<1>2. ASSUME TypeOK, OverlapInv, FreshInv, OneInv,
             [HistoryNext]_<<vars, overlapped>>
      PROVE  OverlapInv' /\ FreshInv' /\ OneInv'
  BY <1>2, StepOverlap, StepFresh, StepOne
<1> QED
  BY <1>1, <1>2, HistoryBehaves, BankingTypeCorrect, PTL DEF HistorySpec

(* As long as no requests have overlapped, createAccount's look for an     *)
(* account keeps everybody to one.                                         *)
THEOREM OneAccountCorrect == HistorySpec => []OneAccountPerUser
<1>1. OneInv => OneAccountPerUser
  <2> SUFFICES ASSUME OneInv, overlapped = {}, NEW u \in User
               PROVE  Cardinality(RowsOf(u)) <= 1
    BY DEF OneAccountPerUser
  <2>1. CASE RowsOf(u) = {}
    BY <2>1, FS_EmptySet
  <2>2. CASE RowsOf(u) # {}
    <3>1. PICK i : i \in RowsOf(u)
      BY <2>2
    <3>2. RowsOf(u) = {i}
      BY <3>1 DEF OneInv, RowsOf
    <3>3. Cardinality({i}) = 1
      BY FS_Singleton
    <3> QED
      BY <3>2, <3>3
  <2> QED
    BY <2>1, <2>2
<1> QED
  BY <1>1, BankingHistoryInv, PTL

(* verifyTransactionOtp takes exactly the payment's amount from the one    *)
(* account of its user, unless another request overlapped it.              *)
THEOREM DebitCorrect == HistorySpec => DebitExact
<1>1. ASSUME TypeOK, FreshInv, [HistoryNext]_<<vars, overlapped>>,
             NEW r \in Request, r \notin overlapped,
             call[r].at = "update", call'[r].at = "history",
             NEW i \in RowsOf(call[r].payment.user_id)
      PROVE  \/ Cardinality(RowsOf(call[r].payment.user_id)) > 1
             \/ accounts'[i].balance =
                    accounts[i].balance - call[r].payment.amount
  <2> DEFINE rows == RowsOf(call[r].payment.user_id)
  <2>1. UpdateBalance(r)
    <3>1. CASE UNCHANGED <<vars, overlapped>>
      BY <1>1, <3>1 DEF vars
    <3>2. ASSUME NEW q \in Request, Submit(q) \/ Continue(q)
          PROVE  UpdateBalance(r)
      <4>1. q = r
        BY <1>1, <3>2, StepOf
      <4> QED
        BY <1>1, <3>2, <4>1, ArrivesBy
    <3>3. CASE Crash
      BY <1>1, <3>3, CrashEnds
    <3> QED
      BY <1>1, <3>1, <3>2, <3>3 DEF HistoryNext, Next
  <2>2. CASE rows = {i}
    <3>1. SetBalance(i, call[r].balance - call[r].payment.amount)
      BY <2>1, <2>2 DEF UpdateBalance
    <3>2. accounts[i].balance = call[r].balance
      BY <1>1, <2>2 DEF FreshInv
    <3>3. i \in 1 .. Len(accounts) /\ accounts \in Seq(Account)
      BY <1>1 DEF RowsOf, TypeOK
    <3> QED
      BY <3>1, <3>2, <3>3 DEF SetBalance
  <2>3. CASE rows # {i}
    <3>1. PICK j \in rows : j # i
      BY <1>1, <2>3
    <3>2. IsFiniteSet(rows)
      <4>1. rows \subseteq 1 .. Len(accounts)
        BY DEF RowsOf
      <4>2. IsFiniteSet(1 .. Len(accounts))
        BY <1>1, FS_Interval DEF TypeOK
      <4> QED
        BY <4>1, <4>2, FS_Subset
    <3> QED
      BY <1>1, <3>1, <3>2, TwoAreMany
  <2> QED
    BY <2>2, <2>3
<1>2. ASSUME TypeOK, FreshInv, [HistoryNext]_<<vars, overlapped>>
      PROVE  TakesAmount
  BY <1>1, <1>2 DEF TakesAmount
<1> QED
  BY <1>2, BankingHistoryInv, PTL DEF HistorySpec, DebitExact

=============================================================================
