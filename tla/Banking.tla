------------------------------ MODULE Banking ------------------------------
(***************************************************************************)
(* module-banking: accounts (banking.service.ts) and the merchant payments *)
(* a one-time password authorises (transaction-otp.service.ts), for one    *)
(* currency.                                                               *)
(*                                                                         *)
(* As in OtpService an action is a handler up to its next await whose      *)
(* order matters.  The OTP service is seen from outside: it accepts or     *)
(* refuses a code, and takes its time (an upload and a blockchain call).   *)
(* Account statuses are left out: only transferMoney asks for them, and    *)
(* its transfers fail whatever they are.                                   *)
(***************************************************************************)
EXTENDS Integers, Sequences, FiniteSets

CONSTANTS User,
          Amount,          \* the amounts requests name
          InitialAccounts, \* account_balances at the start, in table order
          NoPayment,       \* what the cache holds under an unused key
          Op,              \* the operations requests may ask for
          MaxRequests,     \* bound: HTTP requests, numbered by arrival
          MaxCrashes,      \* bound: restarts of the server
          Parallel         \* bound: requests in progress at once

Request == 1 .. MaxRequests
Operation == {"createAccount", "transfer", "initiate", "verify"}
Account == [user_id : User, balance : Int]

(* cacheManager's entry under otp:<user_id>:<transaction_id>; a request    *)
(* that initiates a payment lends its number to the transaction id.        *)
Payment == [user_id : User, amount : Amount,
            status : {"PENDING", "SUCCESS", "FAILED"}]

ASSUME BankingAssumption ==
    /\ Amount \subseteq Int
    /\ InitialAccounts \in Seq(Account)
    /\ \A i \in 1 .. Len(InitialAccounts) : InitialAccounts[i].balance >= 0
    /\ \A i, j \in 1 .. Len(InitialAccounts) :
            InitialAccounts[i].user_id = InitialAccounts[j].user_id => i = j
    /\ NoPayment \notin Payment
    /\ Op \subseteq Operation
    /\ MaxRequests \in Nat
    /\ MaxCrashes \in Nat
    /\ Parallel \in Nat

VARIABLES accounts, \* the table account_balances
          history,  \* the table transaction_history
          payments, \* the cache of initiated payments
          call,     \* each request: where its handler is and its locals
          debits,   \* history variable: <<request, transaction>> of each debit
          crashes   \* restarts so far

tables == <<accounts, history>>
vars == <<accounts, history, payments, call, debits, crashes>>

(* A row of transaction_history, with the kind of its reference_id and     *)
(* whether it has an ipfs_cid.                                             *)
HistoryRow == [user_id : User, amount : Int, before : Int, after : Int,
               reference_id : {"null", "uuid", "transaction id"},
               ipfs_cid : {"null", "cid"}]

(* What the table accepts: reference_id is a UUID column (V7) and ipfs_cid *)
(* is NOT NULL (V11).                                                      *)
Insertable(row) ==
    /\ row.reference_id \in {"null", "uuid"}
    /\ row.ipfs_cid # "null"

New == [at |-> "new"]
CutOff == [at |-> "cut off"]
InProgress ==
    [at : {"insert", "deposit"}, user : User, amount : Amount]
    \union
    [at : {"balance"}, txn : Request, payment : Payment]
    \union
    [at : {"otp", "update", "history"}, txn : Request, payment : Payment,
     balance : Int]
Done == [at : {"done"}, op : Operation, ok : BOOLEAN]

Active == {r \in Request : call[r].at \notin {"new", "done", "cut off"}}

Init ==
    /\ accounts = InitialAccounts
    /\ history = <<>>
    /\ payments = [t \in Request |-> NoPayment]
    /\ call = [r \in Request |-> New]
    /\ debits = {}
    /\ crashes = 0

Goto(r, state) == call' = [call EXCEPT ![r] = state]
Answer(r, o, success) == Goto(r, [at |-> "done", op |-> o, ok |-> success])

Arrives(r, o) ==
    /\ call[r] = New
    /\ \A q \in 1 .. r - 1 : call[q] # New
    /\ o \in Op
    /\ Cardinality(Active) < Parallel

(* getBalance's findOne: some row of the user, or none.  The table has an  *)
(* index on user and currency, but not a unique one.                       *)
RowsOf(u) == {i \in 1 .. Len(accounts) : accounts[i].user_id = u}
SetBalance(i, b) == accounts' = [accounts EXCEPT ![i] =
                                    [user_id |-> @.user_id, balance |-> b]]

-----------------------------------------------------------------------------
(* Faulty variants, each named for the mistake it makes, precede some      *)
(* definitions.  No specification uses them: replacing the definition by   *)
(* its variant shows that a property is able to fail.                      *)
CreateUnchecked(r, u, initial) ==
    /\ Arrives(r, "createAccount")
    /\ initial >= 0
    /\ Goto(r, [at |-> "insert", user |-> u, amount |-> initial])
    /\ UNCHANGED <<tables, payments, debits, crashes>>

(* createAccount: look for an account, insert one, and record the deposit. *)
(* The three are separate queries; the upload before the last may fail.    *)
CreateAccount(r, u, initial) ==
    /\ Arrives(r, "createAccount")
    /\ initial >= 0
    /\ IF RowsOf(u) = {}
       THEN Goto(r, [at |-> "insert", user |-> u, amount |-> initial])
       ELSE Answer(r, "createAccount", FALSE)
    /\ UNCHANGED <<tables, payments, debits, crashes>>

InsertAccount(r) ==
    /\ call[r].at = "insert"
    /\ accounts' = Append(accounts, [user_id |-> call[r].user,
                                     balance |-> call[r].amount])
    /\ IF call[r].amount > 0
       THEN Goto(r, [at |-> "deposit", user |-> call[r].user,
                     amount |-> call[r].amount])
       ELSE Answer(r, "createAccount", TRUE)
    /\ UNCHANGED <<history, payments, debits, crashes>>

RecordDeposit(r) ==
    /\ call[r].at = "deposit"
    /\ \/ /\ history' = Append(history,
                [user_id |-> call[r].user, amount |-> call[r].amount,
                 before |-> 0, after |-> call[r].amount,
                 reference_id |-> "null", ipfs_cid |-> "cid"])
          /\ Answer(r, "createAccount", TRUE)
       \/ /\ Answer(r, "createAccount", FALSE)
          /\ UNCHANGED history
    /\ UNCHANGED <<accounts, payments, debits, crashes>>

(* transferMoney: one SERIALIZABLE database transaction, so one step.  The *)
(* history rows carry no ipfs_cid, and a row the table refuses rolls the   *)
(* whole transaction back.                                                 *)
TransferRow(u, i, amount) ==
    [user_id |-> u, amount |-> amount, before |-> accounts[i].balance,
     after |-> accounts[i].balance + amount,
     reference_id |-> "uuid", ipfs_cid |-> "null"]

Transfer(r, from, to, amount) ==
    /\ Arrives(r, "transfer")
    /\ amount >= 0
    /\ \/ /\ from = to \/ RowsOf(from) = {} \/ RowsOf(to) = {}
          /\ Answer(r, "transfer", FALSE)
          /\ UNCHANGED tables
       \/ /\ from # to
          /\ \E i \in RowsOf(from), j \in RowsOf(to) :
                LET debit == TransferRow(from, i, -amount)
                    credit == TransferRow(to, j, amount)
                IN IF /\ accounts[i].balance >= amount
                      /\ Insertable(debit) /\ Insertable(credit)
                   THEN /\ accounts' = [accounts EXCEPT
                            ![i] = [user_id |-> from, balance |-> debit.after],
                            ![j] = [user_id |-> to, balance |-> credit.after]]
                        /\ history' = history \o <<debit, credit>>
                        /\ Answer(r, "transfer", TRUE)
                   ELSE /\ Answer(r, "transfer", FALSE)
                        /\ UNCHANGED tables
    /\ UNCHANGED <<payments, debits, crashes>>

-----------------------------------------------------------------------------
InitiateWithoutStatus(r, u, amount) ==
    /\ Arrives(r, "initiate")
    /\ payments' = [payments EXCEPT ![r] = [user_id |-> u, amount |-> amount]]
    /\ Answer(r, "initiate", TRUE)
    /\ UNCHANGED <<tables, debits, crashes>>

(* initiatePayment: a merchant asks for an amount of either sign (the DTO  *)
(* only asks for a number).                                                *)
InitiatePayment(r, u, amount) ==
    /\ Arrives(r, "initiate")
    /\ payments' = [payments EXCEPT ![r] =
            [user_id |-> u, amount |-> amount, status |-> "PENDING"]]
    /\ Answer(r, "initiate", TRUE)
    /\ UNCHANGED <<tables, debits, crashes>>

(* verifyTransactionOtp: look the payment up, read the balance and compare *)
(* it with the amount, have the OTP verified, write the balance that was   *)
(* read less the amount, and record it.  The cached status is never        *)
(* changed.                                                                *)
VerifyLookup(r, u, t) ==
    /\ Arrives(r, "verify")
    /\ IF /\ payments[t] # NoPayment
          /\ payments[t].user_id = u
          /\ payments[t].status = "PENDING"
       THEN Goto(r, [at |-> "balance", txn |-> t, payment |-> payments[t]])
       ELSE Answer(r, "verify", FALSE)
    /\ UNCHANGED <<tables, payments, debits, crashes>>

BalanceUnchecked(r) ==
    /\ call[r].at = "balance"
    /\ \E i \in RowsOf(call[r].payment.user_id) :
          Goto(r, [at |-> "otp", txn |-> call[r].txn,
                   payment |-> call[r].payment,
                   balance |-> accounts[i].balance])
    /\ UNCHANGED <<tables, payments, debits, crashes>>

VerifyBalance(r) ==
    /\ call[r].at = "balance"
    /\ LET p == call[r].payment
           rows == RowsOf(p.user_id)
       IN \/ \E i \in rows :
                /\ accounts[i].balance >= p.amount
                /\ Goto(r, [at |-> "otp", txn |-> call[r].txn, payment |-> p,
                            balance |-> accounts[i].balance])
          \/ /\ \/ rows = {}
                \/ \E i \in rows : accounts[i].balance < p.amount
             /\ Answer(r, "verify", FALSE)
    /\ UNCHANGED <<tables, payments, debits, crashes>>

(* The handler goes on with the payment and the balance it has read.       *)
Holding(r, step) == [at |-> step, txn |-> call[r].txn,
                     payment |-> call[r].payment, balance |-> call[r].balance]

VerifyOtp(r) ==
    /\ call[r].at = "otp"
    /\ \/ Goto(r, Holding(r, "update"))
       \/ Answer(r, "verify", FALSE)
    /\ UNCHANGED <<tables, payments, debits, crashes>>

UpdateAddsAmount(r) ==
    /\ call[r].at = "update"
    /\ LET p == call[r].payment
       IN \E i \in RowsOf(p.user_id) :
            SetBalance(i, call[r].balance + p.amount)
    /\ debits' = debits \union {<<r, call[r].txn>>}
    /\ Goto(r, Holding(r, "history"))
    /\ UNCHANGED <<history, payments, crashes>>

(* updateAccountBalance finds the row again and writes an absolute value.  *)
UpdateBalance(r) ==
    /\ call[r].at = "update"
    /\ LET p == call[r].payment
       IN \E i \in RowsOf(p.user_id) :
            SetBalance(i, call[r].balance - p.amount)
    /\ debits' = debits \union {<<r, call[r].txn>>}
    /\ Goto(r, Holding(r, "history"))
    /\ UNCHANGED <<history, payments, crashes>>

(* The row's reference_id is the transaction id, txn_<time>_<random>.      *)
RecordPayment(r) ==
    /\ call[r].at = "history"
    /\ LET p == call[r].payment
           row == [user_id |-> p.user_id, amount |-> -p.amount,
                   before |-> call[r].balance,
                   after |-> call[r].balance - p.amount,
                   reference_id |-> "transaction id", ipfs_cid |-> "cid"]
       IN IF Insertable(row)
          THEN history' = Append(history, row) /\ Answer(r, "verify", TRUE)
          ELSE Answer(r, "verify", FALSE) /\ UNCHANGED history
    /\ UNCHANGED <<accounts, payments, debits, crashes>>

-----------------------------------------------------------------------------
(* The server restarts: requests are cut off, cached payments are gone.    *)
Crash ==
    /\ crashes < MaxCrashes
    /\ crashes' = crashes + 1
    /\ payments' = [t \in Request |-> NoPayment]
    /\ call' = [r \in Request |-> IF r \in Active THEN CutOff ELSE call[r]]
    /\ UNCHANGED <<tables, debits>>

Submit(r) ==
    \/ \E u \in User, amount \in Amount :
        \/ CreateAccount(r, u, amount)
        \/ InitiatePayment(r, u, amount)
        \/ \E to \in User : Transfer(r, u, to, amount)
    \/ \E u \in User, t \in Request : VerifyLookup(r, u, t)

Continue(r) ==
    \/ InsertAccount(r) \/ RecordDeposit(r)
    \/ VerifyBalance(r) \/ VerifyOtp(r) \/ UpdateBalance(r) \/ RecordPayment(r)

Next ==
    \/ \E r \in Request : Submit(r) \/ Continue(r)
    \/ Crash

Spec == Init /\ [][Next]_vars

-----------------------------------------------------------------------------
(* Tables, cache and handlers hold what their types say.                   *)
TypeOK ==
    /\ accounts \in Seq(Account)
    /\ history \in Seq(HistoryRow)
    /\ payments \in [Request -> Payment \union {NoPayment}]
    /\ call \in [Request -> {New, CutOff} \union InProgress \union Done]
    /\ debits \in SUBSET (Request \X Request)
    /\ crashes \in 0 .. MaxCrashes

(* No balance is ever negative, although verifyTransactionOtp checks a     *)
(* balance it read before the OTP was verified and other requests move the *)
(* account meanwhile: what it writes is derived from what it checked.      *)
NoOverdraft == \A i \in 1 .. Len(accounts) : accounts[i].balance >= 0

(* "Transaction is not pending": a payment that was charged is not charged *)
(* again.                                                                  *)
ChargedOnce ==
    \A t \in Request : Cardinality({d \in debits : d[2] = t}) <= 1

=============================================================================
