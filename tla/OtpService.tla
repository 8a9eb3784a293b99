----------------------------- MODULE OtpService -----------------------------
(***************************************************************************)
(* module-otp/otp.service.ts: the server that registers a user's           *)
(* authentication providers on the contract, generates one-time passwords  *)
(* and verifies them, with the state those handlers share: the otp_index   *)
(* rows of the database, the in-memory cache of issued codes and the       *)
(* transactions that were broadcast and wait to be mined.                  *)
(*                                                                         *)
(* A handler is an HTTP request that runs to its next await, and one       *)
(* action is the code between two awaits whose order matters; between two  *)
(* actions any other handler, a block, a tick of the clock or a crash may  *)
(* come.  The contract is module OTPSystem, composed by INSTANCE.          *)
(***************************************************************************)
EXTENDS Naturals, Sequences, FiniteSets

CONSTANTS Provider,    \* the user's live auth providers (a password, PINs)
          Pin,         \* the provider_id texts a provider may be set to
          MaxRequests, \* bound: HTTP requests, numbered by arrival
          Op,          \* the operations requests may ask for
          Code,        \* the numeric codes shown to the user
          CodeOf,      \* generateNumericOtpFromHash, on raw passwords
          Digest, Zero, Keccak,   \* as in OTPSystem
          NoEntry,     \* what the cache holds under an unused key
          Duration,    \* seconds a window stays open
          MaxTime,     \* bound: last block timestamp considered
          MaxEvents,   \* bound of OTPSystem: no limit in this composition
          MaxIndex,    \* bound: largest otp_index a password is derived from
          MaxFaults,   \* bound: restarts, failed queries and lost answers
          Parallel     \* bound: requests in progress at once

Request == 1 .. MaxRequests
Operation == {"register", "generate", "verify", "reset", "setPin"}

(* username and secret_key are fixed for a user, so a raw password is      *)
(* determined by the provider_id text and the index, and not by which      *)
(* provider it is for.                                                     *)
Raw == Pin \X (1 .. MaxIndex)

ASSUME ServiceAssumption ==
    /\ CodeOf \in [Raw -> Code]
    /\ Zero \in Digest
    /\ Keccak \in [Raw -> Digest \ {Zero}]
    /\ \A x, y \in Raw : Keccak[x] = Keccak[y] => x = y
    /\ Op \subseteq Operation
    /\ MaxRequests \in Nat
    /\ Duration \in Nat \ {0}
    /\ MaxTime \in Nat
    /\ MaxIndex \in Nat \ {0}
    /\ MaxFaults \in Nat
    /\ Parallel \in Nat

VARIABLES otpRecords, now, log,  \* the contract's state
          pending,   \* per wallet, the broadcast transactions by nonce
          receipt,   \* what became of each request's transaction
          otpIndex,  \* user_otp_index_count.otp_index, per provider
          secret,    \* auth_providers.provider_id, per provider
          cache,     \* cacheManager: entries under otp:<user_id>:<code>
          call,      \* each request: where its handler is and its locals
          faults    \* restarts so far

chainVars == <<otpRecords, now, log>>
netVars == <<pending, receipt>>
dbVars == <<otpIndex, secret>>
vars == <<otpRecords, now, log, pending, receipt, otpIndex, secret, cache,
          call, faults>>

Wallet == {"admin", "user"}

(* The contract as deployed by the admin wallet, with one blockchain user  *)
(* id per provider (getBlockchainUserId).  Roles and the blacklist do not  *)
(* change in this module.                                                  *)
Chain == INSTANCE OTPSystem WITH
            UserId <- Provider, Account <- Wallet, Deployer <- "admin",
            Otp <- Raw, MaxTime <- MaxTime + Duration,
            blacklisted <- [p \in Provider |-> FALSE],
            roles <- [r \in {"DEFAULT_ADMIN_ROLE", "ADMIN_ROLE"} |-> {"admin"}]

-----------------------------------------------------------------------------
CachedOtpValue == [raw_otp : Raw, auth_provider_id : Provider,
                   new_commitment_value : Digest]
ASSUME EntryAssumption == NoEntry \notin CachedOtpValue

Transaction ==
    [method : {"registerUser"}, by : Request, user : Provider,
     commitment : Digest]
    \union
    [method : {"updateOtpWindow"}, by : Request, user : Provider,
     start : Nat, end : Nat]
    \union
    [method : {"verifyOtp"}, by : Request, user : Provider, index : Nat,
     otp : Raw, commitment : Digest]
    \union
    [method : {"resetManyOtps"}, by : Request, users : SUBSET Provider]

(* Handlers at an await, with what they hold.                              *)
New == [at |-> "new"]
InProgress ==
    [at : {"registerIndex", "generateIndex"}, provider : Provider, pin : Pin]
    \union
    [at : {"registerSend"}, provider : Provider, pin : Pin,
     index : 1 .. MaxIndex]
    \union
    [at : {"generateSend"}, provider : Provider, pin : Pin,
     index : 1 .. MaxIndex - 1, start : Nat]
    \union
    [at : {"generateCache"}, entry : CachedOtpValue]
    \union
    [at : {"verifyIndex"}, entry : CachedOtpValue]
    \union
    [at : {"verifySend"}, entry : CachedOtpValue, index : Nat]
    \union
    [at : {"incrementRead"}, provider : Provider]
    \union
    [at : {"incrementSave"}, provider : Provider, otp_index : Nat \ {0}]
Done == [at : {"done"}, op : Operation, ok : BOOLEAN]
CutOff == [at |-> "cut off"]

Active == {r \in Request : call[r].at \notin {"new", "done", "cut off"}}

(* Faulty variants, each named for the mistake it makes, precede some      *)
(* definitions below.  No specification uses them: replacing the           *)
(* definition by its variant shows that a property is able to fail.        *)
InitAtZero ==
    /\ otpRecords = [p \in Provider |-> Chain!EmptyRecord]
    /\ now = 1
    /\ log = [p \in Provider |-> <<>>]
    /\ pending = [w \in Wallet |-> <<>>]
    /\ receipt = [r \in Request |-> "none"]
    /\ otpIndex = [p \in Provider |-> 0]
    /\ secret \in [Provider -> Pin]
    /\ cache = [c \in Code |-> NoEntry]
    /\ call = [r \in Request |-> New]
    /\ faults = 0

Init ==
    /\ otpRecords = [p \in Provider |-> Chain!EmptyRecord]
    /\ now = 1
    /\ log = [p \in Provider |-> <<>>]
    /\ pending = [w \in Wallet |-> <<>>]
    /\ receipt = [r \in Request |-> "none"]
    /\ otpIndex = [p \in Provider |-> 1]
    /\ secret \in [Provider -> Pin]
    /\ cache = [c \in Code |-> NoEntry]
    /\ call = [r \in Request |-> New]
    /\ faults = 0

Goto(r, state) == call' = [call EXCEPT ![r] = state]
Answer(r, o, success) == Goto(r, [at |-> "done", op |-> o, ok |-> success])

(* A new request for operation o; Parallel bounds those in progress.       *)
Arrives(r, o) ==
    /\ call[r] = New
    /\ \A q \in 1 .. r - 1 : call[q] # New
    /\ o \in Op
    /\ Cardinality(Active) < Parallel

(* What a transaction does to the contract.  The call runs on the state    *)
(* its block finds: it may revert although estimateGas let it pass.        *)
Succeeds(tx, w) ==
    CASE tx.method = "registerUser" -> Chain!CanRegisterUser(tx.user, w, w)
      [] tx.method = "updateOtpWindow" ->
            Chain!CanUpdateOtpWindow(tx.user, tx.start, tx.end, w)
      [] tx.method = "verifyOtp" ->
            Chain!CanVerifyOtp(tx.user, tx.index, tx.otp, w, w)
      [] tx.method = "resetManyOtps" -> TRUE

Execute(tx, w) ==
    CASE tx.method = "registerUser" ->
            Chain!RegisterUser(tx.user, tx.commitment, w, w)
      [] tx.method = "updateOtpWindow" ->
            Chain!UpdateOtpWindow(tx.user, tx.start, tx.end, w)
      [] tx.method = "verifyOtp" ->
            Chain!VerifyOtp(tx.user, tx.index, tx.otp, tx.commitment, w, w)
      [] tx.method = "resetManyOtps" -> Chain!ResetManyOtps(tx.users, w)

(* contract.<method>(...) up to the broadcast: the transaction gets the    *)
(* wallet's next nonce.  Nobody waits for it to be mined.                  *)
Broadcast(r, w, tx) ==
    /\ pending' = [pending EXCEPT ![w] = Append(@, tx)]
    /\ receipt' = [receipt EXCEPT ![r] = "pending"]

(* estimateGas runs the call on the latest block and refuses a reverting   *)
(* one; a handler whose send is refused or fails answers with an error.    *)
Send(r, w, tx) == Succeeds(tx, w) /\ Broadcast(r, w, tx)

-----------------------------------------------------------------------------
(* registerUser: check the provider_id text, read the index, then audit    *)
(* receipt, funding and broadcast.  IPFS, the funding transaction, gas,    *)
(* nonces and estimateGas may fail the last step.                          *)
RegisterPassword(r, p, pin) ==
    /\ Arrives(r, "register")
    /\ IF secret[p] = pin
       THEN Goto(r, [at |-> "registerIndex", provider |-> p, pin |-> pin])
       ELSE Answer(r, "register", FALSE)
    /\ UNCHANGED <<chainVars, netVars, dbVars, cache, faults>>

RegisterIndex(r) ==
    /\ call[r].at = "registerIndex"
    /\ otpIndex[call[r].provider] <= MaxIndex
    /\ Goto(r, [at |-> "registerSend", provider |-> call[r].provider,
                pin |-> call[r].pin, index |-> otpIndex[call[r].provider]])
    /\ UNCHANGED <<chainVars, netVars, dbVars, cache, faults>>

RegisterTx(r) ==
    [method |-> "registerUser", by |-> r, user |-> call[r].provider,
     commitment |-> Keccak[<<call[r].pin, call[r].index>>]]

RegisterSend(r) ==
    /\ call[r].at = "registerSend"
    /\ \/ /\ Send(r, "user", RegisterTx(r))
          /\ Answer(r, "register", TRUE)
       \/ /\ Answer(r, "register", FALSE)
          /\ UNCHANGED netVars
    /\ UNCHANGED <<chainVars, dbVars, cache, faults>>

(* generateOtp with updateOtpWindow: the window starts at the server's     *)
(* clock when the index has been read; the code enters the cache only      *)
(* after the window's transaction is sent.                                 *)
GeneratePassword(r, p, pin) ==
    /\ Arrives(r, "generate")
    /\ IF secret[p] = pin
       THEN Goto(r, [at |-> "generateIndex", provider |-> p, pin |-> pin])
       ELSE Answer(r, "generate", FALSE)
    /\ UNCHANGED <<chainVars, netVars, dbVars, cache, faults>>

GenerateIndex(r) ==
    /\ call[r].at = "generateIndex"
    /\ otpIndex[call[r].provider] < MaxIndex
    /\ Goto(r, [at |-> "generateSend", provider |-> call[r].provider,
                pin |-> call[r].pin, index |-> otpIndex[call[r].provider],
                start |-> now])
    /\ UNCHANGED <<chainVars, netVars, dbVars, cache, faults>>

EntrySameIndex(p, pin, index) ==
    [raw_otp |-> <<pin, index>>, auth_provider_id |-> p,
     new_commitment_value |-> Keccak[<<pin, index>>]]

(* The password of this index and the commitment of the next one.          *)
Entry(p, pin, index) ==
    [raw_otp |-> <<pin, index>>, auth_provider_id |-> p,
     new_commitment_value |-> Keccak[<<pin, index + 1>>]]

WindowTx(r) ==
    [method |-> "updateOtpWindow", by |-> r, user |-> call[r].provider,
     start |-> call[r].start, end |-> call[r].start + Duration]

GenerateSend(r) ==
    /\ call[r].at = "generateSend"
    /\ \/ /\ Send(r, "admin", WindowTx(r))
          /\ Goto(r, [at |-> "generateCache",
                      entry |-> Entry(call[r].provider, call[r].pin,
                                      call[r].index)])
       \/ /\ Answer(r, "generate", FALSE)
          /\ UNCHANGED netVars
    /\ UNCHANGED <<chainVars, dbVars, cache, faults>>

GenerateCache(r) ==
    /\ call[r].at = "generateCache"
    /\ cache' = [cache EXCEPT ![CodeOf[call[r].entry.raw_otp]] = call[r].entry]
    /\ Answer(r, "generate", TRUE)
    /\ UNCHANGED <<chainVars, netVars, dbVars, faults>>

VerifyDerivesCode(r, code) ==
    /\ Arrives(r, "verify")
    /\ \E p \in Provider :
        /\ CodeOf[<<secret[p], otpIndex[p]>>] = code
        /\ Goto(r, [at |-> "verifyIndex",
                    entry |-> Entry(p, secret[p], otpIndex[p])])
    /\ UNCHANGED <<chainVars, netVars, dbVars, cache, faults>>

(* verifyOtp: look the code up, read the index, sign and send, and         *)
(* increment the index: incrementOtpIndex reads the row and saves it back  *)
(* in two queries, without a lock.  The cache entry stays.                 *)
VerifyLookup(r, code) ==
    /\ Arrives(r, "verify")
    /\ IF cache[code] = NoEntry
       THEN Answer(r, "verify", FALSE)
       ELSE Goto(r, [at |-> "verifyIndex", entry |-> cache[code]])
    /\ UNCHANGED <<chainVars, netVars, dbVars, cache, faults>>

VerifyIndex(r) ==
    /\ call[r].at = "verifyIndex"
    /\ LET entry == call[r].entry
       IN Goto(r, [at |-> "verifySend", entry |-> entry,
                   index |-> otpIndex[entry.auth_provider_id]])
    /\ UNCHANGED <<chainVars, netVars, dbVars, cache, faults>>

VerifyTx(r) ==
    [method |-> "verifyOtp", by |-> r,
     user |-> call[r].entry.auth_provider_id, index |-> call[r].index,
     otp |-> call[r].entry.raw_otp,
     commitment |-> call[r].entry.new_commitment_value]

ToIncrement(r) == Goto(r, [at |-> "incrementRead",
                           provider |-> call[r].entry.auth_provider_id])

VerifyWithoutEstimate(r) ==
    /\ call[r].at = "verifySend"
    /\ Broadcast(r, "user", VerifyTx(r))
    /\ ToIncrement(r)
    /\ UNCHANGED <<chainVars, dbVars, cache, faults>>

VerifyWithoutSend(r) ==
    /\ call[r].at = "verifySend"
    /\ ToIncrement(r)
    /\ UNCHANGED <<chainVars, netVars, dbVars, cache, faults>>

VerifySend(r) ==
    /\ call[r].at = "verifySend"
    /\ \/ /\ Send(r, "user", VerifyTx(r))
          /\ ToIncrement(r)
       \/ /\ Answer(r, "verify", FALSE)
          /\ UNCHANGED netVars
    /\ UNCHANGED <<chainVars, dbVars, cache, faults>>

IncrementRead(r) ==
    /\ call[r].at = "incrementRead"
    /\ Goto(r, [at |-> "incrementSave", provider |-> call[r].provider,
                otp_index |-> otpIndex[call[r].provider] + 1])
    /\ UNCHANGED <<chainVars, netVars, dbVars, cache, faults>>

SaveNothing(r) ==
    /\ call[r].at = "incrementSave"
    /\ Answer(r, "verify", TRUE)
    /\ UNCHANGED <<chainVars, netVars, dbVars, cache, faults>>

IncrementSave(r) ==
    /\ call[r].at = "incrementSave"
    /\ otpIndex' = [otpIndex EXCEPT ![call[r].provider] = call[r].otp_index]
    /\ Answer(r, "verify", TRUE)
    /\ UNCHANGED <<chainVars, netVars, secret, cache, faults>>

(* resetManyOtps, by the administrator, for all the user's providers.      *)
ResetMany(r) ==
    /\ Arrives(r, "reset")
    /\ \/ /\ Send(r, "admin", [method |-> "resetManyOtps", by |-> r,
                               users |-> Provider])
          /\ Answer(r, "reset", TRUE)
       \/ /\ Answer(r, "reset", FALSE)
          /\ UNCHANGED netVars
    /\ UNCHANGED <<chainVars, dbVars, cache, faults>>

(* AuthProviderService.setPin on a provider that exists: the new hash is   *)
(* saved, and neither the contract nor the index hears of it.              *)
SetPin(r, p, pin) ==
    /\ Arrives(r, "setPin")
    /\ secret' = [secret EXCEPT ![p] = pin]
    /\ Answer(r, "setPin", TRUE)
    /\ UNCHANGED <<chainVars, netVars, otpIndex, cache, faults>>

-----------------------------------------------------------------------------
(* A block with the oldest transaction of a wallet.                        *)
MineOnlySuccesses(w) ==
    /\ pending[w] # <<>>
    /\ pending' = [pending EXCEPT ![w] = Tail(@)]
    /\ Execute(Head(pending[w]), w)
    /\ receipt' = [receipt EXCEPT ![Head(pending[w]).by] = "success"]
    /\ UNCHANGED <<dbVars, cache, call, faults>>

Mine(w) ==
    /\ pending[w] # <<>>
    /\ pending' = [pending EXCEPT ![w] = Tail(@)]
    /\ LET tx == Head(pending[w])
       IN \/ /\ Execute(tx, w)
             /\ receipt' = [receipt EXCEPT ![tx.by] = "success"]
          \/ /\ ~ Succeeds(tx, w)
             /\ receipt' = [receipt EXCEPT ![tx.by] = "reverted"]
             /\ UNCHANGED chainVars
    /\ UNCHANGED <<dbVars, cache, call, faults>>

Tick ==
    /\ now < MaxTime
    /\ now' = now + 1
    /\ UNCHANGED <<otpRecords, log, netVars, dbVars, cache, call, faults>>

(* The node accepts a transaction but its answer is lost: the handler      *)
(* answers with an error all the same.                                     *)
AnswerLost(r) ==
    /\ faults < MaxFaults
    /\ faults' = faults + 1
    /\ \/ /\ call[r].at = "registerSend"
          /\ Send(r, "user", RegisterTx(r))
          /\ Answer(r, "register", FALSE)
       \/ /\ call[r].at = "generateSend"
          /\ Send(r, "admin", WindowTx(r))
          /\ Answer(r, "generate", FALSE)
       \/ /\ call[r].at = "verifySend"
          /\ Send(r, "user", VerifyTx(r))
          /\ Answer(r, "verify", FALSE)
    /\ UNCHANGED <<chainVars, dbVars, cache>>

(* A query of incrementOtpIndex fails after the transaction was sent: the  *)
(* verification is answered with an error and the index stays.             *)
IncrementFails(r) ==
    /\ faults < MaxFaults
    /\ faults' = faults + 1
    /\ call[r].at \in {"incrementRead", "incrementSave"}
    /\ Answer(r, "verify", FALSE)
    /\ UNCHANGED <<chainVars, netVars, dbVars, cache>>

(* The server restarts: requests in progress are cut off and the cache,    *)
(* which lives in memory, is empty.  What was broadcast or saved stays.    *)
Crash ==
    /\ faults < MaxFaults
    /\ faults' = faults + 1
    /\ cache' = [c \in Code |-> NoEntry]
    /\ call' = [r \in Request |->
                    IF r \in Active THEN CutOff ELSE call[r]]
    /\ UNCHANGED <<chainVars, netVars, dbVars>>

-----------------------------------------------------------------------------
Submit(r) ==
    \/ \E p \in Provider, pin \in Pin :
        \/ RegisterPassword(r, p, pin)
        \/ GeneratePassword(r, p, pin)
        \/ SetPin(r, p, pin)
    \/ \E code \in Code : VerifyLookup(r, code)
    \/ ResetMany(r)

Continue(r) ==
    \/ RegisterIndex(r) \/ RegisterSend(r)
    \/ GenerateIndex(r) \/ GenerateSend(r) \/ GenerateCache(r)
    \/ VerifyIndex(r) \/ VerifySend(r) \/ IncrementRead(r) \/ IncrementSave(r)

Next ==
    \/ \E r \in Request : Submit(r) \/ Continue(r)
    \/ \E r \in Request : AnswerLost(r) \/ IncrementFails(r)
    \/ \E w \in Wallet : Mine(w)
    \/ Tick
    \/ Crash

(* Node's event loop runs every continuation whose await has completed,    *)
(* and the chain keeps producing blocks.  Nobody has to submit requests.   *)
Fairness ==
    /\ \A r \in Request : WF_vars(Continue(r))
    /\ \A w \in Wallet : WF_vars(Mine(w))

Spec == Init /\ [][Next]_vars /\ Fairness

-----------------------------------------------------------------------------
(* Every variable has the type its store gives it.                         *)
TypeOK ==
    /\ otpRecords \in [Provider -> Chain!OTPData]
    /\ now \in 1 .. MaxTime + 1
    /\ pending \in [Wallet -> Seq(Transaction)]
    /\ receipt \in [Request -> {"none", "pending", "success", "reverted"}]
    /\ otpIndex \in [Provider -> Nat \ {0}]
    /\ secret \in [Provider -> Pin]
    /\ cache \in [Code -> CachedOtpValue \union {NoEntry}]
    /\ call \in [Request -> {New, CutOff} \union InProgress \union Done]
    /\ faults \in 0 .. MaxFaults

(* The chain of passwords of one provider, as the contract sees it: while  *)
(* it stays registered, its commitment only ever moves from the hash of    *)
(* one password to the hash of its successor, derived from the same        *)
(* provider_id text, in step with the index.  So no password is accepted   *)
(* twice under a registration, whatever the handlers, the cache, crashes   *)
(* and PIN changes do in between.                                          *)
Successor(c, d) ==
    \E raw \in Raw : /\ raw[2] < MaxIndex
                     /\ c = Keccak[raw]
                     /\ d = Keccak[<<raw[1], raw[2] + 1>>]
MovesForward ==
    \A p \in Provider :
        /\ otpRecords[p].commitmentValue # Zero
        /\ otpRecords'[p].commitmentValue # Zero
        => \/ /\ otpRecords'[p].commitmentValue = otpRecords[p].commitmentValue
              /\ otpRecords'[p].index = otpRecords[p].index
           \/ /\ Successor(otpRecords[p].commitmentValue,
                           otpRecords'[p].commitmentValue)
              /\ otpRecords'[p].index = otpRecords[p].index + 1

ChainMovesForward == [][MovesForward]_vars

Registered(p) == otpRecords[p].commitmentValue # Zero
Quiet == Active = {} /\ \A w \in Wallet : pending[w] = <<>>

(* A verification the user was told had succeeded is not undone: its       *)
(* transaction does not revert when its block is mined.                    *)
Acknowledged(r) == call[r] = [at |-> "done", op |-> "verify", ok |-> TRUE]
AcknowledgedStands ==
    \A r \in Request : Acknowledged(r) => receipt[r] # "reverted"

(* No request waits for ever, and every broadcast transaction is decided.  *)
EverythingSettles ==
    \A r \in Request :
        /\ r \in Active ~> r \notin Active
        /\ receipt[r] = "pending" ~> receipt[r] \in {"success", "reverted"}

=============================================================================
