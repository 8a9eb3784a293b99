-------------------------- MODULE InternalService --------------------------
(***************************************************************************)
(* The routes of internal.controller.ts and the methods of                 *)
(* module-otp/otp.service.ts behind them: blacklisting, roles, resets and  *)
(* money, with registrations and window updates, whose transactions leave  *)
(* the same wallets.                                                       *)
(*                                                                         *)
(* OtpService takes a broadcast for one step.  Here it is what ethers      *)
(* makes of it: ask the node for the wallet's next nonce and the gas, then *)
(* broadcast; another send of the same wallet may come in between.  The    *)
(* sends of one handler run in parallel (Promise.all), and those still     *)
(* running when it answers go on.  The contract is module OTPSystem.       *)
(***************************************************************************)
EXTENDS Naturals, Sequences, FiniteSets

CONSTANTS Provider,     \* the auth providers a user may have
          Digest, Zero, \* as in OTPSystem
          Gas,          \* the price of a transaction
          Amount,       \* what a wallet is funded and refunded with
          AdminBalance, \* the administrator's money at the start
          Op,           \* the operations requests may ask for
          MaxRequests,  \* bound: HTTP requests, numbered by arrival
          MaxFaults,    \* bound: restarts
          Parallel      \* bound: requests in progress at once

Request == 1 .. MaxRequests
Operation == {"blacklist", "removeFromBlacklist", "reset", "grantRole",
              "fund", "refund", "register", "window", "addProvider"}
Wallet == {"admin", "user"}

ASSUME InternalAssumption ==
    /\ IsFiniteSet(Provider)
    /\ Zero \in Digest
    /\ Digest # {Zero}
    /\ Gas \in Nat \ {0}
    /\ Amount \in Nat
    /\ Gas <= Amount
    /\ AdminBalance \in Nat
    /\ Op \subseteq Operation
    /\ MaxRequests \in Nat
    /\ MaxFaults \in Nat
    /\ Parallel \in Nat

VARIABLES otpRecords, blacklisted, roles, log,  \* the contract's state
          live,    \* the user's auth_providers rows that are not deleted
          balance, \* each wallet's money in the latest block
          mined,   \* each wallet's transactions in the chain: its next nonce
          pool,    \* the transactions the node holds
          sends,   \* the calls of sendTransaction that are running
          call,    \* each request: where its handler is
          replaced, \* history variable: requests a transaction of which was
                    \* replaced in the pool
          faults   \* restarts so far

contractVars == <<otpRecords, blacklisted, roles, log>>
nodeVars == <<contractVars, balance, mined, pool, replaced>>
vars == <<nodeVars, live, sends, call, faults>>

(* Time does not pass in this module: windows stay open.                   *)
Chain == INSTANCE OTPSystem WITH
            UserId <- Provider, Account <- Wallet, Deployer <- "admin",
            Otp <- {}, Keccak <- <<>>, now <- 1, MaxTime <- 1,
            MaxEvents <- 0

-----------------------------------------------------------------------------
(* What a transaction calls.  A transfer calls no contract.                *)
Method == [method : {"blacklistUser", "registerUser", "updateOtpWindow"},
           user : Provider]
          \union [method : {"resetManyOtps"}, users : SUBSET Provider]
          \union [method : {"grantRole"}, role : Chain!Role, account : Wallet]
          \union [method : {"transfer"}, to : Wallet]
Transaction == [by : Request, from : Wallet, does : Method, nonce : Nat]

(* A running sendTransaction, before and after it has its nonce and gas.   *)
Sending == [by : Request, from : Wallet, does : Method, at : {"populate"}]
           \union
           [by : Request, from : Wallet, does : Method, at : {"broadcast"},
            nonce : Nat]

(* A handler waits for its sends, left of them; a registration for the     *)
(* funding first.  users are the providers its contract calls name.  The   *)
(* error of an answer is what its details name.                            *)
New == [at |-> "new"]
CutOff == [at |-> "cut off"]
InProgress == [at : {"sending"}, op : Operation, users : SUBSET Provider,
               left : Nat \ {0}]
              \union [at : {"funding"}, op : {"register"},
                      users : SUBSET Provider, left : {1}]
Error == {"none", "reverted", "nonce", "funds", "not found", "no function"}
Done == [at : {"done"}, op : Operation, users : SUBSET Provider,
         error : Error]

Active == {r \in Request : call[r].at \in {"sending", "funding"}}

Init ==
    /\ live \in SUBSET Provider \ {{}}
    /\ \E enrolled \in SUBSET live :
        /\ otpRecords = [p \in Provider |->
                IF p \in enrolled
                THEN [Chain!EmptyRecord EXCEPT !.index = 1,
                        !.commitmentValue = CHOOSE d \in Digest : d # Zero]
                ELSE Chain!EmptyRecord]
        /\ log = [p \in Provider |->
                    IF p \in enrolled THEN <<"UserRegistered">> ELSE <<>>]
        /\ balance = [w \in Wallet |->
                IF w = "admin" THEN AdminBalance
                ELSE Cardinality(enrolled) * (Amount - Gas)]
        /\ mined = [w \in Wallet |-> Cardinality(enrolled)]
    /\ blacklisted = [p \in Provider |-> FALSE]
    /\ roles = [role \in Chain!Role |-> {"admin"}]
    /\ pool = {}
    /\ sends = {}
    /\ call = [r \in Request |-> New]
    /\ replaced = {}
    /\ faults = 0

Answer(r, o, users, error) ==
    call' = [call EXCEPT ![r] = [at |-> "done", op |-> o, users |-> users,
                                 error |-> error]]

Arrives(r, o) ==
    /\ call[r] = New
    /\ \A q \in 1 .. r - 1 : call[q] # New
    /\ o \in Op
    /\ Cardinality(Active) < Parallel

(* The handler starts one sendTransaction per call and awaits them all.    *)
Launch(r, o, w, users, calls) ==
    /\ call' = [call EXCEPT ![r] = [at |-> "sending", op |-> o,
                                    users |-> users,
                                    left |-> Cardinality(calls)]]
    /\ sends' = sends \union {[by |-> r, from |-> w, does |-> c,
                               at |-> "populate"] : c \in calls}

Calls(method, users) == {[method |-> method, user |-> p] : p \in users}
Transfer(w) == [method |-> "transfer", to |-> w]

-----------------------------------------------------------------------------
(* Faulty variants, each named for the mistake it makes, precede some      *)
(* definitions below.  No specification uses them: replacing the           *)
(* definition by its variant shows that a property is able to fail.        *)
BlacklistOneProvider(r) ==
    /\ Arrives(r, "blacklist")
    /\ live # {}
    /\ Launch(r, "blacklist", "admin", live,
              Calls("blacklistUser", {CHOOSE p \in live : TRUE}))
    /\ UNCHANGED <<nodeVars, live, faults>>

(* blacklistUser: a call for each live provider of the user.               *)
Blacklist(r) ==
    /\ Arrives(r, "blacklist")
    /\ IF live = {}
       THEN Answer(r, "blacklist", {}, "not found") /\ UNCHANGED sends
       ELSE Launch(r, "blacklist", "admin", live,
                   Calls("blacklistUser", live))
    /\ UNCHANGED <<nodeVars, live, faults>>

(* removeFromBlacklist calls contract.removeFromBlacklist.  The contract's *)
(* function is named removeUserFromBlacklist: the call throws.             *)
RemoveFromBlacklist(r) ==
    /\ Arrives(r, "removeFromBlacklist")
    /\ Answer(r, "removeFromBlacklist", live,
              IF live = {} THEN "not found" ELSE "no function")
    /\ UNCHANGED <<nodeVars, live, sends, faults>>

(* resetManyOtps: one call for all live providers.                         *)
ResetManyOtps(r) ==
    /\ Arrives(r, "reset")
    /\ IF live = {}
       THEN Answer(r, "reset", {}, "not found") /\ UNCHANGED sends
       ELSE Launch(r, "reset", "admin", live,
                   {[method |-> "resetManyOtps", users |-> live]})
    /\ UNCHANGED <<nodeVars, live, faults>>

GrantRole(r, role, w) ==
    /\ Arrives(r, "grantRole")
    /\ Launch(r, "grantRole", "admin", {},
              {[method |-> "grantRole", role |-> role, account |-> w]})
    /\ UNCHANGED <<nodeVars, live, faults>>

FundUserWallet(r) ==
    /\ Arrives(r, "fund")
    /\ Launch(r, "fund", "admin", {}, {Transfer("user")})
    /\ UNCHANGED <<nodeVars, live, faults>>

RefundToAdminWallet(r) ==
    /\ Arrives(r, "refund")
    /\ Launch(r, "refund", "user", {}, {Transfer("admin")})
    /\ UNCHANGED <<nodeVars, live, faults>>

RegisterUnfunded(r, p) ==
    /\ Arrives(r, "register")
    /\ p \in live
    /\ call' = [call EXCEPT ![r] = [at |-> "sending", op |-> "register",
                                    users |-> {p}, left |-> 2]]
    /\ sends' = sends \union
            {[by |-> r, from |-> "admin", does |-> Transfer("user"),
              at |-> "populate"],
             [by |-> r, from |-> "user", at |-> "populate",
              does |-> [method |-> "registerUser", user |-> p]]}
    /\ UNCHANGED <<nodeVars, live, faults>>

(* registerUser funds the user's wallet first.                             *)
RegisterUser(r, p) ==
    /\ Arrives(r, "register")
    /\ IF p \notin live
       THEN Answer(r, "register", {p}, "not found") /\ UNCHANGED sends
       ELSE /\ call' = [call EXCEPT ![r] = [at |-> "funding", left |-> 1,
                                     op |-> "register", users |-> {p}]]
            /\ sends' = sends \union {[by |-> r, from |-> "admin",
                            does |-> Transfer("user"), at |-> "populate"]}
    /\ UNCHANGED <<nodeVars, live, faults>>

(* generateOtp's updateOtpWindow.                                          *)
UpdateOtpWindow(r, p) ==
    /\ Arrives(r, "window")
    /\ IF p \notin live
       THEN Answer(r, "window", {p}, "not found") /\ UNCHANGED sends
       ELSE Launch(r, "window", "admin", {p}, Calls("updateOtpWindow", {p}))
    /\ UNCHANGED <<nodeVars, live, faults>>

(* A provider's row commits, as in UserAccounts.                           *)
AddProvider(r, p) ==
    /\ Arrives(r, "addProvider")
    /\ p \notin live
    /\ live' = live \union {p}
    /\ Answer(r, "addProvider", {p}, "none")
    /\ UNCHANGED <<nodeVars, sends, faults>>

-----------------------------------------------------------------------------
(* What becomes of the handler when one of its sends ends.  Promise.all    *)
(* rejects at the first error; the sends of a handler that has answered    *)
(* end unnoticed.                                                          *)
End(r, error) == Answer(r, call[r].op, call[r].users, error)

SentUncounted(s) ==
    /\ sends' = sends \ {s}
    /\ IF s.by \in Active /\ call[s.by].at = "sending"
       THEN call' = [call EXCEPT ![s.by].left = @ - 1]
       ELSE UNCHANGED call

Sent(s) ==
    LET r == s.by
    IN IF r \notin Active
       THEN UNCHANGED call /\ sends' = sends \ {s}
       ELSE IF call[r].at = "funding"
       THEN /\ call' = [call EXCEPT ![r].at = "sending"]
            /\ sends' = (sends \ {s}) \union
                    {[by |-> r, from |-> "user", does |-> c,
                      at |-> "populate"] :
                        c \in Calls("registerUser", call[r].users)}
       ELSE /\ sends' = sends \ {s}
            /\ IF call[r].left = 1
               THEN End(r, "none")
               ELSE call' = [call EXCEPT ![r].left = @ - 1]

FailedUnnoticed(s, error) ==
    /\ sends' = sends \ {s}
    /\ IF s.by \in Active /\ call[s.by].at = "funding"
       THEN End(s.by, error)
       ELSE UNCHANGED call

Failed(s, error) ==
    /\ sends' = sends \ {s}
    /\ IF s.by \in Active THEN End(s.by, error) ELSE UNCHANGED call

Of(w) == {tx \in pool : tx.from = w}

NonceCountedHere(w) ==
    mined[w] + Cardinality(Of(w))
    + Cardinality({s \in sends : s.from = w /\ s.at = "broadcast"})

(* The first nonce of the wallet that neither the chain nor the pool has   *)
(* (getNonce("pending")).                                                  *)
PendingNonce(w) ==
    CHOOSE n \in mined[w] .. mined[w] + Cardinality(pool) :
        /\ \A tx \in Of(w) : tx.nonce # n
        /\ \A k \in mined[w] .. n - 1 : \E tx \in Of(w) : tx.nonce = k

(* What a call does in a block, and whether it succeeds there.             *)
Succeeds(c, w) ==
    CASE c.method = "blacklistUser" -> Chain!HasRole("ADMIN_ROLE", w)
      [] c.method = "registerUser" -> Chain!CanRegisterUser(c.user, w, w)
      [] c.method = "updateOtpWindow" ->
            Chain!CanUpdateOtpWindow(c.user, 1, 2, w)
      [] c.method = "resetManyOtps" -> Chain!HasRole("ADMIN_ROLE", w)
      [] c.method = "grantRole" -> Chain!HasRole("DEFAULT_ADMIN_ROLE", w)
      [] c.method = "transfer" -> balance[w] >= Amount

Execute(c, w) ==
    CASE c.method = "blacklistUser" -> Chain!BlacklistUser(c.user, w)
      [] c.method = "registerUser" ->
            Chain!RegisterUser(c.user, CHOOSE d \in Digest : d # Zero, w, w)
      [] c.method = "updateOtpWindow" ->
            Chain!UpdateOtpWindow(c.user, 1, 2, w)
      [] c.method = "resetManyOtps" -> Chain!ResetManyOtps(c.users, w)
      [] c.method = "grantRole" -> Chain!GrantRole(c.role, c.account, w)
      [] c.method = "transfer" -> UNCHANGED contractVars

(* sendTransaction asks for the nonce and estimates the gas on the latest  *)
(* block; the price of the gas is no part of the estimate.                 *)
Populate(s) ==
    /\ s.at = "populate"
    /\ IF Succeeds(s.does, s.from)
       THEN /\ sends' = (sends \ {s}) \union
                    {[by |-> s.by, from |-> s.from, does |-> s.does,
                      at |-> "broadcast", nonce |-> PendingNonce(s.from)]}
            /\ UNCHANGED call
       ELSE Failed(s, IF s.does.method = "transfer" THEN "funds"
                                                    ELSE "reverted")
    /\ UNCHANGED <<nodeVars, live, faults>>

(* The node refuses a nonce that is mined, and one that its pool has       *)
(* unless the new transaction pays enough more and replaces the other; and *)
(* a transaction the wallet cannot pay after those it has in the pool.     *)
Cost(c) == IF c.method = "transfer" THEN Gas + Amount ELSE Gas
Owed(txs) ==
    Gas * Cardinality(txs)
    + Amount * Cardinality({tx \in txs : tx.does.method = "transfer"})
Rivals(s) == {tx \in Of(s.from) : tx.nonce = s.nonce}
Payable(s) == Owed(Of(s.from) \ Rivals(s)) + Cost(s.does) <= balance[s.from]

Accept(s) ==
    /\ s.nonce >= mined[s.from]
    /\ Payable(s)
    /\ pool' = (pool \ Rivals(s)) \union
                {[by |-> s.by, from |-> s.from, does |-> s.does,
                  nonce |-> s.nonce]}
    /\ replaced' = replaced \union {tx.by : tx \in Rivals(s)}
    /\ Sent(s)

Refuse(s) ==
    /\ \/ /\ s.nonce < mined[s.from] \/ Rivals(s) # {}
          /\ Failed(s, "nonce")
       \/ /\ s.nonce >= mined[s.from]
          /\ ~ Payable(s)
          /\ Failed(s, "funds")
    /\ UNCHANGED <<pool, replaced>>

Broadcast(s) ==
    /\ s.at = "broadcast"
    /\ Accept(s) \/ Refuse(s)
    /\ UNCHANGED <<contractVars, balance, mined, live, faults>>

(* A block with a wallet's next transaction.  Its gas is paid in any case. *)
Mine(w) ==
    \E tx \in Of(w) :
        /\ tx.nonce = mined[w]
        /\ mined' = [mined EXCEPT ![w] = @ + 1]
        /\ pool' = pool \ {tx}
        /\ \/ /\ Succeeds(tx.does, w)
              /\ Execute(tx.does, w)
              /\ balance' = [v \in Wallet |->
                    IF v = w THEN balance[v] - Cost(tx.does)
                    ELSE IF tx.does = Transfer(v) THEN balance[v] + Amount
                    ELSE balance[v]]
           \/ /\ ~ Succeeds(tx.does, w)
              /\ balance' = [balance EXCEPT ![w] = @ - Gas]
              /\ UNCHANGED contractVars
        /\ UNCHANGED <<live, sends, call, replaced, faults>>

(* The server restarts; what was broadcast is mined all the same.          *)
Crash ==
    /\ faults < MaxFaults
    /\ faults' = faults + 1
    /\ sends' = {}
    /\ call' = [r \in Request |-> IF r \in Active THEN CutOff ELSE call[r]]
    /\ UNCHANGED <<nodeVars, live>>

-----------------------------------------------------------------------------
Submit(r) ==
    \/ Blacklist(r) \/ RemoveFromBlacklist(r) \/ ResetManyOtps(r)
    \/ \E role \in Chain!Role : GrantRole(r, role, "user")
    \/ FundUserWallet(r) \/ RefundToAdminWallet(r)
    \/ \E p \in Provider :
        RegisterUser(r, p) \/ UpdateOtpWindow(r, p) \/ AddProvider(r, p)

Progress(r) ==
    \E s \in sends : s.by = r /\ (Populate(s) \/ Broadcast(s))

Next ==
    \/ \E r \in Request : Submit(r) \/ Progress(r)
    \/ \E w \in Wallet : Mine(w)
    \/ Crash

Spec == Init /\ [][Next]_vars

-----------------------------------------------------------------------------
(* The chain, the node, the rows and the handlers hold what their types    *)
(* say; no wallet is overdrawn.                                            *)
TypeOK ==
    /\ otpRecords \in [Provider -> Chain!OTPData]
    /\ blacklisted \in [Provider -> BOOLEAN]
    /\ roles \in [Chain!Role -> SUBSET Wallet]
    /\ log \in [Provider -> Seq(Chain!Event)]
    /\ live \in SUBSET Provider
    /\ balance \in [Wallet -> Nat]
    /\ mined \in [Wallet -> Nat]
    /\ pool \in SUBSET Transaction
    /\ sends \in SUBSET Sending
    /\ call \in [Request -> {New, CutOff} \union InProgress \union Done]
    /\ replaced \in SUBSET Request
    /\ faults \in 0 .. MaxFaults

(* The transactions the node holds of a wallet continue its nonces without *)
(* a gap, whichever sends collide, replace each other, are refused or are  *)
(* cut off: a gap would hold up every later transaction for ever.          *)
NoNonceGap ==
    \A w \in Wallet :
        {tx.nonce : tx \in Of(w)} = mined[w] .. mined[w] + Cardinality(Of(w)) - 1

(* A handler in progress waits for sends that are running, all of them and *)
(* no others: whichever of a Promise.all fails first, and whatever the     *)
(* rest of its sends do later, no request waits for ever or is answered    *)
(* before its last send.                                                   *)
AwaitsItsSends ==
    \A r \in Active : call[r].left = Cardinality({s \in sends : s.by = r})

(* "User blacklisted successfully": when nothing is running or pending,    *)
(* every provider an acknowledged blacklisting found is blacklisted,       *)
(* unless another send replaced a transaction of it in the pool.           *)
Quiet == Active = {} /\ sends = {} /\ pool = {}
Answered(r, o, error) ==
    call[r].at = "done" /\ call[r].op = o /\ call[r].error = error
BlacklistingHolds ==
    \A r \in Request :
        Quiet /\ Answered(r, "blacklist", "none") /\ r \notin replaced
        => \A p \in call[r].users : blacklisted[p]

(* "Fund user wallet for registering": a registration is refused because   *)
(* its wallet cannot pay only while a funding of the wallet waits for a    *)
(* block, a transaction was replaced, or someone had the wallet's money    *)
(* refunded.  The funding that waits need not be its own: a registration   *)
(* that spends the money of another is paid back by its own funding.       *)
Refunding == \E q \in Request : call[q] \notin {New, CutOff}
                                /\ call[q].op = "refund"
Fundings == {tx \in Of("admin") : tx.does = Transfer("user")}
RefusedUnfunded(r) ==
    /\ r \in Active /\ call[r].op = "register"
    /\ call[r].at = "sending"
    /\ call'[r].at = "done" /\ call'[r].error = "funds"
Unpaid ==
    \A r \in Request :
        RefusedUnfunded(r) => Fundings # {} \/ replaced # {} \/ Refunding
FundingPays == [][Unpaid]_vars

(* "User removed from blacklist successfully": a removal that found the    *)
(* user's providers lifts the blacklisting that preceded it.               *)
RemovalLifts ==
    \A r \in Request :
        /\ Quiet
        /\ call[r].at = "done" /\ call[r].op = "removeFromBlacklist"
        /\ \A q \in Request : q > r => call[q] = New
        => \A p \in live : ~ blacklisted[p]

=============================================================================
