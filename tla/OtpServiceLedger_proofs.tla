---------------------- MODULE OtpServiceLedger_proofs ----------------------
(***************************************************************************)
(* Proof that the service implements the password ledger: no block accepts *)
(* a password that was not handed out, and none accepts it twice while the *)
(* provider stays registered.                                              *)
(***************************************************************************)
EXTENDS OtpServiceLedger, OtpService_proofs, SequenceTheorems

PairOf(entry) == <<entry.auth_provider_id, entry.raw_otp>>
Verifying == {"verifyIndex", "verifySend"}

(* Whatever can still be verified was handed out: what is cached, what a   *)
(* verification holds, and what waits for its block.                       *)
CacheIssued == \A c \in Code : cache[c] # NoEntry => PairOf(cache[c]) \in issued
HeldIssued ==
    \A r \in Request : call[r].at \in Verifying
                            => PairOf(call[r].entry) \in issued
SentIssued ==
    \A w \in Wallet : \A i \in 1 .. Len(pending[w]) :
        pending[w][i].method = "verifyOtp"
            => <<pending[w][i].user, pending[w][i].otp>> \in issued
IssuedInv == CacheIssued /\ HeldIssued /\ SentIssued

(* Every password redeemed under a registration comes before the one the   *)
(* contract is committed to; without a commitment nothing is redeemed.     *)
UsesInv ==
    /\ uses \in [Provider \X Raw -> Nat]
    /\ \A p \in Provider, raw \in Raw : uses[<<p, raw>>] # 0 =>
        /\ otpRecords[p].commitmentValue # Zero
        /\ \A cur \in Raw : otpRecords[p].commitmentValue = Keccak[cur]
                => raw[1] = cur[1] /\ raw[2] < cur[2]

LedgerInv == TypeOK /\ LinkInv /\ IssuedInv /\ UsesInv

-----------------------------------------------------------------------------
(* How a step that is no block treats verifications: it takes one up from  *)
(* the cache, passes it on or drops it, and sends the ones it holds.       *)
Takes(q) ==
    call'[q].at \in Verifying =>
        \/ call[q].at \in Verifying /\ call'[q].entry = call[q].entry
        \/ \E c \in Code : cache[c] # NoEntry /\ call'[q].entry = cache[c]
Sends(v) ==
    \/ pending'[v] = pending[v]
    \/ \E tx \in Transaction :
        /\ pending'[v] = Append(pending[v], tx)
        /\ tx.method = "verifyOtp" =>
            \E r \in Request : /\ call[r].at = "verifySend"
                               /\ <<tx.user, tx.otp>> = PairOf(call[r].entry)
OffChain ==
    /\ UNCHANGED otpRecords
    /\ \A q \in Request : Takes(q)
    /\ \A v \in Wallet : Sends(v)

(* A handler that moves on to something other than a verification.         *)
LEMMA GotoTakes ==
    ASSUME TypeOK, NEW r \in Request, NEW state, Goto(r, state),
           state.at \in Verifying =>
                \/ /\ call[r].at \in Verifying
                   /\ state.entry = call[r].entry
                \/ \E c \in Code : cache[c] # NoEntry
                                   /\ state.entry = cache[c]
    PROVE  \A q \in Request : Takes(q)
<1> SUFFICES ASSUME NEW q \in Request PROVE Takes(q)
  OBVIOUS
<1>1. call'[q] = IF q = r THEN state ELSE call[q]
  BY DEF TypeOK, Goto
<1> QED
  BY <1>1 DEF Takes

(* One that answers.                                                       *)
LEMMA AnswerTakes ==
    ASSUME TypeOK, NEW r \in Request, NEW o, NEW success, Answer(r, o, success)
    PROVE  \A q \in Request : Takes(q)
<1> DEFINE state == [at |-> "done", op |-> o, ok |-> success]
<1>1. state.at \notin Verifying /\ Goto(r, state)
  BY DEF Answer, Verifying
<1> HIDE DEF state
<1> QED
  BY <1>1, GotoTakes

(* A handler that sends a transaction which is no verification, or that of *)
(* the entry it holds.                                                     *)
LEMMA BroadcastSends ==
    ASSUME TypeOK, NEW r \in Request, NEW w \in Wallet, NEW tx \in Transaction,
           Broadcast(r, w, tx),
           tx.method = "verifyOtp" =>
                /\ call[r].at = "verifySend"
                /\ <<tx.user, tx.otp>> = PairOf(call[r].entry)
    PROVE  \A v \in Wallet : Sends(v)
<1> SUFFICES ASSUME NEW v \in Wallet PROVE Sends(v)
  OBVIOUS
<1>1. pending'[v] = IF v = w THEN Append(pending[v], tx) ELSE pending[v]
  BY DEF TypeOK, Broadcast
<1> QED
  BY <1>1 DEF Sends

(* What the handlers send, in these terms.                                 *)
LEMMA SentPairs ==
    ASSUME NEW r \in Request
    PROVE  /\ RegisterTx(r).method # "verifyOtp"
           /\ WindowTx(r).method # "verifyOtp"
           /\ <<VerifyTx(r).user, VerifyTx(r).otp>> = PairOf(call[r].entry)
BY DEF RegisterTx, WindowTx, VerifyTx, PairOf

(* Every step but a block is one off the chain.                            *)
LEMMA OffChainStep ==
    ASSUME TypeOK, [Next]_vars, \A w \in Wallet : ~ Mine(w)
    PROVE  OffChain
<1>0. call \in [Request -> Handler]
  BY DEF TypeOK, Handler
<1>1. /\ UNCHANGED chainVars => UNCHANGED otpRecords
      /\ UNCHANGED netVars => \A v \in Wallet : Sends(v)
      /\ UNCHANGED call => \A q \in Request : Takes(q)
  BY DEF chainVars, netVars, Sends, Takes
<1>2. ASSUME NEW r \in Request, NEW o, NEW success, Answer(r, o, success)
      PROVE  \A q \in Request : Takes(q)
  BY <1>2, AnswerTakes
<1>3. ASSUME NEW r \in Request, NEW w \in Wallet, NEW tx \in Transaction,
             Send(r, w, tx),
             tx.method = "verifyOtp" =>
                /\ call[r].at = "verifySend"
                /\ <<tx.user, tx.otp>> = PairOf(call[r].entry)
      PROVE  \A v \in Wallet : Sends(v)
  BY <1>3, BroadcastSends DEF Send
<1> HIDE DEF Takes, Sends
<1>4. ASSUME NEW r \in Request, NEW p \in Provider, NEW pin \in Pin,
             \/ RegisterPassword(r, p, pin)
             \/ GeneratePassword(r, p, pin)
             \/ SetPin(r, p, pin)
      PROVE  OffChain
  <2>1. CASE \E step \in {"registerIndex", "generateIndex"} :
                Goto(r, [at |-> step, provider |-> p, pin |-> pin])
    <3>1. \A q \in Request : Takes(q)
      BY <2>1, GotoTakes DEF Verifying
    <3> QED
      BY <1>1, <1>4, <3>1
         DEF RegisterPassword, GeneratePassword, SetPin, OffChain
  <2>2. CASE \E o, success : Answer(r, o, success)
    <3>1. \A q \in Request : Takes(q)
      BY <1>2, <2>2
    <3> QED
      BY <1>1, <1>4, <3>1
         DEF RegisterPassword, GeneratePassword, SetPin, OffChain
  <2> QED
    BY <1>4, <2>1, <2>2 DEF RegisterPassword, GeneratePassword, SetPin
<1>5. ASSUME NEW r \in Request, NEW code \in Code, VerifyLookup(r, code)
      PROVE  OffChain
  <2>1. \A q \in Request : Takes(q)
    BY <1>2, <1>5, GotoTakes DEF VerifyLookup
  <2> QED
    BY <1>1, <1>5, <2>1 DEF VerifyLookup, OffChain
<1>6. ASSUME NEW r \in Request, ResetMany(r)
      PROVE  OffChain
  <2>1. \A v \in Wallet : Sends(v)
    BY <1>0, <1>1, <1>3, <1>6, SentTypes DEF ResetMany, Wallet
  <2> QED
    BY <1>1, <1>2, <1>6, <2>1 DEF ResetMany, OffChain
<1>7. ASSUME NEW r \in Request, RegisterIndex(r) \/ GenerateIndex(r)
      PROVE  OffChain
  <2>1. \A q \in Request : Takes(q)
    BY <1>7, GotoTakes DEF RegisterIndex, GenerateIndex, Verifying
  <2> QED
    BY <1>1, <1>7, <2>1 DEF RegisterIndex, GenerateIndex, OffChain
<1>8. ASSUME NEW r \in Request, RegisterSend(r)
      PROVE  OffChain
  <2>1. \A v \in Wallet : Sends(v)
    BY <1>0, <1>1, <1>3, <1>8, SentTypes, SentPairs DEF RegisterSend, Wallet
  <2> QED
    BY <1>1, <1>2, <1>8, <2>1 DEF RegisterSend, OffChain
<1>9. ASSUME NEW r \in Request, GenerateSend(r)
      PROVE  OffChain
  <2>1. \A v \in Wallet : Sends(v)
    BY <1>0, <1>1, <1>3, <1>9, SentTypes, SentPairs DEF GenerateSend, Wallet
  <2>2. \A q \in Request : Takes(q)
    BY <1>2, <1>9, GotoTakes DEF GenerateSend, Verifying
  <2> QED
    BY <1>1, <1>9, <2>1, <2>2 DEF GenerateSend, OffChain
<1>10. ASSUME NEW r \in Request, GenerateCache(r)
       PROVE  OffChain
  BY <1>1, <1>2, <1>10 DEF GenerateCache, OffChain
<1>11. ASSUME NEW r \in Request, VerifyIndex(r)
       PROVE  OffChain
  <2>1. call[r].at \in Verifying
    BY <1>11 DEF VerifyIndex, Verifying
  <2>2. \A q \in Request : Takes(q)
    BY <1>11, <2>1, GotoTakes DEF VerifyIndex
  <2> QED
    BY <1>1, <1>11, <2>2 DEF VerifyIndex, OffChain
<1>12. ASSUME NEW r \in Request, VerifySend(r)
       PROVE  OffChain
  <2>1. \A v \in Wallet : Sends(v)
    BY <1>0, <1>1, <1>3, <1>12, SentTypes, SentPairs DEF VerifySend, Wallet
  <2>2. \A q \in Request : Takes(q)
    BY <1>2, <1>12, GotoTakes DEF VerifySend, ToIncrement, Verifying
  <2> QED
    BY <1>1, <1>12, <2>1, <2>2 DEF VerifySend, OffChain
<1>13. ASSUME NEW r \in Request, IncrementRead(r) \/ IncrementSave(r)
       PROVE  OffChain
  <2>1. \A q \in Request : Takes(q)
    BY <1>2, <1>13, GotoTakes DEF IncrementRead, IncrementSave, Verifying
  <2> QED
    BY <1>1, <1>13, <2>1 DEF IncrementRead, IncrementSave, OffChain
<1>14. ASSUME NEW r \in Request, AnswerLost(r)
       PROVE  OffChain
  <2>1. \A v \in Wallet : Sends(v)
    BY <1>0, <1>3, <1>14, SentTypes, SentPairs DEF AnswerLost, Wallet
  <2> QED
    BY <1>1, <1>2, <1>14, <2>1 DEF AnswerLost, OffChain
<1>15. ASSUME NEW r \in Request, IncrementFails(r)
       PROVE  OffChain
  BY <1>1, <1>2, <1>15 DEF IncrementFails, OffChain
<1>16. ASSUME Tick \/ UNCHANGED vars
       PROVE  OffChain
  BY <1>1, <1>16 DEF Tick, vars, netVars, OffChain
<1>17. ASSUME Crash
       PROVE  OffChain
  <2>1. ASSUME NEW q \in Request PROVE Takes(q)
    <3>1. call'[q] = CutOff \/ call'[q] = call[q]
      BY <1>17 DEF Crash
    <3>2. CutOff.at \notin Verifying
      BY DEF CutOff, Verifying
    <3> QED
      BY <3>1, <3>2 DEF Takes
  <2> QED
    BY <1>1, <1>17, <2>1 DEF Crash, OffChain
<1> QED
  BY <1>4, <1>5, <1>6, <1>7, <1>8, <1>9, <1>10, <1>11, <1>12, <1>13, <1>14,
     <1>15, <1>16, <1>17 DEF Next, Submit, Continue

-----------------------------------------------------------------------------
(* The tail of a queue holds nothing new, and is never the queue itself.   *)
LEMMA TailHolds ==
    ASSUME NEW s \in Seq(Transaction), s # <<>>
    PROVE  /\ Len(Tail(s)) = Len(s) - 1 /\ Len(s) \in Nat
           /\ Tail(s) # s
           /\ \A i \in 1 .. Len(Tail(s)) :
                    i + 1 \in 1 .. Len(s) /\ Tail(s)[i] = s[i + 1]
<1> DEFINE n == Len(s)
           t == Tail(s)
<1>1. n \in Nat
  BY LenProperties
<1>2. Len(t) = n - 1
  BY HeadTailProperties
<1>3. \A i \in 1 .. Len(t) : t[i] = s[i + 1]
  BY HeadTailProperties, Zenon
<1> HIDE DEF n, t
<1>4. Len(t) # n /\ \A i \in 1 .. Len(t) : i + 1 \in 1 .. n
  BY <1>1, <1>2
<1>5. t # s
  BY <1>4, Zenon DEF n
<1> QED
  BY <1>1, <1>2, <1>3, <1>4, <1>5, Zenon DEF n, t

(* What can still be verified after a step was handed out by then.         *)
LEMMA IssuedStep ==
    ASSUME LedgerInv, [Next]_vars, issued' = issued \union Cached
    PROVE  IssuedInv'
<1>1. CacheIssued'
  <2> SUFFICES ASSUME NEW c \in Code, cache'[c] # NoEntry
               PROVE  PairOf(cache'[c]) \in issued'
    BY DEF CacheIssued, PairOf
  <2>1. CASE cache'[c] = cache[c]
    BY <2>1 DEF LedgerInv, IssuedInv, CacheIssued
  <2>2. CASE cache'[c] # cache[c]
    BY <2>2 DEF Cached, PairOf
  <2> QED
    BY <2>1, <2>2
<1>2. HeldIssued'
  <2> SUFFICES ASSUME NEW q \in Request, call'[q].at \in Verifying
               PROVE  PairOf(call'[q].entry) \in issued'
    BY DEF HeldIssued, PairOf
  <2>1. CASE \E w \in Wallet : Mine(w)
    BY <2>1 DEF Mine, LedgerInv, IssuedInv, HeldIssued
  <2>2. CASE \A w \in Wallet : ~ Mine(w)
    <3>1. Takes(q)
      BY <2>2, OffChainStep DEF LedgerInv, OffChain
    <3> QED
      BY <3>1 DEF Takes, LedgerInv, IssuedInv, HeldIssued, CacheIssued
  <2> QED
    BY <2>1, <2>2
<1>3. SentIssued'
  <2> DEFINE Known(tx) ==
                tx.method = "verifyOtp" => <<tx.user, tx.otp>> \in issued
  <2> SUFFICES ASSUME NEW v \in Wallet, NEW i \in 1 .. Len(pending'[v])
               PROVE  Known(pending'[v][i])
    BY DEF SentIssued
  <2>1. pending[v] \in Seq(Transaction)
    BY DEF LedgerInv, TypeOK
  <2>2. \A j \in 1 .. Len(pending[v]) : Known(pending[v][j])
    BY DEF LedgerInv, IssuedInv, SentIssued
  <2> HIDE DEF Known
  <2>3. CASE pending'[v] = pending[v]
    BY <2>2, <2>3
  <2>4. CASE pending[v] # <<>> /\ pending'[v] = Tail(pending[v])
    BY <2>1, <2>2, <2>4, TailHolds
  <2>5. CASE \A w \in Wallet : ~ Mine(w)
    <3>1. Sends(v)
      BY <2>5, OffChainStep DEF LedgerInv, OffChain
    <3>2. ASSUME NEW tx \in Transaction, pending'[v] = Append(pending[v], tx),
                 tx.method = "verifyOtp" =>
                    \E r \in Request :
                        /\ call[r].at = "verifySend"
                        /\ <<tx.user, tx.otp>> = PairOf(call[r].entry)
          PROVE  Known(pending'[v][i])
      <4>1. Known(tx)
        BY <3>2 DEF Known, LedgerInv, IssuedInv, HeldIssued, Verifying
      <4>2. \/ i = Len(pending[v]) + 1 /\ pending'[v][i] = tx
            \/ /\ i \in 1 .. Len(pending[v])
               /\ pending'[v][i] = pending[v][i]
        BY <2>1, <3>2
      <4> QED
        BY <2>2, <4>1, <4>2
    <3> QED
      BY <2>3, <3>1, <3>2 DEF Sends
  <2>6. CASE \E w \in Wallet : Mine(w)
    <3>1. \/ pending'[v] = pending[v]
          \/ pending[v] # <<>> /\ pending'[v] = Tail(pending[v])
      BY <2>6 DEF Mine, LedgerInv, TypeOK
    <3> QED
      BY <2>3, <2>4, <3>1
  <2> QED
    BY <2>5, <2>6
<1> QED
  BY <1>1, <1>2, <1>3 DEF IssuedInv

(* A step hands out one password at most.                                  *)
LEMMA CachedOne ==
    ASSUME TypeOK, [Next]_vars
    PROVE  Cached = {} \/ \E pair \in Provider \X Raw : Cached = {pair}
<1>1. ASSUME NEW r \in Request, GenerateCache(r)
      PROVE  \E pair \in Provider \X Raw : Cached \subseteq {pair}
  <2>1. call[r].entry \in CachedOtpValue
    BY <1>1, HeldTypes DEF GenerateCache, TypeOK, Handler
  <2>2. \A c \in Code : cache'[c] # cache[c] => cache'[c] = call[r].entry
    BY <1>1 DEF GenerateCache, TypeOK
  <2>3. PairOf(call[r].entry) \in Provider \X Raw
    BY <2>1 DEF CachedOtpValue, PairOf
  <2>4. Cached \subseteq {PairOf(call[r].entry)}
    BY <2>2 DEF Cached, PairOf
  <2> QED
    BY <2>3, <2>4
<1>2. ASSUME \A c \in Code : cache'[c] = cache[c] \/ cache'[c] = NoEntry
      PROVE  Cached = {}
  BY <1>2 DEF Cached
<1>3. ASSUME NEW r \in Request,
             \/ Submit(r)
             \/ Continue(r) /\ ~ GenerateCache(r)
             \/ AnswerLost(r) \/ IncrementFails(r)
      PROVE  UNCHANGED cache
  BY <1>3 DEF Submit, Continue, RegisterPassword, GeneratePassword, SetPin,
       VerifyLookup, ResetMany, RegisterIndex, RegisterSend, GenerateIndex,
       GenerateSend, VerifyIndex, VerifySend, IncrementRead, IncrementSave,
       AnswerLost, IncrementFails
<1>4. ASSUME NEW w \in Wallet, Mine(w)
      PROVE  UNCHANGED cache
  BY <1>4 DEF Mine
<1>5. ASSUME Tick \/ UNCHANGED vars
      PROVE  UNCHANGED cache
  BY <1>5 DEF Tick, vars
<1>6. ASSUME Crash
      PROVE  \A c \in Code : cache'[c] = NoEntry
  BY <1>6 DEF Crash
<1> HIDE DEF Cached
<1> QED
  BY <1>1, <1>2, <1>3, <1>4, <1>5, <1>6 DEF Next

-----------------------------------------------------------------------------
(* How the ledger's history counts uses, as LedgerNext writes it, in terms *)
(* of the providers whose registration a step ends.                        *)
Ended == {p \in Provider : Withdrawn(p)}
Counts ==
    uses' = [pair \in Provider \X Raw |->
                CASE pair[1] \in Ended -> 0
                  [] pair \in Accepted -> uses[pair] + 1
                  [] OTHER -> uses[pair]]

(* Off the chain nothing is used and no registration ends.                 *)
LEMMA OffChainUses ==
    ASSUME LedgerInv, OffChain, Counts
    PROVE  uses' = uses /\ UsesInv'
<1>1. Ended = {}
  BY DEF OffChain, Ended, Withdrawn
<1>2. Accepted = {}
  <2> SUFFICES ASSUME NEW v \in Wallet, pending[v] # <<>>,
                      pending'[v] = Tail(pending[v])
               PROVE  FALSE
    BY DEF Accepted
  <2>1. pending[v] \in Seq(Transaction)
    BY DEF LedgerInv, TypeOK
  <2>2. Len(pending'[v]) = Len(pending[v]) - 1 /\ Len(pending[v]) \in Nat
    BY <2>1, TailHolds
  <2>3. Sends(v)
    BY DEF OffChain
  <2>4. \A tx \in Transaction :
            Len(Append(pending[v], tx)) = Len(pending[v]) + 1
    BY <2>1, AppendProperties
  <2>5. \/ Len(pending'[v]) = Len(pending[v])
        \/ Len(pending'[v]) = Len(pending[v]) + 1
    BY <2>3, <2>4 DEF Sends
  <2> QED
    BY <2>2, <2>5
<1>3. uses \in [Provider \X Raw -> Nat]
  BY DEF LedgerInv, UsesInv
<1>4. uses' = [pair \in Provider \X Raw |-> uses[pair]]
  BY <1>1, <1>2 DEF Counts
<1>5. uses' = uses
  BY <1>3, <1>4
<1> QED
  BY <1>5 DEF LedgerInv, UsesInv, OffChain

(* A transaction that reverts changes nothing.                             *)
LEMMA RevertUses ==
    ASSUME LedgerInv, Counts, UNCHANGED chainVars, NEW w \in Wallet,
           Mine(w), receipt'[Head(pending[w]).by] = "reverted"
    PROVE  uses' = uses /\ UsesInv'
<1>1. Ended = {}
  BY DEF chainVars, Ended, Withdrawn
<1>2. Accepted = {}
  <2> SUFFICES ASSUME NEW v \in Wallet, pending[v] # <<>>,
                      pending'[v] = Tail(pending[v]),
                      receipt'[Head(pending[v]).by] = "success"
               PROVE  FALSE
    BY DEF Accepted
  <2>1. pending[v] \in Seq(Transaction)
    BY DEF LedgerInv, TypeOK
  <2>2. Tail(pending[v]) # pending[v]
    BY <2>1, TailHolds
  <2>3. v = w
    BY <2>2 DEF Mine, LedgerInv, TypeOK
  <2> QED
    BY <2>3
<1>3. uses \in [Provider \X Raw -> Nat]
  BY DEF LedgerInv, UsesInv
<1>4. uses' = [pair \in Provider \X Raw |-> uses[pair]]
  BY <1>1, <1>2 DEF Counts
<1>5. uses' = uses
  BY <1>3, <1>4
<1> QED
  BY <1>5 DEF LedgerInv, UsesInv, chainVars

(* What a block's transaction does to the history of uses, in the ledger's *)
(* terms.                                                                  *)
Redeems(pair) ==
    /\ pair \in issued
    /\ uses[pair] = 0
    /\ uses' = [uses EXCEPT ![pair] = 1]
Withdraws(providers) ==
    uses' = [pair \in Provider \X Raw |->
                IF pair[1] \in providers THEN 0 ELSE uses[pair]]

(* A block counts the password its transaction verifies, and no other.     *)
LEMMA BlockAccepts ==
    ASSUME TypeOK, NEW w \in Wallet, NEW tx \in Transaction, Mine(w),
           tx = Head(pending[w]), receipt'[tx.by] = "success"
    PROVE  Accepted = IF tx.method = "verifyOtp" THEN {<<tx.user, tx.otp>>}
                                                 ELSE {}
<1>1. /\ pending[w] \in Seq(Transaction) /\ pending[w] # <<>>
      /\ pending'[w] = Tail(pending[w])
  BY DEF Mine, TypeOK
<1>2. ASSUME NEW v \in Wallet, pending[v] # <<>>,
             pending'[v] = Tail(pending[v])
      PROVE  v = w
  <2>1. pending[v] \in Seq(Transaction)
    BY DEF TypeOK
  <2>2. Tail(pending[v]) # pending[v]
    BY <1>2, <2>1, TailHolds
  <2> QED
    BY <1>2, <2>2 DEF Mine, TypeOK
<1> QED
  BY <1>1, <1>2 DEF Accepted

(* Without a verification the history forgets withdrawn registrations and  *)
(* is otherwise left alone.                                                *)
LEMMA CountsWithdrawn ==
    ASSUME Counts, Accepted = {}
    PROVE  Withdraws(Ended)
BY Zenon DEF Counts, Withdraws

(* With one it counts the password verified.                               *)
LEMMA CountsAccepted ==
    ASSUME Counts, uses \in [Provider \X Raw -> Nat], Ended = {},
           NEW pair \in Provider \X Raw, Accepted = {pair}
    PROVE  uses' = [uses EXCEPT ![pair] = uses[pair] + 1]
<1>1. uses' = [x \in Provider \X Raw |->
                    IF x = pair THEN uses[x] + 1 ELSE uses[x]]
  BY Zenon DEF Counts
<1> QED
  BY <1>1

(* Every transaction a block executes redeems a password that was handed   *)
(* out and not redeemed before, ends registrations, or leaves the history  *)
(* alone; and the passwords redeemed stay behind the commitment.           *)
LEMMA BlockUses ==
    ASSUME LedgerInv, Counts, NEW w \in Wallet, NEW tx \in Transaction,
           Mine(w), tx = Head(pending[w]), Execute(tx, w),
           receipt'[tx.by] = "success"
    PROVE  /\ UsesInv'
           /\ \/ Withdraws(Ended)
              \/ \E pair \in Provider \X Raw : Redeems(pair)
<1>0. /\ otpRecords \in [Provider -> Chain!OTPData]
      /\ uses \in [Provider \X Raw -> Nat]
      /\ \A p \in Provider, raw \in Raw : uses[<<p, raw>>] # 0 =>
            /\ otpRecords[p].commitmentValue # Zero
            /\ \A cur \in Raw : otpRecords[p].commitmentValue = Keccak[cur]
                    => raw[1] = cur[1] /\ raw[2] < cur[2]
  BY DEF LedgerInv, TypeOK, UsesInv
<1>1. Accepted = IF tx.method = "verifyOtp" THEN {<<tx.user, tx.otp>>} ELSE {}
  BY BlockAccepts DEF LedgerInv
<1>2. ASSUME tx.method # "verifyOtp"
      PROVE  Withdraws(Ended)
  BY <1>1, <1>2, CountsWithdrawn
<1>3. ASSUME Withdraws({})
      PROVE  uses' = uses
  BY <1>0, <1>3 DEF Withdraws
<1>4. CASE tx.method = "registerUser"
  <2>1. Chain!RegisterUser(tx.user, tx.commitment, w, w)
    BY <1>4 DEF Execute
  <2>2. /\ otpRecords[tx.user].commitmentValue = Zero
        /\ \A p \in Provider : p # tx.user => otpRecords'[p] = otpRecords[p]
    BY <1>0, <2>1 DEF Chain!RegisterUser, Chain!CanRegisterUser
  <2>3. Ended = {}
    BY <2>2 DEF Ended, Withdrawn
  <2>4. uses' = uses
    BY <1>2, <1>3, <1>4, <2>3
  <2>5. \A p \in Provider, raw \in Raw : uses'[<<p, raw>>] # 0 =>
            otpRecords'[p] = otpRecords[p]
    BY <1>0, <2>2, <2>4
  <2>6. UsesInv'
    BY <1>0, <2>4, <2>5 DEF UsesInv
  <2> QED
    BY <1>2, <1>4, <2>6
<1>5. CASE tx.method = "updateOtpWindow"
  <2>1. Chain!UpdateOtpWindow(tx.user, tx.start, tx.end, w)
    BY <1>5 DEF Execute
  <2>2. \A p \in Provider :
            otpRecords'[p].commitmentValue = otpRecords[p].commitmentValue
    BY <1>0, <2>1 DEF Chain!UpdateOtpWindow
  <2>3. Ended = {}
    BY <2>2 DEF Ended, Withdrawn
  <2>4. uses' = uses
    BY <1>2, <1>3, <1>5, <2>3
  <2>5. UsesInv'
    BY <1>0, <2>2, <2>4 DEF UsesInv
  <2> QED
    BY <1>2, <1>5, <2>5
<1>6. CASE tx.method = "verifyOtp"
  <2> DEFINE p == tx.user
             otp == tx.otp
             next == <<otp[1], otp[2] + 1>>
             pair == <<p, otp>>
  <2>1. Chain!VerifyOtp(p, tx.index, otp, tx.commitment, w, w)
    BY <1>6 DEF Execute
  <2>2. p \in Provider /\ otp \in Raw /\ pair \in Provider \X Raw
    BY <1>6, TransactionTypes
  <2>3. pending[w] \in Seq(Transaction) /\ pending[w] # <<>>
    BY DEF Mine, LedgerInv, TypeOK
  <2>4. 1 \in 1 .. Len(pending[w]) /\ tx = pending[w][1]
    BY <2>3
  <2>5. pair \in issued
    BY <1>6, <2>4 DEF LedgerInv, IssuedInv, SentIssued
  <2>6. otp[2] < MaxIndex /\ tx.commitment = Keccak[next]
    BY <1>6, <2>4 DEF LedgerInv, LinkInv, SentLinked, LinkedTx
  <2>7. /\ otpRecords[p].commitmentValue = Keccak[otp]
        /\ otpRecords'[p].commitmentValue = tx.commitment
        /\ \A q \in Provider : q # p => otpRecords'[q] = otpRecords[q]
    BY <1>0, <2>1, <2>2 DEF Chain!VerifyOtp, Chain!CanVerifyOtp
  <2>8. /\ otp[1] \in Pin /\ otp[2] \in 1 .. MaxIndex
        /\ next \in Raw /\ next[1] = otp[1] /\ next[2] = otp[2] + 1
    BY <2>2, <2>6, ServiceAssumption DEF Raw
  <2>9. Keccak[next] # Zero
    BY <2>8, ServiceAssumption
  <2>10. uses[pair] = 0
    BY <1>0, <2>2, <2>7, <2>8
  <2>11. Ended = {}
    BY <2>6, <2>7, <2>9 DEF Ended, Withdrawn
  <2>12. uses' = [uses EXCEPT ![pair] = 1]
    <3>1. Accepted = {pair}
      BY <1>1, <1>6
    <3>2. uses' = [uses EXCEPT ![pair] = uses[pair] + 1]
      BY <1>0, <2>2, <2>11, <3>1, CountsAccepted
    <3> QED
      BY <2>10, <3>2
  <2>13. uses' \in [Provider \X Raw -> Nat]
    BY <1>0, <2>12
  <2>14. ASSUME NEW q \in Provider, NEW raw \in Raw, uses'[<<q, raw>>] # 0
         PROVE  /\ otpRecords'[q].commitmentValue # Zero
                /\ \A cur \in Raw : otpRecords'[q].commitmentValue = Keccak[cur]
                        => raw[1] = cur[1] /\ raw[2] < cur[2]
    <3>1. CASE q # p
      <4>1. uses'[<<q, raw>>] = uses[<<q, raw>>]
        BY <1>0, <2>12, <3>1
      <4> QED
        BY <1>0, <2>7, <2>14, <3>1, <4>1
    <3>2. CASE q = p
      <4>1. raw = otp \/ uses[<<p, raw>>] # 0
        BY <1>0, <2>12, <2>14, <3>2
      <4>2. raw[2] \in Nat
        BY DEF Raw
      <4>3. raw[1] = otp[1] /\ raw[2] < otp[2] + 1
        BY <1>0, <2>2, <2>7, <2>8, <4>1, <4>2
      <4>4. \A cur \in Raw : Keccak[next] = Keccak[cur] => cur = next
        BY <2>8, ServiceAssumption
      <4> QED
        BY <2>6, <2>7, <2>8, <2>9, <3>2, <4>3, <4>4
    <3> QED
      BY <3>1, <3>2
  <2>15. UsesInv'
    BY <2>13, <2>14 DEF UsesInv
  <2> QED
    BY <2>2, <2>5, <2>10, <2>12, <2>15 DEF Redeems
<1>7. CASE tx.method = "resetManyOtps"
  <2>1. Chain!ResetManyOtps(tx.users, w)
    BY <1>7 DEF Execute
  <2>2. \A p \in Provider :
            \/ otpRecords'[p] = otpRecords[p]
            \/ otpRecords'[p].commitmentValue = Zero
    BY <2>1 DEF Chain!ResetManyOtps, Chain!EmptyRecord
  <2>3. uses' = [pair \in Provider \X Raw |->
                    IF pair[1] \in Ended THEN 0 ELSE uses[pair]]
    BY <1>2, <1>7 DEF Withdraws
  <2>4. uses' \in [Provider \X Raw -> Nat]
    BY <1>0, <2>3, 0 \in Nat
  <2>5. ASSUME NEW q \in Provider, NEW raw \in Raw, uses'[<<q, raw>>] # 0
        PROVE  /\ q \notin Ended
               /\ uses[<<q, raw>>] # 0
    BY <2>3, <2>5
  <2>6. ASSUME NEW q \in Provider, NEW raw \in Raw, uses'[<<q, raw>>] # 0
        PROVE  otpRecords'[q] = otpRecords[q]
    <3>1. q \notin Ended /\ otpRecords[q].commitmentValue # Zero
      BY <1>0, <2>5, <2>6
    <3> QED
      BY <2>2, <3>1 DEF Ended, Withdrawn
  <2>7. UsesInv'
    BY <1>0, <2>4, <2>5, <2>6 DEF UsesInv
  <2> QED
    BY <1>2, <1>7, <2>7
<1> QED
  BY <1>4, <1>5, <1>6, <1>7, TransactionTypes

-----------------------------------------------------------------------------
(* Every behaviour of the service is one of the ledger: no block accepts a *)
(* password that was not handed out, and none accepts it twice under a     *)
(* registration, for any number of providers, PINs, requests and faults.   *)
THEOREM LedgerRefined == LedgerSpec => ImplementsLedger
<1>1. LedgerInit => LedgerInv /\ Ledger!Init
  <2> SUFFICES ASSUME LedgerInit PROVE LedgerInv /\ Ledger!Init
    OBVIOUS
  <2>1. TypeOK /\ LinkInv
    BY InitTyped, InitLinked DEF LedgerInit, HistoryInit
  <2>2. IssuedInv
    BY DEF LedgerInit, HistoryInit, Init, IssuedInv, CacheIssued, HeldIssued, SentIssued,
           New, Verifying
  <2>3. UsesInv
    BY 0 \in Nat DEF LedgerInit, UsesInv
  <2> QED
    BY <2>1, <2>2, <2>3
       DEF LedgerInv, LedgerInit, Ledger!Init, Ledger!Pair
<1>2. ASSUME LedgerInv, [LedgerNext]_ledgerVars
      PROVE  LedgerInv' /\ [Ledger!Next]_(Ledger!vars)
  <2>1. CASE UNCHANGED ledgerVars
    <3>1. [Next]_vars
      BY <2>1 DEF ledgerVars
    <3>2. TypeOK' /\ LinkInv'
      BY <1>2, <3>1, StepTyped, StepLinked DEF LedgerInv
    <3>3. IssuedInv' /\ UsesInv'
      BY <1>2, <2>1 DEF ledgerVars, vars, LedgerInv, IssuedInv, CacheIssued,
         HeldIssued, SentIssued, UsesInv
    <3> QED
      BY <2>1, <3>2, <3>3 DEF ledgerVars, Ledger!vars, LedgerInv
  <2>2. CASE LedgerNext
    <3>1. [Next]_vars /\ Counts /\ issued' = issued \union Cached
      <4>1. \A pair \in Provider \X Raw :
                pair[1] \in Ended <=> Withdrawn(pair[1])
        BY DEF Ended
      <4>2. /\ Next
            /\ issued' = issued \union Cached
            /\ uses' = [pair \in Provider \X Raw |->
                            CASE Withdrawn(pair[1]) -> 0
                              [] pair \in Accepted -> uses[pair] + 1
                              [] OTHER -> uses[pair]]
        BY <2>2, Zenon DEF LedgerNext, HistoryNext
      <4>3. Counts
        BY <4>1, <4>2 DEF Counts
      <4> QED
        BY <4>2, <4>3
    <3>2. TypeOK' /\ LinkInv' /\ IssuedInv'
      BY <1>2, <3>1, StepTyped, StepLinked, IssuedStep DEF LedgerInv
    <3>3. CASE \A w \in Wallet : ~ Mine(w)
      <4>1. uses' = uses /\ UsesInv'
        BY <1>2, <3>1, <3>3, OffChainStep, OffChainUses DEF LedgerInv
      <4>2. Cached = {} \/ \E pair \in Provider \X Raw : Cached = {pair}
        BY <1>2, <3>1, CachedOne DEF LedgerInv
      <4>3. \/ UNCHANGED <<issued, uses>>
            \/ \E pair \in Ledger!Pair : Ledger!Issue(pair)
        BY <3>1, <4>1, <4>2 DEF Ledger!Pair, Ledger!Issue
      <4> QED
        BY <3>2, <4>1, <4>3 DEF LedgerInv, Ledger!Next, Ledger!vars
    <3>4. ASSUME NEW w \in Wallet, Mine(w)
          PROVE  LedgerInv' /\ [Ledger!Next]_(Ledger!vars)
      <4> DEFINE tx == Head(pending[w])
      <4>1. tx \in Transaction
        BY <1>2, <3>4 DEF Mine, LedgerInv, TypeOK
      <4>2. Cached = {}
        BY <3>4 DEF Mine, Cached
      <4>3. issued' = issued
        BY <3>1, <4>2
      <4>4. CASE UNCHANGED chainVars /\ receipt'[tx.by] = "reverted"
        <5>1. uses' = uses /\ UsesInv'
          BY <1>2, <3>1, <3>4, <4>4, RevertUses
        <5> QED
          BY <3>2, <4>3, <5>1 DEF LedgerInv, Ledger!vars
      <4>5. CASE Execute(tx, w) /\ receipt'[tx.by] = "success"
        <5>1. /\ UsesInv'
              /\ \/ Withdraws(Ended)
                 \/ \E pair \in Provider \X Raw : Redeems(pair)
          BY <1>2, <3>1, <3>4, <4>1, <4>5, BlockUses
        <5>2. CASE Withdraws(Ended)
          <6>1. Ended \in SUBSET Provider
            BY DEF Ended, Withdrawn
          <6>2. Ledger!Withdraw(Ended)
            BY <4>3, <5>2 DEF Withdraws, Ledger!Withdraw, Ledger!Pair
          <6> QED
            BY <3>2, <5>1, <6>1, <6>2 DEF LedgerInv, Ledger!Next
        <5>3. CASE \E pair \in Provider \X Raw : Redeems(pair)
          <6>1. \E pair \in Ledger!Pair : Ledger!Redeem(pair)
            BY <4>3, <5>3 DEF Redeems, Ledger!Redeem, Ledger!Pair
          <6> QED
            BY <3>2, <5>1, <6>1 DEF LedgerInv, Ledger!Next
        <5> QED
          BY <5>1, <5>2, <5>3
      <4>6. tx.by \in Request
        BY <4>1, TransactionTypes
      <4> QED
        BY <1>2, <3>4, <4>4, <4>5, <4>6 DEF Mine, LedgerInv, TypeOK
    <3> QED
      BY <3>3, <3>4
  <2> QED
    BY <1>2, <2>1, <2>2
<1> QED
  BY <1>1, <1>2, PTL DEF LedgerSpec, ImplementsLedger, Ledger!Spec

=============================================================================
