-------------------------- MODULE OtpServiceLedger --------------------------
(***************************************************************************)
(* The service with two more history variables, shown to implement         *)
(* PasswordLedger: what was handed out is what entered the cache, and what *)
(* counts as a use is a verifyOtp transaction that carries the password    *)
(* and succeeds in its block.                                              *)
(***************************************************************************)
EXTENDS OtpServiceHistory

VARIABLES issued, uses

ledgerVars == <<vars, disturbed, issued, uses>>

LedgerInit ==
    /\ HistoryInit
    /\ issued = {}
    /\ uses = [pair \in Provider \X Raw |-> 0]

(* The pairs this step puts in the cache: generateOtp is about to answer   *)
(* with their codes.                                                       *)
Cached ==
    {<<cache'[c].auth_provider_id, cache'[c].raw_otp>> :
        c \in {d \in Code : cache'[d] # cache[d] /\ cache'[d] # NoEntry}}

(* The pairs whose verification this step's block accepts.                 *)
Accepted ==
    {<<Head(pending[w]).user, Head(pending[w]).otp>> :
        w \in {v \in Wallet :
                /\ pending[v] # <<>>
                /\ pending'[v] = Tail(pending[v])
                /\ Head(pending[v]).method = "verifyOtp"
                /\ receipt'[Head(pending[v]).by] = "success"}}

LedgerNext ==
    /\ HistoryNext
    /\ issued' = issued \union Cached
    /\ uses' = [pair \in Provider \X Raw |->
                    CASE Withdrawn(pair[1]) -> 0
                      [] pair \in Accepted -> uses[pair] + 1
                      [] OTHER -> uses[pair]]

LedgerSpec == LedgerInit /\ [][LedgerNext]_ledgerVars

-----------------------------------------------------------------------------
Ledger == INSTANCE PasswordLedger WITH Password <- Raw

(* Every step of the service, the chain and the network is a step of the   *)
(* ledger or leaves it alone: no block accepts a password that was not     *)
(* handed out, and none accepts it twice under a registration, however     *)
(* requests overlap, codes collide in the cache, answers are lost and the  *)
(* server restarts.                                                        *)
ImplementsLedger == Ledger!Spec

=============================================================================
