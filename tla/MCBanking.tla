----------------------------- MODULE MCBanking -----------------------------
(* Two users, one of them with an account that holds three units.          *)
EXTENDS BankingHistory

CONSTANTS alice, bob

MCAmount == {-1, 2}
MCInitialAccounts == <<[user_id |-> alice, balance |-> 3]>>

=============================================================================
