--------------------------- MODULE MCUserAccounts ---------------------------
(* Sign-up and providers on small instances.  Two requests in progress     *)
(* hold at most four connections and need a fifth: a pool of five never    *)
(* runs dry.                                                               *)
EXTENDS AccountsHistory

CONSTANTS alice, bob

=============================================================================
