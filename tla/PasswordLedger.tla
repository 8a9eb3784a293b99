--------------------------- MODULE PasswordLedger ---------------------------
(***************************************************************************)
(* What generating and verifying one-time passwords promises, whatever     *)
(* requests, caches, blocks and restarts lie in between: a password is     *)
(* redeemed only after it was handed out, and once, until the provider it  *)
(* belongs to is enrolled anew.                                            *)
(***************************************************************************)
EXTENDS Naturals

CONSTANTS Provider, Password

VARIABLES issued, \* <<provider, password>> pairs handed out so far
          uses    \* how often each was redeemed since its enrolment

vars == <<issued, uses>>

Pair == Provider \X Password

Init == issued = {} /\ uses = [pair \in Pair |-> 0]

Issue(pair) ==
    /\ issued' = issued \union {pair}
    /\ UNCHANGED uses

Redeem(pair) ==
    /\ pair \in issued
    /\ uses[pair] = 0
    /\ uses' = [uses EXCEPT ![pair] = 1]
    /\ UNCHANGED issued

(* The enrolment of some providers ends.                                   *)
Withdraw(providers) ==
    /\ uses' = [pair \in Pair |->
                    IF pair[1] \in providers THEN 0 ELSE uses[pair]]
    /\ UNCHANGED issued

Next ==
    \/ \E pair \in Pair : Issue(pair) \/ Redeem(pair)
    \/ \E providers \in SUBSET Provider : Withdraw(providers)

Spec == Init /\ [][Next]_vars

=============================================================================
