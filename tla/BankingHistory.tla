--------------------------- MODULE BankingHistory ---------------------------
(***************************************************************************)
(* Banking with a history variable that tells which requests another one   *)
(* overlapped, and what holds of the others.                               *)
(***************************************************************************)
EXTENDS Banking

VARIABLE overlapped

HistoryInit == Init /\ overlapped = {}
HistoryNext ==
    /\ Next
    /\ overlapped' = IF Cardinality(Active') > 1
                     THEN overlapped \union Active' ELSE overlapped

HistorySpec == HistoryInit /\ [][HistoryNext]_<<vars, overlapped>>

-----------------------------------------------------------------------------
(* A payment no other request overlaps, of a user with one account, takes  *)
(* its amount, no more and no less, from the balance the account has when  *)
(* it is taken, whatever overlapping requests left behind before.          *)
TakesAmount ==
    \A r \in Request :
        /\ call[r].at = "update" /\ call'[r].at = "history"
        /\ r \notin overlapped
        => \A i \in RowsOf(call[r].payment.user_id) :
                \/ Cardinality(RowsOf(call[r].payment.user_id)) > 1
                \/ accounts'[i].balance =
                        accounts[i].balance - call[r].payment.amount

(* Every step takes a payment's amount so.                                 *)
DebitExact == [][TakesAmount]_vars

(* "Account already exists for this currency": a user has one account, as  *)
(* long as no requests overlap.                                            *)
OneAccountPerUser ==
    overlapped = {} => \A u \in User : Cardinality(RowsOf(u)) <= 1

=============================================================================
