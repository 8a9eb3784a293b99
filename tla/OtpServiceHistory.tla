-------------------------- MODULE OtpServiceHistory --------------------------
(***************************************************************************)
(* OtpService with a history variable that tells which providers have been *)
(* disturbed: something happened to them that the code has no answer to.   *)
(* All that is not, whatever overlaps, fails or comes late, keeps the      *)
(* database, the server and the contract together.                         *)
(***************************************************************************)
EXTENDS OtpService

VARIABLE disturbed

historyVars == <<vars, disturbed>>

(* A request that has read the index of the provider it verifies a code    *)
(* for, and one that has sent the verification and has still to count it   *)
(* in the database.                                                        *)
Counting(r, p) ==
    /\ call[r].at \in {"incrementRead", "incrementSave"}
    /\ call[r].provider = p
Verifies(r, p) ==
    \/ call[r].at = "verifySend" /\ call[r].entry.auth_provider_id = p
    \/ Counting(r, p)

(* The PIN of a provider has changed, which the contract does not hear of; *)
(* its registration was reset, which the database does not hear of; two    *)
(* verifications of it overlap;                                            *)
PinChanged(p) == secret'[p] # secret[p]
Withdrawn(p) == /\ otpRecords[p].commitmentValue # Zero
                /\ otpRecords'[p].commitmentValue = Zero
Overlapping(p) ==
    \E q, r \in Request : q # r /\ Verifies(q, p)' /\ Verifies(r, p)'

(* a fault keeps the database from counting a verification that was sent;  *)
Uncounted(p) ==
    /\ faults' # faults
    /\ \E r \in Request :
        /\ call'[r] # call[r]
        /\ Counting(r, p) \/ (Verifies(r, p) /\ pending' # pending)

(* or the block with a verification of it comes outside its window, which  *)
(* nothing has used up.                                                    *)
Late(p) ==
    /\ pending["user"] # <<>>
    /\ pending'["user"] = Tail(pending["user"])
    /\ Head(pending["user"]).method = "verifyOtp"
    /\ Head(pending["user"]).user = p
    /\ otpRecords[p].endTime # 0
    /\ now \notin otpRecords[p].startTime .. otpRecords[p].endTime

HistoryInit == Init /\ disturbed = {}
HistoryNext ==
    /\ Next
    /\ disturbed' = disturbed \union
            {p \in Provider : \/ PinChanged(p) \/ Withdrawn(p)
                              \/ Overlapping(p) \/ Uncounted(p) \/ Late(p)}

HistorySpec == HistoryInit /\ [][HistoryNext]_historyVars /\ Fairness

-----------------------------------------------------------------------------
(* The next password generateOtp would derive is the one the contract has  *)
(* committed to, at the index the contract expects, whenever nothing is in *)
(* progress or in flight, for every provider that was not disturbed.       *)
(* Otherwise the provider can never verify again.  Whatever happens to     *)
(* other providers, that shares their wallets, codes and server, and       *)
(* whatever requests but verifications overlap, does not matter.           *)
Redeemable ==
    Quiet => \A p \in Provider \ disturbed : Registered(p) =>
        /\ otpRecords[p].index = otpIndex[p]
        /\ otpRecords[p].commitmentValue = Keccak[<<secret[p], otpIndex[p]>>]

(* A verification that was broadcast is accepted by the contract, in       *)
(* whichever block it comes, unless its provider was disturbed, that block *)
(* coming outside the window included: what the user was told stands.      *)
HeadAccepted ==
    /\ pending["user"] # <<>>
    /\ pending'["user"] = Tail(pending["user"])
    /\ Head(pending["user"]).method = "verifyOtp"
    /\ Head(pending["user"]).user \notin disturbed'
    => receipt'[Head(pending["user"]).by] = "success"
SentIsAccepted == [][HeadAccepted]_historyVars

(* Once it was sent, the block that accepts it comes, although nobody      *)
(* waits for it: unless its provider is disturbed before.                  *)
SentIsDecided ==
    \A r \in Request, p \in Provider :
        Counting(r, p) ~> receipt[r] = "success" \/ p \in disturbed

=============================================================================
