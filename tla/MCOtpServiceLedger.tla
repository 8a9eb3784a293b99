------------------------- MODULE MCOtpServiceLedger -------------------------
(* The service and its ledger on small instances; codes as in MCOtpService *)
(* are the index modulo 2.                                                 *)
EXTENDS OtpServiceLedger, TLC

CONSTANTS zero

MCRaw == Pin \X (1 .. MaxIndex)
MCKeccak == [raw \in MCRaw |-> [keccak256 |-> raw]]
MCDigest == {zero} \union [keccak256 : MCRaw]
MCCodeOf == [raw \in MCRaw |-> raw[2] % 2]
MCCode == {0, 1}

=============================================================================
