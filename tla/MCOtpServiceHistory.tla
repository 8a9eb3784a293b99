------------------------- MODULE MCOtpServiceHistory -------------------------
(* The service and what disturbs its providers on small instances; codes   *)
(* as in MCOtpService are the index modulo 2.                              *)
EXTENDS OtpServiceHistory, TLC

CONSTANTS zero

MCRaw == Pin \X (1 .. MaxIndex)
MCKeccak == [raw \in MCRaw |-> [keccak256 |-> raw]]
MCDigest == {zero} \union [keccak256 : MCRaw]
MCCodeOf == [raw \in MCRaw |-> raw[2] % 2]
MCCode == {0, 1}

(* Providers are interchangeable in the safety properties.                 *)
MCProviders == Permutations(Provider)

=============================================================================
