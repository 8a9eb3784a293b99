---------------------------- MODULE MCOtpService ----------------------------
(* The service on small instances.  A code is the index modulo 2: the      *)
(* passwords of two PINs at one index, and of one PIN two indices apart,   *)
(* share a code, as six decimal digits let them.                           *)
EXTENDS OtpService, TLC

CONSTANTS zero

MCRaw == Pin \X (1 .. MaxIndex)
MCKeccak == [raw \in MCRaw |-> [keccak256 |-> raw]]
MCDigest == {zero} \union [keccak256 : MCRaw]
MCCodeOf == [raw \in MCRaw |-> raw[2] % 2]
MCCode == {0, 1}

=============================================================================
