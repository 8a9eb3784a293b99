---------------------------- MODULE MCOTPSystem ----------------------------
(* The contract on a small instance: the deployer and one other account,   *)
(* two passwords, their digests and bytes32(0).                            *)
EXTENDS OTPSystem, TLC

CONSTANTS admin, user, x1, x2, y1, y2, y0, u1

MCKeccak == (x1 :> y1) @@ (x2 :> y2)

=============================================================================
