------------------------- MODULE MCInternalService -------------------------
(* Two wallets, one user with at most two providers.                       *)
EXTENDS InternalService, TLC

CONSTANTS p1, p2, y0, y1

ProviderSymmetry == Permutations(Provider)

=============================================================================
