----------------------------- MODULE MCSessions -----------------------------
(* Sessions of a super administrator, who may ask for everything and may   *)
(* delete itself: four requests are enough for a login, a refresh, the     *)
(* deletion and a use of what was refreshed.  Nobody is refused for a role.*)
EXTENDS Sessions

CONSTANT root

MCUser == {root}
MCRoleOf == [u \in MCUser |-> "super_admin"]

=============================================================================
