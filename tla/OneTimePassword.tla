-------------------------- MODULE OneTimePassword --------------------------
(***************************************************************************)
(* What the contract promises of each user's one-time password device,     *)
(* without hashes, clocks, signatures or roles.  A device is absent,       *)
(* locked (waiting for a password nobody may present yet) or open (the     *)
(* password with the current serial number may be presented).              *)
(***************************************************************************)
EXTENDS Naturals

CONSTANT UserId

VARIABLES phase,  \* [UserId -> {"absent", "locked", "open"}]
          serial  \* the serial number of the next password, 0 when absent

vars == <<phase, serial>>

Init ==
    /\ phase = [u \in UserId |-> "absent"]
    /\ serial = [u \in UserId |-> 0]

Become(u, p, n) ==
    /\ phase' = [phase EXCEPT ![u] = p]
    /\ serial' = [serial EXCEPT ![u] = n]

(* An absent device is enrolled locked, at serial number 1.                *)
Enrol(u) == phase[u] = "absent" /\ Become(u, "locked", 1)

(* An enrolled device can be opened, and opened again; its serial number   *)
(* stays.                                                                  *)
Open(u) == phase[u] # "absent" /\ Become(u, "open", serial[u])

(* Presenting the password consumes the opening and moves to the next      *)
(* serial number; the presenter may instead retire the device (by          *)
(* committing to no further password).                                     *)
Consume(u) ==
    /\ phase[u] = "open"
    /\ \/ Become(u, "locked", serial[u] + 1)
       \/ Become(u, "absent", 0)

(* An administrator discards any set of devices at once.                   *)
Discard(users) ==
    /\ phase' = [u \in UserId |-> IF u \in users THEN "absent" ELSE phase[u]]
    /\ serial' = [u \in UserId |-> IF u \in users THEN 0 ELSE serial[u]]

Next ==
    \/ \E u \in UserId : Enrol(u) \/ Open(u) \/ Consume(u)
    \/ \E users \in SUBSET UserId : Discard(users)

Spec == Init /\ [][Next]_vars

=============================================================================
