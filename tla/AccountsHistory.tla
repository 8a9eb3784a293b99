--------------------------- MODULE AccountsHistory ---------------------------
(***************************************************************************)
(* UserAccounts with a history variable that tells which operations on     *)
(* which user were overlapped by another request for that user, and what   *)
(* holds for the users they were not: each condition names the operations  *)
(* whose handlers read rows in one step and save, delete or clean them up  *)
(* in another.  What happens to other users meanwhile does not matter.     *)
(***************************************************************************)
EXTENDS UserAccounts

VARIABLE overlapped

(* Requests in progress for a user that another one in progress is for.    *)
Overlapping ==
    {r \in Active : \E q \in Active \ {r} : call[q].user = call[r].user}

HistoryInit == Init /\ overlapped = {}
HistoryNext ==
    /\ Next
    /\ overlapped' = overlapped \union
            {<<call[r].op, call[r].user>> : r \in Overlapping}'

HistorySpec ==
    /\ HistoryInit
    /\ [][HistoryNext]_<<vars, overlapped>>
    /\ \A r \in Request : WF_vars(Continue(r))

Alone(operations, u) == \A o \in operations : <<o, u>> \notin overlapped

-----------------------------------------------------------------------------
(* "Cannot delete default auth provider": the default provider of a live   *)
(* user is live, unless a set-default of the user was overlapped: neither  *)
(* a deletion nor the cleaning up after a failed registration, of whatever *)
(* user, takes it away.                                                    *)
DefaultProviderLives ==
    \A u \in Id :
        Alone({"setDefault"}, u) /\ LiveUser(u) =>
            LiveProvider(users[u].active_auth_provider_id)

(* "Ensure all deletions succeed or none do": from the commit of a user's  *)
(* deletion on, neither the user nor a provider of the user is live.       *)
DeletionIsComplete ==
    \A u \in Id :
        /\ Alone({"setDefault", "setPin", "createProvider"}, u)
        /\ keys[u] = "deleted"
        => ~ LiveUser(u) /\ ProvidersOf(u) = {}

(* A user becomes live by its own creation only, a provider by its own     *)
(* insertion.                                                              *)
LivesByCreation ==
    \A i \in Id :
        /\ Alone({"setDefault"}, i) /\ LiveUser(i)' =>
                LiveUser(i) \/ call[i].at = "activate"
        /\ LiveProvider(i)' /\ Alone({"setPin"}, providers'[i].user_id) =>
                LiveProvider(i) \/ call[i].at = "commitProvider"
(* What was deleted, softly or by a cleaning up, does not come back: no    *)
(* later save of a row that a handler still holds restores it.             *)
NothingResurrected == [][LivesByCreation]_vars

(* The row of a PIN that was updated (only an update sets updated_at), of  *)
(* a user whose creation was acknowledged, is not removed; deletions on    *)
(* demand are soft.                                                        *)
KeepsUpdatedPins ==
    \A p \in Id :
        /\ LiveProvider(p) /\ providers[p].updated
        /\ Alone({"setPin"}, providers[p].user_id)
        /\ Created(providers[p].user_id)
        => providers'[p] # NoRow
(* "A promise that resolves when the PIN is set": the PIN whose update was *)
(* acknowledged is never taken away by the cleaning up after another       *)
(* request's failed registration.                                          *)
UpdatedPinStays == [][KeepsUpdatedPins]_vars

(* "Start a transaction to ensure all operations succeed or none do": a    *)
(* user creation that was answered with an error has left no row behind,   *)
(* as long as no query failed.                                             *)
FailedCreation(u) ==
    call[u] = [at |-> "done", op |-> "createUser", ok |-> FALSE]
FailureLeavesNothing ==
    faults = 0 =>
        \A u \in Id : FailedCreation(u) /\ Alone({"createUser"}, u) =>
            /\ users[u] = NoRow
            /\ keys[u] = "none"
            /\ \A p \in Id :
                /\ providers[p] # NoRow => providers[p].user_id # u
                /\ counts[p] # NoRow => counts[p].user_id # u
            /\ u \notin banking

(* The handlers whose open transactions hold a row that r's query needs:   *)
(* for the name it inserts or restores, or the kind of provider.           *)
WaitsFor(r) ==
    {q \in NameHolders(r) :
        \/ call[r].at = "insertUser"
        \/ /\ call[r].at = "saveDefault"
           /\ ~ (LiveUser(call[r].user) \/ NameTaken(r))}
    \union
    {q \in ProviderHolders(r) :
        \/ call[r].at = "insertProvider"
        \/ /\ call[r].at = "updatePin"
           /\ ~ LiveProvider(call[r].provider) /\ SameProvider(r) = {}}

(* A handler goes on unless it waits for a row, or for a connection that   *)
(* its query does not find in its own transaction.                         *)
OnOwnConnection ==
    {"insertUser", "insertProvider", "commitProvider", "activate"}
Ready(r) ==
    /\ WaitsFor(r) = {}
    /\ call[r].at \in OnOwnConnection \/ ConnectionFree

(* No handler waits for what nobody releases: as long as the pool has more *)
(* than two connections for each request in progress, whoever a handler    *)
(* waits for goes on, or waits itself for one that does.  Transactions     *)
(* never wait for each other's rows in a circle, and they never hold the   *)
(* last connection while they wait for one more.                           *)
NobodyIsStuck ==
    PoolSize > 2 * Cardinality(Active) =>
        \A r \in Active :
            \/ Ready(r)
            \/ \E q \in WaitsFor(r) :
                    Ready(q) \/ \E s \in WaitsFor(q) : Ready(s)

(* Ready is what the handlers' code makes of it: a handler can take its    *)
(* next step exactly when it waits for neither a row nor a connection.     *)
ReadyGoesOn == \A r \in Active : Ready(r) <=> ENABLED Continue(r)

=============================================================================
