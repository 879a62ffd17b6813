----------------------------- MODULE MCProvider -----------------------------
(***************************************************************************)
(* Two instances over one declaration of the Provider tables: the calls of *)
(* the management API (part = "api"), and the subscription sign-in of a    *)
(* Profile (part = "oauth").  A behaviour stays in its part.               *)
(***************************************************************************)
EXTENDS ProviderStore, TLC

CONSTANT Kinds

VARIABLES
    part,
    calls, started, faults, starts,  \* of both parts
    boot, torn, late,                \* of ProviderLifecycle
    connections, deviceCodes, logins, cancelled, cancels, loggedOut, crossed

API == INSTANCE ProviderLifecycle_proofs
OA  == INSTANCE OAuthConnection_proofs

apiOnly == <<boot, torn, late>>
oaOnly  == <<connections, deviceCodes, logins, cancelled, cancels, loggedOut, crossed>>
allVars == <<part, tables, calls, started, faults, starts, apiOnly, oaOnly>>

Init ==
    \/ /\ part = "api" /\ API!Init
       /\ connections = <<>> /\ deviceCodes = {} /\ logins = <<>>
       /\ cancelled = {} /\ cancels = <<>> /\ loggedOut = {} /\ crossed = {}
    \/ /\ part = "oauth" /\ OA!Init
       /\ boot = API!BootUp /\ torn = {} /\ late = {}

Next ==
    \/ part = "api" /\ API!Next /\ UNCHANGED <<part, oaOnly>>
    \/ part = "oauth" /\ OA!Next /\ UNCHANGED <<part, apiOnly>>

Spec == Init /\ [][Next]_allVars

Symmetry == Permutations(Ops) \cup Permutations(Models)

-----------------------------------------------------------------------------
(* Every variable of each part has the values the code can give it.        *)
TypeOK == IF part = "api" THEN API!TypeOK ELSE OA!TypeOK

(* The current revision of a Profile names credentials the vault holds.    *)
CredentialInVault ==
    IF part = "api" THEN API!CredentialInVault ELSE OA!TokensInVault

(* A Run that has not ended can still build its client.                    *)
BoundRunKeepsCredential == part = "api" => API!BoundRunKeepsCredential

(* What is active or bound was proved with its model and credential.       *)
OnlyProvenIsUsed == part = "api" => API!OnlyProvenIsUsed

(* What is active can serve the next Run, also when its Profile has other  *)
(* credentials by now.                                                     *)
ActiveKeepsCredential == part = "api" => API!ActiveKeepsCredential

(* A change of credentials that does not succeed, or that was overtaken,   *)
(* leaves no secret in the vault that the store has written off, and no    *)
(* open record in the journal, which would forbid every new Run.           *)
NothingLeftBehind ==
    IF part = "api" THEN API!NoOrphanSecret
                    ELSE OA!NoOrphanTokens /\ OA!NothingLeftOpen

(* A change of credential does not undo a change of model.                 *)
NoLostEdit == API!NoLostEdit

=============================================================================
