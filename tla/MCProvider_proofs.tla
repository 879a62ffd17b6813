-------------------------- MODULE MCProvider_proofs --------------------------
(***************************************************************************)
(* What ProviderLifecycle_proofs and OAuthConnection_proofs establish of   *)
(* the management API and of the sign-in, for the specification the run    *)
(* checks: a behaviour stays in its part, which leaves the other alone.    *)
(***************************************************************************)
EXTENDS MCProvider, TLAPS

ApiInv == part = "api" => API!IInv

LEMMA ApiStep == ASSUME ApiInv, [Next]_allVars
                 PROVE  /\ part' = part
                        /\ part = "api" => API!IInv /\ [API!Next]_(API!vars)
<1>1. CASE UNCHANGED allVars
  BY <1>1 DEF ApiInv, allVars, tables, apiOnly, API!vars, API!bounds, API!history, API!tables
<1>2. CASE Next
  BY <1>2 DEF ApiInv, Next
<1>3. QED
  BY <1>1, <1>2

LEMMA ApiInvariant == Spec => []ApiInv
<1>1. Init => ApiInv
  BY API!Inductive, ProfilesAssumption, StoreBounds DEF Init, ApiInv
<1>2. ApiInv /\ [Next]_allVars => ApiInv'
  BY ApiStep, API!Inductive, ProfilesAssumption, StoreBounds DEF ApiInv
<1>3. QED
  BY <1>1, <1>2, PTL DEF Spec

(* A Run that has not ended can still build its client: whatever changes   *)
(* of credential, deletions, rollbacks, failures and crashes interleave,   *)
(* the generation it is bound to stays in the vault, unless it was bound   *)
(* between the two reads of a retirement.                                  *)
THEOREM RunKeepsCredential == Spec => []BoundRunKeepsCredential
<1>1. ApiInv => BoundRunKeepsCredential
  BY API!WhatItSays, ProfilesAssumption, StoreBounds DEF ApiInv, BoundRunKeepsCredential
<1>2. QED
  BY <1>1, ApiInvariant, PTL

(* What is active, and what a live Run is bound to, was proved compatible  *)
(* with exactly its model and credential generation.                       *)
THEOREM ProvenIsUsed == Spec => []OnlyProvenIsUsed
<1>1. ApiInv => OnlyProvenIsUsed
  BY API!WhatItSays, ProfilesAssumption, StoreBounds DEF ApiInv, OnlyProvenIsUsed
<1>2. QED
  BY <1>1, ApiInvariant, PTL

(* The next Run finds the credential of what is active: its Profile is not *)
(* deleted, and neither a replacement nor a retirement has emptied the     *)
(* generation it was activated with.                                       *)
THEOREM ActiveIsUsable == Spec => []ActiveKeepsCredential
<1>1. ApiInv => ActiveKeepsCredential
  BY API!WhatItSays, ProfilesAssumption, StoreBounds DEF ApiInv, ActiveKeepsCredential
<1>2. QED
  BY <1>1, ApiInvariant, PTL

TokenInv == part = "oauth" => OA!TokenInv

LEMMA TokenStep == ASSUME TokenInv, [Next]_allVars
                   PROVE  /\ part' = part
                          /\ part = "oauth" => OA!TokenInv /\ [OA!Next]_(OA!oauthVars)
<1>1. CASE UNCHANGED allVars
  BY <1>1 DEF TokenInv, allVars, tables, oaOnly, OA!oauthVars
<1>2. CASE Next
  BY <1>2 DEF TokenInv, Next
<1>3. QED
  BY <1>1, <1>2

LEMMA TokenInvariant == Spec => []TokenInv
<1>1. Init => TokenInv
  BY OA!Inductive, ProfilesAssumption, StoreBounds DEF Init, TokenInv
<1>2. TokenInv /\ [Next]_allVars => TokenInv'
  BY TokenStep, OA!Inductive, ProfilesAssumption, StoreBounds DEF TokenInv
<1>3. QED
  BY <1>1, <1>2, PTL DEF Spec

Parts == part \in {"api", "oauth"}

LEMMA PartsInvariant == Spec => []Parts
<1>1. Init => Parts
  BY DEF Init, Parts
<1>2. Parts /\ [Next]_allVars => Parts'
  BY DEF Parts, Next, allVars
<1>3. QED
  BY <1>1, <1>2, PTL DEF Spec

(* The credentials a Profile points at are in the vault: API keys unless a *)
(* named failure of deletion or recovery took them, tokens unless a logout *)
(* or a cancel did.                                                        *)
THEOREM CredentialsStay == Spec => []CredentialInVault
<1>1. ApiInv /\ TokenInv /\ Parts => CredentialInVault
  BY API!WhatItSays, OA!WhatItSays, ProfilesAssumption, StoreBounds
     DEF ApiInv, TokenInv, Parts, CredentialInVault
<1>2. QED
  BY <1>1, ApiInvariant, TokenInvariant, PartsInvariant, PTL

(* Every variable of the part that runs has the values the code can give.  *)
THEOREM AllTyped == Spec => []TypeOK
<1>1. ApiInv /\ TokenInv /\ Parts => TypeOK
  BY API!WhatItSays, OA!WhatItSays, ProfilesAssumption, StoreBounds
     DEF ApiInv, TokenInv, Parts, TypeOK
<1>2. QED
  BY <1>1, ApiInvariant, TokenInvariant, PartsInvariant, PTL

ApiCalm == part = "api" => API!CalmInv
TokenCalm == part = "oauth" => OA!CalmInv

LEMMA CalmInvariant == Spec => [](ApiCalm /\ TokenCalm)
<1>1. Init => ApiCalm /\ TokenCalm
  BY API!CalmInductive, OA!CalmInductive, ProfilesAssumption, StoreBounds
     DEF Init, ApiCalm, TokenCalm
<1>2. ApiInv /\ ApiCalm /\ [Next]_allVars => ApiCalm'
  BY ApiStep, API!CalmInductive, ProfilesAssumption, StoreBounds DEF ApiCalm
<1>3. TokenInv /\ TokenCalm /\ [Next]_allVars => TokenCalm'
  BY TokenStep, OA!CalmInductive, ProfilesAssumption, StoreBounds DEF TokenCalm
<1>4. QED
  BY <1>1, <1>2, <1>3, ApiInvariant, TokenInvariant, PTL DEF Spec

(* Once every call is over, and none of them met a failure or was          *)
(* cancelled, the vault holds no secret that the store has written off,    *)
(* and no record of a sign-in is open to forbid every new Run.             *)
THEOREM NothingStays == Spec => []NothingLeftBehind
<1>1. ApiCalm /\ TokenCalm /\ Parts => NothingLeftBehind
  BY API!CalmInductive, OA!CalmInductive, ProfilesAssumption, StoreBounds
     DEF ApiCalm, TokenCalm, Parts, NothingLeftBehind
<1>2. QED
  BY <1>1, CalmInvariant, PartsInvariant, PTL

KeepsModel(p) ==
    journal[p].phase = "VaultWritten" /\ journal'[p].phase = "PointerCommitted"
    => profiles'[p].model = profiles[p].model

(* A pointer that moves to new credentials, of a key or of a sign-in,      *)
(* never undoes a change of model saved while the secret travelled.        *)
THEOREM ModelsStay == Spec => NoLostEdit
<1>1. ApiInv /\ TokenInv /\ Parts /\ [Next]_allVars => \A p \in Profiles : KeepsModel(p)
  <2> SUFFICES ASSUME ApiInv, TokenInv, Parts, [Next]_allVars
               PROVE  \A p \in Profiles : KeepsModel(p)
    OBVIOUS
  <2>1. CASE part = "api"
    <3>1. API!IInv /\ [API!Next]_(API!vars)
      BY <2>1, ApiStep
    <3>2. \A p \in Profiles : API!Edited(p)
      BY <3>1, API!EditStep, ProfilesAssumption, StoreBounds
    <3>3. QED
      BY <3>2 DEF KeepsModel, API!Edited
  <2>2. CASE part = "oauth"
    <3>1. OA!TokenInv /\ [OA!Next]_(OA!oauthVars)
      BY <2>2, TokenStep
    <3>2. \A p \in Profiles : OA!KeepsModel(p)
      BY <3>1, OA!ModelStep, ProfilesAssumption, StoreBounds
    <3>3. QED
      BY <3>2 DEF KeepsModel, OA!KeepsModel
  <2>3. QED
    BY <2>1, <2>2 DEF Parts
<1>2. Spec => [][\A p \in Profiles : KeepsModel(p)]_(API!vars)
  BY <1>1, ApiInvariant, TokenInvariant, PartsInvariant, PTL DEF Spec
<1>3. QED
  BY <1>2 DEF NoLostEdit, API!NoLostEdit, KeepsModel

=============================================================================
