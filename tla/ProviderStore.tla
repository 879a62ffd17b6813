---------------------------- MODULE ProviderStore ----------------------------
(***************************************************************************)
(* The tables of the Provider store and the transactions over them:        *)
(* Profile revisions, the active singleton, credential generations, the    *)
(* credential-mutation journal and the Provider bindings of Runs.  Every   *)
(* transaction is BEGIN IMMEDIATE, so each operator below is one step.     *)
(* The vault is the other store: no transaction covers both.               *)
(***************************************************************************)
EXTENDS Integers

CONSTANTS
    Profiles,       \* ProfileIds
    NoProfile,
    Models,         \* ProviderModelIds
    Runs,           \* RunIds that a command may bind
    Ops,            \* API calls in progress at a time; their OperationIds
    NoOp,
    MaxRevision,    \* bound on the revisions of a Profile
    MaxGeneration,  \* bound on the credential generations of a Profile
    MaxActivation,  \* bound on activation revisions
    MaxCalls,       \* bound on API calls
    MaxFaults,      \* bound on failing store and vault calls
    MaxStarts       \* bound on process starts, after a crash or beside one

ASSUME ProfilesAssumption == NoProfile \notin Profiles /\ NoOp \notin Ops
ASSUME StoreBounds ==
    /\ {MaxRevision, MaxGeneration, MaxActivation} \subseteq Nat \ {0}
    /\ {MaxCalls, MaxFaults, MaxStarts} \subseteq Nat

VARIABLES
    profiles,  \* provider_profiles with the current provider_profile_revisions row
    active,    \* active_provider
    gens,      \* provider_credential_generations.status
    journal,   \* credential_mutations: the newest record of each Profile
    vault,     \* the generations the credential vault holds
    bindings   \* run_provider_bindings joined with runs.status

tables == <<profiles, active, gens, journal, vault, bindings>>

Revisions   == 0 .. MaxRevision
Generations == 1 .. MaxGeneration
NoGen       == 0

-----------------------------------------------------------------------------
(* Profile revisions.                                                      *)

NoModel == "none"
NoProof == [model |-> NoModel, gen |-> NoGen]
Proofs  == [model : Models \cup {NoModel}, gen : Generations \cup {NoGen}]

ProfileStates == {"Absent", "Draft", "Ready", "Invalid", "Deleted"}
ProfileRows   == [rev : Revisions, model : Models \cup {NoModel},
                  gen : Generations \cup {NoGen}, state : ProfileStates,
                  proof : Proofs]
AbsentProfile == [rev |-> 0, model |-> NoModel, gen |-> NoGen,
                  state |-> "Absent", proof |-> NoProof]

Exists(p) == profiles[p].state \notin {"Absent", "Deleted"}

(* ProfileRevision::draft: a new revision carries no evidence.             *)
Draft(rev, model, gen) ==
    [rev |-> rev, model |-> model, gen |-> gen, state |-> "Draft",
     proof |-> NoProof]

(* save_revision after validate_save_precondition.                         *)
SaveRevision(p, seen, model, gen) ==
    /\ profiles[p].state # "Deleted"
    /\ profiles[p].rev = seen
    /\ seen < MaxRevision
    /\ profiles' = [profiles EXCEPT ![p] = Draft(seen + 1, model, gen)]

(* Mutant of EvidenceFits: any Draft of the Profile will do.               *)
EvidenceFitsDraft(p, rev, proof) == Exists(p) /\ profiles[p].state = "Draft"

(* save_validation accepts evidence about exactly the current Draft.       *)
EvidenceFits(p, rev, proof) ==
    /\ Exists(p)
    /\ profiles[p].rev = rev
    /\ profiles[p].state = "Draft"
    /\ proof = [model |-> profiles[p].model, gen |-> profiles[p].gen]

SaveValidation(p, rev, proof, passed) ==
    /\ EvidenceFits(p, rev, proof)
    /\ profiles' = [profiles EXCEPT
                      ![p].state = IF passed THEN "Ready" ELSE "Invalid",
                      ![p].proof = proof]

-----------------------------------------------------------------------------
(* The active singleton.                                                   *)

ActiveRows == [profile : Profiles \cup {NoProfile}, rev : Revisions,
               model : Models \cup {NoModel}, gen : Generations \cup {NoGen},
               proof : Proofs, number : 0 .. MaxActivation]
NoActive   == [profile |-> NoProfile, rev |-> 0, model |-> NoModel,
               gen |-> NoGen, proof |-> NoProof, number |-> 0]

(* Mutant of Snapshot: the activation counts itself once more.             *)
SnapshotOfNext(p, number) ==
    [profile |-> p, rev |-> profiles[p].rev, model |-> profiles[p].model,
     gen |-> profiles[p].gen, proof |-> profiles[p].proof, number |-> number + 1]

(* ActiveProviderSnapshot::from_ready.                                     *)
Snapshot(p, number) ==
    [profile |-> p, rev |-> profiles[p].rev, model |-> profiles[p].model,
     gen |-> profiles[p].gen, proof |-> profiles[p].proof, number |-> number]

(* The compare-and-swap of activate: the revision the evidence is about is *)
(* current and Ready, and the activation is the one the caller has seen.   *)
MayActivate(p, rev, model, number) ==
    /\ Exists(p)
    /\ profiles[p].rev = rev
    /\ profiles[p].state = "Ready"
    /\ profiles[p].model = model
    /\ active.number = number

Activate(p) ==
    /\ active.number < MaxActivation
    /\ active' = Snapshot(p, active.number + 1)

-----------------------------------------------------------------------------
(* The credential-mutation journal.                                        *)

Phases == {"None", "IntentRecorded", "VaultWritten", "PointerCommitted",
           "CleanupPending", "Completed", "RolledBack", "Blocked"}
Settled == {"None", "Completed", "RolledBack"}

(* credential_mutation_transition_is_valid.                                *)
NextPhases(ph) ==
    CASE ph = "IntentRecorded"   -> {"VaultWritten", "RolledBack", "Blocked"}
      [] ph = "VaultWritten"     -> {"PointerCommitted", "CleanupPending",
                                     "RolledBack", "Blocked"}
      [] ph = "PointerCommitted" -> {"CleanupPending", "Completed", "Blocked"}
      [] ph = "CleanupPending"   -> {"RolledBack", "Completed", "Blocked"}
      [] OTHER                   -> {}

(* An intent.  "replace" covers create, replace and refresh: the staged    *)
(* generation is the new one.  In "delete" it is the rollback copy.        *)
Intents == {"replace", "delete"}
Records == [op : Ops \cup {NoOp}, phase : Phases, intent : Intents,
            base : Revisions, old : Generations \cup {NoGen},
            staged : Generations \cup {NoGen}]
NoRecord == [op |-> NoOp, phase |-> "None", intent |-> "replace", base |-> 0,
             old |-> NoGen, staged |-> NoGen]

(* requires_reconciliation.                                                *)
Open(p)      == journal[p].phase \notin Settled \cup {"Blocked"}
IsBlocked(p) == journal[p].phase = "Blocked"

(* The record of one operation; one that is no longer its Profile's newest *)
(* was settled before the newer began.                                     *)
InPhase(p, o, phs) == journal[p].op = o /\ journal[p].phase \in phs

Transition(p, ph) ==
    /\ ph \in NextPhases(journal[p].phase)
    /\ journal' = [journal EXCEPT ![p].phase = ph]

GenStatuses == {"none", "retained", "available", "revoked", "deleted"}

(* Numbers are never reused: tombstones keep theirs.                       *)
IsNewest(p, g) == \A h \in Generations : h >= g => gens[p][h] = "none"

(* next_credential_generation.                                             *)
IsNext(p, g) ==
    IsNewest(p, g) /\ \A h \in Generations : h < g => gens[p][h] # "none"

SetStatus(p, g, st) == IF g = NoGen THEN gens ELSE [gens EXCEPT ![p][g] = st]

(* begin_credential_mutation.                                              *)
MayBegin(p, rev, gen, staged) ==
    /\ journal[p].phase \in Settled
    /\ Exists(p)
    /\ profiles[p].rev = rev
    /\ profiles[p].gen = gen
    /\ IsNewest(p, staged)

Begin(p, o, intent, rev, old, staged) ==
    /\ journal' = [journal EXCEPT ![p] =
                     [op |-> o, phase |-> "IntentRecorded", intent |-> intent,
                      base |-> rev, old |-> old, staged |-> staged]]
    /\ gens' = SetStatus(p, staged, "retained")

(* record_credential_vault_write.                                          *)
MayRecordWrite(p, o) ==
    /\ InPhase(p, o, {"IntentRecorded"})
    /\ gens[p][journal[p].staged] = "retained"

RecordWrite(p) ==
    /\ Transition(p, "VaultWritten")
    /\ gens' = SetStatus(p, journal[p].staged, "available")

(* Mutant of PointerStale: the revision is not compared.                   *)
PointerGone(p) == ~Exists(p)

(* commit_credential_pointer: the current revision is still the one the    *)
(* intent names, or the record becomes CleanupPending.                     *)
PointerStale(p) == ~Exists(p) \/ profiles[p].rev # journal[p].base

CommitPointer(p, model) ==
    LET rec == journal[p]
        new == IF rec.intent = "replace" THEN rec.staged ELSE NoGen
    IN  /\ rec.base < MaxRevision
        /\ Transition(p, "PointerCommitted")
        /\ profiles' = [profiles EXCEPT ![p] = Draft(rec.base + 1, model, new)]
        /\ gens' = IF rec.old # NoGen /\ gens[p][rec.old] # "deleted"
                     THEN SetStatus(p, rec.old, "retained") ELSE gens

(* complete_credential_mutation.  The status of the old generation is      *)
(* written without looking at what it is.                                  *)
Complete(p) ==
    LET rec == journal[p]
        old == SetStatus(p, rec.old, "retained")
    IN  /\ Transition(p, "Completed")
        /\ gens' = IF rec.intent = "delete"
                     THEN [old EXCEPT ![p][rec.staged] = "deleted"] ELSE old

(* rollback_credential_mutation.                                           *)
MayRollback(p, o) ==
    InPhase(p, o, {"IntentRecorded", "VaultWritten", "CleanupPending"})

Rollback(p) ==
    /\ Transition(p, "RolledBack")
    /\ gens' = SetStatus(p, journal[p].staged, "deleted")

(* block_credential_mutation: the Profile is no longer active.             *)
Block(p) ==
    /\ Transition(p, "Blocked")
    /\ gens' = SetStatus(p, journal[p].staged, "revoked")
    /\ active' = IF active.profile = p THEN NoActive ELSE active

-----------------------------------------------------------------------------
(* Bindings of Runs.                                                       *)

BindingStates == {"none", "live", "done"}
Bindings  == [state : BindingStates, to : ActiveRows]
NoBinding == [state |-> "none", to |-> NoActive]

ProfileReferenced(p) ==
    \E r \in Runs : bindings[r].state = "live" /\ bindings[r].to.profile = p

RunReferences(p, g) ==
    \E r \in Runs : /\ bindings[r].state = "live"
                    /\ bindings[r].to.profile = p
                    /\ bindings[r].to.gen = g

ActiveReferences(p, g) == active.profile = p /\ active.gen = g

(* credential_view_status = Saved.                                         *)
StatusSaved(p, g) == gens[p][g] \in {"available", "retained"}

(* The trigger run_provider_binding_requires_current_active_snapshot.      *)
BindingCurrent(snap) == snap = active

(* retire_credential_generation, after the caller has emptied the vault.   *)
MayRetire(p, g) ==
    /\ ~ActiveReferences(p, g)
    /\ ~RunReferences(p, g)
    /\ gens[p][g] = "retained"

(* delete_profile with enter_no_active_provider confirmed.                 *)
MayDeleteProfile(p, rev, seen) ==
    /\ Exists(p)
    /\ profiles[p].rev = rev
    /\ ~ProfileReferenced(p)
    /\ active.profile = seen.profile
    /\ active.rev = seen.rev
    /\ active.number = seen.number

DeleteProfileRow(p) ==
    /\ profiles' = [profiles EXCEPT ![p].state = "Deleted"]
    /\ active' = IF active.profile = p THEN NoActive ELSE active
    /\ gens' = [gens EXCEPT ![p] = [g \in Generations |->
                   IF @[g] = "none" THEN "none" ELSE "deleted"]]

=============================================================================
