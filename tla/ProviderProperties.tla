------------------------- MODULE ProviderProperties -------------------------
(***************************************************************************)
(* What the Provider store, the vault and the calls between them promise.  *)
(***************************************************************************)
EXTENDS ProviderLifecycle

(* Every table, local and counter has the values the code can give it.     *)
TypeOK ==
    /\ profiles \in [Profiles -> ProfileRows]
    /\ active \in ActiveRows
    /\ gens \in [Profiles -> [Generations -> GenStatuses]]
    /\ journal \in [Profiles -> Records]
    /\ vault \subseteq Profiles \X Generations
    /\ bindings \in [Runs -> Bindings]
    /\ calls \in [Ops -> Calls]
    /\ boot \in Boots
    /\ faults \in 0 .. MaxFaults
    /\ starts \in 0 .. MaxStarts
    /\ started \in 0 .. MaxCalls
    /\ torn \subseteq Profiles
    /\ late \subseteq Runs

(* delete_profile has the credential of p in its hands, or lost it.        *)
Taken(p) ==
    \/ p \in torn
    \/ \E o \in Ops : /\ calls[o].kind = "remove" /\ calls[o].p = p
                      /\ calls[o].pc \in {"removeRow", "restore"}

(* The two stores agree: whatever mutations, their rollbacks, failures,    *)
(* crashes and recoveries interleave, the current revision of a Profile    *)
(* names a credential generation the vault holds.                          *)
CredentialInVault ==
    \A p \in Profiles :
        Exists(p) /\ profiles[p].gen # NoGen => Held(p, profiles[p].gen) \/ Taken(p)

(* A Run that has not ended can still build its client: retirement, Profile*)
(* deletion and rollback leave the generation it is bound to alone.        *)
BoundRunKeepsCredential ==
    \A r \in Runs :
        LET b == bindings[r].to
        IN  bindings[r].state = "live" =>
                Held(b.profile, b.gen) \/ Taken(b.profile) \/ r \in late

(* What is active, and what a live Run is bound to, was proved compatible  *)
(* with exactly its model and credential generation.                       *)
OnlyProvenIsUsed ==
    \A row \in {active} \cup {bindings[r].to : r \in Runs} :
        row.number > 0 => /\ row.gen # NoGen
                          /\ row.proof = [model |-> row.model, gen |-> row.gen]

(* What is active can serve the next Run, however many revisions ago it was*)
(* activated: its Profile is not deleted, and the generation it names,     *)
(* which its Profile may have replaced since, has not been retired.        *)
ActiveKeepsCredential ==
    active.profile # NoProfile =>
        /\ Exists(active.profile)
        /\ Held(active.profile, active.gen) \/ Taken(active.profile)

(* Once the calls are done and none failed, the vault holds no generation  *)
(* of a living Profile that the store has written off: an aborted mutation *)
(* takes its staged secret with it.                                        *)
Quiet == /\ \A o \in Ops : At(o, "idle")
         /\ boot.pc = "up" /\ faults = 0 /\ starts = 0
NoOrphanSecret ==
    Quiet => \A p \in Profiles, g \in Generations :
                 Exists(p) /\ ~IsBlocked(p) /\ Held(p, g) => StatusSaved(p, g)

(* A change of credential never undoes a change of model that was saved    *)
(* while the secret travelled to the vault.                                *)
NoLostEdit ==
    [][\A p \in Profiles :
         journal[p].phase = "VaultWritten" /\ journal'[p].phase = "PointerCommitted"
         => profiles'[p].model = profiles[p].model]_vars

Fairness ==
    /\ \A o \in Ops : WF_vars(Mutation(o)) /\ WF_vars(Deletion(o))
                      /\ WF_vars(CallErrors(o))
    /\ WF_vars(Recovery)
FairSpec == Spec /\ Fairness

(* An intent whose owner died is rolled back by the next process, unless a *)
(* store or the vault fails it, so that the Profile is not locked.         *)
Intended == faults = 0 /\ \E p \in Profiles : journal[p].phase = "IntentRecorded"
AbandonedIntentSettles == Intended ~> ~Intended

=============================================================================
