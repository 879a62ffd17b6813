-------------------------- MODULE ProviderLifecycle --------------------------
(***************************************************************************)
(* The Provider management API over the store and the credential vault:    *)
(* CredentialService, ProviderManagementService, switch_model and the      *)
(* binding of a new Run.  A call is a sequence of awaits; each action is   *)
(* one of them, so calls interleave with each other, with the start-up     *)
(* recovery and with crashes.  Any call to the store or the vault may fail.*)
(***************************************************************************)
EXTENDS ProviderStore

CONSTANT Kinds  \* the API calls of this instance, a subset of CallKinds

CallKinds == {"save", "replace", "delete", "validate", "switch", "activate",
              "remove", "bind"}

VARIABLES
    calls,    \* the API calls in progress, with their locals
    boot,     \* recover_abandoned_intents of the process that starts
    started,  \* API calls so far
    faults,   \* store and vault calls that failed so far
    starts,   \* process starts so far
    torn,     \* history: Profiles whose credential a delete_profile took and
              \* did not write back, or the recovery of another process took
    late      \* history: Runs bound between the two reads of a retirement

history == <<torn, late>>
bounds  == <<started, faults, starts>>
vars == <<tables, calls, boot, bounds, history>>

CallPC == {"idle", "begin", "write", "record", "commit", "undo", "undoStore",
           "refs", "activeRef", "retire", "retireStore", "cleanup", "complete",
           "block", "probe", "evidence", "ready", "expect", "activate", "fresh",
           "discover", "recheck", "draft", "take", "removeRow", "restore", "verify",
           "snapshot", "saved", "bind"}
Calls == [pc : CallPC, kind : CallKinds \cup {"none"},
          p : Profiles \cup {NoProfile}, rev : Revisions,
          gen : Generations \cup {NoGen}, model : Models \cup {NoModel},
          staged : Generations \cup {NoGen}, seen : ActiveRows,
          passed : BOOLEAN]
IdleCall == [pc |-> "idle", kind |-> "none", p |-> NoProfile, rev |-> 0,
             gen |-> NoGen, model |-> NoModel, staged |-> NoGen,
             seen |-> NoActive, passed |-> FALSE]

BootPC   == {"up", "list", "clear", "rollback"}
Boots    == [pc : BootPC, beside : BOOLEAN, found : [Profiles -> Records]]
BootUp   == [pc |-> "up", beside |-> FALSE, found |-> [p \in Profiles |-> NoRecord]]
BootList(beside) == [BootUp EXCEPT !.pc = "list", !.beside = beside]

(* Profiles an earlier session of the program left Ready, one of them      *)
(* perhaps active; the others are not created yet.                         *)
Seeded(p, m) == [Draft(1, m, 1) EXCEPT !.state = "Ready",
                                       !.proof = [model |-> m, gen |-> 1]]

Init ==
    \E old \in SUBSET Profiles, m \in Models, on \in BOOLEAN :
        /\ profiles = [p \in Profiles |->
                          IF p \in old THEN Seeded(p, m) ELSE AbsentProfile]
        /\ active = IF on /\ old # {}
                      THEN [profile |-> CHOOSE p \in old : TRUE, rev |-> 1,
                            model |-> m, gen |-> 1,
                            proof |-> [model |-> m, gen |-> 1], number |-> 1]
                      ELSE NoActive
        /\ gens = [p \in Profiles |-> [g \in Generations |->
                      IF p \in old /\ g = 1 THEN "available" ELSE "none"]]
        /\ vault = old \X {1}
        /\ journal = [p \in Profiles |-> NoRecord]
        /\ bindings = [r \in Runs |-> NoBinding]
        /\ calls = [o \in Ops |-> IdleCall]
        /\ boot = BootUp
        /\ started = 0 /\ faults = 0 /\ starts = 0
        /\ torn = {} /\ late = {}

-----------------------------------------------------------------------------
At(o, pc)   == calls[o].pc = pc
Go(o, pc)   == calls' = [calls EXCEPT ![o].pc = pc]
Return(o)   == calls' = [calls EXCEPT ![o] = IdleCall]

(* No call before the recovery of its own process.                         *)
Accepting == boot.pc = "up" \/ boot.beside

(* A call begins with its locals.                                          *)
Call(o, kind, locals) ==
    /\ kind \in Kinds /\ Accepting
    /\ At(o, "idle") /\ started < MaxCalls
    /\ started' = started + 1
    /\ calls' = [calls EXCEPT ![o] = [locals EXCEPT !.kind = kind]]

Held(p, g)  == <<p, g>> \in vault
Put(p, g)   == vault' = vault \cup {<<p, g>>}
Remove(p, g) == vault' = vault \ {<<p, g>>}

(* ProviderProfileRepository::active refuses a blocked Profile.            *)
ActiveReadable == active.profile # NoProfile => ~IsBlocked(active.profile)

(* What a failing store or vault call makes of the call in progress.       *)
FailureOf ==
    [write |-> {"undo", "block"}, record |-> {"block"}, commit |-> {"undo"},
     undo |-> {"block"}, undoStore |-> {"block"}, refs |-> {"block"},
     activeRef |-> {"block"}, retire |-> {"block"}, retireStore |-> {"block"},
     cleanup |-> {"block"}, complete |-> {"block"}, removeRow |-> {"restore"}]

ServiceFails(o) ==
    /\ faults < MaxFaults
    /\ \E pc \in DOMAIN FailureOf :
          At(o, pc) /\ \E next \in FailureOf[pc] : Go(o, next)
    /\ faults' = faults + 1
    /\ UNCHANGED <<tables, boot, started, starts, history>>

(* A failure while blocking, or while writing back the credential of a     *)
(* Profile that could not be deleted, is the end of the call.              *)
LastResortFails(o) ==
    /\ faults < MaxFaults
    /\ At(o, "block") \/ At(o, "restore")
    /\ Return(o)
    /\ torn' = IF At(o, "restore") /\ calls[o].gen # NoGen
                 THEN torn \cup {calls[o].p} ELSE torn
    /\ faults' = faults + 1
    /\ UNCHANGED <<tables, boot, started, starts, late>>

-----------------------------------------------------------------------------
(* CredentialService::mutate.                                              *)

(* Load the current revision, allocate the next generation.                *)
StartMutation(o, p) ==
    \E kind \in {"replace", "delete"}, g \in Generations :
        /\ Exists(p) /\ profiles[p].rev < MaxRevision
        /\ kind = "delete" => profiles[p].gen # NoGen
        /\ IsNext(p, g)
        /\ Call(o, kind, [IdleCall EXCEPT
                  !.pc = "begin", !.p = p, !.rev = profiles[p].rev,
                  !.gen = profiles[p].gen, !.model = profiles[p].model,
                  !.staged = g])
        /\ UNCHANGED <<tables, boot, faults, starts, history>>

BeginMutation(o) ==
    LET c == calls[o]
    IN  /\ At(o, "begin")
        /\ IF MayBegin(c.p, c.rev, c.gen, c.staged)
             THEN Begin(c.p, o, c.kind, c.rev, c.gen, c.staged) /\ Go(o, "write")
             ELSE Return(o) /\ UNCHANGED <<journal, gens>>
        /\ UNCHANGED <<profiles, active, vault, bindings, boot, bounds, history>>

(* Write the new secret, or copy the old one to the rollback generation.   *)
WriteVault(o) ==
    LET c == calls[o]
    IN  /\ At(o, "write")
        /\ IF c.kind = "replace" \/ Held(c.p, c.gen)
             THEN Put(c.p, c.staged) /\ Go(o, "record")
             ELSE Go(o, "undo") /\ UNCHANGED vault
        /\ UNCHANGED <<profiles, active, gens, journal, bindings, boot, bounds, history>>

RecordVaultWrite(o) ==
    LET p == calls[o].p
    IN  /\ At(o, "record")
        /\ IF MayRecordWrite(p, o)
             THEN RecordWrite(p) /\ Go(o, "commit")
             ELSE Go(o, "block") /\ UNCHANGED <<journal, gens>>
        /\ UNCHANGED <<profiles, active, vault, bindings, boot, bounds, history>>

AfterCleanup(kind) == IF kind = "delete" THEN "cleanup" ELSE "complete"

CommitCredentialPointer(o) ==
    LET c == calls[o]
        fits == InPhase(c.p, o, {"VaultWritten"})
    IN  /\ At(o, "commit")
        /\ \/ /\ fits /\ ~PointerStale(c.p)
              /\ CommitPointer(c.p, c.model)
              /\ Go(o, IF c.gen # NoGen THEN "refs" ELSE AfterCleanup(c.kind))
           \/ /\ fits /\ PointerStale(c.p)
              /\ Transition(c.p, "CleanupPending")
              /\ Go(o, "undo")
              /\ UNCHANGED <<profiles, gens>>
           \/ /\ ~fits
              /\ Go(o, "undo")
              /\ UNCHANGED <<profiles, gens, journal>>
        /\ UNCHANGED <<active, vault, bindings, boot, bounds, history>>

(* Mutant of UndoVaultWrite: the secret stays where it was written.        *)
UndoNothing(o) ==
    /\ At(o, "undo")
    /\ Go(o, "undoStore")
    /\ UNCHANGED <<tables, boot, bounds, history>>

(* rollback_staged_generation: the vault first, then the journal.          *)
UndoVaultWrite(o) ==
    /\ At(o, "undo")
    /\ Remove(calls[o].p, calls[o].staged)
    /\ Go(o, "undoStore")
    /\ UNCHANGED <<profiles, active, gens, journal, bindings, boot, bounds, history>>

UndoJournal(o) ==
    LET p == calls[o].p
    IN  /\ At(o, "undoStore")
        /\ IF MayRollback(p, o)
             THEN Rollback(p) /\ Return(o)
             ELSE Go(o, "block") /\ UNCHANGED <<journal, gens>>
        /\ UNCHANGED <<profiles, active, vault, bindings, boot, bounds, history>>

(* Mutant of ReadRunReferences: only the active row is asked.              *)
RunsNotAsked(o) ==
    /\ At(o, "refs")
    /\ Go(o, "activeRef")
    /\ UNCHANGED <<tables, boot, bounds, history>>

(* generation_is_referenced: first the Runs ...                            *)
ReadRunReferences(o) ==
    LET c == calls[o]
        live == RunReferences(c.p, c.gen)
    IN  /\ At(o, "refs")
        /\ Go(o, IF live THEN AfterCleanup(c.kind) ELSE "activeRef")
        /\ UNCHANGED <<tables, boot, bounds, history>>

(* Mutant of ReadActiveReference: the active row is not asked.             *)
ActiveNotAsked(o) ==
    /\ At(o, "activeRef")
    /\ Go(o, IF ActiveReadable THEN "retire" ELSE "block")
    /\ UNCHANGED <<tables, boot, bounds, history>>

(* ... then the active row.                                                *)
ReadActiveReference(o) ==
    LET c == calls[o]
    IN  /\ At(o, "activeRef")
        /\ Go(o, IF ~ActiveReadable THEN "block"
                 ELSE IF ActiveReferences(c.p, c.gen) THEN AfterCleanup(c.kind)
                 ELSE "retire")
        /\ UNCHANGED <<tables, boot, bounds, history>>

(* retire_generation: the vault first, then the store's own check.         *)
RetireVault(o) ==
    /\ At(o, "retire")
    /\ Remove(calls[o].p, calls[o].gen)
    /\ Go(o, "retireStore")
    /\ UNCHANGED <<profiles, active, gens, journal, bindings, boot, bounds, history>>

RetireStatus(o) ==
    LET c == calls[o]
    IN  /\ At(o, "retireStore")
        /\ IF MayRetire(c.p, c.gen)
             THEN gens' = SetStatus(c.p, c.gen, "deleted") /\ Go(o, AfterCleanup(c.kind))
             ELSE Go(o, "block") /\ UNCHANGED gens
        /\ UNCHANGED <<profiles, active, journal, vault, bindings, boot, bounds, history>>

DeleteRollbackCopy(o) ==
    /\ At(o, "cleanup")
    /\ Remove(calls[o].p, calls[o].staged)
    /\ Go(o, "complete")
    /\ UNCHANGED <<profiles, active, gens, journal, bindings, boot, bounds, history>>

CompleteMutation(o) ==
    LET p == calls[o].p
    IN  /\ At(o, "complete")
        /\ IF InPhase(p, o, {"PointerCommitted"})
             THEN Complete(p) /\ Return(o)
             ELSE Go(o, "block") /\ UNCHANGED <<journal, gens>>
        /\ UNCHANGED <<profiles, active, vault, bindings, boot, bounds, history>>

(* block_after_uncertain_state.                                            *)
BlockMutation(o) ==
    LET p == calls[o].p
    IN  /\ At(o, "block")
        /\ IF journal[p].op = o /\ Open(p)
             THEN Block(p) ELSE UNCHANGED <<journal, gens, active>>
        /\ Return(o)
        /\ UNCHANGED <<profiles, vault, bindings, boot, bounds, history>>

-----------------------------------------------------------------------------
(* Profiles: save_profile, validate_profile, switch_model.                 *)

(* A call that has written nothing yet returns an error, or is cancelled.  *)
ReadOnlyPC == {"begin", "probe", "evidence", "ready", "expect", "activate",
               "fresh", "discover", "recheck", "draft", "take", "verify", "snapshot", "saved",
               "bind"}

CallErrors(o) ==
    /\ calls[o].pc \in ReadOnlyPC
    /\ Return(o)
    /\ UNCHANGED <<tables, boot, bounds, history>>

(* The form holds the revision it was opened on; a stale one is rejected   *)
(* and changes nothing.                                                    *)
SaveProfile(o, p) ==
    /\ "save" \in Kinds /\ Accepting
    /\ At(o, "idle") /\ started < MaxCalls
    /\ started' = started + 1
    /\ \E m \in Models : SaveRevision(p, profiles[p].rev, m, profiles[p].gen)
    /\ UNCHANGED <<active, gens, journal, vault, bindings, calls, boot, faults, starts, history>>

StartValidation(o, p) ==
    /\ Exists(p) /\ profiles[p].state = "Draft"
    /\ Call(o, "validate", [IdleCall EXCEPT
              !.pc = "probe", !.p = p, !.rev = profiles[p].rev,
              !.gen = profiles[p].gen, !.model = profiles[p].model])
    /\ UNCHANGED <<tables, boot, faults, starts, history>>

(* Read the credential, of the vault alone, and ask the remote model.      *)
Probe(o) ==
    LET c == calls[o]
    IN  /\ At(o, "probe")
        /\ c.gen # NoGen /\ Held(c.p, c.gen)
        /\ \E ok \in BOOLEAN :
              calls' = [calls EXCEPT ![o].pc = "evidence", ![o].passed = ok]
        /\ UNCHANGED <<tables, boot, bounds, history>>

CommitValidation(o) ==
    LET c == calls[o]
    IN  /\ At(o, "evidence")
        /\ SaveValidation(c.p, c.rev, [model |-> c.model, gen |-> c.gen], c.passed)
        /\ IF c.kind = "switch" /\ c.passed THEN Go(o, "ready") ELSE Return(o)
        /\ UNCHANGED <<active, gens, journal, vault, bindings, boot, bounds, history>>

(* A candidate of the listing: the revision, the model and the active row  *)
(* the user saw.                                                           *)
StartSwitch(o, p, m) ==
    /\ Exists(p) /\ ActiveReadable
    /\ Call(o, "switch", [IdleCall EXCEPT
              !.pc = "fresh", !.p = p, !.rev = profiles[p].rev, !.model = m,
              !.seen = active])
    /\ UNCHANGED <<tables, boot, faults, starts, history>>

(* ModelCandidateKey::ensure_fresh.                                        *)
IsFresh(c) ==
    /\ Exists(c.p) /\ profiles[c.p].rev = c.rev
    /\ ActiveReadable /\ active.number = c.seen.number

CheckCandidate(o) ==
    LET c == calls[o]
        row == profiles[c.p]
    IN  /\ At(o, "fresh")
        /\ IsFresh(c) /\ row.gen # NoGen /\ Held(c.p, row.gen)
        /\ ~(row.model = c.model /\ row.state = "Invalid")
        /\ calls' = [calls EXCEPT
                       ![o].gen = row.gen,
                       ![o].pc = IF row.model = c.model /\ row.state = "Ready"
                                   THEN "activate" ELSE "discover"]
        /\ UNCHANGED <<tables, boot, bounds, history>>

DiscoverModels(o) ==
    LET c == calls[o]
    IN  /\ At(o, "discover")
        /\ Exists(c.p) /\ profiles[c.p].rev = c.rev /\ Held(c.p, c.gen)
        /\ Go(o, "recheck")
        /\ UNCHANGED <<tables, boot, bounds, history>>

(* Check again; the current Draft serves if it has the model already.      *)
RecheckCandidate(o) ==
    LET c == calls[o]
        row == profiles[c.p]
    IN  /\ At(o, "recheck")
        /\ IsFresh(c)
        /\ Go(o, IF row.model = c.model /\ row.state = "Draft" THEN "probe" ELSE "draft")
        /\ UNCHANGED <<tables, boot, bounds, history>>

(* Otherwise a Draft with the candidate's model, and the credential        *)
(* generation read at first, is saved over the revision checked.           *)
SaveCandidateDraft(o) ==
    LET c == calls[o]
    IN  /\ At(o, "draft")
        /\ SaveRevision(c.p, c.rev, c.model, c.gen)
        /\ calls' = [calls EXCEPT ![o].pc = "probe", ![o].rev = @ + 1]
        /\ UNCHANGED <<active, gens, journal, vault, bindings, boot, bounds, history>>

(* The revision that is current after the validation is the one activated. *)
LoadReady(o) ==
    LET p == calls[o].p
    IN  /\ At(o, "ready")
        /\ Exists(p)
        /\ calls' = [calls EXCEPT ![o].pc = "activate", ![o].rev = profiles[p].rev,
                                  ![o].model = profiles[p].model]
        /\ UNCHANGED <<tables, boot, bounds, history>>

(* activate_current: the evidence first, then the activation to replace.   *)
StartActivation(o, p) ==
    /\ Exists(p) /\ profiles[p].state \in {"Ready", "Invalid"}
    /\ Call(o, "activate", [IdleCall EXCEPT
              !.pc = "expect", !.p = p, !.rev = profiles[p].rev,
              !.model = profiles[p].model])
    /\ UNCHANGED <<tables, boot, faults, starts, history>>

ExpectActivation(o) ==
    /\ At(o, "expect")
    /\ ActiveReadable
    /\ calls' = [calls EXCEPT ![o].pc = "activate", ![o].seen = active]
    /\ UNCHANGED <<tables, boot, bounds, history>>

ActivateProfile(o) ==
    LET c == calls[o]
    IN  /\ At(o, "activate")
        /\ MayActivate(c.p, c.rev, c.model, c.seen.number)
        /\ Activate(c.p)
        /\ Return(o)
        /\ UNCHANGED <<profiles, gens, journal, vault, bindings, boot, bounds, history>>

-----------------------------------------------------------------------------
(* delete_profile: the vault first, then the store, else write it back.    *)

StartDelete(o, p) ==
    LET row == profiles[p]
    IN  /\ Exists(p) /\ ~ProfileReferenced(p)
        /\ row.gen # NoGen => Held(p, row.gen)
        /\ Call(o, "remove", [IdleCall EXCEPT
                  !.pc = IF row.gen = NoGen THEN "removeRow" ELSE "take",
                  !.p = p, !.rev = row.rev, !.gen = row.gen, !.seen = active])
        /\ UNCHANGED <<tables, boot, faults, starts, history>>

TakeCredential(o) ==
    /\ At(o, "take")
    /\ Remove(calls[o].p, calls[o].gen)
    /\ Go(o, "removeRow")
    /\ UNCHANGED <<profiles, active, gens, journal, bindings, boot, bounds, history>>

RemoveProfile(o) ==
    LET c == calls[o]
    IN  /\ At(o, "removeRow")
        /\ IF MayDeleteProfile(c.p, c.rev, c.seen)
             THEN DeleteProfileRow(c.p) /\ Return(o)
             ELSE Go(o, "restore") /\ UNCHANGED <<profiles, active, gens>>
        /\ UNCHANGED <<journal, vault, bindings, boot, bounds, history>>

(* Mutant of RestoreCredential: the error is returned at once.             *)
RestoreNothing(o) ==
    /\ At(o, "restore")
    /\ Return(o)
    /\ UNCHANGED <<tables, boot, bounds, history>>

RestoreCredential(o) ==
    LET c == calls[o]
    IN  /\ At(o, "restore")
        /\ IF c.gen # NoGen THEN Put(c.p, c.gen) ELSE UNCHANGED vault
        /\ Return(o)
        /\ UNCHANGED <<profiles, active, gens, journal, bindings, boot, bounds, history>>

-----------------------------------------------------------------------------
(* A new Run: bind_new_run and the commit of the command that creates it.  *)

StartRun(o) ==
    /\ Call(o, "bind", [IdleCall EXCEPT !.pc = "verify"])
    /\ UNCHANGED <<tables, boot, faults, starts, history>>

(* verify_provider_startup_state: no record awaits reconciliation.         *)
VerifyJournal(o) ==
    /\ At(o, "verify")
    /\ \A p \in Profiles : ~Open(p)
    /\ Go(o, "snapshot")
    /\ UNCHANGED <<tables, boot, bounds, history>>

ReadActive(o) ==
    /\ At(o, "snapshot")
    /\ active.profile # NoProfile /\ ActiveReadable
    /\ calls' = [calls EXCEPT ![o].pc = "saved", ![o].seen = active]
    /\ UNCHANGED <<tables, boot, bounds, history>>

(* ensure_usable_credential, of the store and of the vault.                *)
CheckCredential(o) ==
    LET snap == calls[o].seen
    IN  /\ At(o, "saved")
        /\ StatusSaved(snap.profile, snap.gen) /\ Held(snap.profile, snap.gen)
        /\ Go(o, "bind")
        /\ UNCHANGED <<tables, boot, bounds, history>>

Retiring(p, g) ==
    \E o \in Ops : At(o, "activeRef") /\ calls[o].p = p /\ calls[o].gen = g

(* commit_run: the trigger rejects a stale snapshot, and the loop tries    *)
(* again (CallErrors: it has tried often enough).                          *)
CommitRun(o) ==
    LET snap == calls[o].seen
    IN  /\ At(o, "bind")
        /\ IF BindingCurrent(snap)
             THEN /\ \E r \in Runs :
                        /\ bindings[r].state = "none"
                        /\ bindings' = [bindings EXCEPT ![r] =
                                           [state |-> "live", to |-> snap]]
                        /\ late' = IF Retiring(snap.profile, snap.gen)
                                     THEN late \cup {r} ELSE late
                  /\ Return(o)
             ELSE Go(o, "verify") /\ UNCHANGED <<bindings, late>>
        /\ UNCHANGED <<profiles, active, gens, journal, vault, boot, bounds, torn>>

EndRun(r) ==
    /\ bindings[r].state = "live"
    /\ bindings' = [bindings EXCEPT ![r].state = "done"]
    /\ UNCHANGED <<profiles, active, gens, journal, vault, calls, boot, bounds, history>>

-----------------------------------------------------------------------------
(* Processes.                                                              *)

(* Every call dies where it is; the next process starts with the recovery. *)
Crash ==
    /\ starts < MaxStarts
    /\ \E o \in Ops : ~At(o, "idle")
    /\ starts' = starts + 1
    /\ torn' = torn \cup {calls[o].p : o \in {q \in Ops :
                  calls[q].pc \in {"restore", "removeRow"} /\ calls[q].gen # NoGen}}
    /\ calls' = [o \in Ops |-> IdleCall]
    /\ boot' = BootList(FALSE)
    /\ UNCHANGED <<tables, started, faults, late>>

(* `ysda` started a second time: its bootstrap runs the same recovery.     *)
StartOtherProcess ==
    /\ boot.pc = "up" /\ starts < MaxStarts
    /\ starts' = starts + 1
    /\ boot' = BootList(TRUE)
    /\ UNCHANGED <<tables, calls, started, faults, history>>

(* Mutant of ListAbandoned: bootstrap does not run the recovery.           *)
ListNone ==
    /\ boot.pc = "list"
    /\ boot' = BootUp
    /\ UNCHANGED <<tables, calls, bounds, history>>

(* recover_abandoned_intents: only records still in their first phase.     *)
ListAbandoned ==
    LET found == {p \in Profiles : journal[p].phase = "IntentRecorded"}
    IN  /\ boot.pc = "list"
        /\ boot' = IF found = {} THEN BootUp
                    ELSE [boot EXCEPT !.pc = "clear", !.found =
                            [p \in Profiles |-> IF p \in found THEN journal[p] ELSE NoRecord]]
        /\ UNCHANGED <<tables, calls, bounds, history>>

Abandoned  == {p \in Profiles : boot.found[p] # NoRecord}
Recovering == CHOOSE p \in Abandoned : TRUE

ClearStaged ==
    /\ boot.pc = "clear"
    /\ Remove(Recovering, boot.found[Recovering].staged)
    /\ torn' = IF boot.beside THEN torn \cup {Recovering} ELSE torn
    /\ boot' = [boot EXCEPT !.pc = "rollback"]
    /\ UNCHANGED <<profiles, active, gens, journal, bindings, calls, bounds, late>>

(* An error ends the recovery; bootstrap ignores it.                       *)
RollbackAbandoned ==
    LET p == Recovering
        ok == MayRollback(p, boot.found[p].op)
    IN  /\ boot.pc = "rollback"
        /\ IF ok THEN Rollback(p) ELSE UNCHANGED <<journal, gens>>
        /\ boot' = IF ok /\ Abandoned # {p}
                     THEN [boot EXCEPT !.pc = "clear", !.found[p] = NoRecord]
                     ELSE BootUp
        /\ UNCHANGED <<profiles, active, vault, bindings, calls, bounds, history>>

BootFails ==
    /\ boot.pc \in {"list", "clear", "rollback"}
    /\ faults < MaxFaults
    /\ faults' = faults + 1
    /\ boot' = BootUp
    /\ UNCHANGED <<tables, calls, started, starts, history>>

-----------------------------------------------------------------------------
Mutation(o) ==
    \/ BeginMutation(o)
    \/ WriteVault(o)
    \/ RecordVaultWrite(o)
    \/ CommitCredentialPointer(o)
    \/ UndoVaultWrite(o)
    \/ UndoJournal(o)
    \/ ReadRunReferences(o)
    \/ ReadActiveReference(o)
    \/ RetireVault(o)
    \/ RetireStatus(o)
    \/ DeleteRollbackCopy(o)
    \/ CompleteMutation(o)
    \/ BlockMutation(o)

Selection(o) ==
    \/ Probe(o)
    \/ CommitValidation(o)
    \/ CheckCandidate(o)
    \/ DiscoverModels(o)
    \/ RecheckCandidate(o)
    \/ SaveCandidateDraft(o)
    \/ LoadReady(o)
    \/ ExpectActivation(o)
    \/ ActivateProfile(o)

Deletion(o) == TakeCredential(o) \/ RemoveProfile(o) \/ RestoreCredential(o)

Binding(o) ==
    \/ VerifyJournal(o)
    \/ ReadActive(o)
    \/ CheckCredential(o)
    \/ CommitRun(o)

Start(o) ==
    \/ \E p \in Profiles :
          \/ StartMutation(o, p)
          \/ SaveProfile(o, p)
          \/ StartValidation(o, p)
          \/ \E m \in Models : StartSwitch(o, p, m)
          \/ StartActivation(o, p)
          \/ StartDelete(o, p)
    \/ StartRun(o)

Recovery == ListAbandoned \/ ClearStaged \/ RollbackAbandoned

Next ==
    \/ \E o \in Ops :
          \/ Start(o)
          \/ Mutation(o)
          \/ Selection(o)
          \/ Deletion(o)
          \/ Binding(o)
          \/ CallErrors(o)
          \/ ServiceFails(o)
          \/ LastResortFails(o)
    \/ \E r \in Runs : EndRun(r)
    \/ Crash
    \/ StartOtherProcess
    \/ Recovery
    \/ BootFails

Spec == Init /\ [][Next]_vars

=============================================================================
