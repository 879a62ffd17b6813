---------------------- MODULE ProviderLifecycle_proofs ----------------------
(***************************************************************************)
(* The Provider tables and the vault, for any number of Profiles, models,  *)
(* Runs and calls under way, and any bounds on revisions, generations,     *)
(* failures and starts.  The two stores have no transaction in common, so  *)
(* the argument is about who may take a generation out of the vault: what  *)
(* a call has staged is nobody's yet, what a call retires is nobody's any  *)
(* more, and what delete_profile takes it brings back.                     *)
(***************************************************************************)
EXTENDS ProviderProperties, TLAPS

(* Where a mutation is after begin_credential_mutation; of these, where it *)
(* has not committed its pointer, and where it retires the old generation. *)
MutationPC == {"write", "record", "commit", "undo", "undoStore", "refs", "activeRef",
               "retire", "retireStore", "cleanup", "complete", "block"}
StagingPC  == {"write", "record", "commit", "undo", "undoStore"}
RetiringPC == {"refs", "activeRef", "retire", "retireStore"}
RemovalPC  == {"take", "removeRow", "restore"}
SwitchPC   == {"discover", "recheck", "draft"}
BindPC     == {"verify", "snapshot", "saved", "bind"}

(* The locals of a call are those of its program counter.                  *)
Addressed(o) ==
    LET c == calls[o]
    IN  /\ c.pc # "idle" /\ c.pc \notin BindPC => c.p \in Profiles
        /\ c.pc \in MutationPC \cup {"begin"} =>
              c.kind \in Intents /\ c.staged \in Generations
        /\ c.pc \in RemovalPC => c.kind = "remove"
        /\ c.pc \in RetiringPC \cup {"take", "evidence"} => c.gen \in Generations
        /\ c.pc \in {"saved", "bind"} => c.seen.profile \in Profiles

(* A process that starts alone finds no call, and what it has listed stays *)
(* as it was.                                                              *)
BootInOrder ==
    /\ boot.pc \in {"clear", "rollback"} => Abandoned # {}
    /\ boot.pc # "up" /\ ~boot.beside =>
          /\ \A o \in Ops : calls[o] = IdleCall
          /\ \A p \in Abandoned :
                journal[p] = boot.found[p] /\ journal[p].phase = "IntentRecorded"

TypeInv == TypeOK /\ (\A o \in Ops : Addressed(o)) /\ BootInOrder

-----------------------------------------------------------------------------
(* Types.                                                                  *)

LEMMA Constants ==
    /\ NoProfile \notin Profiles /\ NoOp \notin Ops
    /\ MaxRevision \in Nat \ {0} /\ MaxGeneration \in Nat \ {0} /\ MaxActivation \in Nat \ {0}
    /\ MaxCalls \in Nat /\ MaxFaults \in Nat /\ MaxStarts \in Nat
BY ProfilesAssumption, StoreBounds

(* The values that stand for nothing.                                      *)
LEMMA NothingTypes ==
    /\ IdleCall \in Calls /\ IdleCall.pc = "idle" /\ NoRecord \in Records
    /\ NoActive \in ActiveRows /\ NoBinding \in Bindings /\ AbsentProfile \in ProfileRows
    /\ NoProof \in Proofs /\ BootUp \in Boots
<1>1. NoProof \in Proofs
  BY DEF NoProof, Proofs
<1>2. NoActive \in ActiveRows
  BY <1>1, Constants DEF NoActive, ActiveRows, Revisions
<1>3. NoRecord \in Records
  BY Constants DEF NoRecord, Records, Phases, Intents, Revisions
<1>4. IdleCall \in Calls /\ IdleCall.pc = "idle"
  BY <1>2, Constants DEF IdleCall, Calls, CallPC, Revisions
<1>5. AbsentProfile \in ProfileRows
  BY <1>1, Constants DEF AbsentProfile, ProfileRows, ProfileStates, Revisions
<1>6. NoBinding \in Bindings
  BY <1>2 DEF NoBinding, Bindings, BindingStates
<1>7. BootUp \in Boots
  BY <1>3 DEF BootUp, Boots, BootPC
<1>8. QED
  BY <1>1, <1>2, <1>3, <1>4, <1>5, <1>6, <1>7

(* The call of an action, and what it becomes at the next program counter. *)
LEMMA CallTypes ==
    ASSUME TypeInv, NEW o \in Ops
    PROVE  /\ calls \in [Ops -> Calls] /\ calls[o] \in Calls
           /\ calls[o].p \in Profiles \cup {NoProfile} /\ calls[o].rev \in Revisions
           /\ calls[o].gen \in Generations \cup {NoGen}
           /\ calls[o].staged \in Generations \cup {NoGen}
           /\ calls[o].model \in Models \cup {NoModel} /\ calls[o].seen \in ActiveRows
           /\ calls[o].kind \in CallKinds \cup {"none"} /\ calls[o].passed \in BOOLEAN
           /\ Addressed(o)
BY DEF TypeInv, TypeOK, Calls

LEMMA GoTypes ==
    ASSUME TypeInv, NEW o \in Ops, NEW pc \in CallPC
    PROVE  LET t == [calls[o] EXCEPT !.pc = pc] IN
           /\ t \in Calls /\ t.pc = pc
           /\ t.p = calls[o].p /\ t.kind = calls[o].kind /\ t.rev = calls[o].rev
           /\ t.gen = calls[o].gen /\ t.staged = calls[o].staged
           /\ t.model = calls[o].model /\ t.seen = calls[o].seen
           /\ t.passed = calls[o].passed
BY CallTypes DEF Calls

(* While the recovery of a process that starts alone runs there is no call.*)
LEMMA BusyAccepts ==
    ASSUME TypeInv, NEW o \in Ops, calls[o].pc # "idle"
    PROVE  Accepting
BY NothingTypes DEF TypeInv, BootInOrder, Accepting

(* The step of one call that leaves every table as it is typed.            *)
TablesTyped ==
    /\ profiles \in [Profiles -> ProfileRows]
    /\ active \in ActiveRows
    /\ gens \in [Profiles -> [Generations -> GenStatuses]]
    /\ journal \in [Profiles -> Records]
    /\ vault \subseteq Profiles \X Generations
    /\ bindings \in [Runs -> Bindings]
BoundsTyped ==
    /\ faults \in 0 .. MaxFaults
    /\ starts \in 0 .. MaxStarts
    /\ started \in 0 .. MaxCalls
    /\ torn \subseteq Profiles
    /\ late \subseteq Runs

LEMMA Typed ==
    ASSUME TypeInv
    PROVE  TablesTyped /\ BoundsTyped /\ boot \in Boots /\ calls \in [Ops -> Calls]
BY DEF TypeInv, TypeOK, TablesTyped, BoundsTyped

LEMMA CallStepType ==
    ASSUME TypeInv, NEW o \in Ops, NEW t \in Calls, calls' = [calls EXCEPT ![o] = t],
           Addressed(o)', boot' = boot, Accepting, TablesTyped', BoundsTyped'
    PROVE  TypeInv'
<1>1. calls' \in [Ops -> Calls] /\ \A q \in Ops \ {o} : calls'[q] = calls[q]
  BY Typed
<1>2. TypeOK'
  BY <1>1, Typed DEF TypeOK, TablesTyped, BoundsTyped
<1>3. \A q \in Ops : Addressed(q)'
  BY <1>1 DEF TypeInv, Addressed
<1>4. BootInOrder'
  BY DEF TypeInv, BootInOrder, Accepting, Abandoned
<1>5. QED
  BY <1>2, <1>3, <1>4 DEF TypeInv

(* A step of a call to another program counter, or to its end.             *)
LEMMA GoType ==
    ASSUME TypeInv, NEW o \in Ops, NEW pc \in CallPC, Go(o, pc), boot' = boot, Accepting,
           LET t == [calls[o] EXCEPT !.pc = pc]
           IN  /\ t.pc # "idle" /\ t.pc \notin BindPC => t.p \in Profiles
               /\ t.pc \in MutationPC \cup {"begin"} =>
                     t.kind \in Intents /\ t.staged \in Generations
               /\ t.pc \in RemovalPC => t.kind = "remove"
               /\ t.pc \in RetiringPC \cup {"take", "evidence"} => t.gen \in Generations
               /\ t.pc \in {"saved", "bind"} => t.seen.profile \in Profiles,
           TablesTyped', BoundsTyped'
    PROVE  TypeInv'
<1> DEFINE t == [calls[o] EXCEPT !.pc = pc]
<1>1. t \in Calls
  BY GoTypes
<1>2. calls' = [calls EXCEPT ![o] = t]
  BY CallTypes DEF Go
<1>3. calls'[o] = t
  BY <1>2, CallTypes
<1>4. Addressed(o)'
  BY <1>3 DEF Addressed
<1>5. QED
  BY <1>1, <1>2, <1>4, CallStepType

LEMMA ReturnType ==
    ASSUME TypeInv, NEW o \in Ops, Return(o), boot' = boot, Accepting, TablesTyped', BoundsTyped'
    PROVE  TypeInv'
<1>1. calls' = [calls EXCEPT ![o] = IdleCall] /\ calls'[o] = IdleCall
  BY CallTypes DEF Return
<1>2. Addressed(o)'
  BY <1>1, NothingTypes DEF Addressed, MutationPC, RetiringPC, RemovalPC
<1>3. QED
  BY <1>1, <1>2, NothingTypes, CallStepType

LEMMA CallType ==
    ASSUME TypeInv, NEW o \in Ops, NEW kind \in CallKinds, NEW locals \in Calls,
           Call(o, kind, locals), boot' = boot,
           LET t == [locals EXCEPT !.kind = kind]
           IN  /\ t.pc # "idle" /\ t.pc \notin BindPC => t.p \in Profiles
               /\ t.pc \in MutationPC \cup {"begin"} =>
                     t.kind \in Intents /\ t.staged \in Generations
               /\ t.pc \in RemovalPC => t.kind = "remove"
               /\ t.pc \in RetiringPC \cup {"take", "evidence"} => t.gen \in Generations
               /\ t.pc \in {"saved", "bind"} => t.seen.profile \in Profiles,
           UNCHANGED <<tables, faults, starts, history>>
    PROVE  TypeInv'
<1> DEFINE t == [locals EXCEPT !.kind = kind]
<1>1. t \in Calls
  BY DEF Calls
<1>2. calls' = [calls EXCEPT ![o] = t] /\ Accepting /\ started < MaxCalls /\ started' = started + 1
  BY DEF Call
<1>3. calls'[o] = t
  BY <1>2, CallTypes
<1>4. Addressed(o)'
  BY <1>3 DEF Addressed
<1>5. TablesTyped'
  BY Typed DEF TablesTyped, tables
<1>6. BoundsTyped'
  BY Typed, <1>2, Constants DEF BoundsTyped, history
<1>7. QED
  BY <1>1, <1>2, <1>4, <1>5, <1>6, CallStepType

LEMMA SameTables ==
    ASSUME TypeInv, UNCHANGED tables
    PROVE  TablesTyped'
BY Typed DEF TablesTyped, tables

LEMMA SameBounds ==
    ASSUME TypeInv, UNCHANGED <<bounds, history>>
    PROVE  BoundsTyped'
BY Typed DEF BoundsTyped, bounds, history

LEMMA StartTypes ==
    ASSUME TypeInv, NEW o \in Ops, Start(o)
    PROVE  TypeInv'
<1>1. ASSUME NEW p \in Profiles, StartMutation(o, p)
      PROVE  TypeInv'
  <2>1. PICK kind \in {"replace", "delete"}, g \in Generations :
              /\ Call(o, kind, [IdleCall EXCEPT
                  !.pc = "begin", !.p = p, !.rev = profiles[p].rev,
                  !.gen = profiles[p].gen, !.model = profiles[p].model,
                  !.staged = g])
              /\ UNCHANGED <<tables, boot, faults, starts, history>>
    BY <1>1 DEF StartMutation
  <2> DEFINE t == [IdleCall EXCEPT !.pc = "begin", !.p = p, !.rev = profiles[p].rev,
                      !.gen = profiles[p].gen, !.model = profiles[p].model, !.staged = g]
  <2>2. t \in Calls /\ t.pc = "begin" /\ t.p = p /\ t.staged = g
    BY Typed, NothingTypes DEF TablesTyped, ProfileRows, Calls, CallPC
  <2> HIDE DEF t
  <2>3. kind \in CallKinds /\ kind \in Intents
    BY DEF CallKinds, Intents
  <2>4. LET u == [t EXCEPT !.kind = kind]
        IN u \in Calls /\ u.pc = "begin" /\ u.p = p /\ u.staged = g /\ u.kind = kind
    BY <2>2, <2>3 DEF Calls
  <2>5. Call(o, kind, t)
    BY <2>1 DEF t
  <2>6. QED
    BY <2>1, <2>2, <2>3, <2>4, <2>5, CallType DEF BindPC, RemovalPC, RetiringPC
<1>2. ASSUME NEW p \in Profiles, SaveProfile(o, p)
      PROVE  TypeInv'
  <2>1. PICK m \in Models : profiles' = [profiles EXCEPT ![p] = Draft(profiles[p].rev + 1, m, profiles[p].gen)]
                         /\ profiles[p].rev < MaxRevision
    BY <1>2 DEF SaveProfile, SaveRevision
  <2>2. profiles[p] \in ProfileRows
    BY Typed DEF TablesTyped
  <2>3. Draft(profiles[p].rev + 1, m, profiles[p].gen) \in ProfileRows
    BY <2>1, <2>2, Constants, NothingTypes DEF Draft, ProfileRows, Revisions, ProfileStates
  <2>4. TablesTyped'
    BY <1>2, <2>1, <2>3, Typed DEF TablesTyped, SaveProfile
  <2>5. BoundsTyped'
    BY <1>2, Typed, Constants DEF BoundsTyped, SaveProfile, history
  <2>6. calls' = calls /\ boot' = boot /\ Accepting
    BY <1>2 DEF SaveProfile
  <2>7. calls' = [calls EXCEPT ![o] = calls[o]] /\ Addressed(o)'
    BY <2>6, CallTypes DEF Addressed
  <2>8. QED
    BY <2>4, <2>5, <2>6, <2>7, CallTypes, CallStepType
<1>3. ASSUME NEW p \in Profiles, StartValidation(o, p)
      PROVE  TypeInv'
  <2> DEFINE t == [IdleCall EXCEPT !.pc = "probe", !.p = p, !.rev = profiles[p].rev,
                      !.gen = profiles[p].gen, !.model = profiles[p].model]
  <2>1. t \in Calls /\ t.pc = "probe" /\ t.p = p
    BY Typed, NothingTypes DEF TablesTyped, ProfileRows, Calls, CallPC
  <2>2. Call(o, "validate", t) /\ UNCHANGED <<tables, boot, faults, starts, history>>
    BY <1>3 DEF StartValidation
  <2> HIDE DEF t
  <2>3. LET u == [t EXCEPT !.kind = "validate"]
        IN u \in Calls /\ u.pc = "probe" /\ u.p = p
    BY <2>1 DEF Calls, CallKinds
  <2>4. QED
    BY <2>1, <2>2, <2>3, CallType DEF BindPC, RemovalPC, RetiringPC, MutationPC, CallKinds
<1>4. ASSUME NEW p \in Profiles, NEW m \in Models, StartSwitch(o, p, m)
      PROVE  TypeInv'
  <2> DEFINE t == [IdleCall EXCEPT !.pc = "fresh", !.p = p, !.rev = profiles[p].rev, !.model = m,
                                   !.seen = active]
  <2>1. t \in Calls /\ t.pc = "fresh" /\ t.p = p
    BY Typed, NothingTypes DEF TablesTyped, ProfileRows, Calls, CallPC
  <2>2. Call(o, "switch", t) /\ UNCHANGED <<tables, boot, faults, starts, history>>
    BY <1>4 DEF StartSwitch
  <2> HIDE DEF t
  <2>3. LET u == [t EXCEPT !.kind = "switch"]
        IN u \in Calls /\ u.pc = "fresh" /\ u.p = p
    BY <2>1 DEF Calls, CallKinds
  <2>4. QED
    BY <2>1, <2>2, <2>3, CallType DEF BindPC, RemovalPC, RetiringPC, MutationPC, CallKinds
<1>5. ASSUME NEW p \in Profiles, StartActivation(o, p)
      PROVE  TypeInv'
  <2> DEFINE t == [IdleCall EXCEPT !.pc = "expect", !.p = p, !.rev = profiles[p].rev,
                                   !.model = profiles[p].model]
  <2>1. t \in Calls /\ t.pc = "expect" /\ t.p = p
    BY Typed, NothingTypes DEF TablesTyped, ProfileRows, Calls, CallPC
  <2>2. Call(o, "activate", t) /\ UNCHANGED <<tables, boot, faults, starts, history>>
    BY <1>5 DEF StartActivation
  <2> HIDE DEF t
  <2>3. LET u == [t EXCEPT !.kind = "activate"]
        IN u \in Calls /\ u.pc = "expect" /\ u.p = p
    BY <2>1 DEF Calls, CallKinds
  <2>4. QED
    BY <2>1, <2>2, <2>3, CallType DEF BindPC, RemovalPC, RetiringPC, MutationPC, CallKinds
<1>6. ASSUME NEW p \in Profiles, StartDelete(o, p)
      PROVE  TypeInv'
  <2> DEFINE pc == IF profiles[p].gen = NoGen THEN "removeRow" ELSE "take"
             t == [IdleCall EXCEPT !.pc = pc, !.p = p, !.rev = profiles[p].rev,
                                   !.gen = profiles[p].gen, !.seen = active]
  <2>1. t \in Calls /\ t.pc = pc /\ t.p = p /\ t.gen = profiles[p].gen
        /\ t.gen \in Generations \cup {NoGen}
    BY Typed, NothingTypes DEF TablesTyped, ProfileRows, Calls, CallPC
  <2>2. Call(o, "remove", t) /\ UNCHANGED <<tables, boot, faults, starts, history>>
    BY <1>6 DEF StartDelete
  <2>3. pc \in {"removeRow", "take"} /\ (pc = "take" => profiles[p].gen # NoGen)
    OBVIOUS
  <2> HIDE DEF t, pc
  <2>4. LET u == [t EXCEPT !.kind = "remove"]
        IN u \in Calls /\ u.pc = pc /\ u.p = p /\ u.kind = "remove" /\ u.gen = t.gen
    BY <2>1 DEF Calls, CallKinds
  <2>5. QED
    BY <2>1, <2>2, <2>3, <2>4, CallType DEF BindPC, RemovalPC, RetiringPC, MutationPC, CallKinds
<1>7. ASSUME StartRun(o)
      PROVE  TypeInv'
  <2> DEFINE t == [IdleCall EXCEPT !.pc = "verify"]
  <2>1. t \in Calls /\ t.pc = "verify"
    BY NothingTypes DEF Calls, CallPC
  <2>2. Call(o, "bind", t) /\ UNCHANGED <<tables, boot, faults, starts, history>>
    BY <1>7 DEF StartRun
  <2> HIDE DEF t
  <2>3. LET u == [t EXCEPT !.kind = "bind"]
        IN u \in Calls /\ u.pc = "verify"
    BY <2>1 DEF Calls, CallKinds
  <2>4. QED
    BY <2>1, <2>2, <2>3, CallType DEF BindPC, RemovalPC, RetiringPC, MutationPC, CallKinds
<1>8. QED
  BY <1>1, <1>2, <1>3, <1>4, <1>5, <1>6, <1>7 DEF Start

(* What the transactions make of the tables.                               *)
LEMMA SetStatusTypes ==
    ASSUME TypeInv, NEW p \in Profiles, NEW g \in Generations \cup {NoGen},
           NEW st \in GenStatuses
    PROVE  SetStatus(p, g, st) \in [Profiles -> [Generations -> GenStatuses]]
<1>1. gens \in [Profiles -> [Generations -> GenStatuses]]
  BY Typed DEF TablesTyped
<1>2. CASE g = NoGen
  BY <1>1, <1>2 DEF SetStatus
<1>3. CASE g \in Generations
  <2>1. [gens[p] EXCEPT ![g] = st] \in [Generations -> GenStatuses]
    BY <1>1
  <2>2. [gens EXCEPT ![p][g] = st] \in [Profiles -> [Generations -> GenStatuses]]
    BY <1>1, <2>1
  <2>3. QED
    BY <2>2, <1>1 DEF SetStatus
<1>4. QED
  BY <1>2, <1>3

LEMMA TransitionTypes ==
    ASSUME TypeInv, NEW p \in Profiles, NEW ph, Transition(p, ph)
    PROVE  /\ journal' \in [Profiles -> Records]
           /\ journal[p] \in Records
           /\ journal' = [journal EXCEPT ![p] = [journal[p] EXCEPT !.phase = ph]]
           /\ ph \in Phases
<1>1. journal \in [Profiles -> Records]
  BY Typed DEF TablesTyped
<1>2. ph \in Phases
  BY DEF Transition, NextPhases, Phases
<1>3. [journal[p] EXCEPT !.phase = ph] \in Records
  BY <1>1, <1>2 DEF Records
<1>4. journal' = [journal EXCEPT ![p] = [journal[p] EXCEPT !.phase = ph]]
  BY <1>1 DEF Transition
<1>5. QED
  BY <1>1, <1>2, <1>3, <1>4

LEMMA JournalTypes ==
    ASSUME TypeInv, NEW p \in Profiles
    PROVE  /\ journal[p] \in Records /\ journal[p].op \in Ops \cup {NoOp}
           /\ journal[p].phase \in Phases /\ journal[p].intent \in Intents
           /\ journal[p].base \in Revisions
           /\ journal[p].old \in Generations \cup {NoGen}
           /\ journal[p].staged \in Generations \cup {NoGen}
BY Typed DEF TablesTyped, Records

LEMMA InMutation ==
    ASSUME TypeInv, NEW o \in Ops, calls[o].pc \in MutationPC \cup {"begin"}
    PROVE  /\ calls[o].p \in Profiles /\ calls[o].kind \in Intents
           /\ calls[o].staged \in Generations /\ Accepting
           /\ calls[o].gen \in Generations \cup {NoGen} /\ calls[o].rev \in Revisions
           /\ calls[o].pc \in RetiringPC => calls[o].gen \in Generations
<1>1. calls[o].pc # "idle" /\ calls[o].pc \notin BindPC
  BY DEF MutationPC, BindPC
<1>2. QED
  BY <1>1, CallTypes, BusyAccepts DEF Addressed

LEMMA MutationGo ==
    ASSUME TypeInv, NEW o \in Ops, calls[o].pc \in MutationPC \cup {"begin"},
           NEW pc \in MutationPC, Go(o, pc), pc \in RetiringPC => calls[o].gen \in Generations,
           boot' = boot, UNCHANGED <<bounds, history>>, TablesTyped'
    PROVE  TypeInv'
<1>1. pc \in CallPC /\ pc \notin RemovalPC /\ pc \notin {"take", "evidence", "saved", "bind"}
  BY DEF MutationPC, CallPC, RemovalPC
<1>2. QED
  BY <1>1, InMutation, GoTypes, GoType, SameBounds

LEMMA MutationReturn ==
    ASSUME TypeInv, NEW o \in Ops, calls[o].pc \in MutationPC \cup {"begin"}, Return(o),
           boot' = boot, UNCHANGED <<bounds, history>>, TablesTyped'
    PROVE  TypeInv'
BY InMutation, ReturnType, SameBounds

LEMMA PutTypes ==
    ASSUME TypeInv, NEW p \in Profiles, NEW g \in Generations, Put(p, g) \/ Remove(p, g)
    PROVE  vault' \subseteq Profiles \X Generations
BY Typed DEF TablesTyped, Put, Remove

LEMMA MutationTypes ==
    ASSUME TypeInv, NEW o \in Ops, Mutation(o)
    PROVE  TypeInv'
<1> USE DEF At
<1>1. CASE BeginMutation(o)
  <2> DEFINE c == calls[o]
  <2>1. calls[o].pc \in MutationPC \cup {"begin"} /\ boot' = boot /\ UNCHANGED <<bounds, history>>
        /\ UNCHANGED <<profiles, active, vault, bindings>>
    BY <1>1 DEF BeginMutation
  <2>2. CASE MayBegin(c.p, c.rev, c.gen, c.staged)
    <3>1. Begin(c.p, o, c.kind, c.rev, c.gen, c.staged) /\ Go(o, "write")
      BY <1>1, <2>2 DEF BeginMutation
    <3> DEFINE rec == [op |-> o, phase |-> "IntentRecorded", intent |-> c.kind,
                       base |-> c.rev, old |-> c.gen, staged |-> c.staged]
    <3>2. rec \in Records
      BY <2>1, InMutation DEF Records, Phases
    <3>3. journal' = [journal EXCEPT ![c.p] = rec] /\ gens' = SetStatus(c.p, c.staged, "retained")
      BY <3>1 DEF Begin
    <3> HIDE DEF rec
    <3>4. TablesTyped'
      BY <2>1, <3>2, <3>3, InMutation, SetStatusTypes, Typed DEF TablesTyped, GenStatuses
    <3>5. QED
      BY <2>1, <3>1, <3>4, MutationGo DEF MutationPC, RetiringPC
  <2>3. CASE ~MayBegin(c.p, c.rev, c.gen, c.staged)
    <3>1. Return(o) /\ UNCHANGED tables
      BY <1>1, <2>3 DEF BeginMutation, tables
    <3>2. QED
      BY <2>1, <3>1, SameTables, MutationReturn
  <2>4. QED
    BY <2>2, <2>3
<1>2. CASE WriteVault(o)
  <2>1. calls[o].pc \in MutationPC \cup {"begin"} /\ boot' = boot /\ UNCHANGED <<bounds, history>>
    BY <1>2 DEF WriteVault, MutationPC
  <2>2. TablesTyped'
    BY <1>2, <2>1, InMutation, PutTypes, Typed DEF TablesTyped, WriteVault
  <2>3. Go(o, "record") \/ Go(o, "undo")
    BY <1>2 DEF WriteVault
  <2>4. QED
    BY <2>1, <2>2, <2>3, MutationGo DEF MutationPC, RetiringPC
<1>3. CASE RecordVaultWrite(o)
  <2>1. calls[o].pc \in MutationPC \cup {"begin"} /\ boot' = boot /\ UNCHANGED <<bounds, history>>
        /\ UNCHANGED <<profiles, active, vault, bindings>> /\ calls[o].p \in Profiles
    BY <1>3, InMutation DEF RecordVaultWrite, MutationPC
  <2>2. TablesTyped'
    <3>1. CASE MayRecordWrite(calls[o].p, o)
      <4>1. Transition(calls[o].p, "VaultWritten")
            /\ gens' = SetStatus(calls[o].p, journal[calls[o].p].staged, "available")
        BY <1>3, <3>1 DEF RecordVaultWrite, RecordWrite
      <4>2. QED
        BY <2>1, <4>1, TransitionTypes, JournalTypes, SetStatusTypes, Typed
           DEF TablesTyped, GenStatuses
    <3>2. CASE ~MayRecordWrite(calls[o].p, o)
      BY <1>3, <2>1, <3>2, Typed DEF TablesTyped, RecordVaultWrite
    <3>3. QED
      BY <3>1, <3>2
  <2>3. Go(o, "commit") \/ Go(o, "block")
    BY <1>3 DEF RecordVaultWrite
  <2>4. QED
    BY <2>1, <2>2, <2>3, MutationGo DEF MutationPC, RetiringPC
<1>4. CASE CommitCredentialPointer(o)
  <2> DEFINE c == calls[o]
  <2>1. calls[o].pc \in MutationPC \cup {"begin"} /\ boot' = boot /\ UNCHANGED <<bounds, history>>
        /\ UNCHANGED <<active, vault, bindings>> /\ calls[o].p \in Profiles
    BY <1>4, InMutation DEF CommitCredentialPointer, MutationPC
  <2>2. CASE CommitPointer(c.p, c.model) /\ Go(o, IF c.gen # NoGen THEN "refs" ELSE AfterCleanup(c.kind))
    <3> DEFINE new == IF journal[c.p].intent = "replace" THEN journal[c.p].staged ELSE NoGen
    <3>1. /\ journal[c.p].base < MaxRevision /\ Transition(c.p, "PointerCommitted")
          /\ profiles' = [profiles EXCEPT ![c.p] = Draft(journal[c.p].base + 1, c.model, new)]
          /\ gens' = gens \/ gens' = SetStatus(c.p, journal[c.p].old, "retained")
      BY <2>2 DEF CommitPointer
    <3>2. Draft(journal[c.p].base + 1, c.model, new) \in ProfileRows
      BY <2>1, <3>1, JournalTypes, CallTypes, NothingTypes, Constants
         DEF Draft, ProfileRows, Revisions, ProfileStates
    <3> HIDE DEF new
    <3>3. TablesTyped'
      BY <2>1, <3>1, <3>2, JournalTypes, TransitionTypes, SetStatusTypes, Typed
         DEF TablesTyped, GenStatuses
    <3>4. CASE c.gen # NoGen
      <4>1. Go(o, "refs") /\ c.gen \in Generations
        BY <2>2, <3>4, CallTypes
      <4>2. QED
        BY <2>1, <3>3, <4>1, MutationGo DEF MutationPC
    <3>5. CASE c.gen = NoGen
      <4>1. Go(o, "cleanup") \/ Go(o, "complete")
        BY <2>2, <3>5 DEF AfterCleanup
      <4>2. QED
        BY <2>1, <3>3, <4>1, MutationGo DEF MutationPC, RetiringPC
    <3>6. QED
      BY <3>4, <3>5
  <2>3. CASE Transition(c.p, "CleanupPending") /\ Go(o, "undo") /\ UNCHANGED <<profiles, gens>>
    <3>1. TablesTyped'
      BY <2>1, <2>3, TransitionTypes, Typed DEF TablesTyped
    <3>2. QED
      BY <2>1, <2>3, <3>1, MutationGo DEF MutationPC, RetiringPC
  <2>4. CASE Go(o, "undo") /\ UNCHANGED <<profiles, gens, journal>>
    <3>1. TablesTyped'
      BY <2>1, <2>4, Typed DEF TablesTyped
    <3>2. QED
      BY <2>1, <2>4, <3>1, MutationGo DEF MutationPC, RetiringPC
  <2>5. QED
    BY <1>4, <2>2, <2>3, <2>4 DEF CommitCredentialPointer
<1>5. CASE UndoVaultWrite(o) \/ DeleteRollbackCopy(o)
  <2>1. calls[o].pc \in MutationPC \cup {"begin"} /\ boot' = boot /\ UNCHANGED <<bounds, history>>
        /\ Remove(calls[o].p, calls[o].staged)
        /\ UNCHANGED <<profiles, active, gens, journal, bindings>>
        /\ (Go(o, "undoStore") \/ Go(o, "complete"))
    BY <1>5 DEF UndoVaultWrite, DeleteRollbackCopy, MutationPC
  <2>2. TablesTyped'
    BY <2>1, InMutation, PutTypes, Typed DEF TablesTyped
  <2>3. QED
    BY <2>1, <2>2, MutationGo DEF MutationPC, RetiringPC
<1>6. CASE UndoJournal(o)
  <2>1. calls[o].pc \in MutationPC \cup {"begin"} /\ boot' = boot /\ UNCHANGED <<bounds, history>>
        /\ UNCHANGED <<profiles, active, vault, bindings>> /\ calls[o].p \in Profiles
    BY <1>6, InMutation DEF UndoJournal, MutationPC
  <2>2. CASE MayRollback(calls[o].p, o)
    <3>1. Transition(calls[o].p, "RolledBack") /\ Return(o)
          /\ gens' = SetStatus(calls[o].p, journal[calls[o].p].staged, "deleted")
      BY <1>6, <2>2 DEF UndoJournal, Rollback
    <3>2. TablesTyped'
      BY <2>1, <3>1, TransitionTypes, JournalTypes, SetStatusTypes, Typed
         DEF TablesTyped, GenStatuses
    <3>3. QED
      BY <2>1, <3>1, <3>2, MutationReturn
  <2>3. CASE ~MayRollback(calls[o].p, o)
    <3>1. Go(o, "block") /\ UNCHANGED tables
      BY <1>6, <2>3 DEF UndoJournal, tables
    <3>2. QED
      BY <2>1, <3>1, SameTables, MutationGo DEF MutationPC, RetiringPC
  <2>4. QED
    BY <2>2, <2>3
<1>7. CASE ReadRunReferences(o)
  <2>1. calls[o].pc \in MutationPC \cup {"begin"} /\ boot' = boot /\ UNCHANGED <<bounds, history>>
        /\ UNCHANGED tables /\ calls[o].gen \in Generations
    BY <1>7, InMutation DEF ReadRunReferences, MutationPC, RetiringPC
  <2>2. Go(o, "cleanup") \/ Go(o, "complete") \/ Go(o, "activeRef")
    BY <1>7 DEF ReadRunReferences, AfterCleanup
  <2>3. QED
    BY <2>1, <2>2, SameTables, MutationGo DEF MutationPC
<1>8. CASE ReadActiveReference(o)
  <2>1. calls[o].pc \in MutationPC \cup {"begin"} /\ boot' = boot /\ UNCHANGED <<bounds, history>>
        /\ UNCHANGED tables /\ calls[o].gen \in Generations
    BY <1>8, InMutation DEF ReadActiveReference, MutationPC, RetiringPC
  <2>2. Go(o, "block") \/ Go(o, "cleanup") \/ Go(o, "complete") \/ Go(o, "retire")
    BY <1>8 DEF ReadActiveReference, AfterCleanup
  <2>3. QED
    BY <2>1, <2>2, SameTables, MutationGo DEF MutationPC
<1>9. CASE RetireVault(o)
  <2>1. calls[o].pc \in MutationPC \cup {"begin"} /\ boot' = boot /\ UNCHANGED <<bounds, history>>
        /\ calls[o].gen \in Generations /\ Remove(calls[o].p, calls[o].gen) /\ Go(o, "retireStore")
        /\ UNCHANGED <<profiles, active, gens, journal, bindings>>
    BY <1>9, InMutation DEF RetireVault, MutationPC, RetiringPC
  <2>2. TablesTyped'
    BY <2>1, InMutation, PutTypes, Typed DEF TablesTyped
  <2>3. QED
    BY <2>1, <2>2, MutationGo DEF MutationPC
<1>10. CASE RetireStatus(o)
  <2>1. calls[o].pc \in MutationPC \cup {"begin"} /\ boot' = boot /\ UNCHANGED <<bounds, history>>
        /\ UNCHANGED <<profiles, active, journal, vault, bindings>>
        /\ (gens' = gens \/ gens' = SetStatus(calls[o].p, calls[o].gen, "deleted"))
    <3>1. CASE MayRetire(calls[o].p, calls[o].gen)
      BY <1>10, <3>1 DEF RetireStatus, MutationPC
    <3>2. CASE ~MayRetire(calls[o].p, calls[o].gen)
      BY <1>10, <3>2 DEF RetireStatus, MutationPC
    <3>3. QED
      BY <3>1, <3>2
  <2> DEFINE retired == SetStatus(calls[o].p, calls[o].gen, "deleted")
  <2>r. retired \in [Profiles -> [Generations -> GenStatuses]]
    BY <2>1, InMutation, SetStatusTypes DEF GenStatuses
  <2>2. TablesTyped'
    <3> HIDE DEF retired
    <3>1. gens' = gens \/ gens' = retired
      BY <2>1 DEF retired
    <3>2. gens' \in [Profiles -> [Generations -> GenStatuses]]
      BY <3>1, <2>r, Typed DEF TablesTyped
    <3>3. QED
      BY <2>1, <3>2, Typed DEF TablesTyped
  <2>3. Go(o, "block") \/ Go(o, "cleanup") \/ Go(o, "complete")
    BY <1>10 DEF RetireStatus, AfterCleanup
  <2>4. QED
    BY <2>1, <2>2, <2>3, MutationGo DEF MutationPC, RetiringPC
<1>11. CASE CompleteMutation(o)
  <2> DEFINE p == calls[o].p
  <2>1. calls[o].pc \in MutationPC \cup {"begin"} /\ boot' = boot /\ UNCHANGED <<bounds, history>>
        /\ UNCHANGED <<profiles, active, vault, bindings>> /\ p \in Profiles
    BY <1>11, InMutation DEF CompleteMutation, MutationPC
  <2>2. CASE InPhase(p, o, {"PointerCommitted"})
    <3>1. Complete(p) /\ Return(o)
      BY <1>11, <2>2 DEF CompleteMutation
    <3> DEFINE old == SetStatus(p, journal[p].old, "retained")
    <3>2. old \in [Profiles -> [Generations -> GenStatuses]]
      BY <2>1, JournalTypes, SetStatusTypes DEF GenStatuses
    <3>3. Transition(p, "Completed")
          /\ (gens' = old \/ gens' = [old EXCEPT ![p][journal[p].staged] = "deleted"])
      BY <3>1 DEF Complete
    <3> HIDE DEF old
    <3>4. [old[p] EXCEPT ![journal[p].staged] = "deleted"] \in [Generations -> GenStatuses]
      BY <2>1, <3>2 DEF GenStatuses
    <3>5. [old EXCEPT ![p][journal[p].staged] = "deleted"] \in [Profiles -> [Generations -> GenStatuses]]
      BY <2>1, <3>2, <3>4
    <3>6. TablesTyped'
      BY <2>1, <3>2, <3>3, <3>5, TransitionTypes, Typed DEF TablesTyped
    <3>7. QED
      BY <2>1, <3>1, <3>6, MutationReturn
  <2>3. CASE ~InPhase(p, o, {"PointerCommitted"})
    <3>1. Go(o, "block") /\ UNCHANGED tables
      BY <1>11, <2>3 DEF CompleteMutation, tables
    <3>2. QED
      BY <2>1, <3>1, SameTables, MutationGo DEF MutationPC, RetiringPC
  <2>4. QED
    BY <2>2, <2>3
<1>12. CASE BlockMutation(o)
  <2> DEFINE p == calls[o].p
  <2>1. calls[o].pc \in MutationPC \cup {"begin"} /\ boot' = boot /\ UNCHANGED <<bounds, history>>
        /\ UNCHANGED <<profiles, vault, bindings>> /\ p \in Profiles /\ Return(o)
    BY <1>12, InMutation DEF BlockMutation, MutationPC
  <2>2. TablesTyped'
    <3>1. CASE UNCHANGED <<journal, gens, active>>
      BY <2>1, <3>1, Typed DEF TablesTyped
    <3>2. CASE Block(p)
      <4>1. /\ Transition(p, "Blocked") /\ gens' = SetStatus(p, journal[p].staged, "revoked")
            /\ active' \in {NoActive, active}
        BY <3>2 DEF Block
      <4>2. QED
        BY <2>1, <4>1, TransitionTypes, JournalTypes, SetStatusTypes, Typed, NothingTypes
           DEF TablesTyped, GenStatuses
    <3>3. QED
      BY <1>12, <3>1, <3>2 DEF BlockMutation
  <2>3. QED
    BY <2>1, <2>2, MutationReturn
<1>13. QED
  BY <1>1, <1>2, <1>3, <1>4, <1>5, <1>6, <1>7, <1>8, <1>9, <1>10, <1>11, <1>12 DEF Mutation

LEMMA RowUpdates ==
    ASSUME NEW row \in ProfileRows, NEW st \in ProfileStates
    PROVE  /\ [row EXCEPT !.state = st] \in ProfileRows
           /\ \A proof \in Proofs : [row EXCEPT !.state = st, !.proof = proof] \in ProfileRows
BY DEF ProfileRows

LEMMA SelectionTypes ==
    ASSUME TypeInv, NEW o \in Ops, Selection(o)
    PROVE  TypeInv'
<1> DEFINE c == calls[o]
<1> USE DEF At
<1>1. /\ c.pc \in CallPC
      /\ c.pc \notin BindPC \cup {"idle"} => c.p \in Profiles /\ Accepting
      /\ c.pc = "evidence" => c.gen \in Generations
      /\ profiles \in [Profiles -> ProfileRows]
  BY CallTypes, BusyAccepts, Typed DEF Addressed, TablesTyped, Calls
<1>2. ASSUME NEW pc \in CallPC, NEW t \in Calls, calls' = [calls EXCEPT ![o] = t],
             t.p \in Profiles, t.pc \notin MutationPC \cup RemovalPC \cup BindPC \cup {"begin"},
             t.pc \in {"evidence"} => t.gen \in Generations,
             Accepting, UNCHANGED <<bounds, history, boot>>, TablesTyped'
      PROVE  TypeInv'
  <2>1. calls'[o] = t /\ t.pc \notin RetiringPC \cup {"take", "saved", "bind"}
    BY <1>2, CallTypes DEF RetiringPC, MutationPC, RemovalPC, BindPC
  <2>2. Addressed(o)'
    BY <1>2, <2>1 DEF Addressed
  <2>3. QED
    BY <1>2, <2>2, SameBounds, CallStepType
<1>3. CASE Probe(o)
  <2>1. PICK ok \in BOOLEAN : calls' = [calls EXCEPT ![o].pc = "evidence", ![o].passed = ok]
    BY <1>3 DEF Probe
  <2> DEFINE t == [c EXCEPT !.pc = "evidence", !.passed = ok]
  <2>2. t \in Calls /\ t.pc = "evidence" /\ t.p = c.p /\ t.gen = c.gen
    <3>1. "evidence" \in CallPC
      BY DEF CallPC
    <3>2. QED
      BY <3>1, CallTypes DEF Calls
  <2>3. calls' = [calls EXCEPT ![o] = t]
    BY <2>1, CallTypes
  <2>4. c.gen \in Generations /\ c.pc = "probe" /\ UNCHANGED <<tables, boot, bounds, history>>
    BY <1>3, CallTypes DEF Probe
  <2> HIDE DEF t
  <2>5. QED
    BY <1>1, <1>2, <2>2, <2>3, <2>4, SameTables DEF BindPC, MutationPC, RemovalPC, CallPC
<1>4. CASE CommitValidation(o)
  <2> DEFINE proof == [model |-> c.model, gen |-> c.gen]
             row == [profiles[c.p] EXCEPT !.state = IF c.passed THEN "Ready" ELSE "Invalid",
                                          !.proof = proof]
  <2>1. c.pc = "evidence" /\ c.p \in Profiles /\ Accepting
        /\ UNCHANGED <<boot, active, gens, journal, vault, bindings, bounds, history>>
    BY <1>1, <1>4 DEF CommitValidation, BindPC
  <2>2. proof \in Proofs
    BY CallTypes DEF Proofs
  <2>3. row \in ProfileRows
    BY <1>1, <2>1, <2>2, RowUpdates DEF ProfileStates
  <2>4. SaveValidation(c.p, c.rev, proof, c.passed)
    BY <1>4 DEF CommitValidation
  <2> HIDE DEF proof
  <2>5. profiles' = [profiles EXCEPT ![c.p] = row]
    BY <1>1, <2>1, <2>4 DEF SaveValidation
  <2>6. TablesTyped'
    BY <2>1, <2>3, <2>5, Typed DEF TablesTyped
  <2>7. CASE Go(o, "ready")
    BY <2>1, <2>6, <2>7, GoType, GoTypes, SameBounds
       DEF CallPC, MutationPC, RemovalPC, RetiringPC, BindPC
  <2>8. CASE Return(o)
    BY <2>1, <2>6, <2>8, ReturnType, SameBounds
  <2>9. QED
    BY <1>4, <2>7, <2>8 DEF CommitValidation
<1>5. CASE CheckCandidate(o)
  <2> DEFINE row == profiles[c.p]
             pc == IF row.model = c.model /\ row.state = "Ready" THEN "activate" ELSE "discover"
             t == [c EXCEPT !.gen = row.gen, !.pc = pc]
  <2>1. c.pc = "fresh" /\ c.p \in Profiles /\ Accepting /\ UNCHANGED <<tables, boot, bounds, history>>
    BY <1>1, <1>5 DEF CheckCandidate, BindPC
  <2>2. row.gen \in Generations \cup {NoGen}
    BY <1>1, <2>1 DEF ProfileRows
  <2>3. t \in Calls /\ t.pc \in {"activate", "discover"} /\ t.p = c.p
    <3>1. pc \in CallPC /\ pc \in {"activate", "discover"}
      BY DEF CallPC
    <3> HIDE DEF pc
    <3>2. QED
      BY <2>2, <3>1, CallTypes DEF Calls
  <2>4. calls' = [calls EXCEPT ![o] = t]
    BY <1>5, CallTypes DEF CheckCandidate
  <2> HIDE DEF t
  <2>5. QED
    BY <1>2, <2>1, <2>3, <2>4, SameTables DEF BindPC, MutationPC, RemovalPC, CallPC
<1>6. CASE DiscoverModels(o) \/ RecheckCandidate(o)
  <2>1. c.pc \in {"discover", "recheck"} /\ UNCHANGED <<tables, boot, bounds, history>>
        /\ (Go(o, "recheck") \/ Go(o, "probe") \/ Go(o, "draft"))
    BY <1>6 DEF DiscoverModels, RecheckCandidate
  <2>2. c.p \in Profiles /\ Accepting
    BY <1>1, <2>1 DEF BindPC
  <2>3. QED
    BY <2>1, <2>2, GoType, GoTypes, SameBounds, SameTables
       DEF CallPC, MutationPC, RemovalPC, RetiringPC, BindPC
<1>7. CASE SaveCandidateDraft(o)
  <2> DEFINE t == [c EXCEPT !.pc = "probe", !.rev = c.rev + 1]
  <2>1. c.pc = "draft" /\ c.p \in Profiles /\ Accepting
        /\ UNCHANGED <<active, gens, journal, vault, bindings, boot, bounds, history>>
    BY <1>1, <1>7 DEF SaveCandidateDraft, BindPC
  <2>2. /\ profiles[c.p].rev = c.rev /\ c.rev < MaxRevision
        /\ profiles' = [profiles EXCEPT ![c.p] = Draft(c.rev + 1, c.model, c.gen)]
    BY <1>7 DEF SaveCandidateDraft, SaveRevision
  <2>3. c.rev + 1 \in Revisions
    BY <2>2, CallTypes, Constants DEF Revisions
  <2>4. Draft(c.rev + 1, c.model, c.gen) \in ProfileRows
    BY <2>3, CallTypes, NothingTypes DEF Draft, ProfileRows, ProfileStates
  <2>5. t \in Calls /\ t.pc = "probe" /\ t.p = c.p
    <3>1. "probe" \in CallPC
      BY DEF CallPC
    <3>2. QED
      BY <2>3, <3>1, CallTypes DEF Calls
  <2>6. calls' = [calls EXCEPT ![o] = t]
    BY <1>7, CallTypes DEF SaveCandidateDraft
  <2>7. TablesTyped'
    BY <2>1, <2>2, <2>4, Typed DEF TablesTyped
  <2> HIDE DEF t
  <2>8. QED
    BY <1>2, <2>1, <2>5, <2>6, <2>7 DEF BindPC, MutationPC, RemovalPC, CallPC
<1>8. CASE LoadReady(o)
  <2> DEFINE t == [c EXCEPT !.pc = "activate", !.rev = profiles[c.p].rev, !.model = profiles[c.p].model]
  <2>1. c.pc = "ready" /\ c.p \in Profiles /\ Accepting /\ UNCHANGED <<tables, boot, bounds, history>>
    BY <1>1, <1>8 DEF LoadReady, BindPC
  <2>2. t \in Calls /\ t.pc = "activate" /\ t.p = c.p
    <3>1. /\ "activate" \in CallPC /\ profiles[c.p].rev \in Revisions
          /\ profiles[c.p].model \in Models \cup {NoModel}
      BY <1>1, <2>1 DEF CallPC, ProfileRows
    <3>2. QED
      BY <3>1, CallTypes DEF Calls
  <2>3. calls' = [calls EXCEPT ![o] = t]
    BY <1>8, CallTypes DEF LoadReady
  <2> HIDE DEF t
  <2>4. QED
    BY <1>2, <2>1, <2>2, <2>3, SameTables DEF BindPC, MutationPC, RemovalPC, CallPC
<1>9. CASE ExpectActivation(o)
  <2> DEFINE t == [c EXCEPT !.pc = "activate", !.seen = active]
  <2>1. c.pc = "expect" /\ c.p \in Profiles /\ Accepting /\ UNCHANGED <<tables, boot, bounds, history>>
    BY <1>1, <1>9 DEF ExpectActivation, BindPC
  <2>2. t \in Calls /\ t.pc = "activate" /\ t.p = c.p
    <3>1. "activate" \in CallPC /\ active \in ActiveRows
      BY Typed DEF CallPC, TablesTyped
    <3>2. QED
      BY <3>1, CallTypes DEF Calls
  <2>3. calls' = [calls EXCEPT ![o] = t]
    BY <1>9, CallTypes DEF ExpectActivation
  <2> HIDE DEF t
  <2>4. QED
    BY <1>2, <2>1, <2>2, <2>3, SameTables DEF BindPC, MutationPC, RemovalPC, CallPC
<1>10. CASE ActivateProfile(o)
  <2>1. c.pc = "activate" /\ c.p \in Profiles /\ Accepting /\ Return(o) /\ Activate(c.p)
        /\ UNCHANGED <<profiles, gens, journal, vault, bindings, boot, bounds, history>>
    BY <1>1, <1>10 DEF ActivateProfile, BindPC
  <2>2. active.number + 1 \in 0 .. MaxActivation /\ active' = Snapshot(c.p, active.number + 1)
    BY <2>1, Typed, Constants DEF Activate, TablesTyped, ActiveRows
  <2>3. active' \in ActiveRows
    BY <1>1, <2>1, <2>2 DEF Snapshot, ActiveRows, ProfileRows
  <2>4. TablesTyped'
    BY <2>1, <2>3, Typed DEF TablesTyped
  <2>5. QED
    BY <2>1, <2>4, ReturnType, SameBounds
<1>11. QED
  BY <1>3, <1>4, <1>5, <1>6, <1>7, <1>8, <1>9, <1>10 DEF Selection

LEMMA DeletionTypes ==
    ASSUME TypeInv, NEW o \in Ops, Deletion(o)
    PROVE  TypeInv'
<1> USE DEF At
<1>1. /\ calls[o].p \in Profiles /\ Accepting /\ calls[o].kind = "remove"
      /\ calls[o].pc \in RemovalPC
      /\ calls[o].pc = "take" => calls[o].gen \in Generations
  <2>1. calls[o].pc \in RemovalPC /\ calls[o].pc # "idle" /\ calls[o].pc \notin BindPC
    BY DEF Deletion, TakeCredential, RemoveProfile, RestoreCredential, RemovalPC, BindPC
  <2>2. QED
    BY <2>1, CallTypes, BusyAccepts DEF Addressed
<1>2. CASE TakeCredential(o)
  <2>1. TablesTyped' /\ UNCHANGED <<boot, bounds, history>> /\ Go(o, "removeRow")
    BY <1>1, <1>2, PutTypes, Typed DEF TablesTyped, TakeCredential
  <2>2. QED
    BY <1>1, <2>1, GoType, GoTypes, SameBounds
       DEF CallPC, MutationPC, RemovalPC, RetiringPC, BindPC
<1>3. CASE RemoveProfile(o)
  <2> DEFINE p == calls[o].p
  <2>1. UNCHANGED <<journal, vault, bindings, boot, bounds, history>>
    BY <1>3 DEF RemoveProfile
  <2>2. CASE DeleteProfileRow(p) /\ Return(o)
    <3> DEFINE row == [g \in Generations |-> IF gens[p][g] = "none" THEN "none" ELSE "deleted"]
    <3>1. row \in [Generations -> GenStatuses]
      BY DEF GenStatuses
    <3>2. gens' = [gens EXCEPT ![p] = row] /\ active' \in {active, NoActive}
          /\ profiles' = [profiles EXCEPT ![p] = [profiles[p] EXCEPT !.state = "Deleted"]]
      BY <1>1, <2>2, Typed DEF DeleteProfileRow, TablesTyped
    <3>3. [profiles[p] EXCEPT !.state = "Deleted"] \in ProfileRows
      BY <1>1, Typed, RowUpdates DEF TablesTyped, ProfileStates
    <3> HIDE DEF row
    <3>4. TablesTyped'
      BY <1>1, <2>1, <3>1, <3>2, <3>3, Typed, NothingTypes DEF TablesTyped
    <3>5. QED
      BY <1>1, <2>1, <2>2, <3>4, ReturnType, SameBounds
  <2>3. CASE Go(o, "restore") /\ UNCHANGED <<profiles, active, gens>>
    <3>1. TablesTyped'
      BY <2>1, <2>3, Typed DEF TablesTyped
    <3>2. QED
      BY <1>1, <2>1, <2>3, <3>1, GoType, GoTypes, SameBounds
         DEF CallPC, MutationPC, RemovalPC, RetiringPC, BindPC
  <2>4. QED
    BY <1>3, <2>2, <2>3 DEF RemoveProfile
<1>4. CASE RestoreCredential(o)
  <2>1. TablesTyped' /\ UNCHANGED <<boot, bounds, history>> /\ Return(o)
    BY <1>1, <1>4, CallTypes, PutTypes, Typed DEF TablesTyped, RestoreCredential
  <2>2. QED
    BY <1>1, <2>1, ReturnType, SameBounds
<1>5. QED
  BY <1>2, <1>3, <1>4 DEF Deletion

LEMMA BindingTypes ==
    ASSUME TypeInv, NEW o \in Ops, Binding(o)
    PROVE  TypeInv'
<1> USE DEF At
<1>1. Accepting /\ calls[o].pc \in BindPC
  <2>1. calls[o].pc \in BindPC /\ calls[o].pc # "idle"
    BY DEF Binding, VerifyJournal, ReadActive, CheckCredential, CommitRun, BindPC
  <2>2. QED
    BY <2>1, BusyAccepts
<1>2. CASE VerifyJournal(o)
  BY <1>1, <1>2, GoType, GoTypes, SameTables, SameBounds
     DEF VerifyJournal, CallPC, MutationPC, RemovalPC, RetiringPC, BindPC
<1>3. CASE ReadActive(o)
  <2> DEFINE t == [calls[o] EXCEPT !.pc = "saved", !.seen = active]
  <2>1. t \in Calls /\ t.pc = "saved" /\ t.seen = active
    <3>1. "saved" \in CallPC /\ active \in ActiveRows
      BY Typed DEF CallPC, TablesTyped
    <3>2. QED
      BY <3>1, CallTypes DEF Calls
  <2>2. calls' = [calls EXCEPT ![o] = t]
    BY <1>3, CallTypes DEF ReadActive
  <2>3. active.profile \in Profiles /\ UNCHANGED <<tables, boot, bounds, history>>
    BY <1>3, Typed DEF ReadActive, TablesTyped, ActiveRows
  <2> HIDE DEF t
  <2>4. calls'[o] = t
    BY <2>2, CallTypes
  <2>5. Addressed(o)'
    BY <2>1, <2>3, <2>4 DEF Addressed, MutationPC, RemovalPC, RetiringPC, BindPC
  <2>6. QED
    BY <1>1, <2>1, <2>2, <2>3, <2>5, SameTables, SameBounds, CallStepType
<1>4. CASE CheckCredential(o)
  <2>1. calls[o].seen.profile \in Profiles
    BY <1>4, CallTypes DEF CheckCredential, Addressed
  <2>2. QED
    BY <1>1, <1>4, <2>1, GoType, GoTypes, SameTables, SameBounds
       DEF CheckCredential, CallPC, MutationPC, RemovalPC, RetiringPC, BindPC
<1>5. CASE CommitRun(o)
  <2> DEFINE snap == calls[o].seen
  <2>1. UNCHANGED <<profiles, active, gens, journal, vault, boot, bounds, torn>>
    BY <1>5 DEF CommitRun
  <2>2. CASE BindingCurrent(snap)
    <3> DEFINE b == [state |-> "live", to |-> snap]
    <3>1. PICK r \in Runs : bindings' = [bindings EXCEPT ![r] = b]
                            /\ late' \in {late, late \cup {r}}
      BY <1>5, <2>2 DEF CommitRun
    <3>2. b \in Bindings
      BY CallTypes DEF Bindings, BindingStates
    <3> HIDE DEF b
    <3>3. TablesTyped'
      BY <2>1, <3>1, <3>2, Typed DEF TablesTyped
    <3>4. BoundsTyped'
      BY <2>1, <3>1, Typed DEF BoundsTyped, bounds
    <3>5. Return(o)
      BY <1>5, <2>2 DEF CommitRun
    <3>6. QED
      BY <1>1, <2>1, <3>3, <3>4, <3>5, ReturnType
  <2>3. CASE ~BindingCurrent(snap)
    <3>1. Go(o, "verify") /\ UNCHANGED <<tables, bounds, history, boot>>
      BY <1>5, <2>1, <2>3 DEF CommitRun, tables, history
    <3>2. QED
      BY <1>1, <3>1, GoType, GoTypes, SameTables, SameBounds
         DEF CallPC, MutationPC, RemovalPC, RetiringPC, BindPC
  <2>4. QED
    BY <2>2, <2>3
<1>6. QED
  BY <1>2, <1>3, <1>4, <1>5 DEF Binding

(* What a failing call does next is not the write it failed at.            *)
LEMMA FailureTypes ==
    ASSUME NEW pc \in DOMAIN FailureOf, NEW next \in FailureOf[pc]
    PROVE  \/ pc \in MutationPC /\ next \in {"undo", "block"}
           \/ pc = "removeRow" /\ next = "restore"
BY DEF FailureOf, MutationPC

LEMMA ErrorTypes ==
    ASSUME TypeInv, NEW o \in Ops, CallErrors(o) \/ ServiceFails(o) \/ LastResortFails(o)
    PROVE  TypeInv'
<1> USE DEF At
<1>1. CASE CallErrors(o)
  <2>1. calls[o].pc # "idle" /\ Return(o) /\ UNCHANGED <<tables, boot, bounds, history>>
    BY <1>1 DEF CallErrors, ReadOnlyPC
  <2>2. QED
    BY <2>1, ReturnType, SameTables, SameBounds, BusyAccepts
<1>2. CASE ServiceFails(o)
  <2>1. PICK pc \in DOMAIN FailureOf : calls[o].pc = pc /\ \E next \in FailureOf[pc] : Go(o, next)
    BY <1>2 DEF ServiceFails
  <2>2. PICK next \in FailureOf[pc] : Go(o, next)
    BY <2>1
  <2>3. UNCHANGED <<tables, boot>> /\ BoundsTyped'
    BY <1>2, Typed, Constants DEF ServiceFails, BoundsTyped, history
  <2>4. CASE pc \in MutationPC /\ next \in {"undo", "block"}
    <3>1. next \in CallPC /\ next \in MutationPC /\ next \notin RemovalPC \cup RetiringPC
          /\ next \notin {"take", "evidence", "saved", "bind"}
      BY <2>4 DEF CallPC, MutationPC, RemovalPC, RetiringPC
    <3>2. QED
      BY <2>1, <2>2, <2>3, <2>4, <3>1, GoType, GoTypes, SameTables, InMutation
  <2>5. CASE pc = "removeRow" /\ next = "restore"
    <3>1. next \in CallPC /\ next \notin MutationPC \cup RetiringPC
          /\ next \notin {"begin", "take", "evidence", "saved", "bind"}
      BY <2>5 DEF CallPC, MutationPC, RetiringPC
    <3>2. calls[o].p \in Profiles /\ calls[o].kind = "remove" /\ Accepting
      BY <2>1, <2>5, CallTypes, BusyAccepts DEF Addressed, RemovalPC, BindPC
    <3>3. QED
      BY <2>1, <2>2, <2>3, <3>1, <3>2, GoType, GoTypes, SameTables
  <2>6. QED
    BY <2>4, <2>5, FailureTypes
<1>3. CASE LastResortFails(o)
  <2>1. calls[o].pc \in {"block", "restore"} /\ Return(o) /\ UNCHANGED <<tables, boot>>
        /\ faults < MaxFaults /\ faults' = faults + 1 /\ UNCHANGED <<started, starts, late>>
        /\ torn' \in {torn, torn \cup {calls[o].p}}
    BY <1>3 DEF LastResortFails
  <2>2. calls[o].p \in Profiles /\ Accepting
    BY <2>1, CallTypes, BusyAccepts DEF Addressed, BindPC
  <2>3. BoundsTyped'
    BY <2>1, <2>2, Typed, Constants DEF BoundsTyped
  <2>4. QED
    BY <2>1, <2>2, <2>3, ReturnType, SameTables
<1>4. QED
  BY <1>1, <1>2, <1>3

LEMMA EndRunTypes ==
    ASSUME TypeInv, NEW r \in Runs, EndRun(r)
    PROVE  TypeInv'
<1>1. bindings \in [Runs -> Bindings]
  BY Typed DEF TablesTyped
<1>2. [bindings[r] EXCEPT !.state = "done"] \in Bindings
  BY <1>1 DEF Bindings, BindingStates
<1>3. bindings' = [bindings EXCEPT ![r] = [bindings[r] EXCEPT !.state = "done"]]
  BY <1>1 DEF EndRun
<1>4. bindings' \in [Runs -> Bindings]
  BY <1>1, <1>2, <1>3
<1>5. TypeOK'
  BY <1>4 DEF EndRun, TypeInv, TypeOK, bounds, history
<1>6. (\A o \in Ops : Addressed(o)') /\ BootInOrder'
  BY DEF EndRun, TypeInv, Addressed, BootInOrder, Abandoned
<1>7. QED
  BY <1>5, <1>6 DEF TypeInv

(* The Profile whose record the recovery deals with.                       *)
LEMMA RecoveringAbandoned ==
    ASSUME TypeInv, boot.pc \in {"clear", "rollback"}
    PROVE  /\ Recovering \in Abandoned /\ Recovering \in Profiles
           /\ boot \in Boots /\ boot.found \in [Profiles -> Records]
           /\ boot.found[Recovering] # NoRecord
<1>1. Recovering \in Abandoned
  BY DEF TypeInv, BootInOrder, Recovering
<1>2. QED
  BY <1>1, Typed DEF Abandoned, Boots

LEMMA BootStep ==
    ASSUME TypeInv, calls' = calls, boot' \in Boots, TablesTyped', BoundsTyped',
           boot'.pc \in {"clear", "rollback"} => Abandoned' # {},
           boot'.pc # "up" /\ ~boot'.beside =>
              /\ \A o \in Ops : calls[o] = IdleCall
              /\ \A p \in Abandoned' :
                    journal'[p] = boot'.found[p] /\ journal'[p].phase = "IntentRecorded"
    PROVE  TypeInv'
<1>1. TypeOK'
  BY Typed DEF TypeOK, TablesTyped, BoundsTyped
<1>2. \A o \in Ops : Addressed(o)'
  BY DEF TypeInv, Addressed
<1>3. BootInOrder'
  BY DEF BootInOrder
<1>4. QED
  BY <1>1, <1>2, <1>3 DEF TypeInv

LEMMA BootLists ==
    ASSUME NEW b \in BOOLEAN
    PROVE  BootList(b) \in Boots /\ BootList(b).pc = "list" /\ BootList(b).beside = b
           /\ \A p \in Profiles : BootList(b).found[p] = NoRecord
BY NothingTypes DEF BootList, BootUp, Boots, BootPC

LEMMA ProcessTypes ==
    ASSUME TypeInv, Crash \/ StartOtherProcess \/ Recovery \/ BootFails
    PROVE  TypeInv'
<1>1. CASE Crash
  <2>1. /\ calls' = [o \in Ops |-> IdleCall] /\ boot' = BootList(FALSE)
        /\ UNCHANGED <<tables, started, faults, late>> /\ starts < MaxStarts /\ starts' = starts + 1
    BY <1>1 DEF Crash
  <2>2. torn' \subseteq Profiles
    <3>1. ASSUME NEW o \in Ops, calls[o].pc \in {"restore", "removeRow"}
          PROVE  calls[o].p \in Profiles
      BY <3>1, CallTypes DEF Addressed, BindPC
    <3>2. torn' = torn \cup {calls[o].p : o \in {q \in Ops :
                  calls[q].pc \in {"restore", "removeRow"} /\ calls[q].gen # NoGen}}
      BY <1>1 DEF Crash
    <3>3. QED
      BY <3>1, <3>2, Typed DEF BoundsTyped
  <2>3. TypeOK'
    <3>1. BoundsTyped' /\ TablesTyped'
      BY <2>1, <2>2, SameTables, Typed, Constants DEF BoundsTyped
    <3>2. QED
      BY <2>1, <3>1, BootLists, NothingTypes DEF TypeOK, TablesTyped, BoundsTyped
  <2>4. \A o \in Ops : Addressed(o)'
    BY <2>1, NothingTypes DEF Addressed, MutationPC, RemovalPC, RetiringPC, BindPC
  <2>5. BootInOrder'
    <3>1. boot'.pc = "list" /\ \A p \in Profiles : boot'.found[p] = NoRecord
      BY <2>1, BootLists
    <3>2. Abandoned' = {}
      BY <3>1 DEF Abandoned
    <3>3. QED
      BY <2>1, <3>1, <3>2 DEF BootInOrder
  <2>6. QED
    BY <2>3, <2>4, <2>5 DEF TypeInv
<1>2. CASE StartOtherProcess
  <2>1. boot' = BootList(TRUE) /\ UNCHANGED <<tables, calls, started, faults, history>>
        /\ starts < MaxStarts /\ starts' = starts + 1
    BY <1>2 DEF StartOtherProcess
  <2>2. BoundsTyped'
    BY <2>1, Typed, Constants DEF BoundsTyped, history
  <2>3. boot'.pc = "list" /\ boot'.beside = TRUE /\ boot' \in Boots
    BY <2>1, BootLists
  <2>4. QED
    BY <2>1, <2>2, <2>3, SameTables, BootStep
<1>3. CASE ListAbandoned
  <2> DEFINE found == {p \in Profiles : journal[p].phase = "IntentRecorded"}
             listed == [p \in Profiles |-> IF p \in found THEN journal[p] ELSE NoRecord]
  <2>1. boot.pc = "list" /\ UNCHANGED <<tables, calls, bounds, history>>
        /\ boot' = IF found = {} THEN BootUp ELSE [boot EXCEPT !.pc = "clear", !.found = listed]
    BY <1>3 DEF ListAbandoned
  <2>2. listed \in [Profiles -> Records]
    BY NothingTypes, JournalTypes
  <2>3. CASE found = {}
    <3>1. boot' = BootUp /\ boot'.pc = "up"
      BY <2>1, <2>3 DEF BootUp
    <3>2. QED
      BY <2>1, <3>1, NothingTypes, SameTables, SameBounds, BootStep
  <2>4. CASE found # {}
    <3> DEFINE b == [boot EXCEPT !.pc = "clear", !.found = listed]
    <3> HIDE DEF listed
    <3>1. b \in Boots /\ b.pc = "clear" /\ b.beside = boot.beside /\ b.found = listed
      BY <2>2, Typed DEF Boots, BootPC
    <3>2. boot' = b
      BY <2>1, <2>4
    <3> HIDE DEF b
    <3>3. \A p \in Profiles : listed[p] # NoRecord => p \in found /\ listed[p] = journal[p]
      BY DEF listed
    <3>4. \A p \in found : listed[p] # NoRecord
      BY DEF listed, NoRecord
    <3>5. Abandoned' # {}
      BY <2>4, <3>1, <3>2, <3>4 DEF Abandoned
    <3>6. \A p \in Abandoned' : journal'[p] = boot'.found[p] /\ journal'[p].phase = "IntentRecorded"
      BY <2>1, <3>1, <3>2, <3>3 DEF Abandoned, tables
    <3>7. ~boot'.beside => \A o \in Ops : calls[o] = IdleCall
      BY <2>1, <3>1, <3>2 DEF TypeInv, BootInOrder
    <3>8. boot' \in Boots
      BY <3>1, <3>2
    <3>9. QED
      BY <2>1, <3>5, <3>6, <3>7, <3>8, SameTables, SameBounds, BootStep
  <2>5. QED
    BY <2>3, <2>4
<1>4. CASE ClearStaged
  <2>1. boot.pc = "clear" /\ Remove(Recovering, boot.found[Recovering].staged)
        /\ torn' \in {torn, torn \cup {Recovering}}
        /\ boot' = [boot EXCEPT !.pc = "rollback"]
        /\ UNCHANGED <<profiles, active, gens, journal, bindings, calls, bounds, late>>
    BY <1>4 DEF ClearStaged
  <2>2. vault' \subseteq vault
    BY <2>1 DEF Remove
  <2>3. TablesTyped'
    BY <2>1, <2>2, Typed DEF TablesTyped
  <2>4. BoundsTyped'
    BY <2>1, RecoveringAbandoned, Typed DEF BoundsTyped, bounds
  <2>5. boot' \in Boots /\ boot'.pc = "rollback" /\ boot'.found = boot.found
        /\ boot'.beside = boot.beside
    BY <2>1, Typed DEF Boots, BootPC
  <2>6. Abandoned' = Abandoned
    BY <2>5 DEF Abandoned
  <2>7. QED
    BY <2>1, <2>3, <2>4, <2>5, <2>6, BootStep DEF TypeInv, BootInOrder
<1>5. CASE RollbackAbandoned
  <2> DEFINE p == Recovering
             ok == MayRollback(p, boot.found[p].op)
  <2>1. /\ boot.pc = "rollback" /\ p \in Profiles
        /\ boot' = IF ok /\ Abandoned # {p} THEN [boot EXCEPT !.pc = "clear", !.found[p] = NoRecord]
                     ELSE BootUp
        /\ UNCHANGED <<profiles, active, vault, bindings, calls, bounds, history>>
    BY <1>5, RecoveringAbandoned DEF RollbackAbandoned
  <2>2. ok => Transition(p, "RolledBack") /\ gens' = SetStatus(p, journal[p].staged, "deleted")
    BY <1>5 DEF RollbackAbandoned, Rollback
  <2>3. ~ok => UNCHANGED <<journal, gens>>
    BY <1>5 DEF RollbackAbandoned
  <2> HIDE DEF ok, p
  <2>4. TablesTyped'
    <3>1. CASE ok
      <4>1. journal' \in [Profiles -> Records]
        BY <2>1, <2>2, <3>1, TransitionTypes
      <4>2. gens' \in [Profiles -> [Generations -> GenStatuses]]
        BY <2>1, <2>2, <3>1, JournalTypes, SetStatusTypes DEF GenStatuses
      <4>3. QED
        BY <2>1, <4>1, <4>2, Typed DEF TablesTyped
    <3>2. CASE ~ok
      BY <2>1, <2>3, <3>2, Typed DEF TablesTyped
    <3>3. QED
      BY <3>1, <3>2
  <2>5. BoundsTyped'
    BY <2>1, SameBounds
  <2>6. CASE ok /\ Abandoned # {p}
    <3> DEFINE found == [boot.found EXCEPT ![p] = NoRecord]
               b == [boot EXCEPT !.pc = "clear", !.found = found]
    <3>1. boot \in Boots /\ boot.found \in [Profiles -> Records] /\ p \in Abandoned
      BY <2>1, RecoveringAbandoned DEF p
    <3>2. found \in [Profiles -> Records]
      BY <3>1, NothingTypes
    <3>3. boot' = b
      BY <2>1, <2>6, <3>1 DEF Boots
    <3>4. \A q \in Profiles : found[q] # NoRecord <=> q # p /\ boot.found[q] # NoRecord
      BY <2>1, <3>1
    <3>5. \A q \in Profiles \ {p} : found[q] = boot.found[q]
      BY <3>1
    <3> HIDE DEF found
    <3>6. b \in Boots /\ b.pc = "clear" /\ b.beside = boot.beside /\ b.found = found
      BY <3>1, <3>2 DEF Boots, BootPC
    <3> HIDE DEF b
    <3>7. Abandoned' = Abandoned \ {p}
      BY <3>3, <3>4, <3>6 DEF Abandoned
    <3>8. Abandoned' # {}
      BY <2>6, <3>1, <3>7
    <3>9. ASSUME ~boot'.beside
          PROVE  /\ \A o \in Ops : calls[o] = IdleCall
                 /\ \A q \in Abandoned' :
                       journal'[q] = boot'.found[q] /\ journal'[q].phase = "IntentRecorded"
      <4>1. /\ \A o \in Ops : calls[o] = IdleCall
            /\ \A q \in Abandoned : journal[q] = boot.found[q] /\ journal[q].phase = "IntentRecorded"
        BY <2>1, <3>3, <3>6, <3>9 DEF TypeInv, BootInOrder
      <4>2. \A q \in Abandoned \ {p} : journal'[q] = journal[q] /\ found[q] = boot.found[q]
        BY <2>1, <2>2, <2>6, <3>5, TransitionTypes, Typed DEF TablesTyped, Abandoned
      <4>3. QED
        BY <3>3, <3>6, <3>7, <4>1, <4>2
    <3>10. boot' \in Boots
      BY <3>3, <3>6
    <3>11. QED
      BY <2>1, <2>4, <2>5, <3>8, <3>9, <3>10, BootStep
  <2>7. CASE ~(ok /\ Abandoned # {p})
    <3>1. boot' = BootUp /\ boot'.pc = "up"
      BY <2>1, <2>7 DEF BootUp
    <3>2. QED
      BY <2>1, <2>4, <2>5, <3>1, NothingTypes, BootStep
  <2>8. QED
    BY <2>6, <2>7
<1>6. CASE BootFails
  <2>1. boot' = BootUp /\ boot'.pc = "up" /\ UNCHANGED <<tables, calls, started, starts, history>>
        /\ faults < MaxFaults /\ faults' = faults + 1
    BY <1>6 DEF BootFails, BootUp
  <2>2. BoundsTyped'
    BY <2>1, Typed, Constants DEF BoundsTyped, history
  <2>3. QED
    BY <2>1, <2>2, NothingTypes, SameTables, BootStep
<1>7. QED
  BY <1>1, <1>2, <1>3, <1>4, <1>5, <1>6 DEF Recovery

LEMMA InitialTypes ==
    ASSUME Init
    PROVE  TypeInv
<1>1. PICK old \in SUBSET Profiles, m \in Models, on \in BOOLEAN :
        /\ profiles = [p \in Profiles |-> IF p \in old THEN Seeded(p, m) ELSE AbsentProfile]
        /\ active = IF on /\ old # {}
                      THEN [profile |-> CHOOSE p \in old : TRUE, rev |-> 1,
                            model |-> m, gen |-> 1,
                            proof |-> [model |-> m, gen |-> 1], number |-> 1]
                      ELSE NoActive
        /\ gens = [p \in Profiles |-> [g \in Generations |->
                      IF p \in old /\ g = 1 THEN "available" ELSE "none"]]
        /\ vault = old \X {1}
        /\ journal = [p \in Profiles |-> NoRecord]
        /\ bindings = [r \in Runs |-> NoBinding]
        /\ calls = [o \in Ops |-> IdleCall]
        /\ boot = BootUp
        /\ started = 0 /\ faults = 0 /\ starts = 0
        /\ torn = {} /\ late = {}
  BY DEF Init
<1>2. 1 \in Revisions /\ 1 \in Generations /\ 1 \in 0 .. MaxActivation /\ 0 \in 0 .. MaxFaults
      /\ 0 \in 0 .. MaxStarts /\ 0 \in 0 .. MaxCalls
  BY Constants DEF Revisions, Generations
<1>3. [model |-> m, gen |-> 1] \in Proofs
  BY <1>2 DEF Proofs
<1>4. Seeded(1, m) \in ProfileRows /\ \A p : Seeded(p, m) = Seeded(1, m)
  BY <1>2, <1>3, NothingTypes DEF Seeded, Draft, ProfileRows, ProfileStates
<1>5. profiles \in [Profiles -> ProfileRows]
  BY <1>1, <1>4, NothingTypes
<1>6. active \in ActiveRows
  <2>1. CASE old # {}
    <3>1. (CHOOSE p \in old : TRUE) \in Profiles
      BY <2>1
    <3>2. [profile |-> CHOOSE p \in old : TRUE, rev |-> 1, model |-> m, gen |-> 1,
           proof |-> [model |-> m, gen |-> 1], number |-> 1] \in ActiveRows
      BY <1>2, <1>3, <3>1 DEF ActiveRows
    <3>3. QED
      BY <1>1, <3>2, NothingTypes
  <2>2. CASE old = {}
    BY <1>1, <2>2, NothingTypes
  <2>3. QED
    BY <2>1, <2>2
<1>7. gens \in [Profiles -> [Generations -> GenStatuses]]
  BY <1>1 DEF GenStatuses
<1>8. TypeOK
  BY <1>1, <1>2, <1>5, <1>6, <1>7, NothingTypes DEF TypeOK
<1>9. \A o \in Ops : Addressed(o)
  BY <1>1, NothingTypes DEF Addressed, MutationPC, RemovalPC, RetiringPC, BindPC
<1>10. BootInOrder
  BY <1>1 DEF BootInOrder, BootUp
<1>11. QED
  BY <1>8, <1>9, <1>10 DEF TypeInv

LEMMA TypesStay ==
    ASSUME TypeInv, [Next]_vars
    PROVE  TypeInv'
<1>1. CASE UNCHANGED vars
  <2>1. UNCHANGED <<profiles, active, gens, journal, vault, bindings, calls, boot, faults,
                    starts, started, torn, late>>
    BY <1>1 DEF vars, tables, bounds, history
  <2>2. TypeOK'
    BY <2>1 DEF TypeInv, TypeOK
  <2>3. (\A o \in Ops : Addressed(o)') /\ BootInOrder'
    BY <2>1 DEF TypeInv, Addressed, BootInOrder, Abandoned
  <2>4. QED
    BY <2>2, <2>3 DEF TypeInv
<1>2. ASSUME NEW o \in Ops, Start(o) \/ Mutation(o) \/ Selection(o) \/ Deletion(o) \/ Binding(o)
                            \/ CallErrors(o) \/ ServiceFails(o) \/ LastResortFails(o)
      PROVE  TypeInv'
  BY <1>2, StartTypes, MutationTypes, SelectionTypes, DeletionTypes, BindingTypes, ErrorTypes
<1>3. ASSUME NEW r \in Runs, EndRun(r)
      PROVE  TypeInv'
  BY <1>3, EndRunTypes
<1>4. CASE Crash \/ StartOtherProcess \/ Recovery \/ BootFails
  BY <1>4, ProcessTypes
<1>5. QED
  BY <1>1, <1>2, <1>3, <1>4 DEF Next

(* Every table, local and counter of the Provider store has the values the *)
(* code can give it.                                                       *)
THEOREM ProviderTypesHold == Spec => []TypeOK
<1>1. Init => TypeInv
  BY InitialTypes
<1>2. TypeInv /\ [Next]_vars => TypeInv'
  BY TypesStay
<1>3. TypeInv => TypeOK
  BY DEF TypeInv
<1>4. QED
  BY <1>1, <1>2, <1>3, PTL DEF Spec

-----------------------------------------------------------------------------
(* Who may take which generation out of the vault.                         *)

(* The store has given the number away.                                    *)
Used(p, g) == gens[p][g] # "none"

(* A row, or a call with a copy of one, names the generation.              *)
Refers(p, g) ==
    \/ profiles[p].gen = g
    \/ active.profile = p /\ active.gen = g
    \/ \E r \in Runs : bindings[r].to.profile = p /\ bindings[r].to.gen = g
    \/ \E o \in Ops : calls[o].p = p /\ calls[o].gen = g

(* A call has staged it, and may still have to take it away again.         *)
Holds(o, p, g) ==
    /\ calls[o].p = p /\ calls[o].staged = g
    /\ \/ calls[o].pc \in StagingPC
       \/ calls[o].kind = "delete" /\ calls[o].pc \in MutationPC

(* The journal would have the recovery of a process take it away.          *)
PendingPhases == {"IntentRecorded", "VaultWritten", "CleanupPending"}
Pending(p, g) == journal[p].phase \in PendingPhases /\ journal[p].staged = g

(* What is staged or pending is nobody's yet, and one call's at most.      *)
Apart(p, g) ==
    /\ Refers(p, g) => Used(p, g)
    /\ Pending(p, g) => Used(p, g) /\ ~Refers(p, g)
    /\ \A o \in Ops : Holds(o, p, g) =>
          /\ Used(p, g) /\ ~Refers(p, g)
          /\ \A q \in Ops \ {o} : ~Holds(q, p, g)

(* The newest record of the Profile is the call's, or another's.           *)
OwnRecord(o) ==
    LET c   == calls[o]
        rec == journal[c.p]
    IN  c.pc \in MutationPC /\ rec.op = o =>
            /\ rec.intent = c.kind /\ rec.base = c.rev
            /\ rec.old = c.gen /\ rec.staged = c.staged

(* A revision names its content: while it is current, so is what was read. *)
SeenRevision(o) ==
    LET c   == calls[o]
        row == profiles[c.p]
    IN  c.pc \in StagingPC \cup {"begin"} \cup SwitchPC =>
            /\ c.rev <= row.rev
            /\ row.rev = c.rev => /\ row.gen = c.gen
                                  /\ c.pc \notin SwitchPC => row.model = c.model

(* A secret that is to become current has been written.                    *)
Written(o) ==
    LET c == calls[o]
    IN  c.pc \in {"record", "commit"} /\ c.kind = "replace" =>
            Held(c.p, c.staged) \/ c.p \in torn

(* The old generation a call retires is of no Profile any more, and as far *)
(* as the call has asked, not active and of no live Run it could see.      *)
RetiresOld(o) ==
    LET c == calls[o]
    IN  /\ c.pc \in RetiringPC => profiles[c.p].gen # c.gen
        /\ c.pc \in {"retire", "retireStore"} => ~ActiveReferences(c.p, c.gen)
        /\ c.pc \in {"activeRef", "retire", "retireStore"} =>
              \A r \in Runs :
                 bindings[r].state = "live" /\ bindings[r].to.profile = c.p
                    /\ bindings[r].to.gen = c.gen => r \in late

CallOK(o) ==
    /\ OwnRecord(o) /\ SeenRevision(o) /\ Written(o) /\ RetiresOld(o)
    /\ calls[o].pc = "cleanup" => calls[o].kind = "delete"

(* What must not be missing from the vault: the generation of a current    *)
(* revision, of the active row and of the Runs that are not in the window. *)
InForce(p, g) ==
    \/ Exists(p) /\ profiles[p].gen = g
    \/ active.profile = p /\ active.gen = g
    \/ \E r \in Runs \ late : /\ bindings[r].state = "live"
                              /\ bindings[r].to.profile = p /\ bindings[r].to.gen = g

TakenGen(p, g) ==
    \/ p \in torn
    \/ \E o \in Ops : /\ calls[o].p = p /\ calls[o].gen = g
                      /\ calls[o].pc \in {"removeRow", "restore"}

Proven(row) == row.gen # NoGen /\ row.proof = [model |-> row.model, gen |-> row.gen]

GensInv == \A p \in Profiles, g \in Generations : Apart(p, g)
CallInv == \A o \in Ops : CallOK(o)
KeptInv == \A p \in Profiles, g \in Generations :
              InForce(p, g) => Held(p, g) \/ TakenGen(p, g)
ProvenInv ==
    /\ \A p \in Profiles : /\ profiles[p].state = "Ready" => Proven(profiles[p])
                           /\ profiles[p].state = "Absent" => profiles[p].gen = NoGen
    /\ active.profile # NoProfile => Proven(active) /\ Exists(active.profile)
    /\ active.profile = NoProfile => active = NoActive
    /\ \A r \in Runs :
          /\ bindings[r].state = "none" => bindings[r].to = NoActive
          /\ bindings[r].state # "none" =>
                Proven(bindings[r].to) /\ bindings[r].to.profile \in Profiles

IInv == TypeInv /\ GensInv /\ CallInv /\ KeptInv /\ ProvenInv

-----------------------------------------------------------------------------
(* Steps that disturb little.                                              *)

(* Who is not asked keeps what he has: the frame of each part.             *)
LEMMA GensStep ==
    ASSUME GensInv,
           \A p \in Profiles, g \in Generations :
              /\ Used(p, g) => Used(p, g)'
              /\ Refers(p, g)' => Refers(p, g)
              /\ Pending(p, g)' => Pending(p, g)
              /\ \A o \in Ops : Holds(o, p, g)' => Holds(o, p, g)
    PROVE  GensInv'
<1>1. SUFFICES ASSUME NEW p \in Profiles, NEW g \in Generations
               PROVE  Apart(p, g)'
  BY DEF GensInv
<1>2. Apart(p, g)
  BY DEF GensInv
<1>3. QED
  BY <1>2 DEF Apart

(* The generations a call could take are those of its own locals.          *)
LEMMA CallHolds ==
    ASSUME NEW o \in Ops, NEW t, calls' = [calls EXCEPT ![o] = t], calls \in [Ops -> Calls],
           NEW p \in Profiles, NEW g \in Generations,
           t.p = p /\ t.gen = g => Refers(p, g),
           Holds(o, p, g)' => Holds(o, p, g)
    PROVE  /\ \A q \in Ops : calls'[q].p = p /\ calls'[q].gen = g => Refers(p, g)
           /\ \A q \in Ops : Holds(q, p, g)' => Holds(q, p, g)
<1>1. calls'[o] = t /\ \A q \in Ops \ {o} : calls'[q] = calls[q]
  OBVIOUS
<1>2. ASSUME NEW q \in Ops
      PROVE  calls'[q].p = p /\ calls'[q].gen = g => Refers(p, g)
  BY <1>1 DEF Refers
<1>3. ASSUME NEW q \in Ops
      PROVE  Holds(q, p, g)' => Holds(q, p, g)
  <2>1. CASE q = o
    BY <2>1
  <2>2. CASE q # o
    BY <1>1, <2>2 DEF Holds
  <2>3. QED
    BY <2>1, <2>2
<1>4. QED
  BY <1>2, <1>3

(* What a step makes of the record, the row and the old generation a call  *)
(* that does not take the step has its eyes on.                            *)
SameRecord(p, q) ==
    journal'[p].op = q =>
        /\ journal[p].op = q /\ journal'[p].intent = journal[p].intent
        /\ journal'[p].base = journal[p].base /\ journal'[p].old = journal[p].old
        /\ journal'[p].staged = journal[p].staged

NewerRow(p) ==
    \/ profiles'[p].rev > profiles[p].rev
    \/ /\ profiles'[p].rev = profiles[p].rev /\ profiles'[p].gen = profiles[p].gen
       /\ profiles'[p].model = profiles[p].model

LEMMA OtherStep ==
    ASSUME TypeInv, TypeInv', NEW q \in Ops, CallOK(q), calls'[q] = calls[q],
           torn \subseteq torn',
           \A p \in Profiles : SameRecord(p, q) /\ NewerRow(p),
           \A p \in Profiles, g \in Generations :
              /\ Holds(q, p, g) /\ Held(p, g) => Held(p, g)' \/ p \in torn'
              /\ calls[q].p = p /\ calls[q].gen = g /\ calls[q].pc \in RetiringPC =>
                    /\ profiles'[p].gen = g => profiles[p].gen = g
                    /\ calls[q].pc \in {"retire", "retireStore"} =>
                          (active'.profile = p /\ active'.gen = g =>
                              active.profile = p /\ active.gen = g)
                    /\ calls[q].pc \in {"activeRef", "retire", "retireStore"} =>
                          \A r \in Runs :
                             bindings'[r].state = "live" /\ bindings'[r].to.profile = p
                                /\ bindings'[r].to.gen = g =>
                                \/ r \in late'
                                \/ r \notin late /\ bindings[r].state = "live"
                                   /\ bindings[r].to.profile = p /\ bindings[r].to.gen = g
    PROVE  CallOK(q)'
<1> DEFINE c == calls[q]
<1>1. /\ c.pc \in MutationPC \cup {"begin"} \cup SwitchPC => c.p \in Profiles
      /\ c.pc \in MutationPC \cup {"begin"} => c.staged \in Generations
      /\ c.pc \in RetiringPC => c.gen \in Generations
      /\ c.rev \in Revisions
  BY CallTypes DEF Addressed, MutationPC, SwitchPC, BindPC
<1>2. OwnRecord(q)'
  <2>1. CASE c.pc \in MutationPC
    BY <1>1, <2>1 DEF CallOK, OwnRecord, SameRecord
  <2>2. CASE c.pc \notin MutationPC
    BY <2>2 DEF OwnRecord
  <2>3. QED
    BY <2>1, <2>2
<1>3. SeenRevision(q)'
  <2>1. CASE c.pc \in StagingPC \cup {"begin"} \cup SwitchPC
    <3>1. c.p \in Profiles
      BY <1>1, <2>1 DEF StagingPC, MutationPC
    <3>2. profiles[c.p].rev \in Nat /\ profiles'[c.p].rev \in Nat /\ c.rev \in Nat
      BY <1>1, <3>1 DEF TypeInv, TypeOK, ProfileRows, Revisions
    <3>3. c.rev <= profiles[c.p].rev
          /\ (profiles[c.p].rev = c.rev => profiles[c.p].gen = c.gen
                  /\ (c.pc \notin SwitchPC => profiles[c.p].model = c.model))
      BY <2>1 DEF CallOK, SeenRevision
    <3>4. c.rev <= profiles'[c.p].rev
          /\ (profiles'[c.p].rev = c.rev => profiles'[c.p].gen = c.gen
                  /\ (c.pc \notin SwitchPC => profiles'[c.p].model = c.model))
      BY <3>1, <3>2, <3>3 DEF NewerRow
    <3>5. QED
      BY <3>4 DEF SeenRevision
  <2>2. CASE c.pc \notin StagingPC \cup {"begin"} \cup SwitchPC
    BY <2>2 DEF SeenRevision
  <2>3. QED
    BY <2>1, <2>2
<1>4. Written(q)'
  <2>1. SUFFICES ASSUME c.pc \in {"record", "commit"}, c.kind = "replace"
                 PROVE  Held(c.p, c.staged)' \/ c.p \in torn'
    BY DEF Written
  <2>2. Held(c.p, c.staged) \/ c.p \in torn
    BY <2>1 DEF CallOK, Written
  <2>3. c.p \in Profiles /\ c.staged \in Generations /\ Holds(q, c.p, c.staged)
    BY <1>1, <2>1 DEF Holds, StagingPC, MutationPC
  <2>4. QED
    BY <2>2, <2>3 DEF Held
<1>5. RetiresOld(q)'
  <2>1. CASE c.pc \in RetiringPC
    <3>1. c.p \in Profiles /\ c.gen \in Generations
      BY <1>1, <2>1 DEF RetiringPC, MutationPC
    <3>2. RetiresOld(q)
      BY DEF CallOK
    <3> DEFINE P == c.p
               G == c.gen
    <3>3. /\ profiles'[P].gen = G => profiles[P].gen = G
          /\ c.pc \in {"retire", "retireStore"} =>
                (active'.profile = P /\ active'.gen = G => active.profile = P /\ active.gen = G)
          /\ c.pc \in {"activeRef", "retire", "retireStore"} =>
                \A r \in Runs :
                   bindings'[r].state = "live" /\ bindings'[r].to.profile = P
                      /\ bindings'[r].to.gen = G =>
                      \/ r \in late'
                      \/ r \notin late /\ bindings[r].state = "live"
                         /\ bindings[r].to.profile = P /\ bindings[r].to.gen = G
      BY <2>1, <3>1
    <3>4. QED
      BY <3>2, <3>3 DEF RetiresOld, ActiveReferences
  <2>2. CASE c.pc \notin RetiringPC
    BY <2>2 DEF RetiresOld, RetiringPC
  <2>3. QED
    BY <2>1, <2>2
<1>6. QED
  BY <1>2, <1>3, <1>4, <1>5 DEF CallOK

(* A call that is in none of the places CallOK speaks of.                  *)
LEMMA ElsewhereOK ==
    ASSUME NEW o \in Ops, calls'[o].pc \notin MutationPC \cup {"begin"} \cup SwitchPC
    PROVE  CallOK(o)' /\ \A p, g : ~Holds(o, p, g)'
BY DEF CallOK, OwnRecord, SeenRevision, Written, RetiresOld, Holds, MutationPC, StagingPC,
       RetiringPC

LEMMA KeptStep ==
    ASSUME KeptInv,
           \A p \in Profiles, g \in Generations :
              InForce(p, g)' =>
                 \/ Held(p, g)' \/ TakenGen(p, g)'
                 \/ InForce(p, g) /\ (Held(p, g) => Held(p, g)')
                                  /\ (TakenGen(p, g) => TakenGen(p, g)')
    PROVE  KeptInv'
BY DEF KeptInv

LEMMA SameProven ==
    ASSUME ProvenInv, UNCHANGED profiles, active' \in {active, NoActive}, UNCHANGED bindings
    PROVE  ProvenInv'
<1>1. NoActive.profile = NoProfile
  BY DEF NoActive
<1>2. \A p : Exists(p)' = Exists(p)
  BY DEF Exists
<1>3. QED
  BY <1>1, <1>2 DEF ProvenInv, Proven

RecordStays(p) ==
    /\ journal'[p].op = journal[p].op /\ journal'[p].intent = journal[p].intent
    /\ journal'[p].base = journal[p].base /\ journal'[p].old = journal[p].old
    /\ journal'[p].staged = journal[p].staged
    /\ journal'[p].phase \in PendingPhases => journal[p].phase \in PendingPhases

(* A step of a call that changes no row but may clear the active one.      *)
LEMMA CallStep ==
    ASSUME IInv, TypeInv', NEW o \in Ops, NEW t, calls' = [calls EXCEPT ![o] = t],
           UNCHANGED <<profiles, bindings, late>>, active' \in {active, NoActive},
           torn \subseteq torn', CallOK(o)',
           \A p \in Profiles : RecordStays(p),
           \A p \in Profiles, g \in Generations :
              /\ Used(p, g) => Used(p, g)'
              /\ t.p = p /\ t.gen = g => Refers(p, g)
              /\ Holds(o, p, g)' => Holds(o, p, g)
              /\ calls[o].p = p /\ calls[o].gen = g /\ calls[o].pc \in {"removeRow", "restore"} =>
                    Held(p, g)' \/ TakenGen(p, g)'
              /\ Held(p, g) /\ ~Held(p, g)' =>
                    /\ ~InForce(p, g) \/ TakenGen(p, g)'
                    /\ \A q \in Ops \ {o} : ~Holds(q, p, g)
    PROVE  IInv'
<1>1. calls \in [Ops -> Calls] /\ NoActive.profile = NoProfile /\ NoProfile \notin Profiles
  BY Typed, Constants DEF IInv, NoActive
<1>2. calls'[o] = t /\ \A q \in Ops \ {o} : calls'[q] = calls[q]
  BY <1>1
<1>3. GensInv'
  <2>1. SUFFICES ASSUME NEW p \in Profiles, NEW g \in Generations
                 PROVE  /\ Used(p, g) => Used(p, g)'
                        /\ Refers(p, g)' => Refers(p, g)
                        /\ Pending(p, g)' => Pending(p, g)
                        /\ \A q \in Ops : Holds(q, p, g)' => Holds(q, p, g)
    BY GensStep DEF IInv
  <2>2. /\ \A q \in Ops : calls'[q].p = p /\ calls'[q].gen = g => Refers(p, g)
        /\ \A q \in Ops : Holds(q, p, g)' => Holds(q, p, g)
    <3>1. t.p = p /\ t.gen = g => Refers(p, g)
      OBVIOUS
    <3>2. Holds(o, p, g)' => Holds(o, p, g)
      OBVIOUS
    <3>3. QED
      BY <1>1, <3>1, <3>2, CallHolds
  <2>3. Refers(p, g)' => Refers(p, g)
    <3>1. CASE profiles'[p].gen = g
      BY <3>1 DEF Refers
    <3>2. CASE active'.profile = p /\ active'.gen = g
      BY <1>1, <3>2 DEF Refers
    <3>3. CASE \E r \in Runs : bindings'[r].to.profile = p /\ bindings'[r].to.gen = g
      BY <3>3 DEF Refers
    <3>4. CASE \E q \in Ops : calls'[q].p = p /\ calls'[q].gen = g
      BY <2>2, <3>4
    <3>5. QED
      BY <3>1, <3>2, <3>3, <3>4 DEF Refers
  <2>4. Pending(p, g)' => Pending(p, g)
    BY DEF Pending, RecordStays
  <2>5. Used(p, g) => Used(p, g)'
    OBVIOUS
  <2>6. QED
    BY <2>2, <2>3, <2>4, <2>5
<1>4. CallInv'
  <2>1. SUFFICES ASSUME NEW q \in Ops, q # o
                 PROVE  CallOK(q)'
    BY DEF CallInv
  <2>2. CallOK(q) /\ calls'[q] = calls[q] /\ TypeInv
    BY <1>2, <2>1 DEF IInv, CallInv
  <2>3. \A p \in Profiles : SameRecord(p, q) /\ NewerRow(p)
    BY DEF SameRecord, NewerRow, RecordStays
  <2>4. ASSUME NEW p \in Profiles, NEW g \in Generations
        PROVE  /\ Holds(q, p, g) /\ Held(p, g) => Held(p, g)' \/ p \in torn'
               /\ calls[q].p = p /\ calls[q].gen = g /\ calls[q].pc \in RetiringPC =>
                    /\ profiles'[p].gen = g => profiles[p].gen = g
                    /\ calls[q].pc \in {"retire", "retireStore"} =>
                          (active'.profile = p /\ active'.gen = g =>
                              active.profile = p /\ active.gen = g)
                    /\ calls[q].pc \in {"activeRef", "retire", "retireStore"} =>
                          \A r \in Runs :
                             bindings'[r].state = "live" /\ bindings'[r].to.profile = p
                                /\ bindings'[r].to.gen = g =>
                                \/ r \in late'
                                \/ r \notin late /\ bindings[r].state = "live"
                                   /\ bindings[r].to.profile = p /\ bindings[r].to.gen = g
    <3>1. Holds(q, p, g) /\ Held(p, g) => Held(p, g)'
      BY <2>1
    <3>2. active'.profile = p /\ active'.gen = g => active.profile = p /\ active.gen = g
      BY <1>1
    <3>3. QED
      BY <3>1, <3>2
  <2>5. QED
    BY <2>2, <2>3, <2>4, OtherStep
<1>5. KeptInv'
  <2>1. SUFFICES ASSUME NEW p \in Profiles, NEW g \in Generations, InForce(p, g)'
                 PROVE  \/ Held(p, g)' \/ TakenGen(p, g)'
                        \/ InForce(p, g) /\ (Held(p, g) => Held(p, g)')
                                         /\ (TakenGen(p, g) => TakenGen(p, g)')
    BY KeptStep DEF IInv
  <2>2. InForce(p, g)
    BY <1>1, <2>1 DEF InForce, Exists
  <2>3. TakenGen(p, g) => TakenGen(p, g)' \/ Held(p, g)'
    <3>1. CASE p \in torn
      BY <3>1 DEF TakenGen
    <3>2. ASSUME NEW q \in Ops, calls[q].p = p, calls[q].gen = g,
                 calls[q].pc \in {"removeRow", "restore"}
          PROVE  TakenGen(p, g)' \/ Held(p, g)'
      <4>1. CASE q = o
        BY <3>2, <4>1
      <4>2. CASE q # o
        <5>1. calls'[q] = calls[q]
          BY <1>2, <4>2
        <5>2. QED
          BY <3>2, <5>1 DEF TakenGen
      <4>3. QED
        BY <4>1, <4>2
    <3>3. QED
      BY <3>1, <3>2 DEF TakenGen
  <2>4. QED
    BY <2>2, <2>3
<1>6. ProvenInv'
  BY SameProven DEF IInv
<1>7. QED
  BY <1>3, <1>4, <1>5, <1>6 DEF IInv

(* A call that goes on with the locals it has, and one that ends.          *)
LEMMA GoHolds ==
    ASSUME TypeInv, NEW o \in Ops, NEW pc \in CallPC, Go(o, pc),
           pc \in MutationPC => calls[o].pc \in MutationPC,
           pc \in StagingPC => calls[o].pc \in StagingPC
    PROVE  LET t == [calls[o] EXCEPT !.pc = pc]
           IN  /\ calls' = [calls EXCEPT ![o] = t] /\ calls'[o] = t
               /\ \A p, g : /\ t.p = p /\ t.gen = g => Refers(p, g)
                            /\ Holds(o, p, g)' => Holds(o, p, g)
<1> DEFINE t == [calls[o] EXCEPT !.pc = pc]
<1>1. calls' = [calls EXCEPT ![o] = t] /\ calls'[o] = t
  BY CallTypes DEF Go
<1>2. t.pc = pc /\ t.p = calls[o].p /\ t.gen = calls[o].gen /\ t.staged = calls[o].staged
      /\ t.kind = calls[o].kind
  BY GoTypes
<1> HIDE DEF t
<1>3. \A p, g : t.p = p /\ t.gen = g => Refers(p, g)
  BY <1>2 DEF Refers
<1>4. \A p, g : Holds(o, p, g)' => Holds(o, p, g)
  BY <1>1, <1>2 DEF Holds
<1>5. QED
  BY <1>1, <1>3, <1>4 DEF t

LEMMA ReturnHolds ==
    ASSUME TypeInv, NEW o \in Ops, Return(o)
    PROVE  /\ calls' = [calls EXCEPT ![o] = IdleCall] /\ CallOK(o)'
           /\ \A p \in Profiles : \A g : /\ ~(IdleCall.p = p /\ IdleCall.gen = g)
                                         /\ Holds(o, p, g)' => Holds(o, p, g)
<1>1. calls' = [calls EXCEPT ![o] = IdleCall] /\ calls'[o] = IdleCall
  BY CallTypes DEF Return
<1>2. IdleCall.pc \notin MutationPC \cup {"begin"} \cup SwitchPC /\ IdleCall.p = NoProfile
  BY DEF IdleCall, MutationPC, SwitchPC
<1>3. CallOK(o)' /\ \A p, g : ~Holds(o, p, g)'
  BY <1>1, <1>2, ElsewhereOK
<1>4. QED
  BY <1>1, <1>2, <1>3, Constants

(* A mutation under way keeps what its locals say, if its record does.     *)
LEMMA MutationOK ==
    ASSUME TypeInv, NEW o \in Ops, CallOK(o), calls[o].pc \in MutationPC,
           NEW pc \in MutationPC, Go(o, pc), UNCHANGED profiles, RecordStays(calls[o].p),
           pc \in StagingPC => calls[o].pc \in StagingPC, Written(o)', RetiresOld(o)',
           pc = "cleanup" => calls[o].kind = "delete"
    PROVE  CallOK(o)'
<1> DEFINE t == [calls[o] EXCEPT !.pc = pc]
<1>1. pc \in CallPC /\ pc \notin SwitchPC \cup {"begin"}
  BY DEF MutationPC, CallPC, SwitchPC
<1>2. calls'[o] = t
  BY <1>1, GoHolds
<1>3. /\ t.pc = pc /\ t.p = calls[o].p /\ t.gen = calls[o].gen /\ t.staged = calls[o].staged
      /\ t.kind = calls[o].kind /\ t.rev = calls[o].rev /\ t.model = calls[o].model
  BY <1>1, GoTypes
<1> HIDE DEF t
<1>4. OwnRecord(o)'
  BY <1>2, <1>3 DEF CallOK, OwnRecord, RecordStays
<1>5. SeenRevision(o)'
  <2>1. CASE pc \in StagingPC
    <3>1. calls[o].pc \notin SwitchPC
      BY DEF MutationPC, SwitchPC
    <3>2. QED
      BY <1>1, <1>2, <1>3, <2>1, <3>1 DEF CallOK, SeenRevision
  <2>2. CASE pc \notin StagingPC
    BY <1>1, <1>2, <1>3, <2>2 DEF SeenRevision
  <2>3. QED
    BY <2>1, <2>2
<1>6. QED
  BY <1>2, <1>3, <1>4, <1>5 DEF CallOK

LEMMA MutationStep ==
    ASSUME IInv, TypeInv', NEW o \in Ops, calls[o].pc \in MutationPC,
           NEW pc \in MutationPC, Go(o, pc), UNCHANGED <<profiles, bindings, history>>,
           active' \in {active, NoActive}, \A p \in Profiles : RecordStays(p),
           pc \in StagingPC => calls[o].pc \in StagingPC, Written(o)', RetiresOld(o)',
           pc = "cleanup" => calls[o].kind = "delete",
           \A p \in Profiles, g \in Generations :
              /\ Used(p, g) => Used(p, g)'
              /\ Held(p, g) /\ ~Held(p, g)' =>
                    /\ ~InForce(p, g)
                    /\ \A q \in Ops \ {o} : ~Holds(q, p, g)
    PROVE  IInv'
<1> DEFINE t == [calls[o] EXCEPT !.pc = pc]
<1>1. pc \in CallPC /\ calls[o].pc \notin {"removeRow", "restore"}
  BY DEF MutationPC, CallPC
<1>2. TypeInv /\ CallOK(o) /\ torn \subseteq torn' /\ late' = late
  BY DEF IInv, CallInv, history
<1>3. /\ calls' = [calls EXCEPT ![o] = t]
      /\ \A p, g : /\ t.p = p /\ t.gen = g => Refers(p, g)
                   /\ Holds(o, p, g)' => Holds(o, p, g)
  BY <1>1, <1>2, GoHolds
<1>4. RecordStays(calls[o].p)
  BY <1>2, InMutation
<1>5. CallOK(o)'
  BY <1>2, <1>4, MutationOK
<1> HIDE DEF t
<1>6. QED
  BY <1>1, <1>2, <1>3, <1>5, CallStep

LEMMA MutationEnd ==
    ASSUME IInv, TypeInv', NEW o \in Ops, calls[o].pc \notin {"removeRow", "restore"},
           Return(o), UNCHANGED <<profiles, bindings, vault, late>>, torn \subseteq torn',
           active' \in {active, NoActive}, \A p \in Profiles : RecordStays(p),
           \A p \in Profiles, g \in Generations : Used(p, g) => Used(p, g)'
    PROVE  IInv'
<1>1. /\ calls' = [calls EXCEPT ![o] = IdleCall] /\ CallOK(o)'
      /\ \A p \in Profiles : \A g : /\ ~(IdleCall.p = p /\ IdleCall.gen = g)
                                    /\ Holds(o, p, g)' => Holds(o, p, g)
  BY ReturnHolds DEF IInv
<1>2. \A p, g : Held(p, g)' = Held(p, g)
  BY DEF Held
<1>3. QED
  BY <1>1, <1>2, CallStep

(* A step of a call that changes nothing but its locals.                   *)
LEMMA LocalStep ==
    ASSUME IInv, TypeInv', NEW o \in Ops, NEW t, calls' = [calls EXCEPT ![o] = t],
           UNCHANGED <<tables, history>>, CallOK(o)',
           \A p \in Profiles, g \in Generations :
              /\ t.p = p /\ t.gen = g => Refers(p, g)
              /\ Holds(o, p, g)' => Holds(o, p, g),
           calls[o].pc \notin {"removeRow", "restore"}
    PROVE  IInv'
<1>1. UNCHANGED <<profiles, bindings, late, active, torn, journal, gens, vault>>
  BY DEF tables, history
<1>2. /\ \A p, g : Held(p, g)' = Held(p, g) /\ Used(p, g)' = Used(p, g)
      /\ \A p \in Profiles : RecordStays(p)
  BY <1>1 DEF Held, Used, RecordStays
<1>3. active' \in {active, NoActive} /\ torn \subseteq torn'
  BY <1>1
<1>4. QED
  BY <1>1, <1>2, <1>3, CallStep

LEMMA TransitionRecords ==
    ASSUME TypeInv, NEW p \in Profiles, NEW ph, Transition(p, ph),
           ph \in PendingPhases => journal[p].phase \in PendingPhases
    PROVE  \A q \in Profiles : RecordStays(q)
<1>1. /\ journal' = [journal EXCEPT ![p] = [journal[p] EXCEPT !.phase = ph]]
      /\ journal \in [Profiles -> Records] /\ journal[p] \in Records
  BY TransitionTypes, Typed DEF TablesTyped
<1>2. journal'[p] = [journal[p] EXCEPT !.phase = ph]
  BY <1>1
<1>3. RecordStays(p)
  BY <1>1, <1>2 DEF RecordStays, Records
<1>4. \A q \in Profiles \ {p} : journal'[q] = journal[q]
  BY <1>1
<1>5. QED
  BY <1>3, <1>4 DEF RecordStays

LEMMA SetStatusUsed ==
    ASSUME TypeInv, NEW p \in Profiles, NEW g \in Generations \cup {NoGen},
           NEW st \in GenStatuses \ {"none"}, NEW new, new = SetStatus(p, g, st)
    PROVE  \A q \in Profiles, h \in Generations : Used(q, h) => new[q][h] # "none"
<1>1. gens \in [Profiles -> [Generations -> GenStatuses]]
  BY Typed DEF TablesTyped
<1>2. CASE g = NoGen
  BY <1>2 DEF SetStatus, Used
<1>3. CASE g # NoGen
  <2>1. new = [gens EXCEPT ![p] = [gens[p] EXCEPT ![g] = st]]
    BY <1>1, <1>3 DEF SetStatus
  <2>2. new[p] = [gens[p] EXCEPT ![g] = st] /\ \A q \in Profiles \ {p} : new[q] = gens[q]
    BY <1>1, <2>1
  <2>3. \A h \in Generations : new[p][h] = IF h = g THEN st ELSE gens[p][h]
    BY <1>1, <2>2
  <2>4. QED
    BY <2>2, <2>3 DEF Used
<1>4. QED
  BY <1>2, <1>3

LEMMA StatusKeepsUsed ==
    ASSUME TypeInv, NEW p \in Profiles, NEW g \in Generations \cup {NoGen},
           NEW st \in GenStatuses \ {"none"}, gens' = SetStatus(p, g, st)
    PROVE  \A q \in Profiles, h \in Generations : Used(q, h) => Used(q, h)'
<1>1. \A q \in Profiles, h \in Generations : Used(q, h) => gens'[q][h] # "none"
  BY SetStatusUsed
<1>2. QED
  BY <1>1 DEF Used

-----------------------------------------------------------------------------
(* The actions.                                                            *)

LEMMA StartStep ==
    ASSUME IInv, TypeInv', NEW o \in Ops, NEW kind, NEW locals \in Calls,
           Call(o, kind, locals), UNCHANGED <<tables, history>>,
           LET t == [locals EXCEPT !.kind = kind]
           IN  /\ t.pc \notin MutationPC \cup SwitchPC
               /\ \A p, g : t.p = p /\ t.gen = g => t.gen = NoGen \/ profiles[p].gen = g
               /\ t.pc = "begin" => /\ t.p \in Profiles
                                    /\ t.rev = profiles[t.p].rev /\ t.gen = profiles[t.p].gen
                                    /\ t.model = profiles[t.p].model
    PROVE  IInv'
<1> DEFINE t == [locals EXCEPT !.kind = kind]
<1>1. calls' = [calls EXCEPT ![o] = t] /\ calls[o].pc = "idle" /\ TypeInv /\ UNCHANGED profiles
  BY DEF Call, At, IInv, tables
<1>2. calls'[o] = t
  BY <1>1, CallTypes
<1>3. /\ t.pc \notin MutationPC \cup SwitchPC
      /\ \A p, g : t.p = p /\ t.gen = g => t.gen = NoGen \/ profiles[p].gen = g
      /\ t.pc = "begin" => /\ t.p \in Profiles
                           /\ t.rev = profiles[t.p].rev /\ t.gen = profiles[t.p].gen
                           /\ t.model = profiles[t.p].model
  OBVIOUS
<1> HIDE DEF t
<1>4. CallOK(o)'
  <2>1. CASE t.pc = "begin"
    <3>1. profiles[t.p].rev \in Nat
      BY <1>1, <1>3, <2>1, Typed DEF TablesTyped, ProfileRows, Revisions
    <3>2. SeenRevision(o)'
      BY <1>1, <1>2, <1>3, <2>1, <3>1 DEF SeenRevision
    <3>3. QED
      BY <1>2, <2>1, <3>2 DEF CallOK, OwnRecord, Written, RetiresOld, MutationPC, RetiringPC
  <2>2. CASE t.pc # "begin"
    BY <1>2, <1>3, <2>2, ElsewhereOK
  <2>3. QED
    BY <2>1, <2>2
<1>5. \A p \in Profiles, g \in Generations : t.p = p /\ t.gen = g => Refers(p, g)
  BY <1>3 DEF Refers, Generations, NoGen
<1>6. \A p, g : ~Holds(o, p, g)'
  BY <1>2, <1>3 DEF Holds, MutationPC, StagingPC
<1>7. QED
  BY <1>1, <1>4, <1>5, <1>6, LocalStep

(* A new row with the generation of the old one.                           *)
LEMMA RowStep ==
    ASSUME IInv, TypeInv', NEW o \in Ops, NEW t, calls' = [calls EXCEPT ![o] = t],
           NEW p \in Profiles, NEW row, profiles' = [profiles EXCEPT ![p] = row],
           UNCHANGED <<active, gens, journal, vault, bindings, history>>,
           row.gen = profiles[p].gen, NewerRow(p),
           row.state \in {"Draft", "Ready", "Invalid"}, profiles[p].state # "Deleted",
           row.state = "Ready" => Proven(row),
           CallOK(o)', calls[o].pc \notin {"removeRow", "restore"},
           \A q \in Profiles, g \in Generations :
              /\ t.p = q /\ t.gen = g => Refers(q, g)
              /\ Holds(o, q, g)' => Holds(o, q, g)
    PROVE  IInv'
<1>1. /\ calls \in [Ops -> Calls] /\ profiles \in [Profiles -> ProfileRows]
      /\ profiles[p].state \in ProfileStates /\ torn' = torn /\ late' = late
  BY Typed DEF IInv, TablesTyped, ProfileRows, history
<1>2. calls'[o] = t /\ \A q \in Ops \ {o} : calls'[q] = calls[q]
  BY <1>1
<1>3. /\ profiles'[p] = row /\ \A q \in Profiles \ {p} : profiles'[q] = profiles[q]
      /\ \A q \in Profiles : profiles'[q].gen = profiles[q].gen
  BY <1>1
<1>4. \A q, g : Held(q, g)' = Held(q, g) /\ Used(q, g)' = Used(q, g)
  BY DEF Held, Used
<1>5. GensInv'
  <2>1. SUFFICES ASSUME NEW q \in Profiles, NEW g \in Generations
                 PROVE  /\ Used(q, g) => Used(q, g)'
                        /\ Refers(q, g)' => Refers(q, g)
                        /\ Pending(q, g)' => Pending(q, g)
                        /\ \A x \in Ops : Holds(x, q, g)' => Holds(x, q, g)
    BY GensStep DEF IInv
  <2>2. /\ \A x \in Ops : calls'[x].p = q /\ calls'[x].gen = g => Refers(q, g)
        /\ \A x \in Ops : Holds(x, q, g)' => Holds(x, q, g)
    <3>1. (t.p = q /\ t.gen = g => Refers(q, g)) /\ (Holds(o, q, g)' => Holds(o, q, g))
      OBVIOUS
    <3>2. QED
      BY <1>1, <3>1, CallHolds
  <2>3. Refers(q, g)' => Refers(q, g)
    BY <1>3, <2>2 DEF Refers
  <2>4. QED
    BY <1>4, <2>2, <2>3 DEF Pending
<1>6. CallInv'
  <2>1. SUFFICES ASSUME NEW q \in Ops, q # o
                 PROVE  CallOK(q)'
    BY DEF CallInv
  <2>2. CallOK(q) /\ calls'[q] = calls[q] /\ TypeInv /\ torn \subseteq torn'
    BY <1>1, <1>2, <2>1 DEF IInv, CallInv
  <2>3. \A x \in Profiles : SameRecord(x, q) /\ NewerRow(x)
    BY <1>3 DEF SameRecord, NewerRow
  <2>4. QED
    BY <1>1, <1>3, <1>4, <2>2, <2>3, OtherStep
<1>7. KeptInv'
  <2>1. SUFFICES ASSUME NEW q \in Profiles, NEW g \in Generations, InForce(q, g)'
                 PROVE  \/ Held(q, g)' \/ TakenGen(q, g)'
                        \/ InForce(q, g) /\ (Held(q, g) => Held(q, g)')
                                         /\ (TakenGen(q, g) => TakenGen(q, g)')
    BY KeptStep DEF IInv
  <2>2. InForce(q, g)
    <3>1. Exists(q)' /\ profiles'[q].gen = g => Exists(q)
      <4>1. CASE q = p
        <5>1. profiles[p].state = "Absent" => profiles[p].gen = NoGen
          BY DEF IInv, ProvenInv
        <5>2. QED
          BY <1>1, <1>3, <4>1, <5>1 DEF Exists, NoGen, Generations
      <4>2. CASE q # p
        BY <1>3, <4>2 DEF Exists
      <4>3. QED
        BY <4>1, <4>2
    <3>2. QED
      BY <1>1, <1>3, <2>1, <3>1 DEF InForce
  <2>3. TakenGen(q, g) => TakenGen(q, g)'
    <3>1. \A x \in Ops : calls[x].pc \in {"removeRow", "restore"} => calls'[x] = calls[x]
      BY <1>2
    <3>2. QED
      BY <1>1, <3>1 DEF TakenGen
  <2>4. QED
    BY <1>4, <2>2, <2>3
<1>8. ProvenInv'
  <2>1. \A q \in Profiles : /\ profiles'[q].state = "Ready" => Proven(profiles'[q])
                            /\ profiles'[q].state = "Absent" => profiles'[q].gen = NoGen
    <3>1. /\ row.state = "Ready" => Proven(row)
          /\ row.state # "Absent"
      OBVIOUS
    <3>2. QED
      BY <1>3, <3>1 DEF IInv, ProvenInv
  <2>2. \A q : q \in Profiles /\ Exists(q) => Exists(q)'
    BY <1>3 DEF Exists
  <2>3. active.profile # NoProfile => active.profile \in Profiles
    BY Typed DEF IInv, TablesTyped, ActiveRows
  <2>4. active.profile # NoProfile =>
           Proven(active) /\ profiles'[active.profile].state \notin {"Absent", "Deleted"}
    BY <2>2, <2>3 DEF IInv, ProvenInv, Exists
  <2>5. /\ active.profile = NoProfile => active = NoActive
        /\ \A r \in Runs :
              /\ bindings[r].state = "none" => bindings[r].to = NoActive
              /\ bindings[r].state # "none" =>
                    Proven(bindings[r].to) /\ bindings[r].to.profile \in Profiles
    BY DEF IInv, ProvenInv
  <2>6. active' = active /\ bindings' = bindings
    OBVIOUS
  <2>7. QED
    BY <2>1, <2>4, <2>5, <2>6 DEF ProvenInv, Proven, Exists
<1>9. QED
  BY <1>5, <1>6, <1>7, <1>8 DEF IInv

LEMMA StartKeeps ==
    ASSUME IInv, TypeInv', NEW o \in Ops, Start(o)
    PROVE  IInv'
<1>0. TypeInv
  BY DEF IInv
<1>1. ASSUME NEW p \in Profiles, StartMutation(o, p)
      PROVE  IInv'
  <2>1. PICK kind \in {"replace", "delete"}, g \in Generations :
              /\ Call(o, kind, [IdleCall EXCEPT
                  !.pc = "begin", !.p = p, !.rev = profiles[p].rev,
                  !.gen = profiles[p].gen, !.model = profiles[p].model,
                  !.staged = g])
              /\ UNCHANGED <<tables, boot, faults, starts, history>>
    BY <1>1 DEF StartMutation
  <2> DEFINE t == [IdleCall EXCEPT !.pc = "begin", !.p = p, !.rev = profiles[p].rev,
                      !.gen = profiles[p].gen, !.model = profiles[p].model, !.staged = g]
  <2>2. t \in Calls /\ t.pc = "begin" /\ t.p = p /\ t.rev = profiles[p].rev
        /\ t.gen = profiles[p].gen /\ t.model = profiles[p].model
    BY <1>0, Typed, NothingTypes DEF TablesTyped, ProfileRows, Calls, CallPC
  <2>3. Call(o, kind, t)
    BY <2>1
  <2> HIDE DEF t
  <2>4. LET u == [t EXCEPT !.kind = kind]
        IN u.pc = "begin" /\ u.p = p /\ u.rev = t.rev /\ u.gen = t.gen /\ u.model = t.model
    BY <2>2 DEF Calls
  <2>5. QED
    BY <2>1, <2>2, <2>3, <2>4, StartStep DEF MutationPC, SwitchPC
<1>2. ASSUME NEW p \in Profiles, StartValidation(o, p)
      PROVE  IInv'
  <2> DEFINE t == [IdleCall EXCEPT !.pc = "probe", !.p = p, !.rev = profiles[p].rev,
                      !.gen = profiles[p].gen, !.model = profiles[p].model]
  <2>1. t \in Calls /\ t.pc = "probe" /\ t.p = p /\ t.gen = profiles[p].gen
    BY <1>0, Typed, NothingTypes DEF TablesTyped, ProfileRows, Calls, CallPC
  <2>2. Call(o, "validate", t) /\ UNCHANGED <<tables, history>>
    BY <1>2 DEF StartValidation
  <2> HIDE DEF t
  <2>3. LET u == [t EXCEPT !.kind = "validate"] IN u.pc = "probe" /\ u.p = p /\ u.gen = t.gen
    BY <2>1 DEF Calls
  <2>4. QED
    BY <2>1, <2>2, <2>3, StartStep DEF MutationPC, SwitchPC
<1>3. ASSUME NEW p \in Profiles, NEW m \in Models, StartSwitch(o, p, m)
      PROVE  IInv'
  <2> DEFINE t == [IdleCall EXCEPT !.pc = "fresh", !.p = p, !.rev = profiles[p].rev, !.model = m,
                                   !.seen = active]
  <2>1. t \in Calls /\ t.pc = "fresh" /\ t.p = p /\ t.gen = NoGen
    BY <1>0, Typed, NothingTypes DEF TablesTyped, ProfileRows, Calls, CallPC, IdleCall
  <2>2. Call(o, "switch", t) /\ UNCHANGED <<tables, history>>
    BY <1>3 DEF StartSwitch
  <2> HIDE DEF t
  <2>3. LET u == [t EXCEPT !.kind = "switch"] IN u.pc = "fresh" /\ u.p = p /\ u.gen = t.gen
    BY <2>1 DEF Calls
  <2>4. QED
    BY <2>1, <2>2, <2>3, StartStep DEF MutationPC, SwitchPC
<1>4. ASSUME NEW p \in Profiles, StartActivation(o, p)
      PROVE  IInv'
  <2> DEFINE t == [IdleCall EXCEPT !.pc = "expect", !.p = p, !.rev = profiles[p].rev,
                                   !.model = profiles[p].model]
  <2>1. t \in Calls /\ t.pc = "expect" /\ t.p = p /\ t.gen = NoGen
    BY <1>0, Typed, NothingTypes DEF TablesTyped, ProfileRows, Calls, CallPC, IdleCall
  <2>2. Call(o, "activate", t) /\ UNCHANGED <<tables, history>>
    BY <1>4 DEF StartActivation
  <2> HIDE DEF t
  <2>3. LET u == [t EXCEPT !.kind = "activate"] IN u.pc = "expect" /\ u.p = p /\ u.gen = t.gen
    BY <2>1 DEF Calls
  <2>4. QED
    BY <2>1, <2>2, <2>3, StartStep DEF MutationPC, SwitchPC
<1>5. ASSUME NEW p \in Profiles, StartDelete(o, p)
      PROVE  IInv'
  <2> DEFINE pc == IF profiles[p].gen = NoGen THEN "removeRow" ELSE "take"
             t == [IdleCall EXCEPT !.pc = pc, !.p = p, !.rev = profiles[p].rev,
                                   !.gen = profiles[p].gen, !.seen = active]
  <2>1. t \in Calls /\ t.pc = pc /\ t.p = p /\ t.gen = profiles[p].gen
    BY <1>0, Typed, NothingTypes DEF TablesTyped, ProfileRows, Calls, CallPC
  <2>2. Call(o, "remove", t) /\ UNCHANGED <<tables, history>>
    BY <1>5 DEF StartDelete
  <2>3. pc \in {"removeRow", "take"}
    OBVIOUS
  <2> HIDE DEF t, pc
  <2>4. LET u == [t EXCEPT !.kind = "remove"] IN u.pc = pc /\ u.p = p /\ u.gen = t.gen
    BY <2>1 DEF Calls
  <2>5. QED
    BY <2>1, <2>2, <2>3, <2>4, StartStep DEF MutationPC, SwitchPC
<1>6. ASSUME StartRun(o)
      PROVE  IInv'
  <2> DEFINE t == [IdleCall EXCEPT !.pc = "verify"]
  <2>1. t \in Calls /\ t.pc = "verify" /\ t.gen = NoGen
    BY NothingTypes DEF Calls, CallPC, IdleCall
  <2>2. Call(o, "bind", t) /\ UNCHANGED <<tables, history>>
    BY <1>6 DEF StartRun
  <2> HIDE DEF t
  <2>3. LET u == [t EXCEPT !.kind = "bind"] IN u.pc = "verify" /\ u.gen = t.gen
    BY <2>1 DEF Calls
  <2>4. QED
    BY <2>1, <2>2, <2>3, StartStep DEF MutationPC, SwitchPC
<1>7. ASSUME NEW p \in Profiles, SaveProfile(o, p)
      PROVE  IInv'
  <2>1. PICK m \in Models : profiles' = [profiles EXCEPT ![p] = Draft(profiles[p].rev + 1, m, profiles[p].gen)]
    BY <1>7 DEF SaveProfile, SaveRevision
  <2> DEFINE row == Draft(profiles[p].rev + 1, m, profiles[p].gen)
  <2>2. profiles[p].state # "Deleted" /\ calls' = calls /\ calls[o].pc = "idle"
        /\ UNCHANGED <<active, gens, journal, vault, bindings, history>>
    BY <1>7 DEF SaveProfile, SaveRevision, At
  <2>3. row.gen = profiles[p].gen /\ row.state = "Draft" /\ row.rev = profiles[p].rev + 1
    BY DEF Draft
  <2> HIDE DEF row
  <2>4. profiles \in [Profiles -> ProfileRows] /\ profiles[p].rev \in Nat
    BY <1>0, Typed DEF TablesTyped, ProfileRows, Revisions
  <2>5. profiles' = [profiles EXCEPT ![p] = row]
    BY <2>1 DEF row
  <2>6. NewerRow(p)
    BY <2>3, <2>4, <2>5 DEF NewerRow
  <2>7. calls' = [calls EXCEPT ![o] = calls[o]] /\ calls[o].p \in Profiles \cup {NoProfile}
    BY <1>0, <2>2, CallTypes
  <2>8. CallOK(o)' /\ \A q, g : ~Holds(o, q, g)'
    BY <2>2, ElsewhereOK DEF MutationPC, SwitchPC
  <2>9. \A q \in Profiles, g \in Generations : calls[o].p = q /\ calls[o].gen = g => Refers(q, g)
    BY DEF Refers
  <2>10. QED
    BY <2>2, <2>3, <2>5, <2>6, <2>7, <2>8, <2>9, RowStep
<1>8. QED
  BY <1>1, <1>2, <1>3, <1>4, <1>5, <1>6, <1>7 DEF Start

(* What a call holds belongs to nothing else.                              *)
LEMMA HeldApart ==
    ASSUME IInv, NEW o \in Ops, NEW p \in Profiles, NEW g \in Generations, Holds(o, p, g)
    PROVE  /\ Used(p, g) /\ ~Refers(p, g) /\ ~InForce(p, g)
           /\ \A q \in Ops \ {o} : ~Holds(q, p, g)
<1>1. Apart(p, g)
  BY DEF IInv, GensInv
<1>2. QED
  BY <1>1 DEF Apart, Refers, InForce

(* Taking one generation out of the vault takes no other.                  *)
LEMMA RemoveOne ==
    ASSUME NEW p, NEW g, Remove(p, g), NEW q, NEW h, Held(q, h), ~Held(q, h)'
    PROVE  q = p /\ h = g
BY DEF Remove, Held

(* Every transaction of a mutation but the first and the pointer.          *)
LEMMA JournalKeeps ==
    ASSUME IInv, TypeInv', NEW o \in Ops,
           RecordVaultWrite(o) \/ UndoJournal(o) \/ CompleteMutation(o) \/ BlockMutation(o)
    PROVE  IInv'
<1> DEFINE p == calls[o].p
<1> USE DEF At
<1>1. TypeInv /\ calls[o].pc \in MutationPC /\ calls[o].pc \notin {"removeRow", "restore"}
  BY DEF IInv, RecordVaultWrite, UndoJournal, CompleteMutation, BlockMutation, MutationPC
<1>2. p \in Profiles /\ calls[o].staged \in Generations
  BY <1>1, InMutation
<1>3. /\ UNCHANGED <<profiles, vault, bindings, bounds, history>>
      /\ late' = late /\ torn \subseteq torn'
  BY DEF RecordVaultWrite, UndoJournal, CompleteMutation, BlockMutation, history
<1>4. \A q, h : Held(q, h)' = Held(q, h)
  BY <1>3 DEF Held
<1>5. ASSUME UNCHANGED journal
      PROVE  \A q \in Profiles : RecordStays(q)
  BY <1>5 DEF RecordStays
<1>6. ASSUME UNCHANGED gens
      PROVE  \A q, h : Used(q, h)' = Used(q, h)
  BY <1>6 DEF Used
<1>7. CASE RecordVaultWrite(o)
  <2>1. active' \in {active, NoActive} /\ calls[o].pc = "record"
    BY <1>7 DEF RecordVaultWrite
  <2>2. CASE MayRecordWrite(p, o)
    <3>1. Transition(p, "VaultWritten") /\ Go(o, "commit")
          /\ gens' = SetStatus(p, journal[p].staged, "available")
          /\ journal[p].phase \in PendingPhases
      BY <1>7, <2>2 DEF RecordVaultWrite, RecordWrite, MayRecordWrite, InPhase, PendingPhases
    <3>2. \A q \in Profiles : RecordStays(q)
      BY <1>1, <1>2, <3>1, TransitionRecords
    <3>3. \A q \in Profiles, h \in Generations : Used(q, h) => Used(q, h)'
      BY <1>1, <1>2, <3>1, JournalTypes, StatusKeepsUsed DEF GenStatuses
    <3>4. Written(o)' /\ RetiresOld(o)'
      <4>1. Written(o)
        BY DEF IInv, CallInv, CallOK
      <4>2. calls'[o] = [calls[o] EXCEPT !.pc = "commit"] /\ calls[o] \in Calls
        BY <1>1, <3>1, CallTypes DEF Go
      <4>3. calls'[o].pc = "commit" /\ calls'[o].kind = calls[o].kind /\ calls'[o].p = p
            /\ calls'[o].staged = calls[o].staged
        BY <4>2 DEF Calls
      <4>4. QED
        BY <1>3, <2>1, <4>1, <4>3 DEF Written, RetiresOld, RetiringPC, Held
    <3>5. QED
      BY <1>1, <1>3, <1>4, <2>1, <3>1, <3>2, <3>3, <3>4, MutationStep DEF MutationPC, StagingPC
  <2>3. CASE ~MayRecordWrite(p, o)
    <3>1. Go(o, "block") /\ UNCHANGED <<journal, gens>>
      BY <1>7, <2>3 DEF RecordVaultWrite
    <3>2. calls'[o].pc = "block"
      BY <1>1, <3>1, CallTypes DEF Go, Calls
    <3>3. Written(o)' /\ RetiresOld(o)'
      BY <3>2 DEF Written, RetiresOld, RetiringPC
    <3>4. QED
      BY <1>1, <1>3, <1>4, <1>5, <1>6, <2>1, <3>1, <3>3, MutationStep DEF MutationPC, StagingPC
  <2>4. QED
    BY <2>2, <2>3
<1>8. ASSUME active' = active, Go(o, "block"), UNCHANGED <<journal, gens>>
      PROVE  IInv'
  <2>1. calls'[o].pc = "block"
    BY <1>1, <1>8, CallTypes DEF Go, Calls
  <2>2. Written(o)' /\ RetiresOld(o)'
    BY <2>1 DEF Written, RetiresOld, RetiringPC
  <2>3. QED
    BY <1>1, <1>3, <1>4, <1>5, <1>6, <1>8, <2>2, MutationStep DEF MutationPC, StagingPC
<1>9. CASE UndoJournal(o)
  <2>1. CASE MayRollback(p, o)
    <3>1. Transition(p, "RolledBack") /\ Return(o) /\ active' = active
          /\ gens' = SetStatus(p, journal[p].staged, "deleted")
      BY <1>9, <2>1 DEF UndoJournal, Rollback
    <3>2. \A q \in Profiles : RecordStays(q)
      BY <1>1, <1>2, <3>1, TransitionRecords DEF PendingPhases
    <3>3. \A q \in Profiles, h \in Generations : Used(q, h) => Used(q, h)'
      BY <1>1, <1>2, <3>1, JournalTypes, StatusKeepsUsed DEF GenStatuses
    <3>4. QED
      BY <1>1, <1>3, <3>1, <3>2, <3>3, MutationEnd
  <2>2. CASE ~MayRollback(p, o)
    BY <1>8, <1>9, <2>2 DEF UndoJournal
  <2>3. QED
    BY <2>1, <2>2
<1>10. CASE CompleteMutation(o)
  <2>1. CASE InPhase(p, o, {"PointerCommitted"})
    <3> DEFINE old == SetStatus(p, journal[p].old, "retained")
               st  == journal[p].staged
    <3>1. Transition(p, "Completed") /\ Return(o) /\ active' = active
          /\ (gens' = old \/ gens' = [old EXCEPT ![p][st] = "deleted"])
      BY <1>10, <2>1 DEF CompleteMutation, Complete
    <3>2. \A q \in Profiles : RecordStays(q)
      BY <1>1, <1>2, <3>1, TransitionRecords DEF PendingPhases
    <3>3. \A q \in Profiles, h \in Generations : Used(q, h) => old[q][h] # "none"
      <4>1. /\ journal[p].old \in Generations \cup {NoGen}
            /\ old = SetStatus(p, journal[p].old, "retained")
        BY <1>1, <1>2, JournalTypes
      <4>2. "retained" \in GenStatuses \ {"none"}
        BY DEF GenStatuses
      <4> HIDE DEF old, st
      <4>3. QED
        BY <1>1, <1>2, <4>1, <4>2, SetStatusUsed
    <3>4. old \in [Profiles -> [Generations -> GenStatuses]]
      BY <1>1, <1>2, JournalTypes, SetStatusTypes DEF GenStatuses
    <3> HIDE DEF old, st
    <3>5. ASSUME NEW q \in Profiles, NEW h \in Generations, Used(q, h)
          PROVE  Used(q, h)'
      <4>1. old[q][h] # "none"
        BY <3>3, <3>5
      <4>2. CASE gens' = old
        BY <4>1, <4>2 DEF Used
      <4>3. CASE gens' = [old EXCEPT ![p][st] = "deleted"]
        <5>1. gens'[p] = [old[p] EXCEPT ![st] = "deleted"] /\ \A x \in Profiles \ {p} : gens'[x] = old[x]
          BY <1>2, <3>4, <4>3
        <5>2. gens'[p][h] = "deleted" \/ gens'[p][h] = old[p][h]
          <6>1. old[p] \in [Generations -> GenStatuses]
            BY <1>2, <3>4
          <6>2. QED
            BY <5>1, <6>1
        <5>3. QED
          BY <4>1, <5>1, <5>2 DEF Used
      <4>4. QED
        BY <3>1, <4>2, <4>3
    <3>6. QED
      BY <1>1, <1>3, <3>1, <3>2, <3>5, MutationEnd
  <2>2. CASE ~InPhase(p, o, {"PointerCommitted"})
    BY <1>8, <1>10, <2>2 DEF CompleteMutation
  <2>3. QED
    BY <2>1, <2>2
<1>11. CASE BlockMutation(o)
  <2>1. Return(o)
    BY <1>11 DEF BlockMutation
  <2>2. CASE Block(p)
    <3>1. Transition(p, "Blocked") /\ gens' = SetStatus(p, journal[p].staged, "revoked")
          /\ active' \in {active, NoActive}
      BY <2>2 DEF Block
    <3>2. \A q \in Profiles : RecordStays(q)
      BY <1>1, <1>2, <3>1, TransitionRecords DEF PendingPhases
    <3>3. \A q \in Profiles, h \in Generations : Used(q, h) => Used(q, h)'
      BY <1>1, <1>2, <3>1, JournalTypes, StatusKeepsUsed DEF GenStatuses
    <3>4. QED
      BY <1>1, <1>3, <2>1, <3>1, <3>2, <3>3, MutationEnd
  <2>3. CASE UNCHANGED <<journal, gens, active>>
    BY <1>1, <1>3, <1>5, <1>6, <2>1, <2>3, MutationEnd
  <2>4. QED
    BY <1>11, <2>2, <2>3 DEF BlockMutation
<1>12. QED
  BY <1>7, <1>9, <1>10, <1>11

(* Every step of a mutation outside the store's transactions, and the one  *)
(* that marks the old generation deleted.                                  *)
LEMMA VaultKeeps ==
    ASSUME IInv, TypeInv', NEW o \in Ops,
           \/ WriteVault(o) \/ UndoVaultWrite(o) \/ DeleteRollbackCopy(o)
           \/ ReadRunReferences(o) \/ ReadActiveReference(o) \/ RetireVault(o) \/ RetireStatus(o)
    PROVE  IInv'
<1> DEFINE c == calls[o]
           p == calls[o].p
<1> USE DEF At
<1>1. TypeInv /\ CallOK(o) /\ c.pc \in MutationPC
  BY DEF IInv, CallInv, WriteVault, UndoVaultWrite, DeleteRollbackCopy, ReadRunReferences,
         ReadActiveReference, RetireVault, RetireStatus, MutationPC
<1>2. p \in Profiles /\ c.staged \in Generations /\ (c.pc \in RetiringPC => c.gen \in Generations)
  BY <1>1, InMutation
<1>3. /\ UNCHANGED <<profiles, active, journal, bindings, history>>
      /\ active' \in {active, NoActive} /\ \A q \in Profiles : RecordStays(q)
  BY DEF WriteVault, UndoVaultWrite, DeleteRollbackCopy, ReadRunReferences, tables,
         ReadActiveReference, RetireVault, RetireStatus, RecordStays
<1>4. ASSUME NEW pc \in MutationPC, Go(o, pc)
      PROVE  calls'[o].pc = pc /\ calls'[o].p = p /\ calls'[o].kind = c.kind
             /\ calls'[o].staged = c.staged /\ calls'[o].gen = c.gen
  <2>1. calls'[o] = [calls[o] EXCEPT !.pc = pc] /\ calls[o] \in Calls
    BY <1>1, <1>4, CallTypes DEF Go
  <2>2. QED
    BY <2>1 DEF Calls
<1>5. ASSUME NEW pc \in MutationPC, Go(o, pc), UNCHANGED <<gens, vault>>, Written(o)', RetiresOld(o)',
             pc \notin StagingPC, pc = "cleanup" => c.kind = "delete"
      PROVE  IInv'
  <2>1. \A q, h : Held(q, h)' = Held(q, h) /\ Used(q, h)' = Used(q, h)
    BY <1>5 DEF Held, Used
  <2>2. QED
    BY <1>1, <1>3, <1>5, <2>1, MutationStep
<1>6. CASE WriteVault(o)
  <2>1. PICK pc \in {"record", "undo"} : Go(o, pc) /\ UNCHANGED gens
           /\ IF pc = "record" THEN Put(p, c.staged) ELSE UNCHANGED vault
    BY <1>6 DEF WriteVault
  <2>2. pc \in MutationPC /\ c.pc \in StagingPC /\ pc \notin RetiringPC \cup {"cleanup"}
    BY <1>6, <2>1 DEF WriteVault, MutationPC, StagingPC, RetiringPC
  <2>3. Written(o)' /\ RetiresOld(o)'
    <3>1. pc = "record" => <<p, c.staged>> \in vault'
      BY <2>1 DEF Put
    <3>2. QED
      BY <1>4, <2>1, <2>2, <3>1 DEF Written, RetiresOld, RetiringPC, Held
  <2>4. \A q, h : /\ Held(q, h) => Held(q, h)'
                  /\ Used(q, h)' = Used(q, h)
    BY <2>1 DEF Held, Put, Used
  <2>5. QED
    BY <1>1, <1>3, <2>1, <2>2, <2>3, <2>4, MutationStep
<1>7. CASE UndoVaultWrite(o) \/ DeleteRollbackCopy(o)
  <2>1. PICK pc \in {"undoStore", "complete"} :
           /\ Go(o, pc) /\ UNCHANGED gens /\ Remove(p, c.staged)
           /\ c.pc = "undo" \/ (c.pc = "cleanup" /\ pc = "complete")
    <3>1. CASE UndoVaultWrite(o)
      BY <3>1 DEF UndoVaultWrite
    <3>2. CASE DeleteRollbackCopy(o)
      BY <3>2 DEF DeleteRollbackCopy
    <3>3. QED
      BY <1>7, <3>1, <3>2
  <2>2. pc \in MutationPC /\ pc \notin RetiringPC \cup {"record", "commit", "cleanup"}
        /\ (c.pc # "cleanup" => c.pc \in StagingPC)
        /\ (pc \in StagingPC => c.pc \in StagingPC)
    BY <2>1 DEF MutationPC, StagingPC, RetiringPC
  <2>3. Written(o)' /\ RetiresOld(o)'
    BY <1>4, <2>1, <2>2 DEF Written, RetiresOld, RetiringPC
  <2>4. Holds(o, p, c.staged)
    <3>1. c.pc \in StagingPC \/ (c.kind = "delete" /\ c.pc \in MutationPC)
      BY <1>1, <2>2 DEF CallOK
    <3>2. QED
      BY <3>1 DEF Holds
  <2>5. /\ ~InForce(p, c.staged)
        /\ \A q \in Ops \ {o} : ~Holds(q, p, c.staged)
    BY <1>2, <2>4, HeldApart
  <2>6. \A q \in Profiles, h \in Generations :
           /\ Used(q, h) => Used(q, h)'
           /\ Held(q, h) /\ ~Held(q, h)' => q = p /\ h = c.staged
    BY <2>1, RemoveOne DEF Used
  <2>7. \A q \in Profiles, h \in Generations :
           /\ Used(q, h) => Used(q, h)'
           /\ Held(q, h) /\ ~Held(q, h)' =>
                 /\ ~InForce(q, h)
                 /\ \A x \in Ops \ {o} : ~Holds(x, q, h)
    BY <2>5, <2>6
  <2>8. QED
    BY <1>1, <1>3, <2>1, <2>2, <2>3, <2>7, MutationStep
<1>8. CASE ReadRunReferences(o)
  <2>1. c.pc = "refs" /\ UNCHANGED <<gens, vault>>
    BY <1>8 DEF ReadRunReferences, tables
  <2>2. profiles[p].gen # c.gen
    BY <1>1, <2>1 DEF CallOK, RetiresOld, RetiringPC
  <2>3. CASE RunReferences(p, c.gen)
    <3>1. PICK pc \in {"cleanup", "complete"} : Go(o, pc) /\ (pc = "cleanup" => c.kind = "delete")
      BY <1>8, <2>3 DEF ReadRunReferences, AfterCleanup
    <3>2. pc \in MutationPC /\ pc \notin StagingPC \cup RetiringPC
      BY <3>1 DEF MutationPC, StagingPC, RetiringPC
    <3>3. Written(o)' /\ RetiresOld(o)'
      BY <1>4, <3>1, <3>2 DEF Written, RetiresOld, RetiringPC
    <3>4. QED
      BY <1>5, <2>1, <3>1, <3>2, <3>3
  <2>4. CASE ~RunReferences(p, c.gen)
    <3>1. Go(o, "activeRef")
      BY <1>8, <2>4 DEF ReadRunReferences
    <3>2. "activeRef" \in MutationPC /\ "activeRef" \notin StagingPC
      BY DEF MutationPC, StagingPC
    <3>3. Written(o)' /\ RetiresOld(o)'
      BY <1>3, <1>4, <2>2, <2>4, <3>1, <3>2 DEF Written, RetiresOld, RetiringPC, RunReferences
    <3>4. QED
      BY <1>5, <2>1, <3>1, <3>2, <3>3
  <2>5. QED
    BY <2>3, <2>4
<1>9. CASE ReadActiveReference(o)
  <2>1. c.pc = "activeRef" /\ UNCHANGED <<gens, vault>>
    BY <1>9 DEF ReadActiveReference, tables
  <2>2. RetiresOld(o)
    BY <1>1 DEF CallOK
  <2>3. PICK pc \in {"block", "cleanup", "complete", "retire"} :
           /\ Go(o, pc) /\ (pc = "cleanup" => c.kind = "delete")
           /\ pc = "retire" => ~ActiveReferences(p, c.gen)
    <3>1. CASE ~ActiveReadable
      BY <1>9, <3>1 DEF ReadActiveReference
    <3>2. CASE ActiveReadable /\ ActiveReferences(p, c.gen)
      BY <1>9, <3>2 DEF ReadActiveReference, AfterCleanup
    <3>3. CASE ActiveReadable /\ ~ActiveReferences(p, c.gen)
      BY <1>9, <3>3 DEF ReadActiveReference
    <3>4. QED
      BY <3>1, <3>2, <3>3
  <2>4. pc \in MutationPC /\ pc \notin StagingPC
    BY <2>3 DEF MutationPC, StagingPC
  <2>5. Written(o)' /\ RetiresOld(o)'
    <3>1. CASE pc = "retire"
      <4>1. RetiresOld(o)'
        BY <1>3, <1>4, <2>1, <2>2, <2>3, <2>4, <3>1 DEF RetiresOld, RetiringPC, ActiveReferences, history
      <4>2. QED
        BY <1>4, <2>3, <2>4, <3>1, <4>1 DEF Written
    <3>2. CASE pc # "retire"
      BY <1>4, <2>3, <2>4, <3>2 DEF Written, RetiresOld, RetiringPC
    <3>3. QED
      BY <3>1, <3>2
  <2>6. QED
    BY <1>5, <2>1, <2>3, <2>4, <2>5
<1>10. CASE RetireVault(o)
  <2>1. c.pc = "retire" /\ Go(o, "retireStore") /\ UNCHANGED gens /\ Remove(p, c.gen)
    BY <1>10 DEF RetireVault
  <2>2. RetiresOld(o) /\ c.gen \in Generations
    BY <1>1, <1>2, <2>1 DEF CallOK, RetiringPC
  <2>3. "retireStore" \in MutationPC /\ "retireStore" \notin StagingPC \cup {"cleanup"}
    BY DEF MutationPC, StagingPC
  <2>4. Written(o)' /\ RetiresOld(o)'
    <3>1. RetiresOld(o)'
      BY <1>3, <1>4, <2>1, <2>2, <2>3 DEF RetiresOld, RetiringPC, ActiveReferences, history
    <3>2. QED
      BY <1>4, <2>1, <2>3, <3>1 DEF Written
  <2>5. ~InForce(p, c.gen)
    BY <2>1, <2>2 DEF RetiresOld, RetiringPC, InForce, ActiveReferences
  <2>6. \A q \in Ops : ~Holds(q, p, c.gen)
    <3>1. Refers(p, c.gen)
      BY DEF Refers
    <3>2. QED
      BY <1>2, <2>2, <3>1, HeldApart
  <2>7. \A q \in Profiles, h \in Generations :
           /\ Used(q, h) => Used(q, h)'
           /\ Held(q, h) /\ ~Held(q, h)' => q = p /\ h = c.gen
    BY <2>1, RemoveOne DEF Used
  <2>8. \A q \in Profiles, h \in Generations :
           /\ Used(q, h) => Used(q, h)'
           /\ Held(q, h) /\ ~Held(q, h)' =>
                 /\ ~InForce(q, h)
                 /\ \A x \in Ops \ {o} : ~Holds(x, q, h)
    BY <2>5, <2>6, <2>7
  <2>9. QED
    BY <1>1, <1>3, <2>1, <2>3, <2>4, <2>8, MutationStep
<1>11. CASE RetireStatus(o)
  <2>1. UNCHANGED vault
    BY <1>11 DEF RetireStatus
  <2>2. PICK pc \in {"block", "cleanup", "complete"} : Go(o, pc) /\ (pc = "cleanup" => c.kind = "delete")
    BY <1>11 DEF RetireStatus, AfterCleanup
  <2>3. pc \in MutationPC /\ pc \notin StagingPC \cup RetiringPC
    BY <2>2 DEF MutationPC, StagingPC, RetiringPC
  <2>4. Written(o)' /\ RetiresOld(o)'
    BY <1>4, <2>2, <2>3 DEF Written, RetiresOld, RetiringPC
  <2>5. \A q \in Profiles, h \in Generations : Used(q, h) => Used(q, h)'
    <3>1. CASE MayRetire(p, c.gen)
      <4>1. gens' = SetStatus(p, c.gen, "deleted")
        BY <1>11, <3>1 DEF RetireStatus
      <4>2. QED
        BY <1>1, <1>2, <4>1, CallTypes, StatusKeepsUsed DEF GenStatuses
    <3>2. CASE ~MayRetire(p, c.gen)
      BY <1>11, <3>2 DEF RetireStatus, Used
    <3>3. QED
      BY <3>1, <3>2
  <2>6. \A q, h : Held(q, h)' = Held(q, h)
    BY <2>1 DEF Held
  <2>7. QED
    BY <1>1, <1>3, <2>2, <2>3, <2>4, <2>5, <2>6, MutationStep
<1>12. QED
  BY <1>6, <1>7, <1>8, <1>9, <1>10, <1>11

(* begin_credential_mutation: the staged number was given to nothing.      *)
LEMMA BeginKeeps ==
    ASSUME IInv, TypeInv', NEW o \in Ops, BeginMutation(o)
    PROVE  IInv'
<1> DEFINE c == calls[o]
           P == calls[o].p
           G == calls[o].staged
<1> USE DEF At
<1>1. TypeInv /\ CallOK(o) /\ c.pc = "begin" /\ UNCHANGED <<profiles, active, vault, bindings, history>>
      /\ c.pc \in MutationPC \cup {"begin"} /\ c.pc \notin {"removeRow", "restore"}
  BY DEF IInv, CallInv, BeginMutation
<1>2. P \in Profiles /\ G \in Generations /\ c.gen \in Generations \cup {NoGen}
  BY <1>1, InMutation
<1>3. /\ late' = late /\ torn' = torn /\ torn \subseteq torn'
      /\ active' \in {active, NoActive} /\ \A q, h : Held(q, h)' = Held(q, h)
  BY <1>1 DEF history, Held
<1>4. CASE ~MayBegin(P, c.rev, c.gen, G)
  <2>1. Return(o) /\ UNCHANGED <<journal, gens>>
    BY <1>4 DEF BeginMutation
  <2>2. /\ \A q \in Profiles : RecordStays(q)
        /\ \A q, h : Used(q, h)' = Used(q, h)
    BY <2>1 DEF RecordStays, Used
  <2>3. QED
    BY <1>1, <1>3, <2>1, <2>2, MutationEnd
<1>5. CASE MayBegin(P, c.rev, c.gen, G)
  <2> DEFINE rec == [op |-> o, phase |-> "IntentRecorded", intent |-> c.kind,
                     base |-> c.rev, old |-> c.gen, staged |-> G]
             t == [c EXCEPT !.pc = "write"]
  <2>1. /\ journal' = [journal EXCEPT ![P] = rec] /\ gens' = SetStatus(P, G, "retained")
        /\ Go(o, "write")
    BY <1>5 DEF BeginMutation, Begin
  <2>2. /\ journal \in [Profiles -> Records] /\ gens \in [Profiles -> [Generations -> GenStatuses]]
        /\ calls \in [Ops -> Calls] /\ calls[o] \in Calls
    BY <1>1, Typed, CallTypes DEF TablesTyped
  <2>3. journal'[P] = rec /\ \A q \in Profiles \ {P} : journal'[q] = journal[q]
    BY <1>2, <2>1, <2>2
  <2>4. calls'[o] = t /\ \A q \in Ops \ {o} : calls'[q] = calls[q]
    BY <2>1, <2>2 DEF Go
  <2>5. /\ t.pc = "write" /\ t.p = P /\ t.gen = c.gen /\ t.staged = G
        /\ t.kind = c.kind /\ t.rev = c.rev /\ t.model = c.model
    BY <2>2 DEF Calls
  <2>6. rec.op = o /\ rec.phase = "IntentRecorded" /\ rec.intent = c.kind /\ rec.base = c.rev
        /\ rec.old = c.gen /\ rec.staged = G
    OBVIOUS
  <2> HIDE DEF rec, t
  <2>7. \A q \in Profiles, h \in Generations : Used(q, h) => Used(q, h)'
    BY <1>1, <1>2, <2>1, StatusKeepsUsed DEF GenStatuses
  <2>8. ~Used(P, G) /\ gens'[P][G] = "retained"
    <3>1. G >= G
      BY <1>2 DEF Generations
    <3>2. gens[P][G] = "none"
      BY <1>2, <1>5, <3>1 DEF MayBegin, IsNewest
    <3>3. G # NoGen
      BY <1>2 DEF Generations, NoGen
    <3>4. gens' = [gens EXCEPT ![P] = [gens[P] EXCEPT ![G] = "retained"]]
      BY <2>1, <2>2, <3>3 DEF SetStatus
    <3>5. gens[P] \in [Generations -> GenStatuses]
      BY <1>2, <2>2
    <3>6. gens'[P] = [gens[P] EXCEPT ![G] = "retained"]
      BY <1>2, <2>2, <3>4
    <3>7. QED
      BY <1>2, <3>2, <3>5, <3>6 DEF Used
  <2>9. GensInv'
    <3>1. SUFFICES ASSUME NEW p \in Profiles, NEW g \in Generations
                   PROVE  Apart(p, g)'
      BY DEF GensInv
    <3>2. Apart(p, g)
      BY DEF IInv, GensInv
    <3>3. Refers(p, g)' => Refers(p, g)
      <4>1. \A q \in Ops : calls'[q].p = calls[q].p /\ calls'[q].gen = calls[q].gen
        BY <2>4, <2>5
      <4>2. QED
        BY <1>1, <4>1 DEF Refers
    <3>4. \A q \in Ops \ {o} : Holds(q, p, g)' = Holds(q, p, g)
      BY <2>4 DEF Holds
    <3>5. Holds(o, p, g)' => p = P /\ g = G
      BY <2>4, <2>5 DEF Holds
    <3>6. CASE p = P /\ g = G
      <4>1. ~Refers(p, g) /\ \A q \in Ops : ~Holds(q, p, g)
        BY <2>8, <3>2, <3>6 DEF Apart
      <4>2. Used(p, g)'
        BY <2>8, <3>6 DEF Used
      <4>3. QED
        BY <3>3, <3>4, <4>1, <4>2 DEF Apart
    <3>7. CASE ~(p = P /\ g = G)
      <4>1. Pending(p, g)' => Pending(p, g)
        BY <2>3, <2>6, <3>7 DEF Pending
      <4>2. ~Holds(o, p, g)'
        BY <3>5, <3>7
      <4>3. QED
        BY <2>7, <3>2, <3>3, <3>4, <4>1, <4>2 DEF Apart
    <3>8. QED
      BY <3>6, <3>7
  <2>10. CallInv'
    <3>1. CallOK(o)'
      <4>1. OwnRecord(o)'
        BY <2>3, <2>4, <2>5, <2>6 DEF OwnRecord
      <4>2. SeenRevision(o)'
        BY <1>1, <2>4, <2>5 DEF CallOK, SeenRevision, SwitchPC
      <4>3. QED
        BY <2>4, <2>5, <4>1, <4>2 DEF CallOK, Written, RetiresOld, RetiringPC
    <3>2. ASSUME NEW q \in Ops, q # o
          PROVE  CallOK(q)'
      <4>1. CallOK(q) /\ calls'[q] = calls[q]
        BY <2>4, <3>2 DEF IInv, CallInv
      <4>2. \A x \in Profiles : SameRecord(x, q) /\ NewerRow(x)
        BY <1>1, <2>3, <2>6, <3>2 DEF SameRecord, NewerRow
      <4>3. QED
        BY <1>1, <1>3, <4>1, <4>2, OtherStep
    <3>3. QED
      BY <3>1, <3>2 DEF CallInv
  <2>11. KeptInv'
    <3>1. SUFFICES ASSUME NEW q \in Profiles, NEW g \in Generations, InForce(q, g)'
                   PROVE  \/ Held(q, g)' \/ TakenGen(q, g)'
                          \/ InForce(q, g) /\ (Held(q, g) => Held(q, g)')
                                           /\ (TakenGen(q, g) => TakenGen(q, g)')
      BY KeptStep DEF IInv
    <3>2. InForce(q, g)
      BY <1>1, <1>3, <3>1 DEF InForce, Exists
    <3>3. \A x \in Ops : calls[x].pc \in {"removeRow", "restore"} => calls'[x] = calls[x]
      BY <1>1, <2>4
    <3>4. TakenGen(q, g) => TakenGen(q, g)'
      BY <1>3, <3>3 DEF TakenGen
    <3>5. QED
      BY <1>3, <3>2, <3>4
  <2>12. ProvenInv'
    BY <1>1, <1>3, SameProven DEF IInv
  <2>13. QED
    BY <2>9, <2>10, <2>11, <2>12 DEF IInv
<1>6. QED
  BY <1>4, <1>5

(* commit_credential_pointer: what was staged becomes what is current.     *)
LEMMA PointerKeeps ==
    ASSUME IInv, TypeInv', NEW o \in Ops, CommitCredentialPointer(o)
    PROVE  IInv'
<1> DEFINE c == calls[o]
           P == calls[o].p
           G == calls[o].staged
<1> USE DEF At
<1>1. TypeInv /\ CallOK(o) /\ c.pc = "commit" /\ UNCHANGED <<active, vault, bindings, history>>
      /\ c.pc \in MutationPC /\ c.pc \in StagingPC
  BY DEF IInv, CallInv, CommitCredentialPointer, MutationPC, StagingPC
<1>2. P \in Profiles /\ G \in Generations /\ c.gen \in Generations \cup {NoGen}
      /\ c.kind \in Intents
  BY <1>1, InMutation
<1>3. /\ late' = late /\ torn' = torn /\ torn \subseteq torn'
      /\ active' \in {active, NoActive} /\ \A q, h : Held(q, h)' = Held(q, h)
  BY <1>1 DEF history, Held
<1>4. CASE UNCHANGED <<profiles, gens>> /\ Go(o, "undo")
           /\ (UNCHANGED journal \/ (Transition(P, "CleanupPending") /\ journal[P].phase = "VaultWritten"))
  <2>1. \A q \in Profiles : RecordStays(q)
    <3>1. CASE UNCHANGED journal
      BY <3>1 DEF RecordStays
    <3>2. CASE Transition(P, "CleanupPending") /\ journal[P].phase = "VaultWritten"
      BY <1>1, <1>2, <3>2, TransitionRecords DEF PendingPhases
    <3>3. QED
      BY <1>4, <3>1, <3>2
  <2>2. "undo" \in MutationPC /\ calls'[o].pc = "undo"
    BY <1>1, <1>4, CallTypes DEF MutationPC, Go, Calls
  <2>3. Written(o)' /\ RetiresOld(o)'
    BY <2>2 DEF Written, RetiresOld, RetiringPC
  <2>4. \A q, h : Used(q, h)' = Used(q, h)
    BY <1>4 DEF Used
  <2>5. QED
    BY <1>1, <1>3, <1>4, <2>1, <2>2, <2>3, <2>4, MutationStep
<1>5. CASE InPhase(P, o, {"VaultWritten"}) /\ ~PointerStale(P) /\ CommitPointer(P, c.model)
           /\ Go(o, IF c.gen # NoGen THEN "refs" ELSE AfterCleanup(c.kind))
  <2> DEFINE pc  == IF c.gen # NoGen THEN "refs" ELSE AfterCleanup(c.kind)
             t   == [c EXCEPT !.pc = pc]
             new == IF c.kind = "replace" THEN G ELSE NoGen
             row == Draft(c.rev + 1, c.model, new)
  <2>1. /\ journal[P].op = o /\ journal[P].phase = "VaultWritten" /\ journal[P].intent = c.kind
        /\ journal[P].base = c.rev /\ journal[P].old = c.gen /\ journal[P].staged = G
    BY <1>1, <1>5 DEF InPhase, CallOK, OwnRecord
  <2>2. /\ Transition(P, "PointerCommitted") /\ Exists(P) /\ profiles[P].rev = c.rev
        /\ profiles' = [profiles EXCEPT ![P] = row]
        /\ gens' = gens \/ gens' = SetStatus(P, c.gen, "retained")
    BY <1>5, <2>1 DEF CommitPointer, PointerStale
  <2>3. /\ journal \in [Profiles -> Records] /\ profiles \in [Profiles -> ProfileRows]
        /\ calls \in [Ops -> Calls] /\ calls[o] \in Calls
    BY <1>1, Typed, CallTypes DEF TablesTyped
  <2>4. \/ pc = "refs" /\ c.gen \in Generations
        \/ pc = "cleanup" /\ c.kind = "delete"
        \/ pc = "complete"
    BY <1>2 DEF AfterCleanup
  <2>5. (new = G /\ c.kind = "replace") \/ (new = NoGen /\ c.kind = "delete")
    BY <1>2 DEF Intents
  <2>6. row.rev = c.rev + 1 /\ row.gen = new /\ row.state = "Draft"
    BY DEF Draft
  <2>7. profiles'[P] = row /\ \A q \in Profiles \ {P} : profiles'[q] = profiles[q]
    BY <1>2, <2>2, <2>3
  <2>8. calls'[o] = t /\ \A q \in Ops \ {o} : calls'[q] = calls[q]
    BY <1>5, <2>3 DEF Go
  <2>9. /\ t.pc = pc /\ t.p = P /\ t.gen = c.gen /\ t.staged = G
        /\ t.kind = c.kind /\ t.rev = c.rev /\ t.model = c.model
    BY <2>3 DEF Calls
  <2> HIDE DEF pc, t, row, new
  <2>10. pc \notin StagingPC \cup SwitchPC \cup {"begin", "removeRow", "restore"} /\ pc \in MutationPC
    BY <2>4 DEF StagingPC, SwitchPC, MutationPC
  <2>11. /\ \A q \in Profiles : RecordStays(q)
         /\ journal'[P].phase = "PointerCommitted"
    <3>1. journal' = [journal EXCEPT ![P] = [journal[P] EXCEPT !.phase = "PointerCommitted"]]
          /\ journal[P] \in Records
      BY <1>1, <1>2, <2>2, TransitionTypes
    <3>2. journal'[P].phase = "PointerCommitted"
      BY <1>2, <2>3, <3>1 DEF Records
    <3>3. QED
      BY <1>1, <1>2, <2>2, <3>2, TransitionRecords DEF PendingPhases
  <2>12. \A q \in Profiles, h \in Generations : Used(q, h) => Used(q, h)'
    <3>1. CASE gens' = gens
      BY <3>1 DEF Used
    <3>2. CASE gens' = SetStatus(P, c.gen, "retained")
      BY <1>1, <1>2, <3>2, StatusKeepsUsed DEF GenStatuses
    <3>3. QED
      BY <2>2, <3>1, <3>2
  <2>13. Holds(o, P, G)
    BY <1>1 DEF Holds
  <2>14. /\ Used(P, G) /\ ~Refers(P, G)
         /\ \A q \in Ops \ {o} : ~Holds(q, P, G)
    BY <1>2, <2>13, HeldApart
  <2>15. \A q \in Ops : /\ calls'[q].p = calls[q].p /\ calls'[q].gen = calls[q].gen
                        /\ \A p, g : Holds(q, p, g)' => Holds(q, p, g)
    <3>1. \A p, g : Holds(o, p, g)' => Holds(o, p, g)
      BY <1>1, <2>8, <2>9, <2>10 DEF Holds
    <3>2. ASSUME NEW q \in Ops
          PROVE  /\ calls'[q].p = calls[q].p /\ calls'[q].gen = calls[q].gen
                 /\ \A p, g : Holds(q, p, g)' => Holds(q, p, g)
      <4>1. CASE q = o
        BY <2>8, <2>9, <3>1, <4>1
      <4>2. CASE q # o
        BY <2>8, <4>2 DEF Holds
      <4>3. QED
        BY <4>1, <4>2
    <3>3. QED
      BY <3>2
  <2>16. ASSUME NEW p \in Profiles, NEW g \in Generations, Refers(p, g)'
         PROVE  Refers(p, g) \/ (p = P /\ g = G /\ c.kind = "replace")
    <3>1. profiles'[p].gen = g => profiles[p].gen = g \/ (p = P /\ g = G /\ c.kind = "replace")
      BY <2>5, <2>6, <2>7 DEF NoGen, Generations
    <3>2. QED
      BY <1>1, <2>15, <2>16, <3>1 DEF Refers
  <2>17. GensInv'
    <3>1. SUFFICES ASSUME NEW p \in Profiles, NEW g \in Generations
                   PROVE  Apart(p, g)'
      BY DEF GensInv
    <3>2. Apart(p, g)
      BY DEF IInv, GensInv
    <3>3. Pending(p, g)' => Pending(p, g) /\ p # P
      BY <2>11 DEF Pending, RecordStays, PendingPhases
    <3>4. CASE p = P /\ g = G /\ c.kind = "replace"
      <4>1. ~Holds(o, p, g)'
        BY <2>8, <2>9, <2>10, <3>4 DEF Holds
      <4>2. Used(p, g)' /\ ~Pending(p, g)' /\ \A q \in Ops : ~Holds(q, p, g)'
        BY <2>12, <2>14, <2>15, <3>3, <3>4, <4>1
      <4>3. QED
        BY <4>2 DEF Apart
    <3>5. CASE ~(p = P /\ g = G /\ c.kind = "replace")
      <4>1. Refers(p, g)' => Refers(p, g)
        BY <2>16, <3>5
      <4>2. QED
        BY <2>12, <2>15, <3>2, <3>3, <4>1 DEF Apart
    <3>6. QED
      BY <3>4, <3>5
  <2>18. CallInv'
    <3>1. ASSUME NEW p \in Profiles, NEW g \in Generations, Refers(p, g), profiles'[p].gen = g
          PROVE  profiles[p].gen = g
      BY <2>5, <2>6, <2>7, <2>14, <3>1 DEF NoGen, Generations
    <3>2. CallOK(o)'
      <4>1. OwnRecord(o)'
        BY <1>2, <2>1, <2>8, <2>9, <2>11 DEF OwnRecord, RecordStays
      <4>2. SeenRevision(o)' /\ Written(o)'
        BY <2>8, <2>9, <2>10 DEF SeenRevision, Written, StagingPC
      <4>3. RetiresOld(o)'
        <5>1. pc = "refs" => row.gen # c.gen
          <6>1. Refers(P, c.gen)
            BY DEF Refers
          <6>2. QED
            BY <2>4, <2>5, <2>6, <2>14, <6>1 DEF NoGen, Generations
        <5>2. QED
          BY <2>4, <2>7, <2>8, <2>9, <5>1 DEF RetiresOld, RetiringPC
      <4>4. QED
        BY <2>4, <2>8, <2>9, <4>1, <4>2, <4>3 DEF CallOK
    <3>3. ASSUME NEW q \in Ops, q # o
          PROVE  CallOK(q)'
      <4>1. CallOK(q) /\ calls'[q] = calls[q]
        BY <2>8, <3>3 DEF IInv, CallInv
      <4>2. c.rev + 1 > c.rev
        BY <1>1, CallTypes DEF Revisions
      <4>3. \A x \in Profiles : SameRecord(x, q) /\ NewerRow(x)
        BY <2>2, <2>6, <2>7, <2>11, <4>2 DEF SameRecord, NewerRow, RecordStays
      <4>4. \A p \in Profiles, g \in Generations :
               calls[q].p = p /\ calls[q].gen = g => (profiles'[p].gen = g => profiles[p].gen = g)
        BY <3>1 DEF Refers
      <4>5. QED
        BY <1>1, <1>3, <4>1, <4>3, <4>4, OtherStep
    <3>4. QED
      BY <3>2, <3>3 DEF CallInv
  <2>19. KeptInv'
    <3>1. SUFFICES ASSUME NEW q \in Profiles, NEW g \in Generations, InForce(q, g)'
                   PROVE  \/ Held(q, g)' \/ TakenGen(q, g)'
                          \/ InForce(q, g) /\ (Held(q, g) => Held(q, g)')
                                           /\ (TakenGen(q, g) => TakenGen(q, g)')
      BY KeptStep DEF IInv
    <3>2. \A x \in Ops : calls[x].pc \in {"removeRow", "restore"} => calls'[x] = calls[x]
      BY <1>1, <2>8
    <3>3. TakenGen(q, g) => TakenGen(q, g)'
      BY <1>3, <3>2 DEF TakenGen
    <3>4. CASE q = P /\ g = G /\ c.kind = "replace"
      BY <1>1, <1>3, <3>4 DEF CallOK, Written, TakenGen
    <3>5. CASE ~(q = P /\ g = G /\ c.kind = "replace")
      <4>1. Exists(q)' /\ profiles'[q].gen = g => Exists(q) /\ profiles[q].gen = g
        BY <2>2, <2>5, <2>6, <2>7, <3>5 DEF Exists, NoGen, Generations
      <4>2. InForce(q, g)
        BY <1>1, <1>3, <3>1, <4>1 DEF InForce
      <4>3. QED
        BY <1>3, <3>3, <4>2
    <3>6. QED
      BY <3>4, <3>5
  <2>20. ProvenInv'
    <3>1. /\ \A q \in Profiles : /\ profiles'[q].state = "Ready" => Proven(profiles'[q])
                                 /\ profiles'[q].state = "Absent" => profiles'[q].gen = NoGen
          /\ \A q \in Profiles : Exists(q) => profiles'[q].state \notin {"Absent", "Deleted"}
      BY <2>6, <2>7 DEF IInv, ProvenInv, Exists
    <3>2. active.profile # NoProfile => active.profile \in Profiles
      BY <1>1, Typed DEF TablesTyped, ActiveRows
    <3>3. active.profile # NoProfile =>
             Proven(active) /\ profiles'[active.profile].state \notin {"Absent", "Deleted"}
      BY <3>1, <3>2 DEF IInv, ProvenInv
    <3>4. /\ active.profile = NoProfile => active = NoActive
          /\ \A r \in Runs :
                /\ bindings[r].state = "none" => bindings[r].to = NoActive
                /\ bindings[r].state # "none" =>
                      Proven(bindings[r].to) /\ bindings[r].to.profile \in Profiles
      BY DEF IInv, ProvenInv
    <3>5. QED
      BY <1>1, <3>1, <3>3, <3>4 DEF ProvenInv, Proven, Exists
  <2>21. QED
    BY <2>17, <2>18, <2>19, <2>20 DEF IInv
<1>6. QED
  BY <1>1, <1>4, <1>5 DEF CommitCredentialPointer, InPhase

(* A step of a call outside mutations and model switches.                  *)
LEMMA PlainStep ==
    ASSUME IInv, TypeInv', NEW o \in Ops, NEW t, calls' = [calls EXCEPT ![o] = t],
           UNCHANGED <<tables, history>>, calls[o].pc \notin {"removeRow", "restore"},
           t.pc \notin MutationPC \cup {"begin"} \cup SwitchPC,
           \A p \in Profiles, g \in Generations : t.p = p /\ t.gen = g => Refers(p, g)
    PROVE  IInv'
<1>1. calls'[o] = t
  BY Typed DEF IInv
<1>2. CallOK(o)' /\ \A p, g : ~Holds(o, p, g)'
  BY <1>1, ElsewhereOK
<1>3. QED
  BY <1>2, LocalStep

LEMMA SwitchKeeps ==
    ASSUME IInv, TypeInv', NEW o \in Ops,
           CheckCandidate(o) \/ DiscoverModels(o) \/ RecheckCandidate(o)
    PROVE  IInv'
<1> DEFINE c == calls[o]
           row == profiles[c.p]
<1> USE DEF At
<1>1. TypeInv /\ c \in Calls /\ calls \in [Ops -> Calls] /\ CallOK(o)
      /\ UNCHANGED <<tables, history>> /\ UNCHANGED profiles
      /\ c.pc \notin {"removeRow", "restore"}
  BY CallTypes DEF IInv, CallInv, CheckCandidate, DiscoverModels, RecheckCandidate, tables
<1>2. CASE CheckCandidate(o)
  <2> DEFINE pc == IF row.model = c.model /\ row.state = "Ready" THEN "activate" ELSE "discover"
             t == [c EXCEPT !.gen = row.gen, !.pc = pc]
  <2>1. c.pc = "fresh" /\ row.rev = c.rev /\ calls' = [calls EXCEPT ![o] = t]
    BY <1>1, <1>2 DEF CheckCandidate, IsFresh
  <2>2. t.pc = pc /\ t.p = c.p /\ t.gen = row.gen /\ t.rev = c.rev
    BY <1>1 DEF Calls
  <2>3. pc \notin MutationPC \cup {"begin"}
    BY DEF MutationPC
  <2>4. c.rev \in Nat
    BY <1>1, CallTypes DEF Revisions
  <2>5. \A p, g : t.p = p /\ t.gen = g => Refers(p, g)
    BY <2>2 DEF Refers
  <2> HIDE DEF pc, t
  <2>6. calls'[o] = t
    BY <1>1, <2>1
  <2>7. SeenRevision(o)'
    <3>1. CASE pc \in SwitchPC
      <4>1. row.rev = t.rev /\ row.gen = t.gen /\ t.rev <= row.rev
        BY <2>1, <2>2, <2>4
      <4>2. QED
        BY <1>1, <2>2, <2>6, <3>1, <4>1 DEF SeenRevision
    <3>2. CASE pc \notin SwitchPC
      BY <2>2, <2>3, <2>6, <3>2 DEF SeenRevision, StagingPC, MutationPC
    <3>3. QED
      BY <3>1, <3>2
  <2>8. CallOK(o)'
    BY <2>2, <2>3, <2>6, <2>7 DEF CallOK, OwnRecord, Written, RetiresOld, MutationPC, RetiringPC
  <2>9. \A p, g : ~Holds(o, p, g)'
    BY <2>2, <2>3, <2>6 DEF Holds, MutationPC, StagingPC
  <2>10. QED
    BY <1>1, <2>1, <2>5, <2>8, <2>9, LocalStep
<1>3. CASE DiscoverModels(o) \/ RecheckCandidate(o)
  <2>1. PICK pc \in {"recheck", "probe", "draft"} : Go(o, pc) /\ c.pc \in {"discover", "recheck"}
    BY <1>3 DEF DiscoverModels, RecheckCandidate
  <2> DEFINE t == [c EXCEPT !.pc = pc]
  <2>2. calls' = [calls EXCEPT ![o] = t] /\ calls'[o] = t
    BY <1>1, <2>1 DEF Go
  <2>3. t.pc = pc /\ t.p = c.p /\ t.gen = c.gen /\ t.rev = c.rev
    BY <1>1 DEF Calls
  <2> HIDE DEF t
  <2>4. pc \notin MutationPC \cup {"begin"}
    BY <2>1 DEF MutationPC
  <2>5. SeenRevision(o)'
    BY <1>1, <2>1, <2>2, <2>3, <2>4 DEF CallOK, SeenRevision, SwitchPC, StagingPC, MutationPC
  <2>6. CallOK(o)'
    BY <2>2, <2>3, <2>4, <2>5 DEF CallOK, OwnRecord, Written, RetiresOld, MutationPC, RetiringPC
  <2>7. \A p, g : ~Holds(o, p, g)'
    BY <2>2, <2>3, <2>4 DEF Holds, MutationPC, StagingPC
  <2>8. \A p, g : t.p = p /\ t.gen = g => Refers(p, g)
    BY <2>3 DEF Refers
  <2>9. QED
    BY <1>1, <2>2, <2>6, <2>7, <2>8, LocalStep
<1>4. QED
  BY <1>2, <1>3

LEMMA ReadingKeeps ==
    ASSUME IInv, TypeInv', NEW o \in Ops,
           \/ Probe(o) \/ LoadReady(o) \/ ExpectActivation(o)
           \/ VerifyJournal(o) \/ ReadActive(o) \/ CheckCredential(o)
    PROVE  IInv'
<1> DEFINE c == calls[o]
<1> USE DEF At
<1>1. TypeInv /\ c \in Calls /\ calls \in [Ops -> Calls]
      /\ UNCHANGED <<tables, history>> /\ c.pc \notin {"removeRow", "restore"}
  BY CallTypes DEF IInv, Probe, LoadReady, ExpectActivation, VerifyJournal, ReadActive,
                   CheckCredential
<1>2. ASSUME NEW t, calls' = [calls EXCEPT ![o] = t], t.p = c.p, t.gen = c.gen,
             t.pc \in {"evidence", "activate", "snapshot", "saved", "bind"}
      PROVE  IInv'
  <2>1. t.pc \notin MutationPC \cup {"begin"} \cup SwitchPC
    BY <1>2 DEF MutationPC, SwitchPC
  <2>2. \A p \in Profiles, g \in Generations : t.p = p /\ t.gen = g => Refers(p, g)
    BY <1>2 DEF Refers
  <2>3. QED
    BY <1>1, <1>2, <2>1, <2>2, PlainStep
<1>3. CASE Probe(o)
  <2>1. PICK ok \in BOOLEAN : calls' = [calls EXCEPT ![o].pc = "evidence", ![o].passed = ok]
    BY <1>3 DEF Probe
  <2> DEFINE t == [c EXCEPT !.pc = "evidence", !.passed = ok]
  <2>2. calls' = [calls EXCEPT ![o] = t]
    BY <1>1, <2>1
  <2>3. t.p = c.p /\ t.gen = c.gen /\ t.pc = "evidence"
    BY <1>1 DEF Calls
  <2> HIDE DEF t
  <2>4. QED
    BY <1>2, <2>2, <2>3
<1>4. CASE LoadReady(o)
  <2> DEFINE t == [c EXCEPT !.pc = "activate", !.rev = profiles[c.p].rev, !.model = profiles[c.p].model]
  <2>1. calls' = [calls EXCEPT ![o] = t]
    BY <1>1, <1>4 DEF LoadReady
  <2>2. t.p = c.p /\ t.gen = c.gen /\ t.pc = "activate"
    BY <1>1 DEF Calls
  <2> HIDE DEF t
  <2>3. QED
    BY <1>2, <2>1, <2>2
<1>5. CASE ExpectActivation(o) \/ ReadActive(o)
  <2>1. PICK pc \in {"activate", "saved"} : calls' = [calls EXCEPT ![o].pc = pc, ![o].seen = active]
    BY <1>5 DEF ExpectActivation, ReadActive
  <2> DEFINE t == [c EXCEPT !.pc = pc, !.seen = active]
  <2>2. calls' = [calls EXCEPT ![o] = t]
    BY <1>1, <2>1
  <2>3. t.p = c.p /\ t.gen = c.gen /\ t.pc = pc
    BY <1>1 DEF Calls
  <2> HIDE DEF t
  <2>4. QED
    BY <1>2, <2>1, <2>2, <2>3
<1>6. CASE VerifyJournal(o) \/ CheckCredential(o)
  <2>1. PICK pc \in {"snapshot", "bind"} : Go(o, pc)
    BY <1>6 DEF VerifyJournal, CheckCredential
  <2> DEFINE t == [c EXCEPT !.pc = pc]
  <2>2. calls' = [calls EXCEPT ![o] = t]
    BY <1>1, <2>1 DEF Go
  <2>3. t.p = c.p /\ t.gen = c.gen /\ t.pc = pc
    BY <1>1 DEF Calls
  <2> HIDE DEF t
  <2>4. QED
    BY <1>2, <2>1, <2>2, <2>3
<1>7. QED
  BY <1>3, <1>4, <1>5, <1>6

(* save_validation, and the Draft of a model switch.                       *)
LEMMA RowKeeps ==
    ASSUME IInv, TypeInv', NEW o \in Ops, CommitValidation(o) \/ SaveCandidateDraft(o)
    PROVE  IInv'
<1> DEFINE c == calls[o]
           P == calls[o].p
<1> USE DEF At
<1>1. /\ TypeInv /\ c \in Calls /\ calls \in [Ops -> Calls] /\ CallOK(o)
      /\ profiles \in [Profiles -> ProfileRows]
      /\ UNCHANGED <<active, gens, journal, vault, bindings, history>>
      /\ c.pc \notin {"removeRow", "restore", "idle"} \cup BindPC
  BY CallTypes, Typed DEF IInv, CallInv, TablesTyped, CommitValidation, SaveCandidateDraft, BindPC
<1>2. P \in Profiles /\ profiles[P] \in ProfileRows /\ profiles[P].rev \in Nat
  BY <1>1, CallTypes DEF Addressed, ProfileRows, Revisions
<1>3. CASE CommitValidation(o)
  <2> DEFINE proof == [model |-> c.model, gen |-> c.gen]
             st == IF c.passed THEN "Ready" ELSE "Invalid"
             row == [profiles[P] EXCEPT !.state = st, !.proof = proof]
  <2>1. c.pc = "evidence" /\ SaveValidation(P, c.rev, proof, c.passed)
        /\ (Go(o, "ready") \/ Return(o))
    BY <1>3 DEF CommitValidation
  <2>2. /\ profiles[P].state = "Draft" /\ proof = [model |-> profiles[P].model, gen |-> profiles[P].gen]
        /\ profiles' = [profiles EXCEPT ![P] = row]
    BY <1>1, <1>2, <2>1 DEF SaveValidation, EvidenceFits
  <2>3. c.gen # NoGen
    BY <1>1, <2>1, CallTypes DEF Addressed, Generations, NoGen
  <2>4. /\ row.gen = profiles[P].gen /\ row.model = profiles[P].model /\ row.rev = profiles[P].rev
        /\ row.state = st /\ row.proof = proof /\ st \in {"Ready", "Invalid"}
    BY <1>2 DEF ProfileRows
  <2>5. Proven(row)
    BY <2>2, <2>3, <2>4 DEF Proven
  <2> HIDE DEF proof, st, row
  <2>6. NewerRow(P)
    BY <1>1, <1>2, <2>2, <2>4 DEF NewerRow
  <2>7. CASE Go(o, "ready")
    <3> DEFINE t == [c EXCEPT !.pc = "ready"]
    <3>1. calls' = [calls EXCEPT ![o] = t] /\ calls'[o] = t
      BY <1>1, <2>7 DEF Go
    <3>2. t.pc = "ready" /\ t.p = P /\ t.gen = c.gen
      BY <1>1 DEF Calls
    <3> HIDE DEF t
    <3>3. CallOK(o)' /\ \A p, g : ~Holds(o, p, g)'
      BY <3>1, <3>2, ElsewhereOK DEF MutationPC, SwitchPC
    <3>4. \A p \in Profiles, g \in Generations : t.p = p /\ t.gen = g => Refers(p, g)
      BY <3>2 DEF Refers
    <3>5. QED
      BY <1>1, <1>2, <2>2, <2>4, <2>5, <2>6, <3>1, <3>3, <3>4, RowStep
  <2>8. CASE Return(o)
    <3>1. /\ calls' = [calls EXCEPT ![o] = IdleCall] /\ CallOK(o)'
          /\ \A p \in Profiles : \A g : /\ ~(IdleCall.p = p /\ IdleCall.gen = g)
                                        /\ Holds(o, p, g)' => Holds(o, p, g)
      BY <1>1, <2>8, ReturnHolds
    <3>2. QED
      BY <1>1, <1>2, <2>2, <2>4, <2>5, <2>6, <3>1, RowStep
  <2>9. QED
    BY <2>1, <2>7, <2>8
<1>4. CASE SaveCandidateDraft(o)
  <2> DEFINE row == Draft(c.rev + 1, c.model, c.gen)
             t == [c EXCEPT !.pc = "probe", !.rev = c.rev + 1]
  <2>1. /\ c.pc = "draft" /\ profiles[P].rev = c.rev /\ profiles[P].state # "Deleted"
        /\ profiles' = [profiles EXCEPT ![P] = row]
        /\ calls' = [calls EXCEPT ![o] = t]
    BY <1>1, <1>4 DEF SaveCandidateDraft, SaveRevision
  <2>2. profiles[P].gen = c.gen
    BY <1>1, <2>1 DEF CallOK, SeenRevision, SwitchPC
  <2>3. row.gen = c.gen /\ row.state = "Draft" /\ row.rev = c.rev + 1
    BY DEF Draft
  <2>4. t.pc = "probe" /\ t.p = P /\ t.gen = c.gen
    BY <1>1 DEF Calls
  <2> HIDE DEF row, t
  <2>5. NewerRow(P)
    BY <1>1, <1>2, <2>1, <2>3 DEF NewerRow
  <2>6. calls'[o] = t
    BY <1>1, <2>1
  <2>7. CallOK(o)' /\ \A p, g : ~Holds(o, p, g)'
    BY <2>4, <2>6, ElsewhereOK DEF MutationPC, SwitchPC
  <2>8. \A p \in Profiles, g \in Generations : t.p = p /\ t.gen = g => Refers(p, g)
    BY <2>4 DEF Refers
  <2>9. QED
    BY <1>1, <1>2, <2>1, <2>2, <2>3, <2>5, <2>7, <2>8, RowStep
<1>5. QED
  BY <1>3, <1>4

(* The activation: what becomes active is the current revision, so nobody  *)
(* retires its generation.                                                 *)
LEMMA ActivateKeeps ==
    ASSUME IInv, TypeInv', NEW o \in Ops, ActivateProfile(o)
    PROVE  IInv'
<1> DEFINE P == calls[o].p
<1>1. /\ TypeInv /\ calls[o].pc = "activate" /\ Return(o)
      /\ UNCHANGED <<profiles, gens, journal, vault, bindings, history>>
      /\ UNCHANGED <<torn, late>>
      /\ MayActivate(P, calls[o].rev, calls[o].model, calls[o].seen.number) /\ Activate(P)
  BY DEF IInv, ActivateProfile, At, history
<1>2. Exists(P) /\ profiles[P].state = "Ready" /\ P \in Profiles
  BY <1>1, CallTypes DEF MayActivate, Addressed, BindPC
<1>3. /\ active'.profile = P /\ active'.gen = profiles[P].gen
      /\ active'.model = profiles[P].model /\ active'.proof = profiles[P].proof
  BY <1>1 DEF Activate, Snapshot
<1>4. /\ calls' = [calls EXCEPT ![o] = IdleCall] /\ CallOK(o)'
      /\ \A p \in Profiles : \A g : /\ ~(IdleCall.p = p /\ IdleCall.gen = g)
                                    /\ Holds(o, p, g)' => Holds(o, p, g)
  BY <1>1, ReturnHolds
<1>5. calls \in [Ops -> Calls] /\ \A q \in Ops \ {o} : calls'[q] = calls[q]
  BY <1>1, <1>4, Typed
<1>6. \A p, g : Held(p, g)' = Held(p, g) /\ Used(p, g)' = Used(p, g) /\ Exists(p)' = Exists(p)
  BY <1>1 DEF Held, Used, Exists
<1>7. GensInv'
  <2>1. SUFFICES ASSUME NEW p \in Profiles, NEW g \in Generations
                 PROVE  /\ Used(p, g) => Used(p, g)'
                        /\ Refers(p, g)' => Refers(p, g)
                        /\ Pending(p, g)' => Pending(p, g)
                        /\ \A q \in Ops : Holds(q, p, g)' => Holds(q, p, g)
    BY GensStep DEF IInv
  <2>2. /\ \A q \in Ops : calls'[q].p = p /\ calls'[q].gen = g => Refers(p, g)
        /\ \A q \in Ops : Holds(q, p, g)' => Holds(q, p, g)
    BY <1>4, <1>5, CallHolds
  <2>3. Refers(p, g)' => Refers(p, g)
    BY <1>1, <1>3, <2>2 DEF Refers
  <2>4. QED
    BY <1>1, <1>6, <2>2, <2>3 DEF Pending
<1>8. CallInv'
  <2>1. SUFFICES ASSUME NEW q \in Ops, q # o
                 PROVE  CallOK(q)'
    BY <1>4 DEF CallInv
  <2>2. CallOK(q) /\ calls'[q] = calls[q] /\ torn \subseteq torn'
    BY <1>1, <1>5, <2>1 DEF IInv, CallInv
  <2>3. \A p \in Profiles : SameRecord(p, q) /\ NewerRow(p)
    BY <1>1 DEF SameRecord, NewerRow
  <2>4. ASSUME NEW p \in Profiles, NEW g \in Generations
        PROVE  /\ Holds(q, p, g) /\ Held(p, g) => Held(p, g)' \/ p \in torn'
               /\ calls[q].p = p /\ calls[q].gen = g /\ calls[q].pc \in RetiringPC =>
                    /\ profiles'[p].gen = g => profiles[p].gen = g
                    /\ calls[q].pc \in {"retire", "retireStore"} =>
                          (active'.profile = p /\ active'.gen = g =>
                              active.profile = p /\ active.gen = g)
                    /\ calls[q].pc \in {"activeRef", "retire", "retireStore"} =>
                          \A r \in Runs :
                             bindings'[r].state = "live" /\ bindings'[r].to.profile = p
                                /\ bindings'[r].to.gen = g =>
                                \/ r \in late'
                                \/ r \notin late /\ bindings[r].state = "live"
                                   /\ bindings[r].to.profile = p /\ bindings[r].to.gen = g
    <3>1. Held(p, g) => Held(p, g)'
      BY <1>6
    <3>2. calls[q].p = p /\ calls[q].gen = g /\ calls[q].pc \in RetiringPC => profiles[p].gen # g
      BY <2>2 DEF CallOK, RetiresOld
    <3>3. active'.profile = p /\ active'.gen = g => profiles[p].gen = g
      BY <1>3
    <3>4. UNCHANGED <<profiles, bindings, late>>
      BY <1>1
    <3>5. QED
      BY <3>1, <3>2, <3>3, <3>4
  <2>5. QED
    BY <1>1, <2>2, <2>3, <2>4, OtherStep
<1>9. KeptInv'
  <2>1. SUFFICES ASSUME NEW p \in Profiles, NEW g \in Generations, InForce(p, g)'
                 PROVE  \/ Held(p, g)' \/ TakenGen(p, g)'
                        \/ InForce(p, g) /\ (Held(p, g) => Held(p, g)')
                                         /\ (TakenGen(p, g) => TakenGen(p, g)')
    BY KeptStep DEF IInv
  <2>2. InForce(p, g)
    BY <1>1, <1>2, <1>3, <1>6, <2>1 DEF InForce
  <2>3. TakenGen(p, g) => TakenGen(p, g)'
    <3>1. \A x \in Ops : calls[x].pc \in {"removeRow", "restore"} => calls'[x] = calls[x]
      BY <1>1, <1>5
    <3>2. QED
      BY <1>1, <3>1 DEF TakenGen
  <2>4. QED
    BY <1>6, <2>2, <2>3
<1>10. ProvenInv'
  <2>1. Proven(active')
    BY <1>2, <1>3 DEF IInv, ProvenInv, Proven
  <2>2. active'.profile \in Profiles /\ active'.profile # NoProfile /\ Exists(active'.profile)
    BY <1>2, <1>3, Constants
  <2>3. profiles' = profiles /\ bindings' = bindings
    BY <1>1
  <2>4. /\ \A p \in Profiles : /\ profiles[p].state = "Ready" => Proven(profiles[p])
                               /\ profiles[p].state = "Absent" => profiles[p].gen = NoGen
        /\ \A r \in Runs :
              /\ bindings[r].state = "none" => bindings[r].to = NoActive
              /\ bindings[r].state # "none" =>
                    Proven(bindings[r].to) /\ bindings[r].to.profile \in Profiles
    BY DEF IInv, ProvenInv
  <2>5. QED
    BY <2>1, <2>2, <2>3, <2>4 DEF ProvenInv, Proven, Exists
<1>11. QED
  BY <1>7, <1>8, <1>9, <1>10 DEF IInv

(* delete_profile: what it takes it has in its hands, and the row it       *)
(* deletes is of no live Run and, with it, no longer active.               *)
LEMMA DeletedRow ==
    ASSUME IInv, TypeInv', NEW o \in Ops, calls[o].pc = "removeRow",
           LET c == calls[o]
           IN  MayDeleteProfile(c.p, c.rev, c.seen) /\ DeleteProfileRow(c.p),
           Return(o), UNCHANGED <<journal, vault, bindings, history>>
    PROVE  IInv'
<1> DEFINE P == calls[o].p
           row == [profiles[P] EXCEPT !.state = "Deleted"]
<1>1. TypeInv /\ UNCHANGED <<torn, late>> /\ P \in Profiles
  BY CallTypes DEF IInv, history, Addressed, BindPC
<1>2. /\ ~ProfileReferenced(P)
      /\ profiles' = [profiles EXCEPT ![P] = row]
      /\ active' = IF active.profile = P THEN NoActive ELSE active
      /\ gens' = [gens EXCEPT ![P] = [g \in Generations |->
                     IF gens[P][g] = "none" THEN "none" ELSE "deleted"]]
  BY <1>1, Typed DEF MayDeleteProfile, DeleteProfileRow, TablesTyped
<1>3. row.state = "Deleted" /\ row.gen = profiles[P].gen /\ row.rev = profiles[P].rev
      /\ row.model = profiles[P].model
  BY <1>1, Typed DEF TablesTyped, ProfileRows
<1> HIDE DEF row
<1>4. /\ profiles'[P] = row /\ \A p \in Profiles \ {P} : profiles'[p] = profiles[p]
      /\ \A p \in Profiles : profiles'[p].gen = profiles[p].gen
  BY <1>1, <1>2, <1>3, Typed DEF TablesTyped
<1>5. active'.profile # P /\ (active'.profile # NoProfile => active' = active)
  BY <1>1, <1>2, Constants DEF NoActive
<1>6. /\ calls' = [calls EXCEPT ![o] = IdleCall] /\ CallOK(o)'
      /\ \A p \in Profiles : \A g : /\ ~(IdleCall.p = p /\ IdleCall.gen = g)
                                    /\ Holds(o, p, g)' => Holds(o, p, g)
  BY <1>1, ReturnHolds
<1>7. calls \in [Ops -> Calls] /\ \A q \in Ops \ {o} : calls'[q] = calls[q]
  BY <1>1, <1>6, Typed
<1>8. \A p, g : Held(p, g)' = Held(p, g)
  BY DEF Held
<1>9. \A p \in Profiles, g \in Generations : Used(p, g) => Used(p, g)'
  <2>1. /\ gens'[P] = [g \in Generations |-> IF gens[P][g] = "none" THEN "none" ELSE "deleted"]
        /\ \A p \in Profiles \ {P} : gens'[p] = gens[p]
    BY <1>1, <1>2, Typed DEF TablesTyped
  <2>2. QED
    BY <2>1 DEF Used
<1>10. GensInv'
  <2>1. SUFFICES ASSUME NEW p \in Profiles, NEW g \in Generations
                 PROVE  /\ Used(p, g) => Used(p, g)'
                        /\ Refers(p, g)' => Refers(p, g)
                        /\ Pending(p, g)' => Pending(p, g)
                        /\ \A q \in Ops : Holds(q, p, g)' => Holds(q, p, g)
    BY GensStep DEF IInv
  <2>2. /\ \A q \in Ops : calls'[q].p = p /\ calls'[q].gen = g => Refers(p, g)
        /\ \A q \in Ops : Holds(q, p, g)' => Holds(q, p, g)
    BY <1>6, <1>7, CallHolds
  <2>3. active'.profile = p /\ active'.gen = g => active.profile = p /\ active.gen = g
    BY <1>5, Constants
  <2>4. Refers(p, g)' => Refers(p, g)
    BY <1>4, <2>2, <2>3 DEF Refers
  <2>5. QED
    BY <1>9, <2>2, <2>4 DEF Pending
<1>11. CallInv'
  <2>1. SUFFICES ASSUME NEW q \in Ops, q # o
                 PROVE  CallOK(q)'
    BY <1>6 DEF CallInv
  <2>2. CallOK(q) /\ calls'[q] = calls[q] /\ torn \subseteq torn'
    BY <1>1, <1>7, <2>1 DEF IInv, CallInv
  <2>3. \A p \in Profiles : SameRecord(p, q) /\ NewerRow(p)
    BY <1>3, <1>4 DEF SameRecord, NewerRow
  <2>4. ASSUME NEW p \in Profiles, NEW g \in Generations
        PROVE  /\ Held(p, g) => Held(p, g)'
               /\ profiles'[p].gen = g => profiles[p].gen = g
               /\ active'.profile = p /\ active'.gen = g => active.profile = p /\ active.gen = g
               /\ bindings' = bindings /\ late' = late
    BY <1>1, <1>4, <1>5, <1>8, Constants
  <2>5. QED
    BY <1>1, <2>2, <2>3, <2>4, OtherStep
<1>12. KeptInv'
  <2>1. SUFFICES ASSUME NEW p \in Profiles, NEW g \in Generations, InForce(p, g)'
                 PROVE  \/ Held(p, g)' \/ TakenGen(p, g)'
                        \/ InForce(p, g) /\ (Held(p, g) => Held(p, g)')
                                         /\ (TakenGen(p, g) => TakenGen(p, g)')
    BY KeptStep DEF IInv
  <2>2. p # P
    BY <1>2, <1>3, <1>4, <1>5, <2>1 DEF InForce, Exists, ProfileReferenced
  <2>3. InForce(p, g)
    BY <1>1, <1>4, <1>5, <2>1, <2>2, Constants DEF InForce, Exists
  <2>4. TakenGen(p, g) => TakenGen(p, g)'
    <3>1. \A x \in Ops : calls[x].p = p => calls'[x] = calls[x]
      BY <1>7, <2>2
    <3>2. QED
      BY <1>1, <3>1 DEF TakenGen
  <2>5. QED
    BY <1>8, <2>3, <2>4
<1>13. ProvenInv'
  <2>1. /\ active.profile # NoProfile => Proven(active) /\ Exists(active.profile)
        /\ active.profile = NoProfile => active = NoActive
        /\ \A p \in Profiles : /\ profiles[p].state = "Ready" => Proven(profiles[p])
                               /\ profiles[p].state = "Absent" => profiles[p].gen = NoGen
        /\ \A r \in Runs :
              /\ bindings[r].state = "none" => bindings[r].to = NoActive
              /\ bindings[r].state # "none" =>
                    Proven(bindings[r].to) /\ bindings[r].to.profile \in Profiles
    BY DEF IInv, ProvenInv
  <2>2. \A p \in Profiles : /\ profiles'[p].state = "Ready" => Proven(profiles'[p])
                            /\ profiles'[p].state = "Absent" => profiles'[p].gen = NoGen
    BY <1>3, <1>4, <2>1
  <2>3. active' = active \/ active' = NoActive
    BY <1>2
  <2>4. active'.profile = NoProfile => active' = NoActive
    BY <2>1, <2>3
  <2>5. active'.profile # NoProfile =>
           Proven(active') /\ profiles'[active'.profile].state \notin {"Absent", "Deleted"}
    <3>1. SUFFICES ASSUME active'.profile # NoProfile
                   PROVE  Proven(active') /\ profiles'[active'.profile].state \notin {"Absent", "Deleted"}
      OBVIOUS
    <3>2. active' = active /\ active.profile \in Profiles \ {P}
      BY <1>1, <1>5, <3>1, Typed DEF TablesTyped, ActiveRows
    <3>3. QED
      BY <1>4, <2>1, <3>1, <3>2 DEF Exists
  <2>6. QED
    BY <2>1, <2>2, <2>4, <2>5 DEF ProvenInv, Proven, Exists
<1>14. QED
  BY <1>10, <1>11, <1>12, <1>13 DEF IInv

(* What a delete_profile that could not delete has taken stays in its      *)
(* hands until it has written it back.                                     *)
LEMMA RestoreStep ==
    ASSUME IInv, TypeInv', NEW o \in Ops, calls[o].pc = "removeRow", Go(o, "restore"),
           UNCHANGED <<tables, history>>
    PROVE  IInv'
<1> DEFINE t == [calls[o] EXCEPT !.pc = "restore"]
<1>1. /\ TypeInv /\ "restore" \in CallPC
      /\ "restore" \notin MutationPC \cup {"begin"} \cup SwitchPC \cup StagingPC
      /\ UNCHANGED <<profiles, bindings, late, active, torn, journal, gens, vault>>
  BY DEF IInv, CallPC, MutationPC, SwitchPC, StagingPC, tables, history
<1>2. /\ calls' = [calls EXCEPT ![o] = t] /\ calls'[o] = t
      /\ \A p, g : /\ t.p = p /\ t.gen = g => Refers(p, g)
                   /\ Holds(o, p, g)' => Holds(o, p, g)
  BY <1>1, GoHolds
<1>3. t.pc = "restore" /\ t.p = calls[o].p /\ t.gen = calls[o].gen
  BY <1>1, GoTypes
<1> HIDE DEF t
<1>4. CallOK(o)'
  BY <1>1, <1>2, <1>3, ElsewhereOK
<1>5. \A p, g : calls[o].p = p /\ calls[o].gen = g => TakenGen(p, g)'
  BY <1>2, <1>3 DEF TakenGen
<1>6. /\ \A p, g : Held(p, g)' = Held(p, g) /\ Used(p, g)' = Used(p, g)
      /\ \A p \in Profiles : RecordStays(p)
  BY <1>1 DEF Held, Used, RecordStays
<1>7. active' \in {active, NoActive} /\ torn \subseteq torn'
  BY <1>1
<1>8. QED
  BY <1>1, <1>2, <1>4, <1>5, <1>6, <1>7, CallStep

LEMMA DeletionKeeps ==
    ASSUME IInv, TypeInv', NEW o \in Ops, Deletion(o)
    PROVE  IInv'
<1> DEFINE c == calls[o]
           P == calls[o].p
           G == calls[o].gen
<1> USE DEF At
<1>1. TypeInv
  BY DEF IInv
<1>2. CASE TakeCredential(o)
  <2> DEFINE t == [calls[o] EXCEPT !.pc = "removeRow"]
  <2>1. /\ c.pc = "take" /\ Remove(P, G) /\ Go(o, "removeRow")
        /\ UNCHANGED <<profiles, active, gens, journal, bindings, history>>
        /\ UNCHANGED <<torn, late>>
    BY <1>2 DEF TakeCredential, history
  <2>2. "removeRow" \in CallPC
        /\ "removeRow" \notin MutationPC \cup {"begin"} \cup SwitchPC \cup StagingPC
    BY DEF CallPC, MutationPC, SwitchPC, StagingPC
  <2>3. /\ calls' = [calls EXCEPT ![o] = t] /\ calls'[o] = t
        /\ \A p, g : /\ t.p = p /\ t.gen = g => Refers(p, g)
                     /\ Holds(o, p, g)' => Holds(o, p, g)
    BY <1>1, <2>1, <2>2, GoHolds
  <2>4. t.pc = "removeRow" /\ t.p = P /\ t.gen = G
    BY <1>1, <2>2, GoTypes
  <2> HIDE DEF t
  <2>5. CallOK(o)' /\ TakenGen(P, G)'
    BY <2>2, <2>3, <2>4, ElsewhereOK DEF TakenGen
  <2>6. P \in Profiles /\ G \in Generations
    BY <1>1, <2>1, CallTypes DEF Addressed, BindPC
  <2>7. \A q \in Ops : ~Holds(q, P, G)
    <3>1. Refers(P, G)
      BY DEF Refers
    <3>2. QED
      BY <2>6, <3>1, HeldApart
  <2>8. \A p \in Profiles, g \in Generations :
           /\ Used(p, g) => Used(p, g)'
           /\ Held(p, g) /\ ~Held(p, g)' =>
                 /\ ~InForce(p, g) \/ TakenGen(p, g)'
                 /\ \A q \in Ops \ {o} : ~Holds(q, p, g)
    <3>1. SUFFICES ASSUME NEW p \in Profiles, NEW g \in Generations
                   PROVE  /\ Used(p, g) => Used(p, g)'
                          /\ Held(p, g) /\ ~Held(p, g)' =>
                                /\ TakenGen(p, g)'
                                /\ \A q \in Ops \ {o} : ~Holds(q, p, g)
      OBVIOUS
    <3>2. Used(p, g) => Used(p, g)'
      BY <2>1 DEF Used
    <3>3. ASSUME Held(p, g), ~Held(p, g)'
          PROVE  TakenGen(p, g)' /\ \A q \in Ops \ {o} : ~Holds(q, p, g)
      <4>1. p = P /\ g = G
        BY <2>1, <3>3, RemoveOne
      <4>2. TakenGen(p, g)'
        BY <2>3, <2>4, <4>1 DEF TakenGen
      <4>3. QED
        BY <2>7, <4>1, <4>2
    <3>4. QED
      BY <3>2, <3>3
  <2>9. active' \in {active, NoActive} /\ torn \subseteq torn' /\ \A p \in Profiles : RecordStays(p)
    BY <2>1 DEF RecordStays
  <2>10. c.pc \notin {"removeRow", "restore"}
    BY <2>1
  <2>11. QED
    BY <2>1, <2>3, <2>5, <2>8, <2>9, <2>10, CallStep
<1>3. CASE RemoveProfile(o)
  <2>1. /\ c.pc = "removeRow" /\ UNCHANGED <<journal, vault, bindings, history>>
        /\ \/ MayDeleteProfile(P, c.rev, c.seen) /\ DeleteProfileRow(P) /\ Return(o)
           \/ Go(o, "restore") /\ UNCHANGED <<profiles, active, gens>>
    BY <1>3 DEF RemoveProfile
  <2>2. CASE MayDeleteProfile(P, c.rev, c.seen) /\ DeleteProfileRow(P) /\ Return(o)
    BY <2>1, <2>2, DeletedRow
  <2>3. CASE Go(o, "restore") /\ UNCHANGED <<profiles, active, gens>>
    BY <2>1, <2>3, RestoreStep DEF tables
  <2>4. QED
    BY <2>1, <2>2, <2>3
<1>4. CASE RestoreCredential(o)
  <2>1. /\ c.pc = "restore" /\ Return(o)
        /\ IF G # NoGen THEN Put(P, G) ELSE UNCHANGED vault
        /\ UNCHANGED <<profiles, active, gens, journal, bindings, history>>
        /\ UNCHANGED <<torn, late>>
    BY <1>4 DEF RestoreCredential, history
  <2>2. /\ calls' = [calls EXCEPT ![o] = IdleCall] /\ CallOK(o)'
        /\ \A p \in Profiles : \A g : /\ ~(IdleCall.p = p /\ IdleCall.gen = g)
                                      /\ Holds(o, p, g)' => Holds(o, p, g)
    BY <1>1, <2>1, ReturnHolds
  <2>3. \A p, g : Held(p, g) => Held(p, g)'
    BY <2>1 DEF Held, Put
  <2>4. \A p \in Profiles, g \in Generations : P = p /\ G = g => Held(p, g)'
    <3>1. G \in Generations => <<P, G>> \in vault'
      BY <2>1 DEF Put, Generations, NoGen
    <3>2. QED
      BY <3>1 DEF Held
  <2>5. /\ active' \in {active, NoActive} /\ torn \subseteq torn'
        /\ \A p \in Profiles : RecordStays(p)
        /\ \A p, g : Used(p, g)' = Used(p, g)
    BY <2>1 DEF RecordStays, Used
  <2>6. QED
    BY <2>1, <2>2, <2>3, <2>4, <2>5, CallStep
<1>5. QED
  BY <1>2, <1>3, <1>4 DEF Deletion

(* The binding of a new Run: it is bound to what is active, which no call  *)
(* retires but one that has not asked for the active row yet.              *)
LEMMA CommitKeeps ==
    ASSUME IInv, TypeInv', NEW o \in Ops, CommitRun(o)
    PROVE  IInv'
<1> DEFINE c == calls[o]
           snap == calls[o].seen
<1>1. /\ TypeInv /\ c.pc = "bind" /\ snap.profile \in Profiles
      /\ UNCHANGED <<profiles, active, gens, journal, vault, torn>>
      /\ calls \in [Ops -> Calls] /\ bindings \in [Runs -> Bindings]
  BY CallTypes, Typed DEF IInv, CommitRun, At, Addressed, TablesTyped
<1>2. CASE ~BindingCurrent(snap)
  <2> DEFINE t == [c EXCEPT !.pc = "verify"]
  <2>1. calls' = [calls EXCEPT ![o] = t] /\ UNCHANGED <<tables, history>>
    BY <1>1, <1>2 DEF CommitRun, Go, tables, history
  <2>2. t.p = c.p /\ t.gen = c.gen /\ t.pc = "verify"
    BY <1>1, CallTypes DEF Calls
  <2> HIDE DEF t
  <2>3. t.pc \notin MutationPC \cup {"begin"} \cup SwitchPC
    BY <2>2 DEF MutationPC, SwitchPC
  <2>4. \A p \in Profiles, g \in Generations : t.p = p /\ t.gen = g => Refers(p, g)
    BY <2>2 DEF Refers
  <2>5. c.pc \notin {"removeRow", "restore"}
    BY <1>1
  <2>6. QED
    BY <2>1, <2>3, <2>4, <2>5, PlainStep
<1>3. CASE BindingCurrent(snap)
  <2> DEFINE b == [state |-> "live", to |-> snap]
  <2>1. PICK r \in Runs :
              /\ bindings[r].state = "none" /\ bindings' = [bindings EXCEPT ![r] = b]
              /\ late' = IF Retiring(snap.profile, snap.gen) THEN late \cup {r} ELSE late
    BY <1>3 DEF CommitRun
  <2>2. Return(o)
    BY <1>3 DEF CommitRun
  <2>3. b.state = "live" /\ b.to = active /\ active.profile \in Profiles
    BY <1>1, <1>3 DEF BindingCurrent
  <2> HIDE DEF b
  <2>4. bindings'[r] = b /\ \A s \in Runs \ {r} : bindings'[s] = bindings[s]
    BY <1>1, <2>1
  <2>5. /\ calls' = [calls EXCEPT ![o] = IdleCall] /\ CallOK(o)'
        /\ \A p \in Profiles : \A g : /\ ~(IdleCall.p = p /\ IdleCall.gen = g)
                                      /\ Holds(o, p, g)' => Holds(o, p, g)
    BY <1>1, <2>2, ReturnHolds
  <2>6. \A q \in Ops \ {o} : calls'[q] = calls[q]
    BY <1>1, <2>5
  <2>7. /\ \A p, g : Held(p, g)' = Held(p, g) /\ Used(p, g)' = Used(p, g) /\ Exists(p)' = Exists(p)
        /\ late \subseteq late'
    BY <1>1, <2>1 DEF Held, Used, Exists
  <2>8. GensInv'
    <3>1. SUFFICES ASSUME NEW p \in Profiles, NEW g \in Generations
                   PROVE  /\ Used(p, g) => Used(p, g)'
                          /\ Refers(p, g)' => Refers(p, g)
                          /\ Pending(p, g)' => Pending(p, g)
                          /\ \A q \in Ops : Holds(q, p, g)' => Holds(q, p, g)
      BY GensStep DEF IInv
    <3>2. /\ \A q \in Ops : calls'[q].p = p /\ calls'[q].gen = g => Refers(p, g)
          /\ \A q \in Ops : Holds(q, p, g)' => Holds(q, p, g)
      BY <1>1, <2>5, CallHolds
    <3>3. ASSUME NEW s \in Runs, bindings'[s].to.profile = p, bindings'[s].to.gen = g
          PROVE  Refers(p, g)
      <4>1. CASE s = r
        BY <2>3, <2>4, <3>3, <4>1 DEF Refers
      <4>2. CASE s # r
        BY <2>4, <3>3, <4>2 DEF Refers
      <4>3. QED
        BY <4>1, <4>2
    <3>4. Refers(p, g)' => Refers(p, g)
      BY <1>1, <3>2, <3>3 DEF Refers
    <3>5. QED
      BY <1>1, <2>7, <3>2, <3>4 DEF Pending
  <2>9. CallInv'
    <3>1. SUFFICES ASSUME NEW q \in Ops, q # o
                   PROVE  CallOK(q)'
      BY <2>5 DEF CallInv
    <3>2. CallOK(q) /\ calls'[q] = calls[q] /\ torn \subseteq torn'
      BY <1>1, <2>6, <3>1 DEF IInv, CallInv
    <3>3. \A p \in Profiles : SameRecord(p, q) /\ NewerRow(p)
      BY <1>1 DEF SameRecord, NewerRow
    <3>4. ASSUME NEW p \in Profiles, NEW g \in Generations, calls[q].p = p, calls[q].gen = g,
                 calls[q].pc \in {"activeRef", "retire", "retireStore"},
                 NEW s \in Runs, bindings'[s].state = "live", bindings'[s].to.profile = p,
                 bindings'[s].to.gen = g
          PROVE  s \in late'
      <4>1. RetiresOld(q)
        BY <3>2 DEF CallOK
      <4>2. CASE s # r
        BY <2>4, <2>7, <3>4, <4>1, <4>2 DEF RetiresOld
      <4>3. CASE s = r
        <5>1. active.profile = p /\ active.gen = g
          BY <2>3, <2>4, <3>4, <4>3
        <5>2. calls[q].pc = "activeRef"
          BY <3>4, <4>1, <5>1 DEF RetiresOld, ActiveReferences
        <5>3. Retiring(snap.profile, snap.gen)
          BY <1>3, <3>4, <5>1, <5>2 DEF Retiring, At, BindingCurrent
        <5>4. QED
          BY <2>1, <4>3, <5>3
      <4>4. QED
        BY <4>2, <4>3
    <3>5. ASSUME NEW p \in Profiles, NEW g \in Generations
          PROVE  /\ Held(p, g) => Held(p, g)'
                 /\ profiles'[p].gen = g => profiles[p].gen = g
                 /\ active'.profile = p /\ active'.gen = g => active.profile = p /\ active.gen = g
      BY <1>1, <2>7
    <3>6. QED
      BY <1>1, <3>2, <3>3, <3>4, <3>5, OtherStep
  <2>10. KeptInv'
    <3>1. SUFFICES ASSUME NEW p \in Profiles, NEW g \in Generations, InForce(p, g)'
                   PROVE  \/ Held(p, g)' \/ TakenGen(p, g)'
                          \/ InForce(p, g) /\ (Held(p, g) => Held(p, g)')
                                           /\ (TakenGen(p, g) => TakenGen(p, g)')
      BY KeptStep DEF IInv
    <3>2. ASSUME NEW s \in Runs \ late', bindings'[s].state = "live",
                 bindings'[s].to.profile = p, bindings'[s].to.gen = g
          PROVE  InForce(p, g)
      <4>1. CASE s = r
        BY <2>3, <2>4, <3>2, <4>1 DEF InForce
      <4>2. CASE s # r
        BY <2>4, <2>7, <3>2, <4>2 DEF InForce
      <4>3. QED
        BY <4>1, <4>2
    <3>3. InForce(p, g)
      BY <1>1, <2>7, <3>1, <3>2 DEF InForce
    <3>4. TakenGen(p, g) => TakenGen(p, g)'
      <4>1. \A x \in Ops : calls[x].pc \in {"removeRow", "restore"} => calls'[x] = calls[x]
        BY <1>1, <2>6
      <4>2. QED
        BY <1>1, <4>1 DEF TakenGen
    <3>5. QED
      BY <2>7, <3>3, <3>4
  <2>11. ProvenInv'
    <3>1. /\ active.profile # NoProfile => Proven(active) /\ Exists(active.profile)
          /\ active.profile = NoProfile => active = NoActive
          /\ \A p \in Profiles : /\ profiles[p].state = "Ready" => Proven(profiles[p])
                                 /\ profiles[p].state = "Absent" => profiles[p].gen = NoGen
          /\ \A s \in Runs :
                /\ bindings[s].state = "none" => bindings[s].to = NoActive
                /\ bindings[s].state # "none" =>
                      Proven(bindings[s].to) /\ bindings[s].to.profile \in Profiles
      BY DEF IInv, ProvenInv
    <3>2. \A s \in Runs :
             /\ bindings'[s].state = "none" => bindings'[s].to = NoActive
             /\ bindings'[s].state # "none" =>
                   Proven(bindings'[s].to) /\ bindings'[s].to.profile \in Profiles
      <4>1. Proven(active)
        BY <2>3, <3>1, Constants
      <4>2. QED
        BY <2>3, <2>4, <3>1, <4>1
    <3>3. profiles' = profiles /\ active' = active
      BY <1>1
    <3>4. QED
      BY <3>1, <3>2, <3>3 DEF ProvenInv, Proven, Exists
  <2>12. QED
    BY <2>8, <2>9, <2>10, <2>11 DEF IInv
<1>4. QED
  BY <1>2, <1>3

(* Errors: of a call that has written nothing, of one service, and of the  *)
(* last thing a call tries.                                                *)
LEMMA ErrorsKeep ==
    ASSUME IInv, TypeInv', NEW o \in Ops, CallErrors(o) \/ ServiceFails(o) \/ LastResortFails(o)
    PROVE  IInv'
<1> USE DEF At
<1>1. TypeInv
  BY DEF IInv
<1>2. ASSUME UNCHANGED tables
      PROVE  /\ UNCHANGED <<profiles, active, gens, journal, vault, bindings>>
             /\ active' \in {active, NoActive} /\ \A p \in Profiles : RecordStays(p)
             /\ \A p, g : Held(p, g)' = Held(p, g) /\ Used(p, g)' = Used(p, g)
  BY <1>2 DEF tables, RecordStays, Held, Used
<1>3. CASE CallErrors(o)
  <2>1. /\ calls[o].pc \in ReadOnlyPC /\ Return(o) /\ UNCHANGED tables
        /\ torn \subseteq torn' /\ late' = late
    BY <1>3 DEF CallErrors, history
  <2>2. calls[o].pc \notin {"removeRow", "restore"}
    BY <2>1 DEF ReadOnlyPC
  <2>3. QED
    BY <1>2, <2>1, <2>2, MutationEnd
<1>4. CASE ServiceFails(o)
  <2>1. PICK pc \in DOMAIN FailureOf : calls[o].pc = pc /\ \E next \in FailureOf[pc] : Go(o, next)
    BY <1>4 DEF ServiceFails
  <2>2. PICK next \in FailureOf[pc] : Go(o, next)
    BY <2>1
  <2>3. UNCHANGED tables /\ UNCHANGED history
    BY <1>4 DEF ServiceFails
  <2>4. CASE pc = "removeRow" /\ next = "restore"
    BY <2>1, <2>2, <2>3, <2>4, RestoreStep
  <2>5. CASE pc \in MutationPC /\ next \in {"undo", "block"}
    <3>1. next = "undo" => pc \in StagingPC
      BY DEF FailureOf, StagingPC
    <3>2. next \in MutationPC /\ next \in CallPC /\ next \notin RetiringPC \cup {"record", "commit", "cleanup"}
          /\ (next \in StagingPC => next = "undo")
      BY <2>5 DEF MutationPC, StagingPC, RetiringPC, CallPC
    <3>3. calls'[o] = [calls[o] EXCEPT !.pc = next]
      BY <1>1, <2>2, CallTypes DEF Go
    <3>4. calls'[o].pc = next
      BY <1>1, <3>2, <3>3, GoTypes
    <3>5. Written(o)' /\ RetiresOld(o)'
      BY <3>2, <3>4 DEF Written, RetiresOld, RetiringPC
    <3>6. QED
      BY <1>2, <2>1, <2>2, <2>3, <2>5, <3>1, <3>2, <3>5, MutationStep
  <2>6. QED
    BY <2>4, <2>5, FailureTypes
<1>5. CASE LastResortFails(o)
  <2>1. /\ calls[o].pc \in {"block", "restore"} /\ Return(o) /\ UNCHANGED tables /\ late' = late
        /\ torn' = IF calls[o].pc = "restore" /\ calls[o].gen # NoGen
                     THEN torn \cup {calls[o].p} ELSE torn
        /\ torn \subseteq torn'
    BY <1>5 DEF LastResortFails
  <2>2. CASE calls[o].pc = "block"
    BY <1>2, <2>1, <2>2, MutationEnd
  <2>3. CASE calls[o].pc = "restore"
    <3>1. /\ calls' = [calls EXCEPT ![o] = IdleCall] /\ CallOK(o)'
          /\ \A p \in Profiles : \A g : /\ ~(IdleCall.p = p /\ IdleCall.gen = g)
                                        /\ Holds(o, p, g)' => Holds(o, p, g)
      BY <1>1, <2>1, ReturnHolds
    <3>2. \A p \in Profiles, g \in Generations :
             calls[o].p = p /\ calls[o].gen = g => TakenGen(p, g)'
      BY <2>1, <2>3 DEF TakenGen, Generations, NoGen
    <3>3. QED
      BY <1>2, <2>1, <3>1, <3>2, CallStep
  <2>4. QED
    BY <2>1, <2>2, <2>3
<1>6. QED
  BY <1>3, <1>4, <1>5

(* A step beside the calls: the end of a Run, the recovery of a process.   *)
LEMMA BesideStep ==
    ASSUME IInv, TypeInv', UNCHANGED <<calls, profiles, active, late>>, torn \subseteq torn',
           \A p \in Profiles : RecordStays(p),
           \A r \in Runs : /\ bindings'[r].to = bindings[r].to
                           /\ bindings'[r].state = "live" => bindings[r].state = "live"
                           /\ bindings'[r].state = "none" <=> bindings[r].state = "none",
           \A p \in Profiles, g \in Generations :
              /\ Used(p, g) => Used(p, g)'
              /\ Held(p, g) /\ ~Held(p, g)' =>
                    \/ p \in torn'
                    \/ ~InForce(p, g) /\ \A q \in Ops : ~Holds(q, p, g)
    PROVE  IInv'
<1>1. TypeInv /\ \A p : Exists(p)' = Exists(p)
  BY DEF IInv, Exists
<1>2. \A o \in Ops, p \in Profiles, g \in Generations : Holds(o, p, g)' = Holds(o, p, g)
  BY DEF Holds
<1>3. GensInv'
  <2>1. SUFFICES ASSUME NEW p \in Profiles, NEW g \in Generations
                 PROVE  /\ Used(p, g) => Used(p, g)'
                        /\ Refers(p, g)' => Refers(p, g)
                        /\ Pending(p, g)' => Pending(p, g)
                        /\ \A q \in Ops : Holds(q, p, g)' => Holds(q, p, g)
    BY GensStep DEF IInv
  <2>2. Refers(p, g)' => Refers(p, g)
    BY DEF Refers
  <2>3. Pending(p, g)' => Pending(p, g)
    BY DEF Pending, RecordStays
  <2>4. QED
    BY <1>2, <2>2, <2>3
<1>4. CallInv'
  <2>1. SUFFICES ASSUME NEW q \in Ops
                 PROVE  CallOK(q)'
    BY DEF CallInv
  <2>2. CallOK(q) /\ calls'[q] = calls[q]
    BY DEF IInv, CallInv
  <2>3. \A p \in Profiles : SameRecord(p, q) /\ NewerRow(p)
    BY DEF SameRecord, NewerRow, RecordStays
  <2>4. \A p \in Profiles, g \in Generations : Holds(q, p, g) /\ Held(p, g) => Held(p, g)' \/ p \in torn'
    OBVIOUS
  <2>5. QED
    BY <1>1, <2>2, <2>3, <2>4, OtherStep
<1>5. KeptInv'
  <2>1. SUFFICES ASSUME NEW p \in Profiles, NEW g \in Generations, InForce(p, g)'
                 PROVE  \/ Held(p, g)' \/ TakenGen(p, g)'
                        \/ InForce(p, g) /\ (Held(p, g) => Held(p, g)')
                                         /\ (TakenGen(p, g) => TakenGen(p, g)')
    BY KeptStep DEF IInv
  <2>2. InForce(p, g)
    BY <1>1, <2>1 DEF InForce
  <2>3. (TakenGen(p, g) => TakenGen(p, g)') /\ (p \in torn' => TakenGen(p, g)')
    BY DEF TakenGen
  <2>4. QED
    BY <2>2, <2>3
<1>6. ProvenInv'
  BY <1>1 DEF IInv, ProvenInv, Proven
<1>7. QED
  BY <1>3, <1>4, <1>5, <1>6 DEF IInv

LEMMA EndRunKeeps ==
    ASSUME IInv, TypeInv', NEW r \in Runs, EndRun(r)
    PROVE  IInv'
<1>1. /\ bindings[r].state = "live" /\ bindings \in [Runs -> Bindings]
      /\ bindings' = [bindings EXCEPT ![r] = [bindings[r] EXCEPT !.state = "done"]]
      /\ UNCHANGED <<calls, profiles, active, gens, journal, vault>>
      /\ UNCHANGED <<torn, late>>
  BY Typed DEF IInv, EndRun, TablesTyped, history
<1>2. /\ bindings'[r] = [bindings[r] EXCEPT !.state = "done"]
      /\ \A s \in Runs \ {r} : bindings'[s] = bindings[s]
  BY <1>1
<1>3. bindings'[r].to = bindings[r].to /\ bindings'[r].state = "done"
  BY <1>1, <1>2 DEF Bindings
<1>4. \A s \in Runs : /\ bindings'[s].to = bindings[s].to
                      /\ bindings'[s].state = "live" => bindings[s].state = "live"
                      /\ bindings'[s].state = "none" <=> bindings[s].state = "none"
  BY <1>1, <1>2, <1>3
<1>5. /\ \A p, g : Held(p, g)' = Held(p, g) /\ Used(p, g)' = Used(p, g)
      /\ \A p \in Profiles : RecordStays(p)
  BY <1>1 DEF Held, Used, RecordStays
<1>6. QED
  BY <1>1, <1>4, <1>5, BesideStep

(* A crash: no call is left, and what a delete_profile had in its hands is *)
(* lost.                                                                   *)
LEMMA CrashKeeps ==
    ASSUME IInv, TypeInv', Crash
    PROVE  IInv'
<1>1. /\ TypeInv /\ UNCHANGED <<profiles, active, gens, journal, vault, bindings, late>>
      /\ torn' = torn \cup {calls[o].p : o \in {q \in Ops :
                  calls[q].pc \in {"restore", "removeRow"} /\ calls[q].gen # NoGen}}
      /\ \A o \in Ops : calls'[o] = IdleCall
  BY DEF IInv, Crash, tables
<1>2. IdleCall.p = NoProfile /\ IdleCall.pc \notin MutationPC \cup {"begin"} \cup SwitchPC
  BY DEF IdleCall, MutationPC, SwitchPC
<1>3. ASSUME NEW o \in Ops
      PROVE  CallOK(o)' /\ \A p, g : ~Holds(o, p, g)'
  BY <1>1, <1>2, ElsewhereOK
<1>4. \A p, g : Held(p, g)' = Held(p, g) /\ Used(p, g)' = Used(p, g) /\ Exists(p)' = Exists(p)
  BY <1>1 DEF Held, Used, Exists
<1>5. GensInv'
  <2>1. SUFFICES ASSUME NEW p \in Profiles, NEW g \in Generations
                 PROVE  /\ Used(p, g) => Used(p, g)'
                        /\ Refers(p, g)' => Refers(p, g)
                        /\ Pending(p, g)' => Pending(p, g)
                        /\ \A q \in Ops : Holds(q, p, g)' => Holds(q, p, g)
    BY GensStep DEF IInv
  <2>2. Refers(p, g)' => Refers(p, g)
    BY <1>1, <1>2, Constants DEF Refers
  <2>3. QED
    BY <1>1, <1>3, <1>4, <2>2 DEF Pending
<1>6. CallInv'
  BY <1>3 DEF CallInv
<1>7. KeptInv'
  <2>1. SUFFICES ASSUME NEW p \in Profiles, NEW g \in Generations, InForce(p, g)'
                 PROVE  \/ Held(p, g)' \/ TakenGen(p, g)'
                        \/ InForce(p, g) /\ (Held(p, g) => Held(p, g)')
                                         /\ (TakenGen(p, g) => TakenGen(p, g)')
    BY KeptStep DEF IInv
  <2>2. InForce(p, g)
    BY <1>1, <1>4, <2>1 DEF InForce
  <2>3. TakenGen(p, g) => p \in torn'
    <3>1. ASSUME NEW o \in Ops, calls[o].p = p, calls[o].gen = g,
                 calls[o].pc \in {"removeRow", "restore"}
          PROVE  p \in torn'
      <4>1. calls[o].gen # NoGen
        BY <3>1 DEF Generations, NoGen
      <4>2. QED
        BY <1>1, <3>1, <4>1
    <3>2. p \in torn => p \in torn'
      BY <1>1
    <3>3. QED
      BY <3>1, <3>2 DEF TakenGen
  <2>4. QED
    BY <1>4, <2>2, <2>3 DEF TakenGen
<1>8. ProvenInv'
  BY <1>1, SameProven DEF IInv
<1>9. QED
  BY <1>5, <1>6, <1>7, <1>8 DEF IInv

(* The recovery: a process that starts alone takes what only the journal   *)
(* remembers; one that starts beside another may take the secret of a call *)
(* that is still at work.                                                  *)
LEMMA RecoveryKeeps ==
    ASSUME IInv, TypeInv', StartOtherProcess \/ Recovery \/ BootFails
    PROVE  IInv'
<1>1. TypeInv
  BY DEF IInv
<1>2. CASE UNCHANGED <<tables, calls, history>>
  <2>1. /\ UNCHANGED <<calls, profiles, active, late>> /\ torn \subseteq torn'
        /\ UNCHANGED bindings /\ \A p \in Profiles : RecordStays(p)
        /\ \A p, g : Held(p, g)' = Held(p, g) /\ Used(p, g)' = Used(p, g)
    BY <1>2 DEF tables, history, Held, Used, RecordStays
  <2>2. QED
    BY <2>1, BesideStep
<1>3. CASE ClearStaged
  <2> DEFINE P == Recovering
             G == boot.found[Recovering].staged
  <2>1. /\ boot.pc = "clear" /\ Remove(P, G)
        /\ torn' = IF boot.beside THEN torn \cup {P} ELSE torn
        /\ UNCHANGED <<profiles, active, gens, journal, bindings, calls, late>>
    BY <1>3 DEF ClearStaged
  <2>2. P \in Abandoned /\ P \in Profiles
    BY <1>1, <2>1, RecoveringAbandoned
  <2>3. ASSUME G \in Generations, ~boot.beside
        PROVE  ~InForce(P, G) /\ \A q \in Ops : ~Holds(q, P, G)
    <3>1. /\ \A o \in Ops : calls[o] = IdleCall
          /\ journal[P] = boot.found[P] /\ journal[P].phase = "IntentRecorded"
      BY <1>1, <2>1, <2>2, <2>3 DEF TypeInv, BootInOrder
    <3>2. Pending(P, G)
      BY <3>1 DEF Pending, PendingPhases
    <3>3. ~Refers(P, G)
      BY <2>2, <2>3, <3>2 DEF IInv, GensInv, Apart
    <3>4. \A q \in Ops : ~Holds(q, P, G)
      BY <3>1, <2>2, Constants DEF Holds, IdleCall
    <3>5. QED
      BY <3>3, <3>4 DEF Refers, InForce
  <2>4. \A p \in Profiles, g \in Generations :
           /\ Used(p, g) => Used(p, g)'
           /\ Held(p, g) /\ ~Held(p, g)' =>
                 \/ p \in torn'
                 \/ ~InForce(p, g) /\ \A q \in Ops : ~Holds(q, p, g)
    <3>1. SUFFICES ASSUME NEW p \in Profiles, NEW g \in Generations
                   PROVE  /\ Used(p, g) => Used(p, g)'
                          /\ Held(p, g) /\ ~Held(p, g)' =>
                                \/ p \in torn'
                                \/ ~InForce(p, g) /\ \A q \in Ops : ~Holds(q, p, g)
      OBVIOUS
    <3>2. Held(p, g) /\ ~Held(p, g)' => p = P /\ g = G
      BY <2>1, RemoveOne
    <3>3. Used(p, g) => Used(p, g)'
      BY <2>1 DEF Used
    <3>4. CASE boot.beside
      BY <2>1, <3>2, <3>3, <3>4
    <3>5. CASE ~boot.beside
      BY <2>3, <3>2, <3>3, <3>5
    <3>6. QED
      BY <3>4, <3>5
  <2>5. torn \subseteq torn' /\ \A p \in Profiles : RecordStays(p)
    BY <2>1 DEF RecordStays
  <2>6. QED
    BY <2>1, <2>4, <2>5, BesideStep
<1>4. CASE RollbackAbandoned
  <2> DEFINE P == Recovering
  <2>1. /\ boot.pc = "rollback"
        /\ UNCHANGED <<profiles, active, vault, bindings, calls, history>>
        /\ UNCHANGED <<torn, late>>
        /\ Rollback(P) \/ UNCHANGED <<journal, gens>>
    BY <1>4 DEF RollbackAbandoned, history
  <2>2. P \in Profiles
    BY <1>1, <2>1, RecoveringAbandoned
  <2> HIDE DEF P
  <2>3. (\A p \in Profiles : RecordStays(p))
        /\ \A p \in Profiles, g \in Generations : Used(p, g) => Used(p, g)'
    <3>1. CASE Rollback(P)
      <4>1. /\ Transition(P, "RolledBack") /\ gens' = SetStatus(P, journal[P].staged, "deleted")
            /\ "RolledBack" \notin PendingPhases
        BY <3>1 DEF Rollback, PendingPhases
      <4>2. journal[P].staged \in Generations \cup {NoGen}
        BY <1>1, <2>2, Typed DEF TablesTyped, Records
      <4>3. QED
        BY <1>1, <2>2, <4>1, <4>2, TransitionRecords, StatusKeepsUsed DEF GenStatuses
    <3>2. CASE UNCHANGED <<journal, gens>>
      BY <3>2 DEF RecordStays, Used
    <3>3. QED
      BY <2>1, <3>1, <3>2
  <2>4. \A p, g : Held(p, g)' = Held(p, g)
    BY <2>1 DEF Held
  <2>5. QED
    BY <2>1, <2>3, <2>4, BesideStep
<1>5. StartOtherProcess \/ ListAbandoned \/ BootFails => UNCHANGED <<tables, calls, history>>
  BY DEF StartOtherProcess, ListAbandoned, BootFails
<1>6. QED
  BY <1>2, <1>3, <1>4, <1>5 DEF Recovery

-----------------------------------------------------------------------------
(* The inductive invariant, and what it says.                              *)

LEMMA InitialInvariant ==
    ASSUME Init
    PROVE  IInv
<1>1. PICK old \in SUBSET Profiles, m \in Models, on \in BOOLEAN :
        /\ profiles = [p \in Profiles |-> IF p \in old THEN Seeded(p, m) ELSE AbsentProfile]
        /\ active = IF on /\ old # {}
                      THEN [profile |-> CHOOSE p \in old : TRUE, rev |-> 1,
                            model |-> m, gen |-> 1,
                            proof |-> [model |-> m, gen |-> 1], number |-> 1]
                      ELSE NoActive
        /\ gens = [p \in Profiles |-> [g \in Generations |->
                      IF p \in old /\ g = 1 THEN "available" ELSE "none"]]
        /\ vault = old \X {1}
        /\ journal = [p \in Profiles |-> NoRecord]
        /\ bindings = [r \in Runs |-> NoBinding]
        /\ calls = [o \in Ops |-> IdleCall]
        /\ boot = BootUp
        /\ started = 0 /\ faults = 0 /\ starts = 0
        /\ torn = {} /\ late = {}
  BY DEF Init
<1>2. /\ \A p \in old : /\ profiles[p].state = "Ready" /\ profiles[p].gen = 1
                        /\ profiles[p].model = m /\ profiles[p].proof = [model |-> m, gen |-> 1]
      /\ \A p \in Profiles \ old : profiles[p].state = "Absent" /\ profiles[p].gen = NoGen
  BY <1>1 DEF Seeded, Draft, AbsentProfile
<1>3. \/ /\ active.profile \in old /\ active.gen = 1 /\ active.model = m
         /\ active.proof = [model |-> m, gen |-> 1]
      \/ active = NoActive
  <2>1. CASE on /\ old # {}
    <3>1. (CHOOSE p \in old : TRUE) \in old
      BY <2>1
    <3>2. QED
      BY <1>1, <2>1, <3>1
  <2>2. CASE ~(on /\ old # {})
    BY <1>1, <2>2
  <2>3. QED
    BY <2>1, <2>2
<1>4. /\ NoActive.profile = NoProfile /\ NoProfile \notin Profiles /\ IdleCall.p = NoProfile
      /\ IdleCall.pc \notin MutationPC \cup {"begin"} \cup SwitchPC
      /\ \A r \in Runs : bindings[r].to = NoActive /\ bindings[r].state = "none"
      /\ \A o \in Ops : calls[o] = IdleCall
  BY <1>1, Constants DEF NoActive, IdleCall, NoBinding, MutationPC, SwitchPC
<1>5. NoGen = 0 /\ NoGen \notin Generations
  BY DEF NoGen, Generations
<1>6. \A p \in Profiles, g \in Generations : Refers(p, g) => p \in old /\ g = 1
  BY <1>2, <1>3, <1>4, <1>5 DEF Refers
<1>7. \A o \in Ops : \A p \in Profiles : \A g : ~Holds(o, p, g)
  BY <1>4 DEF Holds
<1>8. GensInv
  <2>1. SUFFICES ASSUME NEW p \in Profiles, NEW g \in Generations
                 PROVE  Apart(p, g)
    BY DEF GensInv
  <2>2. Refers(p, g) => Used(p, g)
    BY <1>1, <1>6 DEF Used
  <2>3. ~Pending(p, g)
    BY <1>1 DEF Pending, PendingPhases, NoRecord
  <2>4. QED
    BY <1>7, <2>2, <2>3 DEF Apart
<1>9. CallInv
  BY <1>4 DEF CallInv, CallOK, OwnRecord, SeenRevision, Written, RetiresOld, MutationPC,
              StagingPC, RetiringPC
<1>10. KeptInv
  <2>1. ASSUME NEW p \in Profiles, NEW g \in Generations, InForce(p, g)
        PROVE  Held(p, g)
    <3>1. Refers(p, g)
      BY <2>1 DEF InForce, Refers
    <3>2. QED
      BY <1>1, <1>6, <3>1 DEF Held
  <2>2. QED
    BY <2>1 DEF KeptInv
<1>11. ProvenInv
  <2>1. \A p \in Profiles : /\ profiles[p].state = "Ready" => Proven(profiles[p])
                            /\ profiles[p].state = "Absent" => profiles[p].gen = NoGen
    <3>1. ASSUME NEW p \in old
          PROVE  profiles[p].state = "Ready" /\ Proven(profiles[p])
      <4>1. profiles[p].state = "Ready" /\ profiles[p].gen = 1 /\ profiles[p].model = m
            /\ profiles[p].proof = [model |-> m, gen |-> 1]
        BY <1>2
      <4>2. QED
        BY <1>5, <4>1 DEF Proven
    <3>2. ASSUME NEW p \in Profiles \ old
          PROVE  profiles[p].state = "Absent" /\ profiles[p].gen = NoGen
      BY <1>2
    <3>3. QED
      BY <3>1, <3>2
  <2>2. /\ active.profile # NoProfile => Proven(active) /\ Exists(active.profile)
        /\ active.profile = NoProfile => active = NoActive
    BY <1>2, <1>3, <1>4, <1>5 DEF Proven, Exists
  <2>3. QED
    BY <1>4, <2>1, <2>2 DEF ProvenInv
<1>12. QED
  BY <1>8, <1>9, <1>10, <1>11, InitialTypes DEF IInv

LEMMA InvariantStays ==
    ASSUME IInv, [Next]_vars
    PROVE  IInv'
<1>1. TypeInv'
  BY TypesStay DEF IInv
<1>2. CASE UNCHANGED vars
  <2>1. /\ UNCHANGED <<calls, profiles, active, late>> /\ torn \subseteq torn'
        /\ UNCHANGED bindings /\ \A p \in Profiles : RecordStays(p)
        /\ \A p, g : Held(p, g)' = Held(p, g) /\ Used(p, g)' = Used(p, g)
    BY <1>2 DEF vars, tables, history, Held, Used, RecordStays
  <2>2. QED
    BY <1>1, <2>1, BesideStep
<1>3. ASSUME NEW o \in Ops, Start(o) \/ Deletion(o)
      PROVE  IInv'
  BY <1>1, <1>3, StartKeeps, DeletionKeeps
<1>4. ASSUME NEW o \in Ops, Mutation(o)
      PROVE  IInv'
  BY <1>1, <1>4, BeginKeeps, VaultKeeps, JournalKeeps, PointerKeeps DEF Mutation
<1>5. ASSUME NEW o \in Ops, Selection(o)
      PROVE  IInv'
  BY <1>1, <1>5, ReadingKeeps, RowKeeps, SwitchKeeps, ActivateKeeps DEF Selection
<1>6. ASSUME NEW o \in Ops, Binding(o)
      PROVE  IInv'
  BY <1>1, <1>6, ReadingKeeps, CommitKeeps DEF Binding
<1>7. ASSUME NEW o \in Ops, CallErrors(o) \/ ServiceFails(o) \/ LastResortFails(o)
      PROVE  IInv'
  BY <1>1, <1>7, ErrorsKeep
<1>8. ASSUME NEW r \in Runs, EndRun(r)
      PROVE  IInv'
  BY <1>1, <1>8, EndRunKeeps
<1>9. CASE Crash \/ StartOtherProcess \/ Recovery \/ BootFails
  BY <1>1, <1>9, CrashKeeps, RecoveryKeeps
<1>10. QED
  BY <1>2, <1>3, <1>4, <1>5, <1>6, <1>7, <1>8, <1>9 DEF Next

LEMMA TakenByCall ==
    ASSUME TypeInv, NEW p, NEW g, TakenGen(p, g)
    PROVE  Taken(p)
<1>1. ASSUME NEW o \in Ops, calls[o].pc \in {"removeRow", "restore"}
      PROVE  calls[o].kind = "remove"
  BY <1>1, CallTypes DEF Addressed, RemovalPC
<1>2. QED
  BY <1>1 DEF TakenGen, Taken

(* The three facts, as implications that an instance of this module cites. *)
LEMMA Inductive == /\ Init => IInv
                   /\ IInv /\ [Next]_vars => IInv'
BY InitialInvariant, InvariantStays

LEMMA WhatItSays ==
    IInv => /\ TypeOK /\ CredentialInVault /\ BoundRunKeepsCredential
            /\ OnlyProvenIsUsed /\ ActiveKeepsCredential
<1> SUFFICES ASSUME IInv
             PROVE  /\ TypeOK /\ CredentialInVault /\ BoundRunKeepsCredential
                    /\ OnlyProvenIsUsed /\ ActiveKeepsCredential
  OBVIOUS
<1>1. TypeOK
  BY DEF IInv, TypeInv
<1>2. CredentialInVault
  <2>1. SUFFICES ASSUME NEW p \in Profiles, Exists(p), profiles[p].gen # NoGen
                 PROVE  Held(p, profiles[p].gen) \/ Taken(p)
    BY DEF CredentialInVault
  <2>2. profiles[p].gen \in Generations
    BY <2>1, Typed DEF IInv, TablesTyped, ProfileRows
  <2>3. InForce(p, profiles[p].gen)
    BY <2>1 DEF InForce
  <2>4. QED
    BY <2>1, <2>2, <2>3, TakenByCall DEF IInv, KeptInv
<1>3. BoundRunKeepsCredential
  <2>1. SUFFICES ASSUME NEW r \in Runs, bindings[r].state = "live", r \notin late
                 PROVE  LET b == bindings[r].to IN Held(b.profile, b.gen) \/ Taken(b.profile)
    BY DEF BoundRunKeepsCredential
  <2> DEFINE b == bindings[r].to
  <2>2. Proven(b) /\ b.profile \in Profiles /\ b \in ActiveRows
    BY <2>1, Typed DEF IInv, ProvenInv, TablesTyped, Bindings
  <2>3. b.gen \in Generations
    BY <2>2 DEF Proven, ActiveRows
  <2>4. InForce(b.profile, b.gen)
    BY <2>1 DEF InForce
  <2>5. QED
    BY <2>1, <2>2, <2>3, <2>4, TakenByCall DEF IInv, KeptInv
<1>4. OnlyProvenIsUsed
  <2>1. SUFFICES ASSUME NEW row \in {active} \cup {bindings[r].to : r \in Runs}, row.number > 0
                 PROVE  Proven(row)
    BY DEF OnlyProvenIsUsed, Proven
  <2>2. row # NoActive
    BY <2>1 DEF NoActive
  <2>3. QED
    BY <2>1, <2>2 DEF IInv, ProvenInv
<1>5. ActiveKeepsCredential
  <2>1. SUFFICES ASSUME active.profile # NoProfile
                 PROVE  /\ Exists(active.profile)
                        /\ Held(active.profile, active.gen) \/ Taken(active.profile)
    BY DEF ActiveKeepsCredential
  <2>2. Proven(active) /\ Exists(active.profile) /\ active \in ActiveRows
    BY <2>1, Typed DEF IInv, ProvenInv, TablesTyped
  <2>3. active.gen \in Generations /\ active.profile \in Profiles
    BY <2>1, <2>2 DEF Proven, ActiveRows
  <2>4. InForce(active.profile, active.gen)
    BY DEF InForce
  <2>5. QED
    BY <2>2, <2>3, <2>4, TakenByCall DEF IInv, KeptInv
<1>6. QED
  BY <1>1, <1>2, <1>3, <1>4, <1>5

(* The two stores agree: whatever the calls, rollbacks, failures, crashes  *)
(* and recoveries interleave, the current revision of a Profile names a    *)
(* generation the vault holds, unless delete_profile or the recovery of a  *)
(* second process took it.                                                 *)
THEOREM VaultFollowsStore == Spec => []CredentialInVault
BY Inductive, WhatItSays, PTL DEF Spec

(* A Run that has not ended can still build its client: retirement, Profile*)
(* deletion and rollback leave the generation it is bound to alone, but    *)
(* for the window between the two reads of a retirement.                   *)
THEOREM RunsKeepCredentials == Spec => []BoundRunKeepsCredential
BY Inductive, WhatItSays, PTL DEF Spec

(* What is active, and what a live Run is bound to, was proved compatible  *)
(* with exactly its model and credential generation.                       *)
THEOREM UseIsProven == Spec => []OnlyProvenIsUsed
BY Inductive, WhatItSays, PTL DEF Spec

(* The active Profile is not deleted, and the vault holds the generation it*)
(* was activated with, which no later revision or retirement takes away,   *)
(* unless delete_profile or the recovery of a second process did.          *)
THEOREM ActiveStaysUsable == Spec => []ActiveKeepsCredential
BY Inductive, WhatItSays, PTL DEF Spec

-----------------------------------------------------------------------------
(* The pointer of a mutation.                                              *)

(* No record comes to PointerCommitted but by the commit of its pointer.   *)
NoNewPointer ==
    \A p \in Profiles : journal'[p].phase = "PointerCommitted" =>
                           journal[p].phase = "PointerCommitted"

LEMMA OtherTransitions ==
    ASSUME TypeInv, NEW p \in Profiles, NEW ph, Transition(p, ph), ph # "PointerCommitted"
    PROVE  NoNewPointer
<1>1. /\ journal' = [journal EXCEPT ![p] = [journal[p] EXCEPT !.phase = ph]]
      /\ journal \in [Profiles -> Records] /\ journal[p] \in Records
  BY TransitionTypes, Typed DEF TablesTyped
<1>2. journal'[p].phase = ph
  <2>1. journal'[p] = [journal[p] EXCEPT !.phase = ph]
    BY <1>1
  <2>2. QED
    BY <1>1, <2>1 DEF Records
<1>3. \A q \in Profiles \ {p} : journal'[q] = journal[q]
  BY <1>1
<1>4. QED
  BY <1>2, <1>3 DEF NoNewPointer

LEMMA PointerOnlyHere ==
    ASSUME TypeInv, [Next]_vars, \A o \in Ops : ~CommitCredentialPointer(o)
    PROVE  NoNewPointer
<1>1. UNCHANGED journal => NoNewPointer
  BY DEF NoNewPointer
<1>2. CASE UNCHANGED vars
  BY <1>1, <1>2 DEF vars, tables
<1>3. ASSUME NEW o \in Ops, Start(o)
      PROVE  UNCHANGED journal
  BY <1>3 DEF Start, StartMutation, SaveProfile, StartValidation, StartSwitch, StartActivation,
              StartDelete, StartRun, tables
<1>4. ASSUME NEW o \in Ops, Selection(o)
      PROVE  UNCHANGED journal
  BY <1>4 DEF Selection, Probe, CommitValidation, CheckCandidate, DiscoverModels,
              RecheckCandidate, SaveCandidateDraft, LoadReady, ExpectActivation,
              ActivateProfile, tables
<1>5. ASSUME NEW o \in Ops, Deletion(o) \/ Binding(o)
      PROVE  UNCHANGED journal
  BY <1>5 DEF Deletion, TakeCredential, RemoveProfile, RestoreCredential, Binding,
              VerifyJournal, ReadActive, CheckCredential, CommitRun, tables
<1>6. ASSUME NEW o \in Ops, CallErrors(o) \/ ServiceFails(o) \/ LastResortFails(o)
      PROVE  UNCHANGED journal
  BY <1>6 DEF CallErrors, ServiceFails, LastResortFails, tables
<1>7. ASSUME NEW r \in Runs, EndRun(r)
      PROVE  UNCHANGED journal
  BY <1>7 DEF EndRun
<1>8. CASE Crash \/ StartOtherProcess \/ ListAbandoned \/ ClearStaged \/ BootFails
  BY <1>1, <1>8 DEF Crash, StartOtherProcess, ListAbandoned, ClearStaged, BootFails, tables
<1>9. CASE RollbackAbandoned
  <2>1. boot.pc = "rollback" /\ (Rollback(Recovering) \/ UNCHANGED journal)
    BY <1>9 DEF RollbackAbandoned
  <2>2. Recovering \in Profiles
    BY <2>1, RecoveringAbandoned
  <2>3. Rollback(Recovering) => Transition(Recovering, "RolledBack")
    BY DEF Rollback
  <2>4. QED
    BY <1>1, <2>1, <2>2, <2>3, OtherTransitions
<1>10. ASSUME NEW o \in Ops, Mutation(o)
       PROVE  NoNewPointer
  <2> DEFINE p == calls[o].p
  <2>1. p \in Profiles
    <3>1. calls[o].pc \in MutationPC \cup {"begin"}
      BY <1>10 DEF Mutation, BeginMutation, WriteVault, RecordVaultWrite, CommitCredentialPointer,
                   UndoVaultWrite, UndoJournal, ReadRunReferences, ReadActiveReference,
                   RetireVault, RetireStatus, DeleteRollbackCopy, CompleteMutation,
                   BlockMutation, At, MutationPC
    <3>2. QED
      BY <3>1, InMutation
  <2>2. CASE \/ WriteVault(o) \/ UndoVaultWrite(o) \/ ReadRunReferences(o)
             \/ ReadActiveReference(o) \/ RetireVault(o) \/ RetireStatus(o)
             \/ DeleteRollbackCopy(o)
    BY <1>1, <2>2 DEF WriteVault, UndoVaultWrite, ReadRunReferences, ReadActiveReference,
                      RetireVault, RetireStatus, DeleteRollbackCopy, tables
  <2>3. CASE \/ RecordVaultWrite(o) \/ UndoJournal(o) \/ CompleteMutation(o)
             \/ BlockMutation(o)
    <3>1. \/ UNCHANGED journal
          \/ \E ph \in {"VaultWritten", "RolledBack", "Completed", "Blocked"} : Transition(p, ph)
      BY <2>3 DEF RecordVaultWrite, RecordWrite, UndoJournal, Rollback, CompleteMutation,
                  Complete, BlockMutation, Block
    <3>2. QED
      BY <1>1, <2>1, <3>1, OtherTransitions
  <2>4. CASE BeginMutation(o)
    <3> DEFINE c == calls[o]
               rec == [op |-> o, phase |-> "IntentRecorded", intent |-> c.kind,
                       base |-> c.rev, old |-> c.gen, staged |-> c.staged]
    <3>1. journal' = [journal EXCEPT ![p] = rec] \/ UNCHANGED journal
      BY <2>4 DEF BeginMutation, Begin
    <3>2. rec.phase = "IntentRecorded"
      OBVIOUS
    <3> HIDE DEF rec
    <3>3. QED
      BY <2>1, <3>1, <3>2, Typed DEF NoNewPointer, TablesTyped
  <2>5. QED
    BY <1>10, <2>2, <2>3, <2>4 DEF Mutation
<1>11. QED
  BY <1>1, <1>2, <1>3, <1>4, <1>5, <1>6, <1>7, <1>8, <1>9, <1>10 DEF Next, Recovery

(* A mutation that commits its pointer has the model of the row it commits *)
(* over.                                                                   *)
Edited(p) == journal[p].phase = "VaultWritten" /\ journal'[p].phase = "PointerCommitted"
             => profiles'[p].model = profiles[p].model

LEMMA EditStep == IInv /\ [Next]_vars => \A p \in Profiles : Edited(p)
<1>1. ASSUME IInv, [Next]_vars, NEW p \in Profiles
      PROVE  Edited(p)
  <2>1. SUFFICES ASSUME journal[p].phase = "VaultWritten", journal'[p].phase = "PointerCommitted"
                 PROVE  profiles'[p].model = profiles[p].model
    BY DEF Edited
  <2>2. TypeInv
    BY <1>1 DEF IInv
  <2>3. PICK o \in Ops : CommitCredentialPointer(o)
    BY <1>1, <2>1, <2>2, PointerOnlyHere DEF NoNewPointer
  <2> DEFINE c == calls[o]
             P == calls[o].p
  <2>4. c.pc = "commit" /\ P \in Profiles /\ CallOK(o)
    BY <1>1, <2>2, <2>3, InMutation DEF CommitCredentialPointer, At, MutationPC, IInv, CallInv
  <2>5. InPhase(P, o, {"VaultWritten"}) /\ ~PointerStale(P) /\ CommitPointer(P, c.model)
    <3>1. CASE InPhase(P, o, {"VaultWritten"}) /\ ~PointerStale(P) /\ CommitPointer(P, c.model)
      BY <3>1
    <3>2. CASE Transition(P, "CleanupPending") \/ UNCHANGED journal
      <4>1. NoNewPointer
        BY <2>2, <2>4, <3>2, OtherTransitions DEF NoNewPointer
      <4>2. QED
        BY <2>1, <4>1 DEF NoNewPointer
    <3>3. QED
      BY <2>3, <3>1, <3>2 DEF CommitCredentialPointer
  <2>6. profiles[P].model = c.model
    <3>1. profiles[P].rev = c.rev
      BY <2>4, <2>5 DEF CallOK, OwnRecord, InPhase, PointerStale, MutationPC
    <3>2. QED
      BY <2>4, <3>1 DEF CallOK, SeenRevision, StagingPC, SwitchPC
  <2>7. P = p
    <3>1. Transition(P, "PointerCommitted")
      BY <2>5 DEF CommitPointer
    <3>2. \A q \in Profiles \ {P} : journal'[q] = journal[q]
      BY <2>2, <2>4, <3>1, Typed DEF Transition, TablesTyped
    <3>3. QED
      BY <2>1, <3>2
  <2>8. profiles'[P].model = c.model
    BY <2>2, <2>4, <2>5, Typed DEF CommitPointer, Draft, TablesTyped
  <2>9. QED
    BY <2>6, <2>7, <2>8
<1>2. QED
  BY <1>1

(* A change of credential never undoes a change of model that was saved    *)
(* while the secret travelled to the vault.                                *)
THEOREM EditsSurvive == Spec => NoLostEdit
<1>1. Spec => [][\A p \in Profiles : Edited(p)]_vars
  BY EditStep, Inductive, PTL DEF Spec
<1>2. QED
  BY <1>1 DEF NoLostEdit, Edited

-----------------------------------------------------------------------------
(***************************************************************************)
(* What is left behind when nothing has failed.  A record that is open has *)
(* a call that will settle or block it, and its phase says where the call  *)
(* is; a generation in the vault, or on its way there, is one the store    *)
(* knows, until the call that writes it off has emptied the vault first.   *)
(***************************************************************************)
Calm == faults = 0 /\ starts = 0

(* The phase of the newest record tells where its call is.                 *)
InStep(o) ==
    LET c   == calls[o]
        rec == journal[c.p]
    IN  /\ c.pc \in MutationPC => rec.op = o
        /\ c.pc \in {"write", "record"} => rec.phase = "IntentRecorded"
        /\ c.pc = "commit" => rec.phase = "VaultWritten"
        /\ c.pc \in {"undo", "undoStore"} => rec.phase \in {"IntentRecorded", "CleanupPending"}
        /\ c.pc \in RetiringPC \cup {"cleanup", "complete"} => rec.phase = "PointerCommitted"
        /\ c.pc = "block" => Open(c.p)

(* What a call is about to write off is out of the vault.                  *)
Emptied(o) ==
    LET c == calls[o]
    IN  c.pc = "undoStore" \/ (c.pc = "complete" /\ c.kind = "delete") => ~Held(c.p, c.staged)

(* An open record has a call that will settle or block it.                 *)
InHand(o, p) == calls[o].pc \in MutationPC /\ calls[o].p = p
Attended(p) == Open(p) => \E o \in Ops : InHand(o, p) /\ journal[p].op = o

(* In the vault, or about to be put there by a call.                       *)
Brings(o, p, g) ==
    /\ calls[o].p = p
    /\ \/ calls[o].pc \in RemovalPC /\ calls[o].gen = g
       \/ calls[o].pc = "write" /\ calls[o].staged = g
Comes(p, g) == Held(p, g) \/ \E o \in Ops : Brings(o, p, g)

(* The store knows of it, or will once the mutation completes.             *)
Known(p, g) ==
    StatusSaved(p, g) \/ (journal[p].phase = "PointerCommitted" /\ journal[p].old = g)

Matters(p) == profiles[p].state # "Deleted" /\ ~IsBlocked(p)

CalmParts ==
    /\ boot.pc = "up"
    /\ \A o \in Ops : InStep(o) /\ Emptied(o)
    /\ \A p \in Profiles : Attended(p)
    /\ \A p \in Profiles, g \in Generations : Matters(p) /\ Comes(p, g) => Known(p, g)

CalmInv == Calm => CalmParts

(* The mutation under way has the newest record of its Profile, and no     *)
(* other mutation of the Profile is under way.                             *)
LEMMA CalmMutation ==
    ASSUME IInv, CalmParts, NEW o \in Ops, calls[o].pc \in MutationPC
    PROVE  LET c == calls[o]
               rec == journal[c.p]
           IN  /\ c.p \in Profiles /\ c.staged \in Generations /\ c.kind \in Intents
               /\ rec.op = o /\ rec.intent = c.kind /\ rec.old = c.gen /\ rec.staged = c.staged
               /\ Open(c.p) /\ rec \in Records
               /\ \A q \in Ops : InHand(q, c.p) => q = o
               /\ Holds(o, c.p, c.staged) => ~Refers(c.p, c.staged)
<1> DEFINE c == calls[o]
<1>1. /\ c.p \in Profiles /\ c.staged \in Generations /\ c.kind \in Intents
      /\ journal[c.p] \in Records
  BY InMutation, JournalTypes DEF IInv
<1>2. InStep(o) /\ CallOK(o) /\ Apart(c.p, c.staged)
  BY <1>1 DEF CalmParts, IInv, CallInv, GensInv
<1>3. Open(c.p)
  BY <1>2 DEF InStep, MutationPC, RetiringPC, Open, Settled
<1>4. \A q \in Ops : InHand(q, c.p) => q = o
  BY <1>2 DEF CalmParts, InStep, InHand
<1>5. QED
  BY <1>1, <1>2, <1>3, <1>4 DEF InStep, CallOK, OwnRecord, Apart

(* The frame of a step of one call.                                        *)
LEMMA CalmStep ==
    ASSUME TypeInv, CalmParts, NEW o \in Ops, boot' = boot,
           \A q \in Ops \ {o} : calls'[q] = calls[q],
           InStep(o)', Emptied(o)',
           \A q \in Ops \ {o}, p \in Profiles : InHand(q, p) =>
               /\ journal'[p] = journal[p]
               /\ \A g \in Generations : Holds(q, p, g) /\ Held(p, g)' => Held(p, g),
           \A p \in Profiles :
               \/ ~Open(p)'
               \/ journal'[p] = journal[p] /\ ~InHand(o, p)
               \/ InHand(o, p)' /\ journal'[p].op = o,
           \A p \in Profiles, g \in Generations : Matters(p)' /\ Comes(p, g)' => Known(p, g)'
    PROVE  CalmParts'
<1>1. ASSUME NEW q \in Ops \ {o}
      PROVE  InStep(q)' /\ Emptied(q)'
  <2>1. InStep(q) /\ Emptied(q) /\ calls'[q] = calls[q]
    BY DEF CalmParts
  <2>2. CASE calls[q].pc \notin MutationPC
    BY <2>1, <2>2 DEF InStep, Emptied, MutationPC, RetiringPC
  <2>3. CASE calls[q].pc \in MutationPC
    <3> DEFINE p == calls[q].p
               g == calls[q].staged
    <3>1. p \in Profiles /\ g \in Generations /\ journal'[p] = journal[p]
      BY <2>3, InMutation DEF InHand
    <3>2. Holds(q, p, g) => (Held(p, g)' => Held(p, g))
      BY <2>3, <3>1 DEF InHand
    <3>3. InStep(q)'
      BY <2>1, <3>1 DEF InStep, Open
    <3>4. Emptied(q)'
      BY <2>1, <2>3, <3>2 DEF Emptied, Holds, StagingPC
    <3>5. QED
      BY <3>3, <3>4
  <2>4. QED
    BY <2>2, <2>3
<1>2. ASSUME NEW p \in Profiles
      PROVE  Attended(p)'
  <2>1. CASE journal'[p] = journal[p] /\ ~InHand(o, p)
    BY <2>1 DEF CalmParts, Attended, Open, InHand
  <2>2. CASE InHand(o, p)' /\ journal'[p].op = o
    BY <2>2 DEF Attended
  <2>3. QED
    BY <2>1, <2>2 DEF Attended
<1>3. QED
  BY <1>1, <1>2 DEF CalmParts

LEMMA ComesStep ==
    ASSUME NEW o \in Ops, \A q \in Ops \ {o} : calls'[q] = calls[q], NEW p, NEW g,
           Held(p, g)' => Comes(p, g), Brings(o, p, g)' => Comes(p, g), Comes(p, g)'
    PROVE  Comes(p, g)
BY DEF Comes, Brings

(* A step of a call that is no mutation.                                   *)
LEMMA PlainCalm ==
    ASSUME IInv, CalmParts, NEW o \in Ops, NEW t, calls' = [calls EXCEPT ![o] = t],
           boot' = boot, UNCHANGED <<journal, gens>>,
           calls[o].pc \notin MutationPC, t.pc \notin MutationPC,
           \A p \in Profiles : Matters(p)' => Matters(p),
           \A p \in Profiles, g \in Generations :
              /\ Held(p, g)' /\ ~Held(p, g) => Comes(p, g) /\ Refers(p, g)
              /\ t.p = p /\ t.pc \in RemovalPC /\ t.gen = g => Comes(p, g)
    PROVE  CalmParts'
<1>1. calls'[o] = t /\ \A q \in Ops \ {o} : calls'[q] = calls[q]
  BY Typed DEF IInv
<1>2. InStep(o)' /\ Emptied(o)'
  BY <1>1 DEF InStep, Emptied, MutationPC, RetiringPC
<1>3. ASSUME NEW p \in Profiles, NEW g \in Generations, Matters(p)', Comes(p, g)'
      PROVE  Known(p, g)'
  <2>1. Brings(o, p, g)' => Comes(p, g)
    BY <1>1 DEF Brings, MutationPC
  <2>2. Held(p, g)' => Comes(p, g)
    BY DEF Comes
  <2>3. Comes(p, g)
    BY <1>1, <1>3, <2>1, <2>2, ComesStep
  <2>4. QED
    BY <1>3, <2>3 DEF CalmParts, Known, StatusSaved
<1>4. \A q \in Ops, p \in Profiles, g \in Generations :
         Holds(q, p, g) /\ Held(p, g)' => Held(p, g)
  BY DEF IInv, GensInv, Apart
<1>5. QED
  BY <1>1, <1>2, <1>3, <1>4, CalmStep DEF IInv, InHand

(* A step of a mutation touches its own Profile only.                      *)
OnlyAt(P) ==
    \A p \in Profiles \ {P} :
        /\ profiles'[p].state = profiles[p].state /\ gens'[p] = gens[p]
        /\ journal'[p] = journal[p] /\ \A g \in Generations : Held(p, g)' => Held(p, g)

LEMMA ElsewhereCalm ==
    ASSUME IInv, CalmParts, NEW o \in Ops, NEW t, calls' = [calls EXCEPT ![o] = t],
           NEW P \in Profiles, OnlyAt(P), \A p \in Profiles \ {P} : t.p # p,
           NEW p \in Profiles \ {P}, NEW g \in Generations, Matters(p)', Comes(p, g)'
    PROVE  Known(p, g)'
<1>1. calls'[o] = t /\ \A q \in Ops \ {o} : calls'[q] = calls[q]
  BY Typed DEF IInv
<1>2. ~Brings(o, p, g)' /\ (Held(p, g)' => Comes(p, g))
  BY <1>1 DEF Brings, OnlyAt, Comes
<1>3. Comes(p, g)
  BY <1>1, <1>2, ComesStep
<1>4. Matters(p)
  BY DEF Matters, IsBlocked, OnlyAt
<1>5. QED
  BY <1>3, <1>4 DEF CalmParts, Known, StatusSaved, OnlyAt

LEMMA MutationCalm ==
    ASSUME IInv, CalmParts, NEW o \in Ops, calls[o].pc \in MutationPC,
           NEW pc \in MutationPC, Go(o, pc), boot' = boot, InStep(o)', Emptied(o)',
           NEW P, P = calls[o].p, OnlyAt(P),
           \A g \in Generations : Matters(P)' /\ Comes(P, g)' => Known(P, g)'
    PROVE  CalmParts'
<1> DEFINE t == [calls[o] EXCEPT !.pc = pc]
<1>1. pc \in CallPC
  BY DEF MutationPC, CallPC
<1>2. calls' = [calls EXCEPT ![o] = t] /\ calls'[o] = t
  BY <1>1, CallTypes DEF Go, IInv
<1>3. t.pc = pc /\ t.p = P
  BY <1>1, GoTypes DEF IInv
<1> HIDE DEF t
<1>4. P \in Profiles /\ \A q \in Ops : InHand(q, P) => q = o
  BY CalmMutation
<1>5. \A q \in Ops \ {o} : calls'[q] = calls[q]
  BY <1>2, Typed DEF IInv
<1>6. ASSUME NEW p \in Profiles, NEW g \in Generations, Matters(p)', Comes(p, g)'
      PROVE  Known(p, g)'
  <2>1. CASE p = P
    BY <1>6, <2>1
  <2>2. CASE p # P
    BY <1>2, <1>3, <1>4, <1>6, <2>2, ElsewhereCalm
  <2>3. QED
    BY <2>1, <2>2
<1>7. InHand(o, P)' /\ journal'[P].op = o
  BY <1>2, <1>3 DEF InHand, InStep
<1>8. ASSUME NEW q \in Ops \ {o}, NEW p \in Profiles, InHand(q, p)
      PROVE  /\ journal'[p] = journal[p]
             /\ \A g \in Generations : Holds(q, p, g) /\ Held(p, g)' => Held(p, g)
  BY <1>4, <1>8 DEF OnlyAt
<1>9. ASSUME NEW p \in Profiles, p # P
      PROVE  journal'[p] = journal[p] /\ ~InHand(o, p)
  BY <1>9 DEF OnlyAt, InHand
<1>10. QED
  BY <1>5, <1>6, <1>7, <1>8, <1>9, CalmStep DEF IInv

LEMMA EndCalm ==
    ASSUME IInv, CalmParts, NEW o \in Ops, calls[o].pc \in MutationPC, Return(o),
           boot' = boot, NEW P, P = calls[o].p, OnlyAt(P), ~Open(P)',
           \A g \in Generations : Matters(P)' /\ Comes(P, g)' => Known(P, g)'
    PROVE  CalmParts'
<1>1. calls' = [calls EXCEPT ![o] = IdleCall] /\ calls'[o] = IdleCall
  BY CallTypes DEF Return, IInv
<1>2. IdleCall.pc = "idle" /\ IdleCall.p = NoProfile
  BY DEF IdleCall
<1>3. InStep(o)' /\ Emptied(o)'
  BY <1>1, <1>2 DEF InStep, Emptied, MutationPC, RetiringPC
<1>4. P \in Profiles /\ \A q \in Ops : InHand(q, P) => q = o
  BY CalmMutation
<1>5. \A q \in Ops \ {o} : calls'[q] = calls[q]
  BY <1>1, Typed DEF IInv
<1>6. ASSUME NEW p \in Profiles, NEW g \in Generations, Matters(p)', Comes(p, g)'
      PROVE  Known(p, g)'
  <2>1. CASE p = P
    BY <1>6, <2>1
  <2>2. CASE p # P
    <3>1. \A q \in Profiles \ {P} : IdleCall.p # q
      BY <1>2, Constants
    <3>2. QED
      BY <1>1, <1>4, <1>6, <2>2, <3>1, ElsewhereCalm
  <2>3. QED
    BY <2>1, <2>2
<1>8. ASSUME NEW q \in Ops \ {o}, NEW p \in Profiles, InHand(q, p)
      PROVE  /\ journal'[p] = journal[p]
             /\ \A g \in Generations : Holds(q, p, g) /\ Held(p, g)' => Held(p, g)
  BY <1>4, <1>8 DEF OnlyAt
<1>9. ASSUME NEW p \in Profiles, p # P
      PROVE  journal'[p] = journal[p] /\ ~InHand(o, p)
  BY <1>9 DEF OnlyAt, InHand
<1>10. QED
  BY <1>3, <1>5, <1>6, <1>8, <1>9, CalmStep DEF IInv

(* The generations of the Profile of a mutation come from where they did.  *)
LEMMA ComesAt ==
    ASSUME IInv, CalmParts, NEW o \in Ops, calls[o].pc \in MutationPC,
           \/ Return(o)
           \/ \E pc \in MutationPC \ {"write"} : Go(o, pc),
           NEW P, P = calls[o].p, NEW g \in Generations,
           Held(P, g)' => Comes(P, g), Comes(P, g)'
    PROVE  Comes(P, g)
<1>1. CASE Return(o)
  <2>1. calls'[o] = IdleCall /\ \A q \in Ops \ {o} : calls'[q] = calls[q]
    BY <1>1, Typed DEF Return, IInv
  <2>2. ~Brings(o, P, g)'
    BY <2>1 DEF Brings, IdleCall, RemovalPC
  <2>3. QED
    BY <2>1, <2>2, ComesStep
<1>2. ASSUME NEW pc \in MutationPC \ {"write"}, Go(o, pc)
      PROVE  Comes(P, g)
  <2>1. calls'[o].pc = pc /\ \A q \in Ops \ {o} : calls'[q] = calls[q]
    BY <1>2, Typed DEF Go, IInv, Calls
  <2>2. ~Brings(o, P, g)'
    BY <2>1 DEF Brings, RemovalPC, MutationPC
  <2>3. QED
    BY <2>1, <2>2, ComesStep
<1>3. QED
  BY <1>1, <1>2

(* A generation the call has staged is nobody else's.                      *)
LEMMA StagedComes ==
    ASSUME IInv, CalmParts, NEW o \in Ops, calls[o].pc \in MutationPC \ {"write"},
           Holds(o, calls[o].p, calls[o].staged), Comes(calls[o].p, calls[o].staged)
    PROVE  Held(calls[o].p, calls[o].staged)
<1> DEFINE P == calls[o].p
           g == calls[o].staged
<1>1. ~Refers(P, g) /\ \A q \in Ops : InHand(q, P) => q = o
  BY CalmMutation
<1>2. ASSUME NEW q \in Ops, Brings(q, P, g)
      PROVE  FALSE
  BY <1>1, <1>2 DEF Brings, Refers, InHand, MutationPC
<1>3. QED
  BY <1>2 DEF Comes

(* What the transactions make of the journal and of the statuses.          *)
LEMMA StatusOf ==
    ASSUME TypeInv, NEW P \in Profiles, NEW g \in Generations \cup {NoGen}, NEW st \in GenStatuses
    PROVE  /\ \A h \in Generations : SetStatus(P, g, st)[P][h] = IF h = g THEN st ELSE gens[P][h]
           /\ \A p \in Profiles \ {P} : SetStatus(P, g, st)[p] = gens[p]
<1> DEFINE new == SetStatus(P, g, st)
<1>1. gens \in [Profiles -> [Generations -> GenStatuses]]
  BY Typed DEF TablesTyped
<1>2. CASE g = NoGen
  BY <1>2 DEF SetStatus, NoGen, Generations
<1>3. CASE g # NoGen
  <2>1. new = [gens EXCEPT ![P] = [gens[P] EXCEPT ![g] = st]]
    BY <1>1, <1>3 DEF SetStatus
  <2> HIDE DEF new
  <2>2. new[P] = [gens[P] EXCEPT ![g] = st] /\ \A p \in Profiles \ {P} : new[p] = gens[p]
    BY <1>1, <2>1
  <2>3. QED
    BY <1>1, <2>2 DEF new
<1>4. QED
  BY <1>2, <1>3

LEMMA StatusNow ==
    ASSUME TypeInv, NEW P \in Profiles, NEW g \in Generations \cup {NoGen}, NEW st \in GenStatuses,
           gens' = SetStatus(P, g, st)
    PROVE  /\ \A h \in Generations : gens'[P][h] = IF h = g THEN st ELSE gens[P][h]
           /\ \A p \in Profiles \ {P} : gens'[p] = gens[p]
BY StatusOf

LEMMA PhaseOf ==
    ASSUME TypeInv, NEW P \in Profiles, NEW ph, Transition(P, ph)
    PROVE  /\ journal'[P].phase = ph /\ journal'[P].op = journal[P].op
           /\ journal'[P].old = journal[P].old /\ journal'[P].staged = journal[P].staged
           /\ \A p \in Profiles \ {P} : journal'[p] = journal[p]
<1>1. /\ journal' = [journal EXCEPT ![P] = [journal[P] EXCEPT !.phase = ph]]
      /\ journal[P] \in Records /\ journal \in [Profiles -> Records]
  BY TransitionTypes, Typed DEF TablesTyped
<1>2. journal'[P] = [journal[P] EXCEPT !.phase = ph] /\ \A p \in Profiles \ {P} : journal'[p] = journal[p]
  BY <1>1
<1>3. QED
  BY <1>1, <1>2 DEF Records

(* begin_credential_mutation finds no mutation of the Profile under way.   *)
LEMMA BeginCalm ==
    ASSUME IInv, CalmParts, NEW o \in Ops, BeginMutation(o)
    PROVE  CalmParts'
<1> DEFINE c == calls[o]
<1>1. c.pc = "begin" /\ boot' = boot /\ UNCHANGED <<profiles, vault>> /\ TypeInv
  BY DEF BeginMutation, At, IInv
<1>2. PICK P \in Profiles : P = c.p
  BY <1>1, InMutation
<1>3. c.staged \in Generations
  BY <1>1, InMutation
<1>4. CASE ~MayBegin(P, c.rev, c.gen, c.staged)
  <2>1. calls' = [calls EXCEPT ![o] = IdleCall] /\ UNCHANGED <<journal, gens>>
    BY <1>2, <1>4 DEF BeginMutation, Return
  <2>2. IdleCall.pc \notin MutationPC \cup RemovalPC /\ c.pc \notin MutationPC
    BY <1>1 DEF IdleCall, MutationPC, RemovalPC
  <2>3. \A p : (Matters(p)' => Matters(p)) /\ \A g : Held(p, g)' = Held(p, g)
    BY <1>1, <2>1 DEF Matters, IsBlocked, Held
  <2>4. QED
    BY <1>1, <2>1, <2>2, <2>3, PlainCalm
<1>5. CASE MayBegin(P, c.rev, c.gen, c.staged)
  <2> DEFINE rec == [op |-> o, phase |-> "IntentRecorded", intent |-> c.kind,
                     base |-> c.rev, old |-> c.gen, staged |-> c.staged]
             t   == [calls[o] EXCEPT !.pc = "write"]
  <2>1. /\ journal' = [journal EXCEPT ![P] = rec] /\ Go(o, "write")
        /\ gens' = SetStatus(P, c.staged, "retained")
        /\ journal[P].phase \in Settled
    BY <1>2, <1>5 DEF BeginMutation, Begin, MayBegin
  <2>2. rec.op = o /\ rec.phase = "IntentRecorded"
    OBVIOUS
  <2>3. /\ calls' = [calls EXCEPT ![o] = t] /\ calls'[o] = t
        /\ \A q \in Ops \ {o} : calls'[q] = calls[q]
    BY <1>1, <2>1, CallTypes DEF Go
  <2>4. t.pc = "write" /\ t.p = P /\ t.staged = c.staged
    BY <1>1, <1>2, GoTypes DEF CallPC
  <2> HIDE DEF rec, t
  <2>5. /\ journal'[P].op = o /\ journal'[P].phase = "IntentRecorded"
        /\ \A p \in Profiles \ {P} : journal'[p] = journal[p]
    BY <1>1, <2>1, <2>2, Typed DEF TablesTyped
  <2>6. /\ \A h \in Generations : gens'[P][h] = IF h = c.staged THEN "retained" ELSE gens[P][h]
        /\ \A p \in Profiles \ {P} : gens'[p] = gens[p]
    BY <1>1, <1>3, <2>1, StatusNow DEF GenStatuses
  <2>7. ~\E q \in Ops : InHand(q, P)
    BY <2>1, CalmMutation DEF InHand, Open
  <2>8. InStep(o)' /\ Emptied(o)' /\ InHand(o, P)' /\ \A p : InHand(o, p)' => p = P
    BY <2>3, <2>4, <2>5 DEF InStep, Emptied, InHand, MutationPC, RetiringPC
  <2>9. \A p, g : Held(p, g)' = Held(p, g)
    BY <1>1 DEF Held
  <2>10. OnlyAt(P)
    BY <1>1, <2>5, <2>6, <2>9 DEF OnlyAt
  <2>11. ASSUME NEW g \in Generations, Matters(P)', Comes(P, g)', g # c.staged
         PROVE  Known(P, g)'
    <3>1. ~Brings(o, P, g)'
      BY <2>3, <2>4, <2>11 DEF Brings, RemovalPC
    <3>2. Comes(P, g)
      BY <2>3, <2>9, <2>11, <3>1, ComesStep DEF Comes
    <3>3. Matters(P)
      BY <1>1, <2>1, <2>11 DEF Matters, IsBlocked, Settled
    <3>4. StatusSaved(P, g)
      BY <2>1, <3>2, <3>3 DEF CalmParts, Known, Settled
    <3>5. QED
      BY <2>6, <2>11, <3>4 DEF Known, StatusSaved
  <2>12. ASSUME NEW p \in Profiles, NEW g \in Generations, Matters(p)', Comes(p, g)'
         PROVE  Known(p, g)'
    <3>1. CASE p # P
      BY <2>3, <2>4, <2>10, <2>12, <3>1, ElsewhereCalm
    <3>2. CASE p = P /\ g = c.staged
      BY <1>3, <2>6, <3>2 DEF Known, StatusSaved
    <3>3. CASE p = P /\ g # c.staged
      BY <2>11, <2>12, <3>3
    <3>4. QED
      BY <3>1, <3>2, <3>3
  <2>13. ASSUME NEW q \in Ops \ {o}, NEW p \in Profiles, InHand(q, p)
         PROVE  /\ journal'[p] = journal[p]
                /\ \A g \in Generations : Holds(q, p, g) /\ Held(p, g)' => Held(p, g)
    BY <2>5, <2>7, <2>9, <2>13
  <2>14. \A p \in Profiles \ {P} : journal'[p] = journal[p] /\ ~InHand(o, p)
    BY <1>1, <2>5 DEF InHand, MutationPC
  <2>15. QED
    BY <1>1, <2>3, <2>5, <2>8, <2>12, <2>13, <2>14, CalmStep
<1>6. QED
  BY <1>4, <1>5

(* A step of a mutation outside the transactions.                          *)
LEMMA GoNow ==
    ASSUME TypeInv, NEW o \in Ops, NEW pc \in MutationPC, Go(o, pc)
    PROVE  /\ calls'[o].pc = pc /\ calls'[o].p = calls[o].p /\ calls'[o].kind = calls[o].kind
           /\ calls'[o].staged = calls[o].staged /\ calls'[o].gen = calls[o].gen
<1>1. pc \in CallPC
  BY DEF MutationPC, CallPC
<1>2. calls'[o] = [calls[o] EXCEPT !.pc = pc]
  BY CallTypes DEF Go
<1>3. QED
  BY <1>1, <1>2, GoTypes

LEMMA OutsideCalm ==
    ASSUME IInv, CalmParts, NEW o \in Ops, calls[o].pc \in MutationPC,
           NEW pc \in MutationPC \ {"write"}, Go(o, pc), boot' = boot,
           UNCHANGED <<profiles, journal, gens>>,
           \/ vault' \subseteq vault
           \/ Put(calls[o].p, calls[o].staged) /\ calls[o].pc = "write",
           InStep(o)', Emptied(o)'
    PROVE  CalmParts'
<1>1. PICK P \in Profiles : P = calls[o].p
  BY CalmMutation
<1>2. \A p, g : Held(p, g)' => Held(p, g) \/ p = P
  BY <1>1 DEF Held, Put
<1>3. OnlyAt(P)
  BY <1>2 DEF OnlyAt
<1>4. ASSUME NEW g \in Generations, Matters(P)', Comes(P, g)'
      PROVE  Known(P, g)'
  <2>1. Held(P, g)' => Held(P, g) \/ Brings(o, P, g)
    BY <1>1 DEF Held, Put, Brings
  <2>2. Held(P, g)' => Comes(P, g)
    BY <2>1 DEF Comes
  <2>3. Comes(P, g)
    BY <1>1, <1>4, <2>2, ComesAt
  <2>4. QED
    BY <1>4, <2>3 DEF CalmParts, Matters, IsBlocked, Known, StatusSaved
<1>5. QED
  BY <1>1, <1>3, <1>4, MutationCalm

LEMMA VaultCalm ==
    ASSUME IInv, CalmParts, NEW o \in Ops,
           \/ WriteVault(o) \/ UndoVaultWrite(o) \/ ReadRunReferences(o)
           \/ ReadActiveReference(o) \/ RetireVault(o) \/ DeleteRollbackCopy(o)
    PROVE  CalmParts'
<1> DEFINE c == calls[o]
<1> USE DEF At
<1>1. /\ c.pc \in MutationPC /\ boot' = boot /\ UNCHANGED <<profiles, journal, gens>>
      /\ TypeInv
  BY DEF WriteVault, UndoVaultWrite, ReadRunReferences, ReadActiveReference, RetireVault,
         DeleteRollbackCopy, MutationPC, tables, IInv
<1>2. /\ InStep(o) /\ journal[c.p].op = o /\ Open(c.p) /\ c.kind \in Intents
      /\ CallOK(o)
  BY <1>1, CalmMutation DEF CalmParts, IInv, CallInv
<1>3. ASSUME NEW pc \in MutationPC \ {"write"}, Go(o, pc),
             \/ vault' \subseteq vault
             \/ Put(c.p, c.staged) /\ c.pc = "write",
             pc \in {"record", "undo"} => c.pc = "write",
             pc = "undoStore" => c.pc = "undo" /\ <<c.p, c.staged>> \notin vault',
             pc = "complete" /\ c.kind = "delete" => <<c.p, c.staged>> \notin vault',
             pc \in RetiringPC \cup {"cleanup", "complete"} =>
                c.pc \in RetiringPC \cup {"cleanup"},
             pc # "commit"
      PROVE  CalmParts'
  <2>1. /\ calls'[o].pc = pc /\ calls'[o].p = c.p /\ calls'[o].kind = c.kind
        /\ calls'[o].staged = c.staged
    BY <1>1, <1>3, GoNow
  <2>2. PICK P \in Profiles : P = c.p
    BY <1>1, CalmMutation
  <2>3. InStep(o)'
    BY <1>1, <1>2, <1>3, <2>1, <2>2 DEF InStep, RetiringPC, Open
  <2>4. Emptied(o)'
    BY <1>3, <2>1 DEF Emptied, Held
  <2>5. QED
    BY <1>1, <1>3, <2>3, <2>4, OutsideCalm
<1>4. CASE WriteVault(o)
  <2>1. /\ c.pc = "write"
        /\ \/ Put(c.p, c.staged) /\ Go(o, "record")
           \/ Go(o, "undo") /\ vault' = vault
    BY <1>4 DEF WriteVault
  <2>2. QED
    BY <1>3, <2>1 DEF MutationPC, RetiringPC
<1>5. CASE UndoVaultWrite(o)
  <2>1. c.pc = "undo" /\ Remove(c.p, c.staged) /\ Go(o, "undoStore")
    BY <1>5 DEF UndoVaultWrite
  <2>2. vault' \subseteq vault /\ <<c.p, c.staged>> \notin vault'
    BY <2>1 DEF Remove
  <2>3. QED
    BY <1>3, <2>1, <2>2 DEF MutationPC, RetiringPC
<1>6. CASE ReadRunReferences(o)
  <2>1. /\ c.pc = "refs" /\ vault' \subseteq vault
        /\ Go(o, AfterCleanup(c.kind)) \/ Go(o, "activeRef")
    BY <1>6 DEF ReadRunReferences, tables
  <2>2. AfterCleanup(c.kind) = IF c.kind = "delete" THEN "cleanup" ELSE "complete"
    BY DEF AfterCleanup
  <2>3. QED
    BY <1>3, <2>1, <2>2 DEF MutationPC, RetiringPC
<1>7. CASE ReadActiveReference(o)
  <2>1. /\ c.pc = "activeRef" /\ vault' \subseteq vault
        /\ Go(o, AfterCleanup(c.kind)) \/ Go(o, "block") \/ Go(o, "retire")
    BY <1>7 DEF ReadActiveReference, tables
  <2>2. AfterCleanup(c.kind) = IF c.kind = "delete" THEN "cleanup" ELSE "complete"
    BY DEF AfterCleanup
  <2>3. QED
    BY <1>3, <2>1, <2>2 DEF MutationPC, RetiringPC
<1>8. CASE RetireVault(o)
  <2>1. c.pc = "retire" /\ vault' \subseteq vault /\ Go(o, "retireStore")
    BY <1>8 DEF RetireVault, Remove
  <2>2. QED
    BY <1>3, <2>1 DEF MutationPC, RetiringPC
<1>9. CASE DeleteRollbackCopy(o)
  <2>1. c.pc = "cleanup" /\ Remove(c.p, c.staged) /\ Go(o, "complete")
    BY <1>9 DEF DeleteRollbackCopy
  <2>2. vault' \subseteq vault /\ <<c.p, c.staged>> \notin vault'
    BY <2>1 DEF Remove
  <2>3. QED
    BY <1>3, <2>1, <2>2 DEF MutationPC, RetiringPC
<1>10. QED
  BY <1>4, <1>5, <1>6, <1>7, <1>8, <1>9

LEMMA ToBlockCalm ==
    ASSUME IInv, CalmParts, NEW o \in Ops, calls[o].pc \in MutationPC, Go(o, "block"),
           boot' = boot, UNCHANGED <<profiles, journal, gens, vault>>
    PROVE  CalmParts'
<1>1. "block" \in MutationPC \ {"write"}
  BY DEF MutationPC
<1>2. /\ calls'[o].pc = "block" /\ calls'[o].p = calls[o].p
  BY <1>1, GoNow DEF IInv
<1>3. journal[calls[o].p].op = o /\ Open(calls[o].p)
  BY CalmMutation
<1>4. InStep(o)' /\ Emptied(o)'
  BY <1>2, <1>3 DEF InStep, Emptied, Open, RetiringPC
<1>5. QED
  BY <1>1, <1>4, OutsideCalm

(* The transactions on the record of a mutation.                           *)
LEMMA RecordCalm ==
    ASSUME IInv, CalmParts, NEW o \in Ops, RecordVaultWrite(o)
    PROVE  CalmParts'
<1>1. /\ calls[o].pc = "record" /\ calls[o].pc \in MutationPC /\ boot' = boot
      /\ UNCHANGED <<profiles, vault>> /\ TypeInv
  BY DEF RecordVaultWrite, At, MutationPC, IInv
<1>2. PICK P \in Profiles : P = calls[o].p
  BY <1>1, CalmMutation
<1>3. CASE ~MayRecordWrite(P, o)
  BY <1>1, <1>2, <1>3, ToBlockCalm DEF RecordVaultWrite
<1>4. CASE MayRecordWrite(P, o)
  <2>1. Transition(P, "VaultWritten") /\ gens' = SetStatus(P, journal[P].staged, "available")
        /\ Go(o, "commit") /\ journal[P].phase = "IntentRecorded"
    BY <1>2, <1>4 DEF RecordVaultWrite, RecordWrite, MayRecordWrite, InPhase
  <2>2. /\ journal'[P].phase = "VaultWritten" /\ journal'[P].op = o
        /\ \A p \in Profiles \ {P} : journal'[p] = journal[p]
    BY <1>1, <1>2, <2>1, PhaseOf, CalmMutation
  <2>3. /\ \A h \in Generations : gens'[P][h] = IF h = journal[P].staged THEN "available" ELSE gens[P][h]
        /\ \A p \in Profiles \ {P} : gens'[p] = gens[p]
    BY <1>1, <2>1, JournalTypes, StatusNow DEF GenStatuses
  <2>4. "commit" \in MutationPC \ {"write"}
    BY DEF MutationPC
  <2>5. calls'[o].pc = "commit" /\ calls'[o].p = P
    BY <1>1, <1>2, <2>1, <2>4, GoNow
  <2>6. InStep(o)' /\ Emptied(o)'
    BY <2>2, <2>5 DEF InStep, Emptied, RetiringPC
  <2>7. \A p, g : Held(p, g)' = Held(p, g)
    BY <1>1 DEF Held
  <2>8. OnlyAt(P)
    BY <1>1, <2>2, <2>3, <2>7 DEF OnlyAt
  <2>9. ASSUME NEW g \in Generations, Matters(P)', Comes(P, g)'
        PROVE  Known(P, g)'
    <3>1. Comes(P, g)
      BY <1>1, <1>2, <2>1, <2>4, <2>7, <2>9, ComesAt DEF Comes
    <3>2. Matters(P)
      BY <1>1, <2>1, <2>9 DEF Matters, IsBlocked
    <3>3. StatusSaved(P, g)
      BY <2>1, <3>1, <3>2 DEF CalmParts, Known
    <3>4. QED
      BY <2>3, <3>3 DEF Known, StatusSaved
  <2>10. QED
    BY <1>1, <1>2, <2>1, <2>4, <2>6, <2>8, <2>9, MutationCalm
<1>5. QED
  BY <1>3, <1>4

LEMMA PointerCalm ==
    ASSUME IInv, CalmParts, NEW o \in Ops, CommitCredentialPointer(o)
    PROVE  CalmParts'
<1> DEFINE c == calls[o]
<1>1. /\ c.pc = "commit" /\ c.pc \in MutationPC /\ boot' = boot
      /\ UNCHANGED vault /\ TypeInv
  BY DEF CommitCredentialPointer, At, MutationPC, IInv
<1>2. PICK P \in Profiles : P = c.p
  BY <1>1, CalmMutation
<1>3. InPhase(P, o, {"VaultWritten"}) /\ journal[P].op = o /\ journal[P].phase = "VaultWritten"
      /\ journal[P].old = c.gen
  BY <1>1, <1>2, CalmMutation DEF InPhase, CalmParts, InStep
<1>4. \A p, g : Held(p, g)' = Held(p, g)
  BY <1>1 DEF Held
<1>5. CASE ~PointerStale(P)
  <2> DEFINE pc == IF c.gen # NoGen THEN "refs" ELSE AfterCleanup(c.kind)
  <2>1. CommitPointer(P, c.model) /\ Go(o, pc)
    BY <1>2, <1>3, <1>5 DEF CommitCredentialPointer
  <2>2. pc \in MutationPC \ {"write"} /\ pc \in {"refs", "cleanup", "complete"}
        /\ (pc = "complete" => c.kind # "delete")
    BY DEF AfterCleanup, MutationPC
  <2> HIDE DEF pc
  <2>3. Transition(P, "PointerCommitted") /\ (\E row : profiles' = [profiles EXCEPT ![P] = row])
    BY <2>1 DEF CommitPointer
  <2>4. /\ journal'[P].phase = "PointerCommitted" /\ journal'[P].op = o
        /\ journal'[P].old = c.gen
        /\ \A p \in Profiles \ {P} : journal'[p] = journal[p]
    BY <1>1, <1>3, <2>3, PhaseOf
  <2>5. /\ \A h \in Generations : h # c.gen => gens'[P][h] = gens[P][h]
        /\ \A p \in Profiles \ {P} : gens'[p] = gens[p]
    <3>1. gens' = SetStatus(P, journal[P].old, "retained") \/ gens' = gens
      BY <2>1 DEF CommitPointer
    <3>2. CASE gens' = gens
      BY <3>2
    <3>3. CASE gens' = SetStatus(P, journal[P].old, "retained")
      BY <1>1, <1>3, <3>3, JournalTypes, StatusNow DEF GenStatuses
    <3>4. QED
      BY <3>1, <3>2, <3>3
  <2>6. calls'[o].pc = pc /\ calls'[o].p = P /\ calls'[o].kind = c.kind
    BY <1>1, <1>2, <2>1, <2>2, GoNow
  <2>7. InStep(o)' /\ Emptied(o)'
    BY <2>2, <2>4, <2>6 DEF InStep, Emptied, RetiringPC
  <2>8. \A p \in Profiles \ {P} : profiles'[p] = profiles[p]
    BY <1>1, <2>3, Typed DEF TablesTyped
  <2>9. OnlyAt(P)
    BY <1>4, <2>4, <2>5, <2>8 DEF OnlyAt
  <2>10. ASSUME NEW g \in Generations, Matters(P)', Comes(P, g)'
         PROVE  Known(P, g)'
    <3>1. Comes(P, g)
      BY <1>1, <1>2, <1>4, <2>1, <2>2, <2>10, ComesAt DEF Comes
    <3>2. Matters(P)
      BY <1>3, <1>5 DEF Matters, IsBlocked, PointerStale, Exists
    <3>3. StatusSaved(P, g)
      BY <1>3, <3>1, <3>2 DEF CalmParts, Known
    <3>4. QED
      BY <2>4, <2>5, <3>3 DEF Known, StatusSaved
  <2>11. QED
    BY <1>1, <1>2, <2>1, <2>2, <2>7, <2>9, <2>10, MutationCalm
<1>6. CASE PointerStale(P)
  <2>1. Transition(P, "CleanupPending") /\ Go(o, "undo") /\ UNCHANGED <<profiles, gens>>
    BY <1>2, <1>3, <1>6 DEF CommitCredentialPointer
  <2>2. /\ journal'[P].phase = "CleanupPending" /\ journal'[P].op = o
        /\ \A p \in Profiles \ {P} : journal'[p] = journal[p]
    BY <1>1, <1>3, <2>1, PhaseOf
  <2>3. "undo" \in MutationPC \ {"write"}
    BY DEF MutationPC
  <2>4. calls'[o].pc = "undo" /\ calls'[o].p = P
    BY <1>1, <1>2, <2>1, <2>3, GoNow
  <2>5. InStep(o)' /\ Emptied(o)'
    BY <2>2, <2>4 DEF InStep, Emptied, RetiringPC
  <2>6. OnlyAt(P)
    BY <1>4, <2>1, <2>2 DEF OnlyAt
  <2>7. ASSUME NEW g \in Generations, Matters(P)', Comes(P, g)'
        PROVE  Known(P, g)'
    <3>1. Comes(P, g)
      BY <1>1, <1>2, <1>4, <2>1, <2>3, <2>7, ComesAt DEF Comes
    <3>2. Matters(P)
      BY <1>3, <2>1, <2>7 DEF Matters, IsBlocked
    <3>3. StatusSaved(P, g)
      BY <1>3, <3>1, <3>2 DEF CalmParts, Known
    <3>4. QED
      BY <2>1, <3>3 DEF Known, StatusSaved
  <2>8. QED
    BY <1>1, <1>2, <2>1, <2>3, <2>5, <2>6, <2>7, MutationCalm
<1>7. QED
  BY <1>5, <1>6

LEMMA UndoCalm ==
    ASSUME IInv, CalmParts, NEW o \in Ops, UndoJournal(o)
    PROVE  CalmParts'
<1>1. /\ calls[o].pc = "undoStore" /\ calls[o].pc \in MutationPC /\ boot' = boot
      /\ UNCHANGED <<profiles, vault>> /\ TypeInv
  BY DEF UndoJournal, At, MutationPC, IInv
<1>2. PICK P \in Profiles : P = calls[o].p
  BY <1>1, CalmMutation
<1>3. MayRollback(P, o) /\ journal[P].phase \in {"IntentRecorded", "CleanupPending"}
      /\ journal[P].staged = calls[o].staged /\ ~Held(P, calls[o].staged)
  BY <1>1, <1>2, CalmMutation DEF CalmParts, InStep, Emptied, MayRollback, InPhase
<1>4. Rollback(P) /\ Return(o)
  BY <1>2, <1>3 DEF UndoJournal
<1>5. /\ journal'[P].phase = "RolledBack"
      /\ \A p \in Profiles \ {P} : journal'[p] = journal[p]
  BY <1>1, <1>4, PhaseOf DEF Rollback
<1>6. /\ \A h \in Generations : gens'[P][h] = IF h = calls[o].staged THEN "deleted" ELSE gens[P][h]
      /\ \A p \in Profiles \ {P} : gens'[p] = gens[p]
  <2>1. gens' = SetStatus(P, calls[o].staged, "deleted")
        /\ calls[o].staged \in Generations \cup {NoGen}
    BY <1>1, <1>3, <1>4, CallTypes DEF Rollback
  <2>2. QED
    BY <1>1, <2>1, StatusNow DEF GenStatuses
<1>7. \A p, g : Held(p, g)' = Held(p, g)
  BY <1>1 DEF Held
<1>8. OnlyAt(P) /\ ~Open(P)'
  BY <1>1, <1>5, <1>6, <1>7 DEF OnlyAt, Open, Settled
<1>9. ASSUME NEW g \in Generations, Matters(P)', Comes(P, g)'
      PROVE  Known(P, g)'
  <2>1. Comes(P, g)
    BY <1>1, <1>2, <1>4, <1>7, <1>9, ComesAt DEF Comes
  <2>2. Matters(P)
    BY <1>1, <1>3, <1>9 DEF Matters, IsBlocked
  <2>3. StatusSaved(P, g)
    BY <1>3, <2>1, <2>2 DEF CalmParts, Known
  <2>4. g # calls[o].staged
    <3>1. Holds(o, calls[o].p, calls[o].staged)
      BY <1>1 DEF Holds, StagingPC
    <3>2. calls[o].pc \in MutationPC \ {"write"}
      BY <1>1
    <3>3. QED
      BY <1>2, <1>3, <2>1, <3>1, <3>2, StagedComes
  <2>5. QED
    BY <1>6, <2>3, <2>4 DEF Known, StatusSaved
<1>10. QED
  BY <1>1, <1>2, <1>4, <1>8, <1>9, EndCalm

LEMMA RetireCalm ==
    ASSUME IInv, CalmParts, NEW o \in Ops, RetireStatus(o)
    PROVE  CalmParts'
<1> DEFINE c == calls[o]
           pc == AfterCleanup(c.kind)
<1>1. /\ c.pc = "retireStore" /\ c.pc \in MutationPC /\ c.pc \in RetiringPC /\ boot' = boot
      /\ UNCHANGED <<profiles, journal, vault>> /\ TypeInv
  BY DEF RetireStatus, At, MutationPC, RetiringPC, IInv
<1>2. PICK P \in Profiles : P = c.p
  BY <1>1, CalmMutation
<1>3. CASE ~MayRetire(P, c.gen)
  BY <1>1, <1>2, <1>3, ToBlockCalm DEF RetireStatus
<1>4. CASE MayRetire(P, c.gen)
  <2>1. gens' = SetStatus(P, c.gen, "deleted") /\ Go(o, pc)
    BY <1>2, <1>4 DEF RetireStatus
  <2>2. pc \in MutationPC \ {"write"} /\ pc \in {"cleanup", "complete"}
        /\ (pc = "complete" => c.kind # "delete")
    BY DEF AfterCleanup, MutationPC
  <2> HIDE DEF pc
  <2>3. /\ journal[P].phase = "PointerCommitted" /\ journal[P].op = o
        /\ journal[P].old = c.gen
    BY <1>1, <1>2, CalmMutation DEF CalmParts, InStep
  <2>4. /\ \A h \in Generations : h # c.gen => gens'[P][h] = gens[P][h]
        /\ \A p \in Profiles \ {P} : gens'[p] = gens[p]
    BY <1>1, <2>1, InMutation, StatusNow DEF GenStatuses
  <2>5. calls'[o].pc = pc /\ calls'[o].p = P /\ calls'[o].kind = c.kind
    BY <1>1, <1>2, <2>1, <2>2, GoNow
  <2>6. InStep(o)' /\ Emptied(o)'
    BY <1>1, <2>2, <2>3, <2>5 DEF InStep, Emptied, RetiringPC
  <2>7. \A p, g : Held(p, g)' = Held(p, g)
    BY <1>1 DEF Held
  <2>8. OnlyAt(P)
    BY <1>1, <2>4, <2>7 DEF OnlyAt
  <2>9. ASSUME NEW g \in Generations, Matters(P)', Comes(P, g)'
        PROVE  Known(P, g)'
    <3>1. Comes(P, g)
      BY <1>1, <1>2, <2>1, <2>2, <2>7, <2>9, ComesAt DEF Comes
    <3>2. Known(P, g)
      BY <1>1, <2>9, <3>1 DEF CalmParts, Matters, IsBlocked
    <3>3. QED
      BY <1>1, <2>3, <2>4, <3>2 DEF Known, StatusSaved
  <2>10. QED
    BY <1>1, <1>2, <2>1, <2>2, <2>6, <2>8, <2>9, MutationCalm
<1>5. QED
  BY <1>3, <1>4

LEMMA CompleteCalm ==
    ASSUME IInv, CalmParts, NEW o \in Ops, CompleteMutation(o)
    PROVE  CalmParts'
<1> DEFINE c == calls[o]
<1>1. /\ c.pc = "complete" /\ c.pc \in MutationPC /\ boot' = boot
      /\ UNCHANGED <<profiles, vault>> /\ TypeInv
  BY DEF CompleteMutation, At, MutationPC, IInv
<1>2. PICK P \in Profiles : P = c.p
  BY <1>1, CalmMutation
<1> DEFINE rec == journal[P]
<1>3. /\ InPhase(P, o, {"PointerCommitted"})
      /\ rec.intent = c.kind /\ rec.old = c.gen /\ rec.staged = c.staged
      /\ c.staged \in Generations /\ c.gen \in Generations \cup {NoGen}
      /\ c.kind = "delete" => ~Held(P, c.staged)
  BY <1>1, <1>2, CalmMutation, CallTypes DEF CalmParts, InStep, Emptied, InPhase
<1>4. Complete(P) /\ Return(o)
  BY <1>2, <1>3 DEF CompleteMutation
<1>5. /\ journal'[P].phase = "Completed"
      /\ \A p \in Profiles \ {P} : journal'[p] = journal[p]
  BY <1>1, <1>4, PhaseOf DEF Complete
<1> DEFINE new == SetStatus(P, c.gen, "retained")
<1>6. /\ \A h \in Generations : new[P][h] = IF h = c.gen THEN "retained" ELSE gens[P][h]
      /\ \A p \in Profiles \ {P} : new[p] = gens[p]
      /\ new \in [Profiles -> [Generations -> GenStatuses]]
  <2>1. "retained" \in GenStatuses /\ c.gen \in Generations \cup {NoGen}
    BY <1>3 DEF GenStatuses
  <2>2. new \in [Profiles -> [Generations -> GenStatuses]]
    BY <1>1, <2>1, SetStatusTypes
  <2>3. /\ \A h \in Generations : new[P][h] = IF h = c.gen THEN "retained" ELSE gens[P][h]
        /\ \A p \in Profiles \ {P} : new[p] = gens[p]
    BY <1>1, <2>1, StatusOf
  <2>4. QED
    BY <2>2, <2>3
<1>7. gens' = IF c.kind = "delete" THEN [new EXCEPT ![P][c.staged] = "deleted"] ELSE new
  BY <1>3, <1>4 DEF Complete
<1> HIDE DEF new
<1>8. /\ \A h \in Generations :
            gens'[P][h] = IF c.kind = "delete" /\ h = c.staged THEN "deleted"
                          ELSE IF h = c.gen THEN "retained" ELSE gens[P][h]
      /\ \A p \in Profiles \ {P} : gens'[p] = gens[p]
  <2>1. CASE c.kind # "delete"
    BY <1>6, <1>7, <2>1
  <2>2. CASE c.kind = "delete"
    <3>1. gens' = [new EXCEPT ![P] = [new[P] EXCEPT ![c.staged] = "deleted"]]
      BY <1>3, <1>6, <1>7, <2>2
    <3>2. gens'[P] = [new[P] EXCEPT ![c.staged] = "deleted"]
          /\ \A p \in Profiles \ {P} : gens'[p] = new[p]
      BY <1>6, <3>1
    <3>3. QED
      BY <1>3, <1>6, <2>2, <3>2
  <2>3. QED
    BY <2>1, <2>2
<1>9. \A p, g : Held(p, g)' = Held(p, g)
  BY <1>1 DEF Held
<1>10. OnlyAt(P) /\ ~Open(P)'
  BY <1>1, <1>5, <1>8, <1>9 DEF OnlyAt, Open, Settled
<1>11. ASSUME NEW g \in Generations, Matters(P)', Comes(P, g)'
       PROVE  Known(P, g)'
  <2>1. Comes(P, g)
    BY <1>1, <1>2, <1>4, <1>9, <1>11, ComesAt DEF Comes
  <2>2. Matters(P)
    BY <1>1, <1>3, <1>11 DEF Matters, IsBlocked, InPhase
  <2>3. StatusSaved(P, g) \/ g = c.gen
    BY <1>3, <2>1, <2>2 DEF CalmParts, Known
  <2>4. ~(c.kind = "delete" /\ g = c.staged)
    <3> SUFFICES ASSUME c.kind = "delete", g = c.staged
                 PROVE  FALSE
      OBVIOUS
    <3>1. Holds(o, c.p, c.staged)
      BY <1>1 DEF Holds
    <3>2. c.pc \in MutationPC \ {"write"}
      BY <1>1
    <3>3. QED
      BY <1>2, <1>3, <2>1, <3>1, <3>2, StagedComes
  <2>5. gens'[P][g] = IF g = c.gen THEN "retained" ELSE gens[P][g]
    BY <1>8, <2>4
  <2>6. QED
    BY <2>3, <2>5 DEF Known, StatusSaved
<1>12. QED
  BY <1>1, <1>2, <1>4, <1>10, <1>11, EndCalm

LEMMA BlockCalm ==
    ASSUME IInv, CalmParts, NEW o \in Ops, BlockMutation(o)
    PROVE  CalmParts'
<1>1. /\ calls[o].pc = "block" /\ calls[o].pc \in MutationPC /\ boot' = boot /\ Return(o)
      /\ UNCHANGED <<profiles, vault>> /\ TypeInv
  BY DEF BlockMutation, At, MutationPC, IInv
<1>2. PICK P \in Profiles : P = calls[o].p
  BY <1>1, CalmMutation
<1>3. journal[P].op = o /\ Open(P)
  BY <1>1, <1>2, CalmMutation
<1>4. Block(P)
  BY <1>1, <1>2, <1>3 DEF BlockMutation
<1>5. /\ journal'[P].phase = "Blocked"
      /\ \A p \in Profiles \ {P} : journal'[p] = journal[p]
  BY <1>1, <1>4, PhaseOf DEF Block
<1>6. \A p \in Profiles \ {P} : gens'[p] = gens[p]
  BY <1>1, <1>4, JournalTypes, StatusNow DEF Block, GenStatuses
<1>7. OnlyAt(P) /\ ~Open(P)' /\ ~Matters(P)'
  BY <1>1, <1>5, <1>6 DEF OnlyAt, Open, Matters, IsBlocked, Held
<1>8. \A g \in Generations : Matters(P)' /\ Comes(P, g)' => Known(P, g)'
  BY <1>7
<1>9. QED
  BY <1>1, <1>2, <1>7, <1>8, EndCalm

LEMMA MutationsCalm ==
    ASSUME IInv, CalmParts, NEW o \in Ops, Mutation(o)
    PROVE  CalmParts'
BY BeginCalm, VaultCalm, RecordCalm, PointerCalm, UndoCalm, RetireCalm, CompleteCalm, BlockCalm
   DEF Mutation

(* A step of a call that leaves secrets and records alone.                 *)
LEMMA ReadCalm ==
    ASSUME IInv, CalmParts, NEW o \in Ops, NEW t, calls' = [calls EXCEPT ![o] = t],
           calls[o].pc \notin MutationPC, t.pc \notin MutationPC \cup RemovalPC,
           UNCHANGED <<boot, journal, gens, vault>>,
           \A p \in Profiles : profiles'[p].state # "Deleted" => profiles[p].state # "Deleted"
    PROVE  CalmParts'
<1>1. \A p \in Profiles, g \in Generations :
         /\ Held(p, g)' = Held(p, g)
         /\ ~(t.p = p /\ t.pc \in RemovalPC /\ t.gen = g)
  BY DEF Held
<1>2. \A p \in Profiles : Matters(p)' => Matters(p)
  BY DEF Matters, IsBlocked
<1>3. QED
  BY <1>1, <1>2, PlainCalm

LEMMA SavedRow ==
    ASSUME NEW P, NEW seen, NEW m, NEW g, SaveRevision(P, seen, m, g), TypeInv
    PROVE  \A p \in Profiles : profiles'[p].state # "Deleted" => profiles[p].state # "Deleted"
<1>1. profiles[P].state # "Deleted" /\ \E row : profiles' = [profiles EXCEPT ![P] = row]
  BY DEF SaveRevision
<1>2. \A p \in Profiles : p # P => profiles'[p] = profiles[p]
  BY <1>1, Typed DEF TablesTyped
<1>3. QED
  BY <1>1, <1>2

LEMMA StartCalm ==
    ASSUME IInv, CalmParts, NEW o \in Ops, Start(o)
    PROVE  CalmParts'
<1>1. TypeInv /\ calls \in [Ops -> Calls] /\ profiles \in [Profiles -> ProfileRows]
  BY Typed DEF IInv, TablesTyped
<1>2. ASSUME NEW kind, NEW t, Call(o, kind, t), t.pc \notin MutationPC \cup RemovalPC,
             [t EXCEPT !.kind = kind].pc = t.pc, UNCHANGED <<tables, boot>>
      PROVE  CalmParts'
  <2> DEFINE u == [t EXCEPT !.kind = kind]
  <2>1. calls' = [calls EXCEPT ![o] = u] /\ calls[o].pc \notin MutationPC
    BY <1>2 DEF Call, At, MutationPC
  <2>2. u.pc = t.pc
    BY <1>2
  <2> HIDE DEF u
  <2>3. QED
    BY <1>2, <2>1, <2>2, ReadCalm DEF tables
<1>3. ASSUME NEW p \in Profiles, StartMutation(o, p)
      PROVE  CalmParts'
  <2>1. PICK kind, g : /\ Call(o, kind, [IdleCall EXCEPT
                            !.pc = "begin", !.p = p, !.rev = profiles[p].rev,
                            !.gen = profiles[p].gen, !.model = profiles[p].model,
                            !.staged = g])
                       /\ UNCHANGED <<tables, boot>>
    BY <1>3 DEF StartMutation
  <2> DEFINE t == [IdleCall EXCEPT !.pc = "begin", !.p = p, !.rev = profiles[p].rev,
                            !.gen = profiles[p].gen, !.model = profiles[p].model,
                            !.staged = g]
  <2>2. t.pc = "begin" /\ [t EXCEPT !.kind = kind].pc = t.pc
    BY DEF IdleCall
  <2> HIDE DEF t
  <2>3. Call(o, kind, t)
    BY <2>1 DEF t
  <2>4. QED
    BY <1>2, <2>1, <2>2, <2>3 DEF MutationPC, RemovalPC
<1>4. ASSUME NEW p \in Profiles, SaveProfile(o, p)
      PROVE  CalmParts'
  <2>1. calls[o].pc = "idle" /\ calls' = calls /\ UNCHANGED <<boot, journal, gens, vault>>
        /\ \E m : SaveRevision(p, profiles[p].rev, m, profiles[p].gen)
    BY <1>4 DEF SaveProfile, At
  <2>2. \A q \in Profiles : profiles'[q].state # "Deleted" => profiles[q].state # "Deleted"
    BY <1>1, <2>1, SavedRow
  <2> DEFINE t == calls[o]
  <2>3. calls' = [calls EXCEPT ![o] = t] /\ t.pc \notin MutationPC \cup RemovalPC
    BY <1>1, <2>1 DEF MutationPC, RemovalPC
  <2>4. QED
    BY <2>1, <2>2, <2>3, ReadCalm
<1>5. ASSUME NEW p \in Profiles, StartValidation(o, p)
      PROVE  CalmParts'
  <2> DEFINE t == [IdleCall EXCEPT !.pc = "probe", !.p = p, !.rev = profiles[p].rev,
                      !.gen = profiles[p].gen, !.model = profiles[p].model]
  <2>1. t.pc = "probe" /\ [t EXCEPT !.kind = "validate"].pc = t.pc
    BY DEF IdleCall
  <2>2. Call(o, "validate", t) /\ UNCHANGED <<tables, boot>>
    BY <1>5 DEF StartValidation
  <2> HIDE DEF t
  <2>3. QED
    BY <1>2, <2>1, <2>2 DEF MutationPC, RemovalPC
<1>6. ASSUME NEW p \in Profiles, NEW m \in Models, StartSwitch(o, p, m)
      PROVE  CalmParts'
  <2> DEFINE t == [IdleCall EXCEPT !.pc = "fresh", !.p = p, !.rev = profiles[p].rev,
                      !.model = m, !.seen = active]
  <2>1. t.pc = "fresh" /\ [t EXCEPT !.kind = "switch"].pc = t.pc
    BY DEF IdleCall
  <2>2. Call(o, "switch", t) /\ UNCHANGED <<tables, boot>>
    BY <1>6 DEF StartSwitch
  <2> HIDE DEF t
  <2>3. QED
    BY <1>2, <2>1, <2>2 DEF MutationPC, RemovalPC
<1>7. ASSUME NEW p \in Profiles, StartActivation(o, p)
      PROVE  CalmParts'
  <2> DEFINE t == [IdleCall EXCEPT !.pc = "expect", !.p = p, !.rev = profiles[p].rev,
                                   !.model = profiles[p].model]
  <2>1. t.pc = "expect" /\ [t EXCEPT !.kind = "activate"].pc = t.pc
    BY DEF IdleCall
  <2>2. Call(o, "activate", t) /\ UNCHANGED <<tables, boot>>
    BY <1>7 DEF StartActivation
  <2> HIDE DEF t
  <2>3. QED
    BY <1>2, <2>1, <2>2 DEF MutationPC, RemovalPC
<1>8. ASSUME StartRun(o)
      PROVE  CalmParts'
  <2> DEFINE t == [IdleCall EXCEPT !.pc = "verify"]
  <2>1. t.pc = "verify" /\ [t EXCEPT !.kind = "bind"].pc = t.pc
    BY DEF IdleCall
  <2>2. Call(o, "bind", t) /\ UNCHANGED <<tables, boot>>
    BY <1>8 DEF StartRun
  <2> HIDE DEF t
  <2>3. QED
    BY <1>2, <2>1, <2>2 DEF MutationPC, RemovalPC
<1>9. ASSUME NEW p \in Profiles, StartDelete(o, p)
      PROVE  CalmParts'
  <2> DEFINE row == profiles[p]
             pc == IF row.gen = NoGen THEN "removeRow" ELSE "take"
             t == [IdleCall EXCEPT !.pc = pc, !.p = p, !.rev = row.rev, !.gen = row.gen,
                                   !.seen = active]
             u == [t EXCEPT !.kind = "remove"]
  <2>1. u.pc = pc /\ u.p = p /\ u.gen = row.gen
    BY DEF IdleCall
  <2>2. Call(o, "remove", t) /\ UNCHANGED <<tables, boot>> /\ (row.gen # NoGen => Held(p, row.gen))
    BY <1>9 DEF StartDelete
  <2>3. calls' = [calls EXCEPT ![o] = u] /\ calls[o].pc = "idle"
    BY <2>2 DEF Call, At
  <2>4. pc \in {"removeRow", "take"}
    OBVIOUS
  <2> HIDE DEF u, pc
  <2>5. calls[o].pc \notin MutationPC /\ u.pc \notin MutationPC
    BY <2>1, <2>3, <2>4 DEF MutationPC
  <2>6. \A q \in Profiles, g \in Generations :
           /\ Held(q, g)' = Held(q, g)
           /\ u.p = q /\ u.gen = g => Comes(q, g)
    BY <2>1, <2>2 DEF Held, Comes, tables, NoGen, Generations
  <2>7. \A q \in Profiles : Matters(q)' => Matters(q)
    BY <2>2 DEF Matters, IsBlocked, tables
  <2>8. QED
    BY <2>2, <2>3, <2>5, <2>6, <2>7, PlainCalm DEF tables
<1>10. QED
  BY <1>3, <1>4, <1>5, <1>6, <1>7, <1>8, <1>9 DEF Start

LEMMA SelectionCalm ==
    ASSUME IInv, CalmParts, NEW o \in Ops, Selection(o) \/ Binding(o) \/ CallErrors(o)
    PROVE  CalmParts'
<1> DEFINE c == calls[o]
<1> USE DEF At
<1>1. /\ TypeInv /\ c \in Calls /\ calls \in [Ops -> Calls]
      /\ UNCHANGED <<boot, journal, gens, vault>> /\ c.pc \notin MutationPC
  BY CallTypes DEF IInv, Selection, Binding, CallErrors, ReadOnlyPC, MutationPC, tables,
     Probe, CommitValidation, CheckCandidate, DiscoverModels, RecheckCandidate,
     SaveCandidateDraft, LoadReady, ExpectActivation, ActivateProfile, VerifyJournal, ReadActive,
     CheckCredential, CommitRun
<1>2. \A p \in Profiles : profiles'[p].state # "Deleted" => profiles[p].state # "Deleted"
  <2>1. CASE CommitValidation(o)
    <3>1. profiles[c.p].state # "Deleted"
          /\ \E st, proof : profiles' = [profiles EXCEPT ![c.p].state = st, ![c.p].proof = proof]
      BY <2>1 DEF CommitValidation, SaveValidation, EvidenceFits, Exists
    <3>2. \A p \in Profiles : p # c.p => profiles'[p] = profiles[p]
      BY <1>1, <3>1, Typed DEF TablesTyped
    <3>3. QED
      BY <3>1, <3>2
  <2>2. CASE SaveCandidateDraft(o)
    BY <1>1, <2>2, SavedRow DEF SaveCandidateDraft
  <2>3. CASE ~CommitValidation(o) /\ ~SaveCandidateDraft(o)
    <3>1. profiles' = profiles
      BY <2>3 DEF Selection, Binding, CallErrors, tables, Probe, CheckCandidate,
         DiscoverModels, RecheckCandidate, LoadReady, ExpectActivation, ActivateProfile,
         VerifyJournal, ReadActive, CheckCredential, CommitRun
    <3>2. QED
      BY <3>1
  <2>4. QED
    BY <2>1, <2>2, <2>3
<1>3. ASSUME NEW t, calls' = [calls EXCEPT ![o] = t],
             t.pc \notin MutationPC \cup RemovalPC
      PROVE  CalmParts'
  BY <1>1, <1>2, <1>3, ReadCalm
<1>4. ASSUME NEW pc \in CallPC \ (MutationPC \cup RemovalPC), Go(o, pc)
      PROVE  CalmParts'
  <2> DEFINE t == [c EXCEPT !.pc = pc]
  <2>1. calls' = [calls EXCEPT ![o] = t] /\ t.pc = pc
    BY <1>1, <1>4 DEF Go, Calls
  <2> HIDE DEF t
  <2>2. QED
    BY <1>3, <1>4, <2>1
<1>5. ASSUME Return(o)
      PROVE  CalmParts'
  <2>1. calls' = [calls EXCEPT ![o] = IdleCall] /\ IdleCall.pc \notin MutationPC \cup RemovalPC
    BY <1>5 DEF Return, IdleCall, MutationPC, RemovalPC
  <2>2. QED
    BY <1>3, <2>1
<1>6. CASE Probe(o) \/ CheckCandidate(o) \/ SaveCandidateDraft(o) \/ LoadReady(o)
           \/ ExpectActivation(o) \/ ReadActive(o)
  <2>1. PICK t : calls' = [calls EXCEPT ![o] = t]
                 /\ t.pc \in {"evidence", "activate", "discover", "probe", "saved"}
    <3>1. CASE Probe(o)
      <4>1. PICK ok \in BOOLEAN : calls' = [calls EXCEPT ![o].pc = "evidence", ![o].passed = ok]
        BY <3>1 DEF Probe
      <4>2. calls' = [calls EXCEPT ![o] = [c EXCEPT !.pc = "evidence", !.passed = ok]]
            /\ [c EXCEPT !.pc = "evidence", !.passed = ok].pc = "evidence"
        BY <1>1, <4>1 DEF Calls
      <4>3. QED
        BY <4>2
    <3>2. CASE CheckCandidate(o)
      <4> DEFINE row == profiles[c.p]
                 new == IF row.model = c.model /\ row.state = "Ready" THEN "activate" ELSE "discover"
      <4>1. calls' = [calls EXCEPT ![o].gen = row.gen, ![o].pc = new]
            /\ new \in {"activate", "discover"}
        BY <3>2 DEF CheckCandidate
      <4> HIDE DEF new
      <4>2. PICK g, pc : calls' = [calls EXCEPT ![o].gen = g, ![o].pc = pc]
                         /\ pc \in {"activate", "discover"}
        BY <4>1
      <4>3. calls' = [calls EXCEPT ![o] = [c EXCEPT !.gen = g, !.pc = pc]]
            /\ [c EXCEPT !.gen = g, !.pc = pc].pc = pc
        BY <1>1, <4>2 DEF Calls
      <4>4. QED
        BY <4>2, <4>3
    <3>3. CASE SaveCandidateDraft(o)
      <4>1. calls' = [calls EXCEPT ![o].pc = "probe", ![o].rev = @ + 1]
        BY <3>3 DEF SaveCandidateDraft
      <4>2. calls' = [calls EXCEPT ![o] = [c EXCEPT !.pc = "probe", !.rev = c.rev + 1]]
            /\ [c EXCEPT !.pc = "probe", !.rev = c.rev + 1].pc = "probe"
        BY <1>1, <4>1 DEF Calls
      <4>3. QED
        BY <4>2
    <3>4. CASE LoadReady(o)
      <4>1. PICK rev, m : calls' = [calls EXCEPT ![o].pc = "activate", ![o].rev = rev,
                                                 ![o].model = m]
        BY <3>4 DEF LoadReady
      <4>2. calls' = [calls EXCEPT ![o] = [c EXCEPT !.pc = "activate", !.rev = rev, !.model = m]]
            /\ [c EXCEPT !.pc = "activate", !.rev = rev, !.model = m].pc = "activate"
        BY <1>1, <4>1 DEF Calls
      <4>3. QED
        BY <4>2
    <3>5. CASE ExpectActivation(o) \/ ReadActive(o)
      <4>1. PICK pc \in {"activate", "saved"} :
               calls' = [calls EXCEPT ![o].pc = pc, ![o].seen = active]
        BY <3>5 DEF ExpectActivation, ReadActive
      <4>2. calls' = [calls EXCEPT ![o] = [c EXCEPT !.pc = pc, !.seen = active]]
            /\ [c EXCEPT !.pc = pc, !.seen = active].pc = pc
        BY <1>1, <4>1 DEF Calls
      <4>3. QED
        BY <4>1, <4>2
    <3>6. QED
      BY <1>6, <3>1, <3>2, <3>3, <3>4, <3>5
  <2>2. QED
    BY <1>3, <2>1 DEF MutationPC, RemovalPC
<1>7. CASE DiscoverModels(o) \/ RecheckCandidate(o) \/ VerifyJournal(o) \/ CheckCredential(o)
  <2>1. PICK pc \in {"recheck", "probe", "draft", "snapshot", "bind"} : Go(o, pc)
    BY <1>7 DEF DiscoverModels, RecheckCandidate, VerifyJournal, CheckCredential
  <2>2. pc \in CallPC \ (MutationPC \cup RemovalPC)
    BY DEF CallPC, MutationPC, RemovalPC
  <2>3. QED
    BY <1>4, <2>1, <2>2
<1>8. CASE CommitValidation(o) \/ ActivateProfile(o) \/ CommitRun(o) \/ CallErrors(o)
  <2>1. Return(o) \/ \E pc \in {"ready", "verify"} : Go(o, pc)
    BY <1>8 DEF CommitValidation, ActivateProfile, CommitRun, CallErrors
  <2>2. \A pc \in {"ready", "verify"} : pc \in CallPC \ (MutationPC \cup RemovalPC)
    BY DEF CallPC, MutationPC, RemovalPC
  <2>3. QED
    BY <1>4, <1>5, <2>1, <2>2
<1>9. QED
  BY <1>6, <1>7, <1>8 DEF Selection, Binding

LEMMA DeletionCalm ==
    ASSUME IInv, CalmParts, NEW o \in Ops, Deletion(o)
    PROVE  CalmParts'
<1> DEFINE c == calls[o]
<1> USE DEF At
<1>1. /\ TypeInv /\ c \in Calls /\ calls \in [Ops -> Calls] /\ c.pc \in RemovalPC
      /\ UNCHANGED <<boot, journal>> /\ c.pc \notin MutationPC
  BY CallTypes DEF IInv, Deletion, TakeCredential, RemoveProfile, RestoreCredential,
     RemovalPC, MutationPC
<1>2. PICK P \in Profiles : P = c.p
  BY <1>1, CallTypes DEF Addressed, RemovalPC, BindPC
<1>3. \A p \in Profiles, g \in Generations : c.p = p /\ c.gen = g => Comes(p, g) /\ Refers(p, g)
  BY <1>1 DEF Comes, Brings, Refers
<1>4. ASSUME NEW pc \in {"removeRow", "restore"}, Go(o, pc), UNCHANGED <<profiles, gens>>,
             vault' \subseteq vault
      PROVE  CalmParts'
  <2> DEFINE t == [c EXCEPT !.pc = pc]
  <2>1. calls' = [calls EXCEPT ![o] = t] /\ t.pc = pc /\ t.p = c.p /\ t.gen = c.gen
    BY <1>1, <1>4 DEF Go, Calls
  <2> HIDE DEF t
  <2>2. t.pc \notin MutationPC
    BY <2>1 DEF MutationPC
  <2>3. \A p \in Profiles, g \in Generations :
           /\ Held(p, g)' => Held(p, g)
           /\ t.p = p /\ t.pc \in RemovalPC /\ t.gen = g => Comes(p, g)
    BY <1>3, <1>4, <2>1 DEF Held
  <2>4. \A p \in Profiles : Matters(p)' => Matters(p)
    BY <1>1, <1>4 DEF Matters, IsBlocked
  <2>5. QED
    BY <1>1, <1>4, <2>1, <2>2, <2>3, <2>4, PlainCalm
<1>5. CASE TakeCredential(o)
  BY <1>4, <1>5 DEF TakeCredential, Remove
<1>6. CASE RestoreCredential(o)
  <2>1. calls' = [calls EXCEPT ![o] = IdleCall] /\ IdleCall.pc \notin MutationPC \cup RemovalPC
        /\ UNCHANGED <<profiles, gens>>
    BY <1>6 DEF RestoreCredential, Return, IdleCall, MutationPC, RemovalPC
  <2>2. vault' = vault \cup {<<c.p, c.gen>>} \/ vault' = vault
    BY <1>6 DEF RestoreCredential, Put
  <2>3. \A p \in Profiles, g \in Generations :
           /\ Held(p, g)' /\ ~Held(p, g) => Comes(p, g) /\ Refers(p, g)
           /\ IdleCall.p = p /\ IdleCall.pc \in RemovalPC /\ IdleCall.gen = g => Comes(p, g)
    BY <1>3, <2>1, <2>2 DEF Held
  <2>4. \A p \in Profiles : Matters(p)' => Matters(p)
    BY <1>1, <2>1 DEF Matters, IsBlocked
  <2>5. QED
    BY <1>1, <2>1, <2>3, <2>4, PlainCalm
<1>7. CASE RemoveProfile(o)
  <2>1. vault' = vault
    BY <1>7 DEF RemoveProfile
  <2>2. CASE ~MayDeleteProfile(P, c.rev, c.seen)
    BY <1>2, <1>4, <1>7, <2>1, <2>2 DEF RemoveProfile
  <2>3. CASE MayDeleteProfile(P, c.rev, c.seen)
    <3>1. DeleteProfileRow(P) /\ calls' = [calls EXCEPT ![o] = IdleCall]
      BY <1>2, <1>7, <2>3 DEF RemoveProfile, Return
    <3>2. calls'[o] = IdleCall /\ \A q \in Ops \ {o} : calls'[q] = calls[q]
      BY <1>1, <3>1
    <3>3. /\ profiles'[P].state = "Deleted"
          /\ \A p \in Profiles \ {P} : profiles'[p] = profiles[p] /\ gens'[p] = gens[p]
      BY <1>1, <3>1, Typed DEF DeleteProfileRow, TablesTyped, ProfileRows
    <3>4. InStep(o)' /\ Emptied(o)'
      BY <3>2 DEF InStep, Emptied, IdleCall, MutationPC, RetiringPC
    <3>5. \A p \in Profiles, g \in Generations : Held(p, g)' = Held(p, g)
      BY <2>1 DEF Held
    <3>6. OnlyAt(P)
      BY <1>1, <3>3, <3>5 DEF OnlyAt
    <3>7. \A p \in Profiles \ {P} : IdleCall.p # p
      BY Constants DEF IdleCall
    <3>8. ASSUME NEW p \in Profiles, NEW g \in Generations, Matters(p)', Comes(p, g)'
          PROVE  Known(p, g)'
      <4>1. p # P
        BY <3>3, <3>8 DEF Matters
      <4>2. QED
        BY <3>1, <3>6, <3>7, <3>8, <4>1, ElsewhereCalm
    <3>9. \A p \in Profiles : journal'[p] = journal[p] /\ ~InHand(o, p)
      BY <1>1 DEF InHand
    <3>10. QED
      BY <1>1, <3>2, <3>4, <3>5, <3>8, <3>9, CalmStep
  <2>4. QED
    BY <2>2, <2>3
<1>8. QED
  BY <1>5, <1>6, <1>7 DEF Deletion

LEMMA SameCalm ==
    ASSUME CalmParts, UNCHANGED <<profiles, gens, journal, vault, calls, boot>>
    PROVE  CalmParts'
BY DEF CalmParts, InStep, Emptied, Attended, InHand, Open, Matters, IsBlocked, Comes, Brings,
       Held, Known, StatusSaved

(* Failures and starts are counted.                                        *)
LEMMA CalmBefore ==
    ASSUME TypeInv, [Next]_vars, Calm'
    PROVE  /\ Calm
           /\ \/ \E o \in Ops : \/ Start(o) \/ Mutation(o) \/ Selection(o) \/ Deletion(o)
                                \/ Binding(o) \/ CallErrors(o)
              \/ \E r \in Runs : EndRun(r)
              \/ Recovery
              \/ UNCHANGED vars
<1>1. faults \in Nat /\ starts \in Nat
  BY Typed, Constants DEF BoundsTyped
<1>2. ASSUME NEW o \in Ops, Start(o)
      PROVE  Calm
  <2>1. UNCHANGED <<faults, starts>>
    BY <1>2 DEF Start, StartMutation, SaveProfile, StartValidation, StartSwitch,
                StartActivation, StartDelete, StartRun
  <2>2. QED
    BY <2>1 DEF Calm
<1>3. ASSUME NEW o \in Ops, Mutation(o)
      PROVE  Calm
  <2>1. UNCHANGED bounds
    BY <1>3 DEF Mutation, BeginMutation, WriteVault, RecordVaultWrite, CommitCredentialPointer,
       UndoVaultWrite, UndoJournal, ReadRunReferences, ReadActiveReference, RetireVault,
       RetireStatus, DeleteRollbackCopy, CompleteMutation, BlockMutation
  <2>2. QED
    BY <2>1 DEF Calm, bounds
<1>4. ASSUME NEW o \in Ops, Selection(o) \/ Deletion(o) \/ Binding(o) \/ CallErrors(o)
      PROVE  Calm
  <2>1. UNCHANGED bounds
    BY <1>4 DEF Selection, Deletion, Binding, CallErrors, Probe, CommitValidation,
       CheckCandidate, DiscoverModels, RecheckCandidate, SaveCandidateDraft, LoadReady,
       ExpectActivation, ActivateProfile, TakeCredential, RemoveProfile, RestoreCredential,
       VerifyJournal, ReadActive, CheckCredential, CommitRun
  <2>2. QED
    BY <2>1 DEF Calm, bounds
<1>5. ASSUME Recovery \/ (\E r \in Runs : EndRun(r)) \/ UNCHANGED vars
      PROVE  Calm
  <2>1. UNCHANGED bounds
    BY <1>5 DEF Recovery, EndRun, vars, ListAbandoned, ClearStaged, RollbackAbandoned, bounds
  <2>2. QED
    BY <2>1 DEF Calm, bounds
<1>6. ~(\E o \in Ops : ServiceFails(o) \/ LastResortFails(o)) /\ ~BootFails
  BY <1>1 DEF Calm, ServiceFails, LastResortFails, BootFails
<1>7. ~Crash /\ ~StartOtherProcess
  <2>1. Crash \/ StartOtherProcess => starts' = starts + 1
    BY DEF Crash, StartOtherProcess
  <2>2. QED
    BY <1>1, <2>1 DEF Calm
<1>8. QED
  BY <1>2, <1>3, <1>4, <1>5, <1>6, <1>7 DEF Next

LEMMA CalmStays == IInv /\ CalmInv /\ [Next]_vars => CalmInv'
<1> SUFFICES ASSUME IInv, CalmInv, [Next]_vars, Calm'
             PROVE  CalmParts'
  BY DEF CalmInv
<1>1. CalmParts
  BY CalmBefore DEF CalmInv, IInv
<1>2. ~Recovery
  BY <1>1 DEF CalmParts, Recovery, ListAbandoned, ClearStaged, RollbackAbandoned
<1>3. ASSUME NEW r \in Runs, EndRun(r)
      PROVE  CalmParts'
  BY <1>1, <1>3, SameCalm DEF EndRun
<1>4. CASE UNCHANGED vars
  BY <1>1, <1>4, SameCalm DEF vars, tables
<1>5. QED
  BY <1>1, <1>2, <1>3, <1>4, CalmBefore, StartCalm, MutationsCalm, SelectionCalm, DeletionCalm
     DEF IInv

LEMMA CalmInitially == Init => CalmInv
<1> SUFFICES ASSUME Init
             PROVE  CalmParts
  BY DEF CalmInv
<1>1. PICK old \in SUBSET Profiles : /\ vault = old \X {1}
                                     /\ gens = [p \in Profiles |-> [g \in Generations |->
                                           IF p \in old /\ g = 1 THEN "available" ELSE "none"]]
  BY DEF Init
<1>2. /\ \A o \in Ops : calls[o] = IdleCall
      /\ \A p \in Profiles : journal[p] = NoRecord
      /\ boot = BootUp
  BY DEF Init
<1>3. \A o \in Ops : calls[o].pc = "idle"
  BY <1>2 DEF IdleCall
<1>4. boot.pc = "up"
  BY <1>2 DEF BootUp
<1>5. \A o \in Ops : InStep(o) /\ Emptied(o)
  BY <1>3 DEF InStep, Emptied, MutationPC, RetiringPC
<1>6. \A p \in Profiles : Attended(p)
  BY <1>2 DEF Attended, Open, Settled, NoRecord
<1>7. ASSUME NEW p \in Profiles, NEW g \in Generations, Comes(p, g)
      PROVE  Known(p, g)
  <2>1. Held(p, g)
    BY <1>3, <1>7 DEF Comes, Brings, RemovalPC
  <2>2. p \in old /\ g = 1
    BY <1>1, <2>1 DEF Held
  <2>3. gens[p][g] = "available"
    BY <1>1, <2>2
  <2>4. QED
    BY <2>3 DEF Known, StatusSaved
<1>8. QED
  BY <1>4, <1>5, <1>6, <1>7 DEF CalmParts

(* Nothing is left behind: with no call under way no record is open, so    *)
(* what the vault holds of a living Profile, the store knows.              *)
LEMMA CalmSays == CalmInv => NoOrphanSecret
<1> SUFFICES ASSUME CalmInv, Quiet, NEW p \in Profiles, NEW g \in Generations,
                    Exists(p), ~IsBlocked(p), Held(p, g)
             PROVE  StatusSaved(p, g)
  BY DEF NoOrphanSecret
<1>1. CalmParts
  BY DEF CalmInv, Quiet, Calm
<1>2. ~Open(p)
  BY <1>1 DEF CalmParts, Attended, InHand, Quiet, At, MutationPC
<1>3. Known(p, g)
  BY <1>1 DEF CalmParts, Matters, Comes, Exists
<1>4. QED
  BY <1>2, <1>3 DEF Known, Open, Settled

LEMMA CalmInductive == /\ Init => CalmInv
                       /\ IInv /\ CalmInv /\ [Next]_vars => CalmInv'
                       /\ CalmInv => NoOrphanSecret
BY CalmInitially, CalmStays, CalmSays

(* Without failures no change of credentials leaves a secret in the vault  *)
(* that the store has written off, whatever calls run beside each other,   *)
(* fail their compare-and-swap or roll back.                               *)
THEOREM NoSecretOrphaned == Spec => []NoOrphanSecret
<1>1. Init => IInv /\ CalmInv
  BY Inductive, CalmInductive
<1>2. IInv /\ CalmInv /\ [Next]_vars => (IInv /\ CalmInv)'
  BY Inductive, CalmInductive
<1>3. CalmInv => NoOrphanSecret
  BY CalmInductive
<1>4. QED
  BY <1>1, <1>2, <1>3, PTL DEF Spec

=============================================================================
