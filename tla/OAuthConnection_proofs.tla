---------------------- MODULE OAuthConnection_proofs ----------------------
(***************************************************************************)
(* The subscription sign-in, for any number of Profiles and operations and *)
(* any bounds on revisions, generations, failures and starts: the tokens a *)
(* Profile points at are in the vault or were logged out.  A generation is *)
(* staged by one operation, which alone may throw it away, and only while  *)
(* the pointer does not name it; what was written when the journal says    *)
(* VaultWritten stays or leaves a trace until the pointer moves to it.     *)
(***************************************************************************)
EXTENDS OAuthConnection, TLAPS

GenUsed(p, g) == gens[p][g] # "none"

(* In the vault, or taken out by a logout or a cancel.                     *)
Kept(p, g) == <<p, g>> \in vault \/ <<p, g>> \in loggedOut

(* The revision a call has read is not newer than the current one, and its *)
(* model is the current one's if it is the current one.                    *)
CallReads(o) ==
    calls[o].pc # "idle" =>
        /\ calls[o].p \in Profiles
        /\ calls[o].rev <= profiles[calls[o].p].rev
        /\ calls[o].rev = profiles[calls[o].p].rev =>
              calls[o].model = profiles[calls[o].p].model

(* Where a call has staged a generation and not yet recorded it in the     *)
(* journal as written, where it has staged one, where it has written it,   *)
(* where it takes one out, and where it reads its connection back.         *)
Staging  == {"poll", "own", "old", "post", "write", "connect", "discard", "record"}
Stages   == Staging \cup {"commit", "finish"}
Written  == {"connect", "record"}
TakesOut == {"outLease", "outDelete"}
Restoring == {"lease", "restore"}
Restorers == CallKinds \ {"complete"}

(* The locals of a call are those of its program counter.                  *)
CallFields(o) ==
    /\ calls[o].pc \in Stages => calls[o].staged # NoGen
    /\ calls[o].pc \in TakesOut => calls[o].gen # NoGen
    /\ calls[o].pc \in Restoring => calls[o].kind \in Restorers

(* What a call has staged is its own, and recorded under its revision.     *)
OwnStage(o) ==
    calls[o].staged # NoGen =>
        /\ calls[o].pc # "idle"
        /\ GenUsed(calls[o].p, calls[o].staged)
        /\ journal[calls[o].p].op = o =>
              /\ journal[calls[o].p].staged = calls[o].staged
              /\ journal[calls[o].p].base = calls[o].rev
        /\ \A d \in Ops : d # o /\ calls[d].p = calls[o].p => calls[d].staged # calls[o].staged

(* Until it is recorded as written, no pointer and no other record names   *)
(* it; once written it is kept.                                            *)
StageStands(o) ==
    /\ calls[o].pc \in Staging =>
          /\ profiles[calls[o].p].gen # calls[o].staged
          /\ journal[calls[o].p].staged = calls[o].staged =>
                /\ journal[calls[o].p].op = o
                /\ journal[calls[o].p].phase \in {"IntentRecorded", "RolledBack", "Blocked"}
    /\ calls[o].pc \in Written => Kept(calls[o].p, calls[o].staged)

CallInv(o) == CallReads(o) /\ CallFields(o) /\ OwnStage(o) /\ StageStands(o)

(* A record that has not moved the pointer names another generation.       *)
RecordInOrder(p) ==
    /\ journal[p].intent = "replace"
    /\ journal[p].op # NoOp => journal[p].staged # NoGen
    /\ journal[p].op = NoOp => journal[p].phase = "None"
    /\ journal[p].staged # NoGen => GenUsed(p, journal[p].staged)
    /\ journal[p].phase \in {"IntentRecorded", "VaultWritten"} =>
          profiles[p].gen # journal[p].staged
    /\ journal[p].phase = "VaultWritten" => Kept(p, journal[p].staged)

PointerInOrder(p) ==
    profiles[p].gen # NoGen =>
        GenUsed(p, profiles[p].gen) /\ Kept(p, profiles[p].gen)

LoginInOrder(o) == logins[o] # NoLogin => logins[o].p \in Profiles

TokenInv ==
    /\ TypeOK
    /\ \A o \in Ops : CallInv(o) /\ LoginInOrder(o)
    /\ \A p \in Profiles : RecordInOrder(p) /\ PointerInOrder(p)

store == <<profiles, gens, journal, vault, loggedOut>>

-----------------------------------------------------------------------------
(* Steps of one call that leave the rows and the vault alone.              *)

LEMMA Types ==
    ASSUME TypeOK
    PROVE  /\ calls \in [Ops -> Calls] /\ journal \in [Profiles -> Records]
           /\ profiles \in [Profiles -> ProfileRows]
           /\ gens \in [Profiles -> [Generations -> GenStatuses]]
           /\ connections \in [Profiles -> Connections]
           /\ \A o \in Ops : calls[o] \in Calls
           /\ \A p \in Profiles : /\ journal[p] \in Records /\ profiles[p] \in ProfileRows
                                  /\ connections[p] \in Connections
BY DEF TypeOK

LEMMA CallMoves ==
    ASSUME TokenInv, NEW o \in Ops, NEW t \in Calls,
           calls' = [calls EXCEPT ![o] = t], UNCHANGED store,
           t.pc # "idle" => /\ t.p \in Profiles
                            /\ t.rev <= profiles[t.p].rev
                            /\ t.rev = profiles[t.p].rev => t.model = profiles[t.p].model,
           t.pc \in Stages => t.staged # NoGen,
           t.pc \in TakesOut => t.gen # NoGen,
           t.pc \in Restoring => t.kind \in Restorers,
           t.staged # NoGen => /\ t.pc # "idle" /\ t.staged = calls[o].staged
                               /\ t.p = calls[o].p /\ t.rev = calls[o].rev,
           t.pc \in Staging => calls[o].pc \in Staging,
           t.pc \in Written => calls[o].pc \in Written
    PROVE  /\ calls' \in [Ops -> Calls]
           /\ \A d \in Ops : CallInv(d)'
           /\ \A p \in Profiles : RecordInOrder(p)' /\ PointerInOrder(p)'
<1>1. /\ calls \in [Ops -> Calls] /\ calls'[o] = t
      /\ \A d \in Ops : d # o => calls'[d] = calls[d]
  BY Types DEF TokenInv
<1>2. \A d \in Ops : CallInv(d)
  BY DEF TokenInv
<1>3. \A p \in Profiles : RecordInOrder(p)' /\ PointerInOrder(p)'
  BY DEF TokenInv, RecordInOrder, PointerInOrder, GenUsed, Kept, store
<1>4. \A d \in Ops : calls'[d].staged = NoGen \/ /\ calls'[d].staged = calls[d].staged
                                                 /\ calls'[d].p = calls[d].p
                                                 /\ calls'[d].rev = calls[d].rev
  BY <1>1
<1>5. ASSUME NEW d \in Ops PROVE CallReads(d)' /\ CallFields(d)'
  BY <1>1, <1>2 DEF CallInv, CallReads, CallFields, store
<1>6. ASSUME NEW d \in Ops PROVE OwnStage(d)'
  <2> SUFFICES ASSUME calls'[d].staged # NoGen PROVE OwnStage(d)'
    BY DEF OwnStage
  <2>1. /\ OwnStage(d) /\ calls'[d].staged = calls[d].staged
        /\ calls'[d].p = calls[d].p /\ calls'[d].rev = calls[d].rev /\ calls'[d].pc # "idle"
    BY <1>1, <1>2 DEF CallInv, OwnStage
  <2>2. \A e \in Ops : e # d /\ calls'[e].p = calls'[d].p => calls'[e].staged # calls'[d].staged
    BY <1>4, <2>1 DEF OwnStage
  <2>3. QED
    BY <2>1, <2>2 DEF OwnStage, GenUsed, store
<1>7. ASSUME NEW d \in Ops PROVE StageStands(d)'
  <2>1. StageStands(d)
    BY <1>2 DEF CallInv
  <2>2. calls'[d].pc \in Staging => calls[d].pc \in Staging
    BY <1>1
  <2>3. calls'[d].pc \in Written => calls[d].pc \in Written
    BY <1>1
  <2>4. calls'[d].pc \in Staging => calls'[d].staged = calls[d].staged /\ calls'[d].p = calls[d].p
    BY <1>1, <1>4 DEF Stages
  <2>5. QED
    BY <2>1, <2>2, <2>3, <2>4 DEF StageStands, Kept, Written, Staging, store
<1>8. QED
  BY <1>1, <1>3, <1>5, <1>6, <1>7 DEF CallInv

LEMMA GoGives ==
    ASSUME TypeOK, NEW o \in Ops, NEW pc \in CallPC, Go(o, pc)
    PROVE  \E t \in Calls :
              /\ calls' = [calls EXCEPT ![o] = t] /\ t.pc = pc
              /\ t.kind = calls[o].kind /\ t.p = calls[o].p /\ t.rev = calls[o].rev
              /\ t.gen = calls[o].gen /\ t.staged = calls[o].staged
              /\ t.model = calls[o].model
<1> DEFINE t == [calls[o] EXCEPT !.pc = pc]
<1>1. calls[o] \in Calls
  BY Types
<1>2. /\ t \in Calls /\ t.pc = pc
      /\ t.kind = calls[o].kind /\ t.p = calls[o].p /\ t.rev = calls[o].rev
      /\ t.gen = calls[o].gen /\ t.staged = calls[o].staged
      /\ t.model = calls[o].model
  BY <1>1 DEF Calls
<1>3. calls' = [calls EXCEPT ![o] = t]
  BY DEF Go
<1> HIDE DEF t
<1>4. QED
  BY <1>2, <1>3

(* The call of o is at another point, the same otherwise, or has returned. *)
LEMMA GoKeeps ==
    ASSUME TokenInv, NEW o \in Ops, NEW pc \in CallPC \ {"idle"}, Go(o, pc), UNCHANGED store,
           calls[o].pc # "idle",
           pc \in Stages => calls[o].pc \in Stages,
           pc \in TakesOut => calls[o].gen # NoGen,
           pc \in Restoring => calls[o].pc \in Restoring,
           pc \in Staging => calls[o].pc \in Staging,
           pc \in Written => calls[o].pc \in Written
    PROVE  /\ calls' \in [Ops -> Calls]
           /\ \A d \in Ops : CallInv(d)'
           /\ \A p \in Profiles : RecordInOrder(p)' /\ PointerInOrder(p)'
<1>1. PICK t \in Calls :
              /\ calls' = [calls EXCEPT ![o] = t] /\ t.pc = pc
              /\ t.kind = calls[o].kind /\ t.p = calls[o].p /\ t.rev = calls[o].rev
              /\ t.gen = calls[o].gen /\ t.staged = calls[o].staged
              /\ t.model = calls[o].model
  BY GoGives DEF TokenInv
<1>2. CallReads(o) /\ CallFields(o)
  BY DEF TokenInv, CallInv
<1>3. QED
  BY <1>1, <1>2, CallMoves DEF CallReads, CallFields

LEMMA ReturnKeeps ==
    ASSUME TokenInv, NEW o \in Ops, Return(o), UNCHANGED store
    PROVE  /\ calls' \in [Ops -> Calls]
           /\ \A d \in Ops : CallInv(d)'
           /\ \A p \in Profiles : RecordInOrder(p)' /\ PointerInOrder(p)'
<1>1. /\ IdleCall \in Calls /\ IdleCall.pc = "idle" /\ IdleCall.staged = NoGen
  BY StoreBounds DEF IdleCall, Calls, CallPC, Revisions, NoGen
<1>2. QED
  BY <1>1, CallMoves DEF Return, Stages, Staging, Written, TakesOut, Restoring

LEMMA NobodyMoves ==
    ASSUME TokenInv, UNCHANGED <<calls, store>>
    PROVE  /\ calls' \in [Ops -> Calls]
           /\ \A d \in Ops : CallInv(d)'
           /\ \A p \in Profiles : RecordInOrder(p)' /\ PointerInOrder(p)'
<1>1. UNCHANGED <<calls, profiles, gens, journal, vault, loggedOut>>
  BY DEF store
<1>2. \A d \in Ops : CallInv(d)'
  BY <1>1 DEF TokenInv, CallInv, CallReads, CallFields, OwnStage, StageStands, GenUsed, Kept
<1>3. \A p \in Profiles : RecordInOrder(p)' /\ PointerInOrder(p)'
  BY <1>1 DEF TokenInv, RecordInOrder, PointerInOrder, GenUsed, Kept
<1>4. QED
  BY <1>1, <1>2, <1>3, Types DEF TokenInv

RestTypes ==
    /\ deviceCodes \subseteq Ops /\ cancelled \subseteq Ops
    /\ connections \in [Profiles -> Connections]
    /\ logins \in [Ops -> Logins] /\ \A o \in Ops : LoginInOrder(o)
    /\ cancels \in [Ops -> CancelPC]
    /\ faults \in 0 .. MaxFaults /\ starts \in 0 .. MaxStarts
    /\ started \in 0 .. MaxCalls

(* The rest of a step that leaves the rows and the vault alone.            *)
LEMMA Assemble ==
    ASSUME TokenInv, UNCHANGED store, RestTypes',
           calls' \in [Ops -> Calls], \A d \in Ops : CallInv(d)',
           \A p \in Profiles : RecordInOrder(p)' /\ PointerInOrder(p)'
    PROVE  TokenInv'
BY DEF TokenInv, TypeOK, RestTypes, store

LEMMA RestFacts ==
    ASSUME TokenInv, NEW o \in Ops
    PROVE  /\ TypeOK /\ RestTypes /\ CallReads(o) /\ CallFields(o)
           /\ calls[o] \in Calls /\ calls \in [Ops -> Calls]
           /\ calls[o].pc # "idle" => calls[o].p \in Profiles
                                      /\ connections[calls[o].p] \in Connections
BY Types DEF TokenInv, TypeOK, RestTypes, CallInv, CallReads

LEMMA LeaveKeeps ==
    ASSUME TokenInv, NEW o \in Ops, NEW pc \in CallPC, Leave(o, pc), UNCHANGED store,
           calls[o].pc # "idle", pc \notin Stages,
           pc \in Restoring => calls[o].pc \in Restoring,
           pc \in TakesOut => calls[o].gen # NoGen
    PROVE  /\ calls' \in [Ops -> Calls]
           /\ \A d \in Ops : CallInv(d)'
           /\ \A p \in Profiles : RecordInOrder(p)' /\ PointerInOrder(p)'
BY GoKeeps, ReturnKeeps DEF Leave, Stages, Staging, Written

LEMMA StartCallKeeps ==
    ASSUME TokenInv, NEW o \in Ops, NEW p \in Profiles, NEW kind \in CallKinds,
           StartCall(o, p, kind)
    PROVE  TokenInv'
<1> DEFINE pc == IF profiles[p].gen # NoGen /\ ~Pending(p) THEN "lease" ELSE AfterRestore(kind)
           t == [IdleCall EXCEPT !.kind = kind, !.p = p, !.rev = profiles[p].rev,
                   !.gen = profiles[p].gen, !.model = profiles[p].model, !.pc = pc]
<1>1. profiles[p] \in ProfileRows /\ TypeOK
  BY Types DEF TokenInv
<1>2. pc \in {"lease", "enter", "begin", "out", "idle"}
  <2>1. kind \in {"login", "refresh", "logout", "view"}
    BY DEF StartCall, CallKinds
  <2>2. /\ kind = "login" => AfterRestore(kind) = "enter"
        /\ kind = "refresh" => AfterRestore(kind) = "begin"
        /\ kind = "logout" => AfterRestore(kind) = "out"
        /\ kind = "view" => AfterRestore(kind) = "idle"
    BY DEF AfterRestore
  <2>3. AfterRestore(kind) \in {"enter", "begin", "out", "idle"}
    BY <2>1, <2>2
  <2>4. QED
    BY <2>3
<1>z. calls' = [calls EXCEPT ![o] = t]
  BY DEF StartCall
<1> HIDE DEF pc
<1>3. /\ t \in Calls /\ t.pc = pc /\ t.p = p /\ t.kind = kind /\ t.rev = profiles[p].rev
      /\ t.model = profiles[p].model /\ t.staged = NoGen
  BY <1>1, <1>2, StoreBounds DEF IdleCall, Calls, CallPC, ProfileRows, CallKinds
<1>4. /\ calls' = [calls EXCEPT ![o] = t] /\ UNCHANGED store
      /\ UNCHANGED <<connections, deviceCodes, logins, cancelled, cancels, faults, starts>>
      /\ started' = started + 1 /\ started < MaxCalls
  <2> HIDE DEF t
  <2>2. QED
    BY <1>z DEF StartCall, store, rows, manager, service, history
<1>a. kind \in Restorers
  BY DEF StartCall, Restorers
<1> HIDE DEF t
<1>5. profiles[p].rev \in Int
  BY <1>1 DEF ProfileRows, Revisions
<1>6. /\ calls' \in [Ops -> Calls] /\ \A d \in Ops : CallInv(d)'
      /\ \A q \in Profiles : RecordInOrder(q)' /\ PointerInOrder(q)'
  <2>1. /\ t.p \in Profiles /\ t.rev <= profiles[t.p].rev
        /\ t.rev = profiles[t.p].rev => t.model = profiles[t.p].model
    BY <1>3, <1>5
  <2>2. /\ t.pc \notin Stages \cup Staging \cup Written \cup TakesOut
        /\ t.kind \in Restorers
    BY <1>2, <1>3, <1>a DEF Stages, Staging, Written, TakesOut
  <2>3. calls' = [calls EXCEPT ![o] = t] /\ UNCHANGED store
    BY <1>4
  <2>4. QED
    BY <1>3, <2>1, <2>2, <2>3, CallMoves
<1>7. RestTypes'
  BY <1>4, RestFacts, StoreBounds DEF RestTypes, LoginInOrder
<1>8. QED
  BY <1>4, <1>6, <1>7, Assemble

LEMMA ReadLeaseKeeps ==
    ASSUME TokenInv, NEW o \in Ops, ReadLease(o)
    PROVE  TokenInv'
<1> DEFINE t == [calls[o] EXCEPT !.pc = "restore", !.held = Held(calls[o].p, calls[o].gen)]
<1>1. /\ calls[o] \in Calls /\ CallReads(o) /\ RestTypes /\ calls[o].pc = "lease"
      /\ calls[o].kind \in Restorers
  BY RestFacts DEF ReadLease, At, CallFields, Restoring
<1>2. Held(calls[o].p, calls[o].gen) \in BOOLEAN
  BY DEF Held
<1>3. /\ t \in Calls /\ t.pc = "restore" /\ t.p = calls[o].p /\ t.rev = calls[o].rev
      /\ t.model = calls[o].model /\ t.staged = calls[o].staged
      /\ t.kind = calls[o].kind
  BY <1>1, <1>2 DEF Calls, CallPC
<1>4. calls' = [calls EXCEPT ![o] = t]
  BY RestFacts DEF ReadLease
<1>5. /\ UNCHANGED store
      /\ UNCHANGED <<connections, deviceCodes, logins, cancelled, cancels, faults, starts, started>>
  BY DEF ReadLease, store, rows, manager, service, history, rest
<1> HIDE DEF t
<1>6. /\ calls' \in [Ops -> Calls] /\ \A d \in Ops : CallInv(d)'
      /\ \A q \in Profiles : RecordInOrder(q)' /\ PointerInOrder(q)'
  BY <1>1, <1>3, <1>4, <1>5, CallMoves DEF Stages, Staging, Written, TakesOut, Restoring, CallReads
<1>7. RestTypes'
  BY <1>5, <1>1 DEF RestTypes, LoginInOrder
<1>8. QED
  BY <1>5, <1>6, <1>7, Assemble

LEMMA RestoreKeeps ==
    ASSUME TokenInv, NEW o \in Ops, RestoreConnection(o)
    PROVE  TokenInv'
<1>1. /\ calls[o] \in Calls /\ CallReads(o) /\ RestTypes /\ calls[o].pc = "restore"
      /\ calls[o].p \in Profiles
  BY RestFacts DEF RestoreConnection, At
<1>2. /\ UNCHANGED store
      /\ UNCHANGED <<deviceCodes, logins, cancelled, cancels, faults, starts, started>>
  BY DEF RestoreConnection, store, rows, manager, service, history, rest
<1>3. PICK c \in Connections : connections' = [connections EXCEPT ![calls[o].p] = c]
  <2>1. Revoked \in Connections
    BY DEF Revoked, Connections, Statuses
  <2>2. \A st \in {"Connected", "Expired"} :
          [status |-> st, gen |-> calls[o].gen, owner |-> NoOp] \in Connections
    BY <1>1 DEF Connections, Statuses, Calls
  <2>3. QED
    BY <2>1, <2>2 DEF RestoreConnection, SetConnection
<1>4. Return(o) \/ \E pc \in {"enter", "begin", "out"} : Go(o, pc)
  <2>1. calls[o].kind \in {"login", "refresh", "logout", "view"}
    BY RestFacts DEF CallFields, Restoring, Restorers, CallKinds, RestoreConnection, At
  <2>2. /\ calls[o].kind = "login" => AfterRestore(calls[o].kind) = "enter"
        /\ calls[o].kind = "refresh" => AfterRestore(calls[o].kind) = "begin"
        /\ calls[o].kind = "logout" => AfterRestore(calls[o].kind) = "out"
    BY DEF AfterRestore
  <2>3. calls[o].kind = "view" => AfterRestore(calls[o].kind) = "idle"
    BY DEF AfterRestore
  <2>4. QED
    BY <2>1, <2>2, <2>3 DEF RestoreConnection
<1>5. /\ calls' \in [Ops -> Calls] /\ \A d \in Ops : CallInv(d)'
      /\ \A q \in Profiles : RecordInOrder(q)' /\ PointerInOrder(q)'
  BY <1>1, <1>2, <1>4, GoKeeps, ReturnKeeps DEF Stages, Staging, Written, TakesOut, Restoring, CallPC
<1>6. RestTypes'
  BY <1>1, <1>2, <1>3 DEF RestTypes, LoginInOrder
<1>7. QED
  BY <1>2, <1>5, <1>6, Assemble

MayGo(o, pc) ==
    /\ calls[o].pc # "idle" /\ pc \in CallPC \ {"idle"}
    /\ pc \in Stages => calls[o].pc \in Stages
    /\ pc \in TakesOut => calls[o].gen # NoGen
    /\ pc \in Restoring => calls[o].pc \in Restoring
    /\ pc \in Staging => calls[o].pc \in Staging
    /\ pc \in Written => calls[o].pc \in Written

LEMMA Moves ==
    ASSUME TokenInv, NEW o \in Ops, UNCHANGED store, RestTypes',
           \/ UNCHANGED calls \/ Return(o) \/ \E pc \in CallPC : MayGo(o, pc) /\ Go(o, pc)
    PROVE  TokenInv'
<1>1. CASE UNCHANGED calls
  BY <1>1, NobodyMoves, Assemble
<1>2. CASE Return(o)
  BY <1>2, ReturnKeeps, Assemble
<1>3. ASSUME NEW pc \in CallPC, MayGo(o, pc), Go(o, pc)
      PROVE  TokenInv'
  <2>1. pc \in CallPC \ {"idle"}
    BY <1>3 DEF MayGo
  <2>2. /\ calls' \in [Ops -> Calls] /\ \A d \in Ops : CallInv(d)'
        /\ \A q \in Profiles : RecordInOrder(q)' /\ PointerInOrder(q)'
    BY <1>3, <2>1, GoKeeps DEF MayGo
  <2>3. QED
    BY <2>2, Assemble
<1>4. QED
  BY <1>1, <1>2, <1>3

LEMMA LoginKeeps ==
    ASSUME TokenInv, NEW o \in Ops, EnterLogin(o) \/ ShowCode(o) \/ NoCode(o)
    PROVE  TokenInv'
<1>1. /\ calls[o] \in Calls /\ CallReads(o) /\ RestTypes
      /\ calls[o].pc \in {"enter", "device"} /\ calls[o].p \in Profiles
      /\ connections[calls[o].p] \in Connections
  BY RestFacts DEF EnterLogin, ShowCode, NoCode, At
<1>2. /\ UNCHANGED store
      /\ UNCHANGED <<cancelled, cancels, faults, starts, started>>
  BY DEF EnterLogin, ShowCode, NoCode, store, rows, manager, service, history, rest
<1>3. UNCHANGED calls \/ Return(o) \/ \E pc \in CallPC : MayGo(o, pc) /\ Go(o, pc)
  BY <1>1 DEF EnterLogin, ShowCode, NoCode, MayGo, CallPC, Stages, Staging, Written,
              TakesOut, Restoring
<1>4. logins' \in [Ops -> Logins] /\ \A d \in Ops : LoginInOrder(d)'
  <2>1. [p |-> calls[o].p, rev |-> calls[o].rev, gen |-> calls[o].gen] \in Logins
    BY <1>1 DEF Logins, Calls
  <2>2. NoLogin \in Logins
    BY StoreBounds DEF Logins, NoLogin, Revisions
  <2>3. PICK l \in Logins :
          /\ logins' = [logins EXCEPT ![o] = l] \/ logins' = logins
          /\ l = NoLogin \/ l.p \in Profiles
    BY <1>1, <2>1, <2>2 DEF EnterLogin, ShowCode, NoCode, ForgetLogin, service
  <2>4. QED
    BY <1>1, <2>3 DEF RestTypes, LoginInOrder
<1>5. deviceCodes' \subseteq Ops /\ connections' \in [Profiles -> Connections]
  <2>1. [status |-> "Pending", gen |-> connections[calls[o].p].gen, owner |-> o] \in Connections
    BY <1>1 DEF Connections, Statuses
  <2>2. QED
    BY <1>1, <2>1 DEF EnterLogin, ShowCode, NoCode, SetConnection, manager, RestTypes
<1>6. RestTypes'
  BY <1>1, <1>2, <1>4, <1>5 DEF RestTypes
<1>7. QED
  BY <1>2, <1>3, <1>6, Moves

LEMMA CompleteLoginKeeps ==
    ASSUME TokenInv, NEW o \in Ops, CompleteLogin(o)
    PROVE  TokenInv'
<1> DEFINE l == logins[o]
           t == [IdleCall EXCEPT !.pc = "begin", !.kind = "complete", !.p = l.p,
                                 !.rev = l.rev, !.gen = l.gen, !.model = profiles[l.p].model]
<1>1. /\ RestTypes /\ l # NoLogin /\ l \in Logins /\ l.p \in Profiles
      /\ profiles[l.p] \in ProfileRows /\ profiles[l.p].rev \in Int
  BY RestFacts, Types DEF CompleteLogin, RestTypes, LoginInOrder, ProfileRows, Revisions
<1>2. /\ UNCHANGED store /\ started' = started + 1 /\ started < MaxCalls
      /\ UNCHANGED <<connections, deviceCodes, cancelled, cancels, faults, starts>>
  BY DEF CompleteLogin, store, rows, manager, service, history
<1>3. logins' \in [Ops -> Logins] /\ \A d \in Ops : LoginInOrder(d)'
  <2>1. NoLogin \in Logins
    BY StoreBounds DEF Logins, NoLogin, Revisions
  <2>2. logins' = [logins EXCEPT ![o] = NoLogin] \/ logins' = logins
    BY DEF CompleteLogin, ForgetLogin
  <2>3. QED
    BY <1>1, <2>1, <2>2 DEF RestTypes, LoginInOrder
<1>4. RestTypes'
  BY <1>1, <1>2, <1>3, StoreBounds DEF RestTypes
<1>5. CASE UNCHANGED calls
  BY <1>2, <1>4, <1>5, Moves
<1>6. CASE calls' = [calls EXCEPT ![o] = t] /\ profiles[l.p].rev = l.rev
  <2>1. /\ t \in Calls /\ t.pc = "begin" /\ t.p = l.p /\ t.rev = l.rev
        /\ t.model = profiles[l.p].model /\ t.staged = NoGen
    BY <1>1, StoreBounds DEF IdleCall, Calls, CallPC, ProfileRows, Logins, CallKinds
  <2> HIDE DEF t
  <2>2. /\ t.p \in Profiles /\ t.rev <= profiles[t.p].rev
        /\ t.rev = profiles[t.p].rev => t.model = profiles[t.p].model
    BY <1>1, <1>6, <2>1
  <2>3. t.pc \notin Stages \cup Staging \cup Written \cup TakesOut \cup Restoring
    BY <2>1 DEF Stages, Staging, Written, TakesOut, Restoring
  <2>4. /\ calls' \in [Ops -> Calls] /\ \A d \in Ops : CallInv(d)'
        /\ \A q \in Profiles : RecordInOrder(q)' /\ PointerInOrder(q)'
    BY <1>2, <1>6, <2>1, <2>2, <2>3, CallMoves
  <2>5. QED
    BY <1>2, <1>4, <2>4, Assemble
<1>7. QED
  BY <1>5, <1>6 DEF CompleteLogin

LEMMA FinishTypes ==
    ASSUME RestTypes, NEW o \in Ops, NEW st \in Statuses, FinishFailure(o, st)
    PROVE  deviceCodes' \subseteq Ops /\ connections' \in [Profiles -> Connections]
<1>1. CASE UNCHANGED manager
  BY <1>1 DEF RestTypes, manager
<1>2. CASE /\ deviceCodes' = deviceCodes \ {o}
           /\ connections' = [connections EXCEPT ![calls[o].p].status = st,
                                                 ![calls[o].p].owner = NoOp]
  <2> DEFINE c == [connections[calls[o].p] EXCEPT !.status = st, !.owner = NoOp]
  <2>1. connections' = [connections EXCEPT ![calls[o].p] = c]
    BY <1>2
  <2>2. calls[o].p \in Profiles => c \in Connections
    BY DEF RestTypes, Connections
  <2> HIDE DEF c
  <2>3. QED
    BY <1>2, <2>1, <2>2 DEF RestTypes
<1>3. QED
  BY <1>1, <1>2 DEF FinishFailure

(* Polling and refreshing.                                                 *)
LEMMA AskingKeeps ==
    ASSUME TokenInv, NEW o \in Ops,
           PollCode(o) \/ ReadOldTokens(o) \/ PostRefresh(o)
    PROVE  TokenInv'
<1>1. /\ calls[o] \in Calls /\ RestTypes /\ calls[o].pc \in {"poll", "old", "post"}
  BY RestFacts DEF PollCode, ReadOldTokens, PostRefresh, At
<1>2. /\ UNCHANGED store
      /\ UNCHANGED <<logins, cancelled, cancels, faults, starts, started>>
  BY DEF PollCode, ReadOldTokens, PostRefresh, store, rows, service, history, rest
<1>3. \E pc \in CallPC : MayGo(o, pc) /\ Go(o, pc)
  BY <1>1 DEF PollCode, ReadOldTokens, PostRefresh, MayGo, CallPC, Stages, Staging, Written,
              TakesOut, Restoring, At
<1>4. deviceCodes' \subseteq Ops /\ connections' \in [Profiles -> Connections]
  <2>1. UNCHANGED manager \/ \E st \in Statuses : FinishFailure(o, st)
    BY DEF PollCode, ReadOldTokens, PostRefresh, Statuses
  <2>2. QED
    BY <1>1, <2>1, FinishTypes DEF manager, RestTypes
<1>5. RestTypes'
  BY <1>1, <1>2, <1>4 DEF RestTypes, LoginInOrder
<1>6. QED
  BY <1>2, <1>3, <1>5, Moves

(* A call takes the generation of the connection it now owns.              *)
LEMMA TakesConnection ==
    ASSUME TokenInv, NEW o \in Ops, NEW pc \in {"old", "outLease"},
           calls[o].pc # "idle", pc = "old" => calls[o].pc = "own",
           connections[calls[o].p].gen # NoGen, UNCHANGED store, RestTypes',
           calls' = [calls EXCEPT ![o].pc = pc, ![o].gen = connections[calls[o].p].gen]
    PROVE  TokenInv'
<1> DEFINE t == [calls[o] EXCEPT !.pc = pc, !.gen = connections[calls[o].p].gen]
<1>1. /\ calls[o] \in Calls /\ calls \in [Ops -> Calls] /\ CallReads(o) /\ CallFields(o)
      /\ connections[calls[o].p] \in Connections
  BY RestFacts
<1>2. connections[calls[o].p].gen \in Generations \cup {NoGen}
  BY <1>1 DEF Connections
<1>3. /\ t \in Calls /\ t.pc = pc /\ t.gen # NoGen
      /\ t.p = calls[o].p /\ t.rev = calls[o].rev
      /\ t.model = calls[o].model /\ t.staged = calls[o].staged
  BY <1>1, <1>2 DEF Calls, CallPC
<1>4. calls' = [calls EXCEPT ![o] = t]
  BY <1>1
<1> HIDE DEF t
<1>5. /\ t.p \in Profiles /\ t.rev <= profiles[t.p].rev
      /\ t.rev = profiles[t.p].rev => t.model = profiles[t.p].model
  BY <1>1, <1>3 DEF CallReads
<1>6. /\ t.pc \in Stages \cup Staging => calls[o].pc \in Staging /\ t.staged # NoGen
      /\ t.pc \notin Written \cup Restoring /\ t.pc # "idle"
  BY <1>1, <1>3 DEF CallFields, Stages, Staging, Written, Restoring
<1>7. /\ calls' \in [Ops -> Calls] /\ \A d \in Ops : CallInv(d)'
      /\ \A q \in Profiles : RecordInOrder(q)' /\ PointerInOrder(q)'
  BY <1>3, <1>4, <1>5, <1>6, CallMoves
<1>8. QED
  BY <1>7, Assemble

LEMMA ConnectionTypes ==
    ASSUME RestTypes, NEW p, NEW c \in Connections, SetConnection(p, c)
    PROVE  connections' \in [Profiles -> Connections]
BY DEF RestTypes, SetConnection

LEMMA OwnKeeps ==
    ASSUME TokenInv, NEW o \in Ops, OwnConnection(o) \/ OwnLogout(o)
    PROVE  TokenInv'
<1> DEFINE was == connections[calls[o].p]
<1>1. /\ calls[o] \in Calls /\ RestTypes /\ calls[o].pc \in {"own", "out"}
      /\ was \in Connections /\ CallFields(o)
  BY RestFacts DEF OwnConnection, OwnLogout, At
<1>2. /\ UNCHANGED store
      /\ UNCHANGED <<deviceCodes, logins, cancelled, cancels, faults, starts, started>>
  BY DEF OwnConnection, OwnLogout, store, rows, service, history, rest
<1>3. connections' \in [Profiles -> Connections]
  <2>1. [was EXCEPT !.owner = o] \in Connections
    BY <1>1 DEF Connections
  <2>2. [was EXCEPT !.status = IF was = NoConnection THEN @ ELSE "Revoked"] \in Connections
    BY <1>1 DEF Connections, Statuses
  <2>3. \/ UNCHANGED connections
        \/ SetConnection(calls[o].p, [was EXCEPT !.owner = o])
        \/ connections' = [connections EXCEPT ![calls[o].p].status =
                              IF was = NoConnection THEN @ ELSE "Revoked"]
    BY DEF OwnConnection, OwnLogout
  <2>4. CASE connections' = [connections EXCEPT ![calls[o].p].status =
                                IF was = NoConnection THEN @ ELSE "Revoked"]
    <3>1. connections' = [connections EXCEPT ![calls[o].p] =
             [was EXCEPT !.status = IF was = NoConnection THEN @ ELSE "Revoked"]]
      BY <2>4
    <3>2. QED
      BY <3>1, <2>2, <1>1 DEF RestTypes
  <2>5. QED
    BY <1>1, <2>1, <2>3, <2>4, ConnectionTypes DEF RestTypes
<1>4. RestTypes'
  BY <1>1, <1>2, <1>3 DEF RestTypes, LoginInOrder
<1>5. CASE \E pc \in {"out", "idle", "undo"} : Leave(o, pc) \/ (pc # "idle" /\ Go(o, pc))
  <2>1. Return(o) \/ \E pc \in CallPC : MayGo(o, pc) /\ Go(o, pc)
    BY <1>1, <1>5 DEF Leave, MayGo, CallPC, Stages, Staging, Written, TakesOut, Restoring
  <2>2. QED
    BY <1>2, <1>4, <2>1, Moves
<1>6. CASE /\ was.gen # NoGen
           /\ \/ /\ calls[o].pc = "own"
                 /\ calls' = [calls EXCEPT ![o].pc = "old", ![o].gen = was.gen]
              \/ calls' = [calls EXCEPT ![o].pc = "outLease", ![o].gen = was.gen]
  BY <1>1, <1>2, <1>4, <1>6, TakesConnection
<1>7. QED
  BY <1>5, <1>6 DEF OwnConnection, OwnLogout, AfterLogout, At

LEMMA ConnectKeeps ==
    ASSUME TokenInv, NEW o \in Ops, Connect(o)
    PROVE  TokenInv'
<1>1. /\ calls[o] \in Calls /\ RestTypes /\ calls[o].pc = "connect" /\ CallFields(o)
  BY RestFacts DEF Connect, At
<1>2. /\ UNCHANGED store
      /\ UNCHANGED <<logins, cancelled, cancels, faults, starts, started>>
  BY DEF Connect, store, rows, service, history, rest
<1>3. \E pc \in CallPC : MayGo(o, pc) /\ Go(o, pc)
  BY <1>1 DEF Connect, MayGo, CallPC, Stages, Staging, Written, TakesOut, Restoring
<1>4. deviceCodes' \subseteq Ops /\ connections' \in [Profiles -> Connections]
  <2>1. [status |-> "Connected", gen |-> calls[o].staged, owner |-> NoOp] \in Connections
    BY <1>1 DEF Connections, Statuses, Calls
  <2>2. QED
    BY <1>1, <2>1, ConnectionTypes DEF Connect, manager, RestTypes
<1>5. RestTypes'
  BY <1>1, <1>2, <1>4 DEF RestTypes, LoginInOrder
<1>6. QED
  BY <1>2, <1>3, <1>5, Moves

LEMMA LogoutKeeps ==
    ASSUME TokenInv, NEW o \in Ops, ReadLogoutTokens(o) \/ RevokeConnection(o)
    PROVE  TokenInv'
<1>1. /\ calls[o] \in Calls /\ RestTypes /\ calls[o].pc \in {"outLease", "outState"}
      /\ CallFields(o)
  BY RestFacts DEF ReadLogoutTokens, RevokeConnection, At
<1>2. /\ UNCHANGED store
      /\ UNCHANGED <<deviceCodes, logins, cancelled, cancels, faults, starts, started>>
  BY DEF ReadLogoutTokens, RevokeConnection, store, rows, service, history, rest, manager
<1>3. \/ \E pc \in {"idle", "undo", "block"} : Leave(o, pc)
      \/ calls[o].pc = "outLease" /\ Leave(o, "outDelete")
  BY DEF ReadLogoutTokens, RevokeConnection, AfterLogout, LogoutError, At
<1>4. Return(o) \/ \E pc \in CallPC : MayGo(o, pc) /\ Go(o, pc)
  BY <1>1, <1>3 DEF Leave, MayGo, CallPC, CallFields, Stages, Staging, Written, TakesOut, Restoring
<1>5. connections' \in [Profiles -> Connections]
  <2>1. Revoked \in Connections
    BY DEF Revoked, Connections, Statuses
  <2>2. QED
    BY <1>1, <2>1, ConnectionTypes DEF ReadLogoutTokens, RevokeConnection, manager, RestTypes
<1>6. RestTypes'
  BY <1>1, <1>2, <1>5 DEF RestTypes, LoginInOrder
<1>7. QED
  BY <1>2, <1>4, <1>6, Moves

LEMMA FailsKeeps ==
    ASSUME TokenInv, NEW o \in Ops, ServiceFails(o)
    PROVE  TokenInv'
<1>1. /\ calls[o] \in Calls /\ RestTypes /\ CallFields(o)
  BY RestFacts
<1>2. /\ UNCHANGED store
      /\ faults + starts < MaxFaults /\ faults' = faults + 1
      /\ UNCHANGED <<logins, cancelled, cancels, starts, started>>
  BY DEF ServiceFails, store, rows, service, history
<1>3. /\ calls[o].pc # "idle"
      /\ \/ \E pc \in {"idle", "out", "block"} : Leave(o, pc)
         \/ calls[o].pc = "lease" /\ Leave(o, "restore")
  <2> DEFINE F == FailureOf
  <2>1. /\ DOMAIN F = {"lease", "begin", "old", "write", "record", "commit", "finish",
                       "outLease", "outDelete", "undo", "block"}
        /\ F["lease"] = "restore" /\ F["begin"] = "idle" /\ F["old"] = "out"
        /\ F["write"] = "out" /\ F["record"] = "out" /\ F["commit"] = "out"
        /\ F["finish"] = "idle" /\ F["outLease"] = "err" /\ F["outDelete"] = "err"
        /\ F["undo"] = "block" /\ F["block"] = "idle"
    BY DEF FailureOf
  <2>2. /\ calls[o].pc \in DOMAIN F
        /\ Leave(o, IF F[calls[o].pc] = "err" THEN LogoutError(calls[o].kind) ELSE F[calls[o].pc])
    BY DEF ServiceFails
  <2> HIDE DEF F
  <2>3. calls[o].pc # "lease" => F[calls[o].pc] \in {"idle", "out", "block", "err"}
    BY <2>1, <2>2
  <2>4. LogoutError(calls[o].kind) \in {"idle", "block"}
    BY DEF LogoutError
  <2>5. QED
    BY <2>1, <2>2, <2>3, <2>4
<1>4. Return(o) \/ \E pc \in CallPC : MayGo(o, pc) /\ Go(o, pc)
  BY <1>3 DEF Leave, MayGo, CallPC, Stages, Staging, Written, TakesOut, Restoring
<1>5. deviceCodes' \subseteq Ops /\ connections' \in [Profiles -> Connections]
  BY <1>1, FinishTypes DEF ServiceFails, Statuses, manager, RestTypes
<1>6. faults' \in 0 .. MaxFaults
  BY <1>1, <1>2, StoreBounds DEF RestTypes
<1>7. RestTypes'
  BY <1>1, <1>2, <1>5, <1>6 DEF RestTypes, LoginInOrder
<1>8. QED
  BY <1>2, <1>4, <1>7, Moves

LEMMA CancelKeeps ==
    ASSUME TokenInv, NEW o \in Ops, Cancel(o) \/ DropCall(o) \/ FindIntent(o)
    PROVE  TokenInv'
<1>1. RestTypes
  BY RestFacts
<1>2. /\ UNCHANGED store
      /\ UNCHANGED <<connections, deviceCodes, faults, starts, started>>
      /\ cancelled' \subseteq Ops
  BY <1>1 DEF Cancel, DropCall, FindIntent, store, rows, service, history, manager, rest, RestTypes
<1>3. UNCHANGED calls \/ Return(o)
  BY DEF Cancel, DropCall, FindIntent
<1>4. logins' \in [Ops -> Logins] /\ \A d \in Ops : LoginInOrder(d)'
  <2>1. NoLogin \in Logins
    BY StoreBounds DEF Logins, NoLogin, Revisions
  <2>2. logins' = [logins EXCEPT ![o] = NoLogin] \/ logins' = logins
    BY DEF Cancel, DropCall, FindIntent, ForgetLogin, service
  <2>3. QED
    BY <1>1, <2>1, <2>2 DEF RestTypes, LoginInOrder
<1>5. cancels' \in [Ops -> CancelPC]
  <2>1. UNCHANGED cancels \/ \E pc \in CancelPC : cancels' = [cancels EXCEPT ![o] = pc]
    BY DEF Cancel, DropCall, FindIntent, service, CancelPC
  <2>2. QED
    BY <1>1, <2>1 DEF RestTypes
<1>6. RestTypes'
  BY <1>1, <1>2, <1>4, <1>5 DEF RestTypes
<1>7. QED
  BY <1>2, <1>3, <1>6, Moves

-----------------------------------------------------------------------------
(* Steps that move the journal, the pointer or the vault.                  *)

(* What a step of one call leaves of every call.                           *)
Follows(d) ==
    /\ calls'[d].pc # "idle" =>
          /\ calls[d].pc # "idle"
          /\ calls'[d].p = calls[d].p /\ calls'[d].rev = calls[d].rev
          /\ calls'[d].model = calls[d].model
    /\ calls'[d].staged # NoGen =>
          /\ calls'[d].pc # "idle" /\ calls'[d].staged = calls[d].staged
          /\ calls'[d].p = calls[d].p /\ calls'[d].rev = calls[d].rev
    /\ calls'[d].pc \in Staging =>
          calls[d].pc \in Staging /\ calls'[d].staged = calls[d].staged

MayLeave(o, pc) ==
    /\ calls[o].pc # "idle" /\ pc \in CallPC \ {"idle"}
    /\ pc \in Stages => calls[o].pc \in Stages
    /\ pc \notin TakesOut \cup Restoring
    /\ pc \in Staging => calls[o].pc \in Staging

LEMMA CallsFollow ==
    ASSUME TokenInv, NEW o \in Ops,
           \/ UNCHANGED calls \/ Return(o) \/ \E pc \in CallPC : MayLeave(o, pc) /\ Go(o, pc)
    PROVE  /\ calls' \in [Ops -> Calls]
           /\ \A d \in Ops : Follows(d) /\ CallFields(d)'
           /\ \A d \in Ops : d # o => calls'[d] = calls[d]
<1>1. \A d \in Ops : CallFields(d) /\ OwnStage(d) /\ calls[d] \in Calls
  BY Types DEF TokenInv, CallInv
<1>2. calls \in [Ops -> Calls]
  BY Types DEF TokenInv
<1>3. CASE UNCHANGED calls
  BY <1>1, <1>2, <1>3 DEF Follows, CallFields, OwnStage
<1>4. ASSUME NEW t \in Calls, calls' = [calls EXCEPT ![o] = t],
             t.pc # "idle" => /\ calls[o].pc # "idle"
                              /\ t.p = calls[o].p /\ t.rev = calls[o].rev
                              /\ t.model = calls[o].model,
             t.staged # NoGen => /\ t.pc # "idle" /\ t.staged = calls[o].staged
                                 /\ t.p = calls[o].p /\ t.rev = calls[o].rev,
             t.pc \in Staging => calls[o].pc \in Staging /\ t.staged = calls[o].staged,
             t.pc \in Stages => t.staged # NoGen,
             t.pc \notin TakesOut \cup Restoring
      PROVE  /\ calls' \in [Ops -> Calls]
             /\ \A d \in Ops : Follows(d) /\ CallFields(d)'
             /\ \A d \in Ops : d # o => calls'[d] = calls[d]
  <2>1. calls'[o] = t /\ \A d \in Ops : d # o => calls'[d] = calls[d]
    BY <1>2, <1>4
  <2>2. Follows(o) /\ CallFields(o)'
    BY <1>4, <2>1 DEF Follows, CallFields
  <2>3. \A d \in Ops : d # o => Follows(d) /\ CallFields(d)'
    BY <1>1, <2>1 DEF Follows, CallFields, OwnStage
  <2>4. QED
    BY <1>2, <1>4, <2>1, <2>2, <2>3
<1>5. CASE Return(o)
  <2>1. /\ IdleCall \in Calls /\ IdleCall.pc = "idle" /\ IdleCall.staged = NoGen
    BY StoreBounds DEF IdleCall, Calls, CallPC, Revisions, NoGen
  <2>2. QED
    BY <1>4, <1>5, <2>1 DEF Return, Stages, Staging, TakesOut, Restoring
<1>6. ASSUME NEW pc \in CallPC, MayLeave(o, pc), Go(o, pc)
      PROVE  /\ calls' \in [Ops -> Calls]
             /\ \A d \in Ops : Follows(d) /\ CallFields(d)'
             /\ \A d \in Ops : d # o => calls'[d] = calls[d]
  <2>1. PICK t \in Calls :
              /\ calls' = [calls EXCEPT ![o] = t] /\ t.pc = pc
              /\ t.kind = calls[o].kind /\ t.p = calls[o].p /\ t.rev = calls[o].rev
              /\ t.gen = calls[o].gen /\ t.staged = calls[o].staged
              /\ t.model = calls[o].model
    BY <1>6, GoGives DEF TokenInv
  <2>2. CallFields(o)
    BY <1>1
  <2>3. /\ t.pc \in Stages => t.staged # NoGen
        /\ t.pc # "idle" /\ calls[o].pc # "idle" /\ t.pc \notin TakesOut \cup Restoring
        /\ t.pc \in Staging => calls[o].pc \in Staging
    BY <1>6, <2>1, <2>2 DEF MayLeave, CallFields
  <2>4. QED
    BY <1>4, <2>1, <2>3
<1>7. QED
  BY <1>3, <1>5, <1>6

LEMMA ReadsFollow ==
    ASSUME TokenInv, NEW d \in Ops, Follows(d), UNCHANGED profiles
    PROVE  CallReads(d)'
BY DEF TokenInv, CallInv, CallReads, Follows

(* Generations that have been used stay used, records keep their operation.*)
LEMMA StagesFollow ==
    ASSUME TokenInv, \A d \in Ops : Follows(d),
           \A p \in Profiles, g \in Generations : GenUsed(p, g) => GenUsed(p, g)',
           \A p \in Profiles : /\ journal'[p].op = journal[p].op
                               /\ journal'[p].staged = journal[p].staged
                               /\ journal'[p].base = journal[p].base
    PROVE  \A d \in Ops : OwnStage(d)'
<1> SUFFICES ASSUME NEW d \in Ops, calls'[d].staged # NoGen
             PROVE  OwnStage(d)'
  BY DEF OwnStage
<1>1. /\ OwnStage(d) /\ CallReads(d) /\ calls[d] \in Calls
  BY Types DEF TokenInv, CallInv
<1>2. /\ calls'[d].pc # "idle" /\ calls'[d].staged = calls[d].staged
      /\ calls'[d].p = calls[d].p /\ calls'[d].rev = calls[d].rev
  BY DEF Follows
<1>3. calls[d].p \in Profiles /\ calls[d].staged \in Generations
  BY <1>1, <1>2 DEF OwnStage, CallReads, Calls, NoGen
<1>4. \A e \in Ops : e # d /\ calls'[e].p = calls'[d].p => calls'[e].staged # calls'[d].staged
  BY <1>1, <1>2 DEF OwnStage, Follows
<1>5. gens'[calls[d].p][calls[d].staged] # "none"
  BY <1>1, <1>2, <1>3 DEF OwnStage, GenUsed
<1>6. QED
  BY <1>1, <1>2, <1>3, <1>4, <1>5 DEF OwnStage, GenUsed

(* A record enters another phase.                                          *)
LEMMA PhaseMoves ==
    ASSUME TokenInv, NEW p \in Profiles, NEW ph \in NextPhases(journal[p].phase),
           journal' = [journal EXCEPT ![p].phase = ph],
           UNCHANGED <<profiles, vault, loggedOut>>,
           \A q \in Profiles, g \in Generations : GenUsed(q, g) => GenUsed(q, g)',
           \A d \in Ops : Follows(d) /\ CallFields(d)',
           \A d \in Ops : calls'[d].pc \in Written => calls[d].pc \in Written,
           ph = "VaultWritten" =>
              /\ Kept(p, journal[p].staged)
              /\ \A d \in Ops : calls'[d].pc \in Staging /\ calls[d].p = p =>
                                   calls[d].staged # journal[p].staged
    PROVE  /\ journal' \in [Profiles -> Records]
           /\ \A d \in Ops : CallInv(d)'
           /\ \A q \in Profiles : RecordInOrder(q)' /\ PointerInOrder(q)'
<1>1. journal \in [Profiles -> Records] /\ journal[p] \in Records /\ profiles \in [Profiles -> ProfileRows]
  BY Types DEF TokenInv
<1>2. /\ ph \in Phases \ {"None", "IntentRecorded"}
      /\ journal[p].phase \notin {"None", "Completed", "RolledBack", "Blocked"}
      /\ journal[p].phase = "IntentRecorded" => ph \in {"VaultWritten", "RolledBack", "Blocked"}
      /\ ph = "VaultWritten" => journal[p].phase = "IntentRecorded"
  <2>1. journal[p].phase \in Phases
    BY <1>1 DEF Records
  <2>2. CASE journal[p].phase = "IntentRecorded"
    BY <2>2 DEF NextPhases, Phases
  <2>3. CASE journal[p].phase = "VaultWritten"
    BY <2>3 DEF NextPhases, Phases
  <2>4. CASE journal[p].phase = "PointerCommitted"
    BY <2>4 DEF NextPhases, Phases
  <2>5. CASE journal[p].phase = "CleanupPending"
    BY <2>5 DEF NextPhases, Phases
  <2>6. journal[p].phase \in Phases \ {"IntentRecorded", "VaultWritten", "PointerCommitted", "CleanupPending"}
           => NextPhases(journal[p].phase) = {}
    BY DEF NextPhases, Phases
  <2>7. QED
    BY <2>1, <2>2, <2>3, <2>4, <2>5, <2>6 DEF Phases
<1> DEFINE rec == [journal[p] EXCEPT !.phase = ph]
<1>3. /\ rec \in Records /\ rec.phase = ph /\ rec.op = journal[p].op
      /\ rec.intent = journal[p].intent /\ rec.base = journal[p].base
      /\ rec.old = journal[p].old /\ rec.staged = journal[p].staged
  BY <1>1, <1>2 DEF Records
<1>4. journal' = [journal EXCEPT ![p] = rec]
  OBVIOUS
<1> HIDE DEF rec
<1>5. journal' \in [Profiles -> Records]
  BY <1>1, <1>3, <1>4
<1>6. /\ journal'[p] = rec
      /\ \A q \in Profiles : q # p => journal'[q] = journal[q]
      /\ \A q \in Profiles : /\ journal'[q].op = journal[q].op
                             /\ journal'[q].intent = journal[q].intent
                             /\ journal'[q].staged = journal[q].staged
                             /\ journal'[q].base = journal[q].base
  BY <1>1, <1>3, <1>4
<1>7. \A d \in Ops : CallReads(d)' /\ OwnStage(d)'
  BY <1>6, ReadsFollow, StagesFollow
<1>8. ASSUME NEW d \in Ops PROVE StageStands(d)'
  <2>1. /\ StageStands(d) /\ Follows(d) /\ CallReads(d) /\ CallFields(d)
    BY DEF TokenInv, CallInv
  <2>2. ASSUME calls'[d].pc \in Staging
        PROVE  /\ profiles[calls'[d].p].gen # calls'[d].staged
               /\ journal'[calls'[d].p].staged = calls'[d].staged =>
                     /\ journal'[calls'[d].p].op = d
                     /\ journal'[calls'[d].p].phase \in {"IntentRecorded", "RolledBack", "Blocked"}
    <3>1. /\ calls[d].pc \in Staging /\ calls'[d].staged = calls[d].staged
          /\ calls'[d].p = calls[d].p /\ calls[d].p \in Profiles
      BY <2>1, <2>2 DEF Follows, CallReads, Staging
    <3>2. CASE calls[d].p # p
      BY <1>6, <2>1, <3>1, <3>2 DEF StageStands
    <3>3. CASE calls[d].p = p
      <4> SUFFICES ASSUME journal[p].staged = calls[d].staged
                   PROVE  rec.op = d /\ rec.phase \in {"IntentRecorded", "RolledBack", "Blocked"}
        BY <1>3, <1>6, <2>1, <3>1, <3>3 DEF StageStands
      <4>1. journal[p].op = d /\ journal[p].phase = "IntentRecorded"
        BY <1>2, <2>1, <3>1, <3>3 DEF StageStands
      <4>2. QED
        BY <1>2, <1>3, <2>2, <3>3, <4>1
    <3>4. QED
      BY <3>2, <3>3
  <2>3. calls'[d].pc \in Written => \/ <<calls'[d].p, calls'[d].staged>> \in vault'
                                    \/ <<calls'[d].p, calls'[d].staged>> \in loggedOut'
    <3> SUFFICES ASSUME calls'[d].pc \in Written
                 PROVE  \/ <<calls'[d].p, calls'[d].staged>> \in vault'
                        \/ <<calls'[d].p, calls'[d].staged>> \in loggedOut'
      OBVIOUS
    <3>1. /\ calls[d].pc \in Written /\ calls'[d].pc \in Staging /\ calls'[d].pc # "idle"
      BY DEF Written, Staging
    <3>2. calls'[d].p = calls[d].p /\ calls'[d].staged = calls[d].staged
      BY <2>1, <3>1 DEF Follows
    <3>3. QED
      BY <2>1, <3>1, <3>2 DEF StageStands, Kept
  <2>4. QED
    BY <2>2, <2>3 DEF StageStands, Kept
<1>9. ASSUME NEW q \in Profiles PROVE RecordInOrder(q)' /\ PointerInOrder(q)'
  <2>1. RecordInOrder(q) /\ PointerInOrder(q) /\ journal[q] \in Records /\ profiles[q] \in ProfileRows
    BY <1>1 DEF TokenInv
  <2>2. PointerInOrder(q)'
    <3>1. profiles[q].gen \in Generations \cup {NoGen}
      BY <2>1 DEF ProfileRows
    <3>2. QED
      BY <2>1, <3>1 DEF PointerInOrder, Kept
  <2>3. journal[q].staged # NoGen => GenUsed(q, journal[q].staged)'
    <3>1. journal[q].staged \in Generations \cup {NoGen}
      BY <2>1 DEF Records
    <3>2. QED
      BY <2>1, <3>1 DEF RecordInOrder
  <2>4. CASE q # p
    BY <1>6, <2>1, <2>3, <2>4, <2>2 DEF RecordInOrder, Kept, GenUsed
  <2>5. CASE q = p
    BY <1>2, <1>3, <1>6, <2>1, <2>2, <2>3, <2>5 DEF RecordInOrder, Kept, GenUsed
  <2>6. QED
    BY <2>4, <2>5
<1>10. QED
  BY <1>5, <1>7, <1>8, <1>9 DEF CallInv

(* The vault or its traces move, the rows do not: nothing that is still    *)
(* needed loses its trace.                                                 *)
LEMMA VaultMoves ==
    ASSUME TokenInv, UNCHANGED <<profiles, gens, journal>>,
           \A d \in Ops : Follows(d) /\ CallFields(d)',
           \A q \in Profiles, g \in Generations :
              Kept(q, g) => \/ Kept(q, g)'
                            \/ /\ profiles[q].gen # g
                               /\ ~(journal[q].phase = "VaultWritten" /\ journal[q].staged = g)
                               /\ \A d \in Ops : calls'[d].pc \in Written =>
                                     ~(calls'[d].p = q /\ calls'[d].staged = g),
           \A d \in Ops : calls'[d].pc \in Written =>
              calls[d].pc \in Written \/ <<calls'[d].p, calls'[d].staged>> \in vault'
    PROVE  /\ \A d \in Ops : CallInv(d)'
           /\ \A q \in Profiles : RecordInOrder(q)' /\ PointerInOrder(q)'
<1>1. /\ journal \in [Profiles -> Records] /\ profiles \in [Profiles -> ProfileRows]
      /\ \A d \in Ops : calls[d] \in Calls
  BY Types DEF TokenInv
<1>2. \A d \in Ops : CallReads(d)' /\ OwnStage(d)'
  <2>1. \A q \in Profiles, g \in Generations : GenUsed(q, g) => GenUsed(q, g)'
    BY DEF GenUsed
  <2>2. QED
    BY <2>1, ReadsFollow, StagesFollow
<1>3. ASSUME NEW d \in Ops PROVE StageStands(d)'
  <2>1. /\ StageStands(d) /\ Follows(d) /\ CallReads(d) /\ CallFields(d)
    BY DEF TokenInv, CallInv
  <2>2. ASSUME calls'[d].pc \in Staging
        PROVE  /\ profiles[calls'[d].p].gen # calls'[d].staged
               /\ journal[calls'[d].p].staged = calls'[d].staged =>
                     /\ journal[calls'[d].p].op = d
                     /\ journal[calls'[d].p].phase \in {"IntentRecorded", "RolledBack", "Blocked"}
    BY <2>1, <2>2 DEF StageStands, Follows, Staging
  <2>3. ASSUME calls'[d].pc \in Written
        PROVE  \/ <<calls'[d].p, calls'[d].staged>> \in vault'
               \/ <<calls'[d].p, calls'[d].staged>> \in loggedOut'
    <3>1. CASE <<calls'[d].p, calls'[d].staged>> \in vault'
      BY <3>1
    <3>2. CASE calls[d].pc \in Written
      <4>1. /\ calls'[d].p = calls[d].p /\ calls'[d].staged = calls[d].staged
            /\ calls[d].p \in Profiles /\ calls[d].staged \in Generations
        BY <1>1, <2>1, <2>3, <3>2
           DEF Follows, Written, Staging, Stages, CallFields, CallReads, Calls, NoGen
      <4>2. Kept(calls[d].p, calls[d].staged)
        BY <2>1, <3>2 DEF StageStands
      <4>3. QED
        BY <2>3, <4>1, <4>2 DEF Kept
    <3>3. QED
      BY <2>3, <3>1, <3>2
  <2>4. QED
    BY <2>2, <2>3 DEF StageStands, Kept
<1>4. ASSUME NEW q \in Profiles PROVE RecordInOrder(q)' /\ PointerInOrder(q)'
  <2>1. RecordInOrder(q) /\ PointerInOrder(q) /\ journal[q] \in Records /\ profiles[q] \in ProfileRows
    BY <1>1 DEF TokenInv
  <2>2. PointerInOrder(q)'
    BY <2>1 DEF PointerInOrder, Kept, GenUsed, ProfileRows
  <2>3. journal[q].phase = "VaultWritten" => Kept(q, journal[q].staged)'
    <3> SUFFICES ASSUME journal[q].phase = "VaultWritten" PROVE Kept(q, journal[q].staged)'
      OBVIOUS
    <3>1. journal[q].staged # NoGen /\ Kept(q, journal[q].staged)
      BY <2>1 DEF RecordInOrder
    <3>2. journal[q].staged \in Generations
      BY <2>1, <3>1 DEF Records
    <3>3. QED
      BY <3>1, <3>2 DEF Kept
  <2>4. QED
    BY <2>1, <2>2, <2>3 DEF RecordInOrder, GenUsed, Kept
<1>5. QED
  BY <1>2, <1>3, <1>4 DEF CallInv

LEMMA WriteKeeps ==
    ASSUME TokenInv, NEW o \in Ops, WriteTokens(o)
    PROVE  TokenInv'
<1>1. /\ RestTypes /\ calls[o].pc = "write" /\ CallFields(o) /\ CallReads(o)
      /\ calls[o] \in Calls /\ calls \in [Ops -> Calls] /\ TypeOK
  BY RestFacts DEF WriteTokens, At
<1>2. /\ UNCHANGED <<profiles, gens, journal, loggedOut>>
      /\ UNCHANGED <<connections, deviceCodes, logins, cancelled, cancels, faults, starts, started>>
      /\ vault' = vault \cup {<<calls[o].p, calls[o].staged>>}
      /\ Go(o, "connect")
  BY DEF WriteTokens, rows, manager, service, history, rest
<1>3. calls[o].p \in Profiles /\ calls[o].staged \in Generations
  BY <1>1 DEF CallReads, CallFields, Stages, Staging, Calls, NoGen
<1>4. MayLeave(o, "connect") /\ "connect" \in CallPC
  BY <1>1 DEF MayLeave, CallPC, Stages, Staging, TakesOut, Restoring
<1>5. /\ calls' \in [Ops -> Calls]
      /\ \A d \in Ops : Follows(d) /\ CallFields(d)'
      /\ \A d \in Ops : d # o => calls'[d] = calls[d]
  BY <1>2, <1>4, CallsFollow
<1>6. calls'[o].p = calls[o].p /\ calls'[o].staged = calls[o].staged
  BY <1>1, <1>2 DEF Go
<1>7. /\ \A d \in Ops : CallInv(d)'
      /\ \A q \in Profiles : RecordInOrder(q)' /\ PointerInOrder(q)'
  <2>1. \A q \in Profiles, g \in Generations : Kept(q, g) => Kept(q, g)'
    BY <1>2 DEF Kept
  <2>2. \A d \in Ops : calls'[d].pc \in Written =>
          calls[d].pc \in Written \/ <<calls'[d].p, calls'[d].staged>> \in vault'
    BY <1>2, <1>5, <1>6
  <2>3. QED
    BY <1>2, <1>5, <2>1, <2>2, VaultMoves
<1>8. QED
  BY <1>1, <1>2, <1>3, <1>5, <1>7 DEF TokenInv, TypeOK, RestTypes, LoginInOrder

LEMMA DiscardKeeps ==
    ASSUME TokenInv, NEW o \in Ops, DiscardTokens(o)
    PROVE  TokenInv'
<1>1. /\ RestTypes /\ calls[o].pc = "discard" /\ CallFields(o) /\ CallReads(o)
      /\ calls[o] \in Calls /\ calls \in [Ops -> Calls] /\ TypeOK
      /\ StageStands(o) /\ OwnStage(o)
  BY RestFacts DEF DiscardTokens, At, TokenInv, CallInv
<1>2. /\ UNCHANGED <<profiles, gens, journal, loggedOut>>
      /\ UNCHANGED <<connections, deviceCodes, logins, cancelled, cancels, faults, starts, started>>
      /\ vault' = vault \ {<<calls[o].p, calls[o].staged>>}
      /\ Go(o, "out")
  BY DEF DiscardTokens, rows, manager, service, history, rest
<1>4. MayLeave(o, "out") /\ "out" \in CallPC
  BY <1>1 DEF MayLeave, CallPC, Stages, Staging, TakesOut, Restoring
<1>5. /\ calls' \in [Ops -> Calls]
      /\ \A d \in Ops : Follows(d) /\ CallFields(d)'
      /\ \A d \in Ops : d # o => calls'[d] = calls[d]
      /\ calls'[o].pc = "out"
  <2>1. calls'[o].pc = "out"
    BY <1>1, <1>2 DEF Go
  <2>2. QED
    BY <1>2, <1>4, <2>1, CallsFollow
<1>6. calls[o].staged # NoGen /\ calls[o].pc \in Staging
  BY <1>1 DEF CallFields, Stages, Staging
<1>7. /\ \A d \in Ops : CallInv(d)'
      /\ \A q \in Profiles : RecordInOrder(q)' /\ PointerInOrder(q)'
  <2>1. ASSUME NEW q \in Profiles, NEW g \in Generations, Kept(q, g)
        PROVE  \/ Kept(q, g)'
               \/ /\ profiles[q].gen # g
                  /\ ~(journal[q].phase = "VaultWritten" /\ journal[q].staged = g)
                  /\ \A d \in Ops : calls'[d].pc \in Written =>
                        ~(calls'[d].p = q /\ calls'[d].staged = g)
    <3>1. CASE q = calls[o].p /\ g = calls[o].staged
      <4>1. profiles[q].gen # g
        BY <1>1, <1>6, <3>1 DEF StageStands
      <4>2. ~(journal[q].phase = "VaultWritten" /\ journal[q].staged = g)
        BY <1>1, <1>6, <3>1 DEF StageStands
      <4>3. \A d \in Ops : d # o => ~(calls[d].p = q /\ calls[d].staged = g)
        BY <1>1, <1>6, <3>1 DEF OwnStage
      <4>4. \A d \in Ops : calls'[d].pc \in Written => ~(calls'[d].p = q /\ calls'[d].staged = g)
        BY <1>5, <4>3 DEF Written
      <4>5. QED
        BY <4>1, <4>2, <4>4
    <3>2. CASE ~(q = calls[o].p /\ g = calls[o].staged)
      BY <1>2, <2>1, <3>2 DEF Kept
    <3>3. QED
      BY <3>1, <3>2
  <2>2. \A d \in Ops : calls'[d].pc \in Written => calls[d].pc \in Written
    BY <1>5 DEF Written
  <2>3. QED
    BY <1>2, <1>5, <2>1, <2>2, VaultMoves
<1>8. QED
  BY <1>1, <1>2, <1>5, <1>7 DEF TokenInv, TypeOK, RestTypes, LoginInOrder

(* A logout or a cancel leaves a trace of what it takes out.               *)
LEMMA TakeOutKeeps ==
    ASSUME TokenInv, NEW q \in Profiles, NEW g \in Generations,
           vault' = vault \ {<<q, g>>}, loggedOut' = loggedOut \cup {<<q, g>>},
           UNCHANGED <<profiles, gens, journal>>, RestTypes',
           NEW o \in Ops,
           \/ UNCHANGED calls
           \/ \E pc \in CallPC : /\ MayLeave(o, pc) /\ Go(o, pc)
                                 /\ pc \in Written => calls[o].pc \in Written
    PROVE  TokenInv'
<1>1. TypeOK /\ RestTypes /\ calls \in [Ops -> Calls]
  BY RestFacts
<1>2. /\ calls' \in [Ops -> Calls]
      /\ \A d \in Ops : Follows(d) /\ CallFields(d)'
      /\ \A d \in Ops : d # o => calls'[d] = calls[d]
  BY CallsFollow
<1>3. \A d \in Ops : calls'[d].pc \in Written => calls[d].pc \in Written
  <2>1. CASE UNCHANGED calls
    BY <2>1
  <2>2. ASSUME NEW pc \in CallPC, Go(o, pc), pc \in Written => calls[o].pc \in Written
        PROVE  \A d \in Ops : calls'[d].pc \in Written => calls[d].pc \in Written
    <3>1. calls'[o].pc = pc
      BY <1>1, <2>2 DEF Go
    <3>2. QED
      BY <1>2, <2>2, <3>1
  <2>3. QED
    BY <2>1, <2>2
<1>4. \A r \in Profiles, h \in Generations : Kept(r, h) => Kept(r, h)'
  BY DEF Kept
<1>5. /\ \A d \in Ops : CallInv(d)'
      /\ \A r \in Profiles : RecordInOrder(r)' /\ PointerInOrder(r)'
  BY <1>2, <1>3, <1>4, VaultMoves
<1>6. QED
  BY <1>1, <1>2, <1>5 DEF TokenInv, TypeOK, RestTypes

LEMMA DeleteKeeps ==
    ASSUME TokenInv, NEW o \in Ops, DeleteTokens(o)
    PROVE  TokenInv'
<1>1. /\ RestTypes /\ calls[o].pc = "outDelete" /\ CallFields(o) /\ CallReads(o)
      /\ calls[o] \in Calls
  BY RestFacts DEF DeleteTokens, At
<1>2. /\ UNCHANGED <<profiles, gens, journal>>
      /\ UNCHANGED <<connections, deviceCodes, logins, cancelled, cancels, faults, starts, started>>
      /\ vault' = vault \ {<<calls[o].p, calls[o].gen>>}
      /\ loggedOut' = loggedOut \cup {<<calls[o].p, calls[o].gen>>}
      /\ Go(o, "outState")
  BY DEF DeleteTokens, rows, manager, service, rest
<1>3. calls[o].p \in Profiles /\ calls[o].gen \in Generations
  BY <1>1 DEF CallReads, CallFields, TakesOut, Calls, NoGen
<1>4. MayLeave(o, "outState") /\ "outState" \in CallPC /\ "outState" \notin Written
  BY <1>1 DEF MayLeave, CallPC, Stages, Staging, TakesOut, Restoring, Written
<1>5. RestTypes'
  BY <1>1, <1>2 DEF RestTypes, LoginInOrder
<1>6. QED
  BY <1>2, <1>3, <1>4, <1>5, TakeOutKeeps

LEMMA ClearKeeps ==
    ASSUME TokenInv, NEW o \in Ops, ClearIntent(o)
    PROVE  TokenInv'
<1>1. PICK p \in Profiles :
        /\ cancels[o] = "clear" /\ journal[p].op = o
        /\ vault' = vault \ {<<p, journal[p].staged>>}
        /\ loggedOut' = loggedOut \cup {<<p, journal[p].staged>>}
        /\ cancels' = [cancels EXCEPT ![o] = "rollback"]
        /\ UNCHANGED <<rows, rest, manager, logins, cancelled, calls, crossed>>
  BY DEF ClearIntent
<1>2. journal[p].staged \in Generations
  BY <1>1, Types, ProfilesAssumption DEF TokenInv, RecordInOrder, Records, NoGen
<1>3. UNCHANGED <<profiles, gens, journal, connections, deviceCodes, logins, cancelled,
                  faults, starts, started, calls>>
  BY <1>1 DEF rows, rest, manager
<1>4. RestTypes'
  BY <1>1, <1>3, RestFacts DEF RestTypes, LoginInOrder, CancelPC
<1>5. QED
  BY <1>1, <1>2, <1>3, <1>4, TakeOutKeeps

LEMMA StatusFacts ==
    ASSUME TypeOK, NEW p \in Profiles, NEW g \in Generations \cup {NoGen},
           NEW st \in GenStatuses \ {"none"}, gens' = SetStatus(p, g, st)
    PROVE  /\ gens' \in [Profiles -> [Generations -> GenStatuses]]
           /\ \A q \in Profiles, h \in Generations : GenUsed(q, h) => GenUsed(q, h)'
<1>1. gens \in [Profiles -> [Generations -> GenStatuses]]
  BY Types
<1>2. CASE g = NoGen
  BY <1>1, <1>2 DEF SetStatus, GenUsed
<1>3. CASE g \in Generations
  <2>1. g # NoGen
    BY <1>3 DEF Generations, NoGen
  <2>2. gens' = [gens EXCEPT ![p][g] = st]
    BY <2>1 DEF SetStatus
  <2>3. QED
    BY <1>1, <1>3, <2>2 DEF GenUsed
<1>4. QED
  BY <1>2, <1>3

LEMMA PhaseKeeps ==
    ASSUME TokenInv, NEW o \in Ops, NEW p \in Profiles,
           NEW ph \in Phases \ {"VaultWritten"}, Transition(p, ph),
           gens' \in [Profiles -> [Generations -> GenStatuses]],
           \A q \in Profiles, h \in Generations : GenUsed(q, h) => GenUsed(q, h)',
           UNCHANGED <<profiles, vault, loggedOut>>, RestTypes',
           \/ UNCHANGED calls \/ Return(o)
           \/ \E pc \in CallPC \ Written : MayLeave(o, pc) /\ Go(o, pc)
    PROVE  TokenInv'
<1>1. TypeOK /\ calls \in [Ops -> Calls]
  BY RestFacts
<1>2. /\ calls' \in [Ops -> Calls]
      /\ \A d \in Ops : Follows(d) /\ CallFields(d)'
      /\ \A d \in Ops : d # o => calls'[d] = calls[d]
  <2>1. UNCHANGED calls \/ Return(o) \/ \E pc \in CallPC : MayLeave(o, pc) /\ Go(o, pc)
    OBVIOUS
  <2>2. QED
    BY <2>1, CallsFollow
<1>3. \A d \in Ops : calls'[d].pc \in Written => calls[d].pc \in Written
  <2>1. CASE UNCHANGED calls
    BY <2>1
  <2>2. CASE Return(o)
    <3>1. calls'[o].pc = "idle"
      BY <1>1, <2>2 DEF Return, IdleCall
    <3>2. QED
      BY <1>2, <3>1 DEF Written
  <2>3. ASSUME NEW pc \in CallPC \ Written, Go(o, pc)
        PROVE  \A d \in Ops : calls'[d].pc \in Written => calls[d].pc \in Written
    <3>1. calls'[o].pc = pc
      BY <1>1, <2>3 DEF Go
    <3>2. QED
      BY <1>2, <2>3, <3>1
  <2>4. QED
    BY <2>1, <2>2, <2>3
<1>4. ph \in NextPhases(journal[p].phase) /\ journal' = [journal EXCEPT ![p].phase = ph]
  BY DEF Transition
<1>5. /\ journal' \in [Profiles -> Records]
      /\ \A d \in Ops : CallInv(d)'
      /\ \A q \in Profiles : RecordInOrder(q)' /\ PointerInOrder(q)'
  BY <1>2, <1>3, <1>4, PhaseMoves
<1>6. QED
  BY <1>1, <1>2, <1>5 DEF TokenInv, TypeOK, RestTypes

LEMMA RecordKeeps ==
    ASSUME TokenInv, NEW o \in Ops, RecordTokens(o)
    PROVE  TokenInv'
<1> DEFINE p == calls[o].p
<1>1. /\ RestTypes /\ calls[o].pc = "record" /\ CallFields(o) /\ CallReads(o)
      /\ calls[o] \in Calls /\ calls \in [Ops -> Calls] /\ TypeOK
      /\ StageStands(o) /\ OwnStage(o) /\ p \in Profiles
  BY RestFacts DEF RecordTokens, At, TokenInv, CallInv
<1>2. /\ UNCHANGED <<profiles, vault, loggedOut>>
      /\ UNCHANGED <<connections, deviceCodes, logins, cancelled, cancels, faults, starts, started>>
  BY DEF RecordTokens, manager, service, history, rest
<1>3. RestTypes'
  BY <1>1, <1>2 DEF RestTypes, LoginInOrder
<1>4. CASE MayRecordWrite(p, o) /\ RecordWrite(p) /\ Go(o, "commit")
  <2>1. journal[p].op = o /\ journal[p].staged = calls[o].staged /\ calls[o].staged # NoGen
    BY <1>1, <1>4 DEF MayRecordWrite, InPhase, OwnStage, CallFields, Stages, Staging
  <2>2. Kept(p, journal[p].staged)
    BY <1>1, <2>1 DEF StageStands, Written
  <2>3. /\ journal' = [journal EXCEPT ![p].phase = "VaultWritten"]
        /\ "VaultWritten" \in NextPhases(journal[p].phase)
        /\ gens' = SetStatus(p, journal[p].staged, "available")
    BY <1>4 DEF RecordWrite, Transition
  <2>4. /\ gens' \in [Profiles -> [Generations -> GenStatuses]]
        /\ \A q \in Profiles, h \in Generations : GenUsed(q, h) => GenUsed(q, h)'
    <3>1. journal[p].staged \in Generations \cup {NoGen} /\ "available" \in GenStatuses \ {"none"}
      BY <1>1, Types DEF Records, GenStatuses
    <3>2. QED
      BY <1>1, <2>3, <3>1, StatusFacts
  <2>5. /\ calls' \in [Ops -> Calls]
        /\ \A d \in Ops : Follows(d) /\ CallFields(d)'
        /\ \A d \in Ops : d # o => calls'[d] = calls[d]
    <3>1. MayLeave(o, "commit") /\ "commit" \in CallPC
      BY <1>1 DEF MayLeave, CallPC, Stages, Staging, TakesOut, Restoring
    <3>2. QED
      BY <1>4, <3>1, CallsFollow
  <2>6. calls'[o].pc = "commit"
    BY <1>1, <1>4 DEF Go
  <2>7. \A d \in Ops : calls'[d].pc \in Written => calls[d].pc \in Written
    BY <2>5, <2>6 DEF Written
  <2>8. \A d \in Ops : calls'[d].pc \in Staging /\ calls[d].p = p =>
                          calls[d].staged # journal[p].staged
    <3>1. \A d \in Ops : d # o /\ calls[d].p = p => calls[d].staged # calls[o].staged
      BY <1>1, <2>1 DEF OwnStage
    <3>2. QED
      BY <2>1, <2>6, <3>1 DEF Staging
  <2> HIDE DEF p
  <2>9. /\ journal' \in [Profiles -> Records]
        /\ \A d \in Ops : CallInv(d)'
        /\ \A q \in Profiles : RecordInOrder(q)' /\ PointerInOrder(q)'
    BY <1>1, <1>2, <2>2, <2>3, <2>4, <2>5, <2>7, <2>8, PhaseMoves
  <2>10. QED
    BY <1>1, <1>2, <1>3, <2>4, <2>5, <2>9 DEF TokenInv, TypeOK, RestTypes
<1>5. CASE Go(o, "out") /\ UNCHANGED <<journal, gens>>
  <2>1. MayGo(o, "out") /\ "out" \in CallPC
    BY <1>1 DEF MayGo, CallPC, Stages, Staging, TakesOut, Restoring, Written
  <2>2. UNCHANGED store
    BY <1>2, <1>5 DEF store
  <2>3. QED
    BY <1>3, <1>5, <2>1, <2>2, Moves
<1>6. QED
  BY <1>4, <1>5 DEF RecordTokens

LEMMA FinishKeeps ==
    ASSUME TokenInv, NEW o \in Ops, FinishTokens(o)
    PROVE  TokenInv'
<1> DEFINE p == calls[o].p
<1>1. /\ RestTypes /\ calls[o].pc = "finish" /\ CallReads(o) /\ TypeOK
      /\ p \in Profiles /\ journal[p] \in Records /\ journal[p].intent = "replace"
  BY RestFacts, Types DEF FinishTokens, At, CallReads, TokenInv, RecordInOrder
<1>2. /\ UNCHANGED <<profiles, vault, loggedOut>>
      /\ UNCHANGED <<connections, deviceCodes, cancelled, cancels, faults, starts, started>>
  BY DEF FinishTokens, manager, history, rest
<1>3. logins' \in [Ops -> Logins] /\ \A d \in Ops : LoginInOrder(d)'
  <2>1. NoLogin \in Logins
    BY StoreBounds DEF Logins, NoLogin, Revisions
  <2>2. logins' = [logins EXCEPT ![o] = NoLogin] \/ logins' = logins
    BY DEF FinishTokens, ForgetLogin
  <2>3. QED
    BY <1>1, <2>1, <2>2 DEF RestTypes, LoginInOrder
<1>4. RestTypes'
  BY <1>1, <1>2, <1>3 DEF RestTypes
<1>5. Transition(p, "Completed") /\ gens' = SetStatus(p, journal[p].old, "retained") /\ Return(o)
  BY <1>1 DEF FinishTokens, Complete
<1>6. /\ gens' \in [Profiles -> [Generations -> GenStatuses]]
      /\ \A q \in Profiles, h \in Generations : GenUsed(q, h) => GenUsed(q, h)'
  <2>1. journal[p].old \in Generations \cup {NoGen} /\ "retained" \in GenStatuses \ {"none"}
    BY <1>1 DEF Records, GenStatuses
  <2>2. QED
    BY <1>1, <1>5, <2>1, StatusFacts
<1>7. "Completed" \in Phases \ {"VaultWritten"}
  BY DEF Phases
<1> HIDE DEF p
<1>8. QED
  BY <1>1, <1>2, <1>4, <1>5, <1>6, <1>7, PhaseKeeps

(* A record is given up: rolled back, or blocked.                          *)
LEMMA GiveUpKeeps ==
    ASSUME TokenInv, NEW o \in Ops, NEW p \in Profiles, Rollback(p) \/ Block(p),
           UNCHANGED <<profiles, vault, loggedOut>>, RestTypes',
           \/ UNCHANGED calls \/ Return(o)
           \/ \E pc \in CallPC \ Written : MayLeave(o, pc) /\ Go(o, pc)
    PROVE  TokenInv'
<1>1. PICK ph \in Phases \ {"VaultWritten"}, st \in GenStatuses \ {"none"} :
        Transition(p, ph) /\ gens' = SetStatus(p, journal[p].staged, st)
  BY DEF Rollback, Block, Phases, GenStatuses
<1>2. TypeOK /\ journal[p].staged \in Generations \cup {NoGen}
  BY Types DEF TokenInv, Records
<1>3. /\ gens' \in [Profiles -> [Generations -> GenStatuses]]
      /\ \A q \in Profiles, h \in Generations : GenUsed(q, h) => GenUsed(q, h)'
  BY <1>1, <1>2, StatusFacts
<1>4. QED
  BY <1>1, <1>3, PhaseKeeps

LEMMA UndoKeeps ==
    ASSUME TokenInv, NEW o \in Ops, UndoTokens(o)
    PROVE  TokenInv'
<1> DEFINE p == calls[o].p
<1>1. RestTypes /\ calls[o].pc = "undo" /\ p \in Profiles
  BY RestFacts DEF UndoTokens, At, CallReads
<1>2. /\ UNCHANGED <<profiles, vault, loggedOut>>
      /\ UNCHANGED <<connections, deviceCodes, cancelled, cancels, faults, starts, started>>
  BY DEF UndoTokens, manager, history, rest
<1>3. logins' \in [Ops -> Logins] /\ \A d \in Ops : LoginInOrder(d)'
  <2>1. NoLogin \in Logins
    BY StoreBounds DEF Logins, NoLogin, Revisions
  <2>2. logins' = [logins EXCEPT ![o] = NoLogin] \/ logins' = logins
    BY DEF UndoTokens, ForgetLogin
  <2>3. QED
    BY <1>1, <2>1, <2>2 DEF RestTypes, LoginInOrder
<1>4. RestTypes'
  BY <1>1, <1>2, <1>3 DEF RestTypes
<1>5. CASE Rollback(p) /\ Return(o)
  <2> HIDE DEF p
  <2>1. QED
    BY <1>1, <1>2, <1>4, <1>5, GiveUpKeeps
<1>6. CASE Go(o, "block") /\ UNCHANGED <<journal, gens>>
  <2>1. MayGo(o, "block") /\ "block" \in CallPC
    BY <1>1 DEF MayGo, CallPC, Stages, Staging, TakesOut, Restoring, Written
  <2>2. UNCHANGED store
    BY <1>2, <1>6 DEF store
  <2>3. QED
    BY <1>4, <1>6, <2>1, <2>2, Moves
<1>7. QED
  BY <1>5, <1>6 DEF UndoTokens

LEMMA BlockKeeps ==
    ASSUME TokenInv, NEW o \in Ops, BlockTokens(o)
    PROVE  TokenInv'
<1> DEFINE p == calls[o].p
<1>1. RestTypes /\ calls[o].pc = "block" /\ p \in Profiles
  BY RestFacts DEF BlockTokens, At, CallReads
<1>2. /\ UNCHANGED <<profiles, vault, loggedOut>>
      /\ UNCHANGED <<connections, deviceCodes, logins, cancelled, cancels, faults, starts, started>>
      /\ Return(o)
  BY DEF BlockTokens, manager, service, history, rest
<1>3. RestTypes'
  BY <1>1, <1>2 DEF RestTypes, LoginInOrder
<1>4. CASE Block(p)
  <2> HIDE DEF p
  <2>1. QED
    BY <1>1, <1>2, <1>3, <1>4, GiveUpKeeps
<1>5. CASE UNCHANGED <<journal, gens>>
  BY <1>2, <1>3, <1>5, Moves DEF store
<1>6. QED
  BY <1>4, <1>5 DEF BlockTokens

LEMMA RollbackKeeps ==
    ASSUME TokenInv, NEW o \in Ops, RollbackIntent(o)
    PROVE  TokenInv'
<1>1. PICK p \in Profiles :
        /\ Rollback(p) \/ UNCHANGED <<journal, gens>>
        /\ cancels' = [cancels EXCEPT ![o] = "none"]
        /\ UNCHANGED <<profiles, active, vault, rest, manager, logins, cancelled, calls, history>>
  BY DEF RollbackIntent
<1>2. /\ UNCHANGED <<profiles, vault, loggedOut, calls>>
      /\ UNCHANGED <<connections, deviceCodes, logins, cancelled, faults, starts, started>>
  BY <1>1 DEF manager, history, rest
<1>3. RestTypes'
  BY <1>1, <1>2, RestFacts DEF RestTypes, LoginInOrder, CancelPC
<1>4. CASE Rollback(p)
  BY <1>2, <1>3, <1>4, GiveUpKeeps
<1>5. CASE UNCHANGED <<journal, gens>>
  BY <1>2, <1>3, <1>5, Moves DEF store
<1>6. QED
  BY <1>1, <1>4, <1>5

(* What the pointer of p moves to was staged by the operation that commits *)
(* it, and is in the vault.                                                *)
LEMMA PointerKeeps ==
    ASSUME TokenInv, NEW o \in Ops, calls[o].pc = "commit",
           InPhase(calls[o].p, o, {"VaultWritten"}), ~PointerStale(calls[o].p),
           CommitPointer(calls[o].p, calls[o].model), Go(o, "finish"),
           UNCHANGED <<vault, loggedOut>>, RestTypes'
    PROVE  TokenInv'
<1> DEFINE p == calls[o].p
           rec == [journal[p] EXCEPT !.phase = "PointerCommitted"]
           row == Draft(journal[p].base + 1, calls[o].model, journal[p].staged)
<1>1. /\ TypeOK /\ p \in Profiles /\ calls[o] \in Calls /\ calls \in [Ops -> Calls]
      /\ CallReads(o) /\ OwnStage(o) /\ CallFields(o)
  BY RestFacts DEF TokenInv, CallInv
<1>2. /\ journal \in [Profiles -> Records] /\ journal[p] \in Records
      /\ profiles \in [Profiles -> ProfileRows] /\ profiles[p] \in ProfileRows
      /\ gens \in [Profiles -> [Generations -> GenStatuses]]
  BY <1>1, Types
<1>3. /\ RecordInOrder(p) /\ journal[p].intent = "replace" /\ journal[p].phase = "VaultWritten"
      /\ journal[p].op = o /\ journal[p].staged # NoGen
      /\ profiles[p].rev = journal[p].base /\ journal[p].base < MaxRevision
  BY <1>1, ProfilesAssumption
     DEF TokenInv, RecordInOrder, InPhase, PointerStale, CommitPointer
<1>4. /\ journal' = [journal EXCEPT ![p].phase = "PointerCommitted"]
      /\ profiles' = [profiles EXCEPT ![p] = row]
      /\ \/ gens' = SetStatus(p, journal[p].old, "retained")
         \/ gens' = gens
  BY <1>3 DEF CommitPointer, Transition
<1>5. /\ rec \in Records /\ rec.phase = "PointerCommitted" /\ rec.op = journal[p].op
      /\ rec.intent = journal[p].intent /\ rec.base = journal[p].base
      /\ rec.staged = journal[p].staged
      /\ journal' = [journal EXCEPT ![p] = rec]
  BY <1>2, <1>4 DEF Records, Phases
<1>6. /\ row \in ProfileRows /\ row.rev = journal[p].base + 1 /\ row.gen = journal[p].staged
      /\ row.model = calls[o].model
  <2>1. journal[p].base + 1 \in Revisions
    BY <1>2, <1>3, StoreBounds DEF Records, Revisions
  <2>2. /\ calls[o].model \in Models \cup {NoModel}
        /\ journal[p].staged \in Generations \cup {NoGen}
        /\ NoProof \in Proofs /\ "Draft" \in ProfileStates
    BY <1>1, <1>2 DEF Calls, Records, NoProof, Proofs, ProfileStates
  <2>3. QED
    BY <2>1, <2>2 DEF Draft, ProfileRows
<1> HIDE DEF rec, row
<1>7. /\ gens' \in [Profiles -> [Generations -> GenStatuses]]
      /\ \A q \in Profiles, h \in Generations : GenUsed(q, h) => GenUsed(q, h)'
  <2>1. CASE gens' = gens
    BY <1>2, <2>1 DEF GenUsed
  <2>2. CASE gens' = SetStatus(p, journal[p].old, "retained")
    <3>1. journal[p].old \in Generations \cup {NoGen} /\ "retained" \in GenStatuses \ {"none"}
      BY <1>2 DEF Records, GenStatuses
    <3>2. QED
      BY <1>1, <2>2, <3>1, StatusFacts
  <2>3. QED
    BY <1>4, <2>1, <2>2
<1>8. /\ journal' \in [Profiles -> Records] /\ profiles' \in [Profiles -> ProfileRows]
      /\ journal'[p] = rec /\ profiles'[p] = row
      /\ \A q \in Profiles : q # p => journal'[q] = journal[q] /\ profiles'[q] = profiles[q]
      /\ \A q \in Profiles : /\ journal'[q].op = journal[q].op
                             /\ journal'[q].intent = journal[q].intent
                             /\ journal'[q].staged = journal[q].staged
                             /\ journal'[q].base = journal[q].base
  BY <1>1, <1>2, <1>4, <1>5, <1>6
<1>9. /\ calls' \in [Ops -> Calls]
      /\ \A d \in Ops : Follows(d) /\ CallFields(d)'
      /\ \A d \in Ops : d # o => calls'[d] = calls[d]
  <2>1. MayLeave(o, "finish") /\ "finish" \in CallPC
    BY DEF MayLeave, CallPC, Stages, Staging, TakesOut, Restoring
  <2>2. QED
    BY <2>1, CallsFollow
<1>10. \A d \in Ops : OwnStage(d)'
  BY <1>7, <1>8, <1>9, StagesFollow
<1>11. ASSUME NEW d \in Ops PROVE CallReads(d)'
  <2> SUFFICES ASSUME calls'[d].pc # "idle" PROVE CallReads(d)'
    BY DEF CallReads
  <2>1. /\ calls'[d].p = calls[d].p /\ calls'[d].rev = calls[d].rev
        /\ calls'[d].model = calls[d].model /\ calls[d].p \in Profiles
        /\ calls[d].rev <= profiles[calls[d].p].rev
        /\ calls[d].rev = profiles[calls[d].p].rev => calls[d].model = profiles[calls[d].p].model
        /\ calls[d] \in Calls
    BY <1>9, Types DEF Follows, TokenInv, CallInv, CallReads
  <2>2. CASE calls[d].p # p
    BY <1>8, <2>1, <2>2 DEF CallReads
  <2>3. CASE calls[d].p = p
    <3>1. calls[d].rev \in Int /\ journal[p].base \in Int
      BY <1>2, <2>1 DEF Calls, Records, Revisions
    <3>2. profiles'[p].rev = journal[p].base + 1 /\ calls[d].rev <= journal[p].base
      BY <1>3, <1>6, <1>8, <2>1, <2>3
    <3>3. calls[d].rev <= profiles'[p].rev /\ calls[d].rev # profiles'[p].rev
      BY <3>1, <3>2
    <3>4. QED
      BY <2>1, <2>3, <3>3 DEF CallReads
  <2>4. QED
    BY <2>2, <2>3
<1>12. ASSUME NEW d \in Ops PROVE StageStands(d)'
  <2>1. /\ StageStands(d) /\ Follows(d) /\ CallReads(d)
    BY <1>9 DEF TokenInv, CallInv
  <2>2. ASSUME calls'[d].pc \in Staging
        PROVE  /\ profiles'[calls'[d].p].gen # calls'[d].staged
               /\ journal'[calls'[d].p].staged = calls'[d].staged =>
                     /\ journal'[calls'[d].p].op = d
                     /\ journal'[calls'[d].p].phase \in {"IntentRecorded", "RolledBack", "Blocked"}
    <3>1. /\ calls[d].pc \in Staging /\ calls'[d].staged = calls[d].staged
          /\ calls'[d].p = calls[d].p /\ calls[d].p \in Profiles
      BY <2>1, <2>2 DEF Follows, CallReads, Staging
    <3>2. CASE calls[d].p # p
      BY <1>8, <2>1, <3>1, <3>2 DEF StageStands
    <3>3. CASE calls[d].p = p
      <4>1. journal[p].staged # calls[d].staged
        BY <1>3, <2>1, <3>1, <3>3 DEF StageStands
      <4>2. QED
        BY <1>5, <1>6, <1>8, <3>1, <3>3, <4>1
    <3>4. QED
      BY <3>2, <3>3
  <2>3. ASSUME calls'[d].pc \in Written
        PROVE  \/ <<calls'[d].p, calls'[d].staged>> \in vault'
               \/ <<calls'[d].p, calls'[d].staged>> \in loggedOut'
    <3>1. d # o
      <4>1. calls'[o].pc = "finish"
        BY <1>1 DEF Go
      <4>2. QED
        BY <2>3, <4>1 DEF Written
    <3>2. QED
      BY <1>9, <2>1, <2>3, <3>1 DEF StageStands, Kept
  <2>4. QED
    BY <2>2, <2>3 DEF StageStands, Kept
<1>13. ASSUME NEW q \in Profiles PROVE RecordInOrder(q)' /\ PointerInOrder(q)'
  <2>1. RecordInOrder(q) /\ PointerInOrder(q) /\ journal[q] \in Records /\ profiles[q] \in ProfileRows
    BY <1>2 DEF TokenInv
  <2>2. journal[q].staged # NoGen => GenUsed(q, journal[q].staged)'
    <3>1. journal[q].staged \in Generations \cup {NoGen}
      BY <2>1 DEF Records
    <3>2. QED
      BY <1>7, <1>8, <2>1, <3>1 DEF RecordInOrder, GenUsed
  <2>3. CASE q # p
    <3>1. PointerInOrder(q)'
      <4>1. profiles[q].gen \in Generations \cup {NoGen}
        BY <2>1 DEF ProfileRows
      <4>2. QED
        BY <1>7, <1>8, <2>1, <2>3, <4>1 DEF PointerInOrder, Kept, GenUsed
    <3>2. QED
      BY <1>8, <2>1, <2>2, <2>3, <3>1 DEF RecordInOrder, Kept, GenUsed
  <2>4. CASE q = p
    <3>1. Kept(p, journal[p].staged)
      BY <1>3 DEF RecordInOrder
    <3>2. PointerInOrder(q)'
      BY <1>3, <1>6, <1>8, <2>2, <2>4, <3>1 DEF PointerInOrder, GenUsed, Kept
    <3>3. QED
      BY <1>3, <1>5, <1>8, <2>1, <2>2, <2>4, <3>2 DEF RecordInOrder, GenUsed, Kept
  <2>5. QED
    BY <2>3, <2>4
<1>14. QED
  BY <1>1, <1>7, <1>8, <1>9, <1>10, <1>11, <1>12, <1>13
     DEF TokenInv, TypeOK, RestTypes, CallInv

LEMMA CommitKeeps ==
    ASSUME TokenInv, NEW o \in Ops, CommitTokens(o)
    PROVE  TokenInv'
<1> DEFINE p == calls[o].p
<1>1. RestTypes /\ calls[o].pc = "commit" /\ p \in Profiles /\ TypeOK
  BY RestFacts DEF CommitTokens, At, CallReads
<1>2. /\ UNCHANGED <<vault, loggedOut>>
      /\ UNCHANGED <<connections, deviceCodes, logins, cancelled, cancels, faults, starts, started>>
  BY DEF CommitTokens, manager, service, history, rest
<1>3. RestTypes'
  BY <1>1, <1>2 DEF RestTypes, LoginInOrder
<1>4. CASE /\ InPhase(p, o, {"VaultWritten"}) /\ ~PointerStale(p)
           /\ CommitPointer(p, calls[o].model) /\ Go(o, "finish")
  BY <1>1, <1>2, <1>3, <1>4, PointerKeeps
<1>5. CASE Transition(p, "CleanupPending") /\ Go(o, "out") /\ UNCHANGED <<profiles, gens>>
  <2>1. MayLeave(o, "out") /\ "out" \in CallPC \ Written /\ "CleanupPending" \in Phases \ {"VaultWritten"}
    BY <1>1 DEF MayLeave, CallPC, Stages, Staging, TakesOut, Restoring, Written, Phases
  <2>2. /\ gens' \in [Profiles -> [Generations -> GenStatuses]]
        /\ \A q \in Profiles, h \in Generations : GenUsed(q, h) => GenUsed(q, h)'
    BY <1>1, <1>5, Types DEF GenUsed
  <2> HIDE DEF p
  <2>3. QED
    BY <1>1, <1>2, <1>3, <1>5, <2>1, <2>2, PhaseKeeps
<1>6. CASE Go(o, "out") /\ UNCHANGED <<profiles, gens, journal>>
  <2>1. MayGo(o, "out") /\ "out" \in CallPC
    BY <1>1 DEF MayGo, CallPC, Stages, Staging, TakesOut, Restoring, Written
  <2>2. UNCHANGED store
    BY <1>2, <1>6 DEF store
  <2>3. QED
    BY <1>3, <1>6, <2>1, <2>2, Moves
<1>7. QED
  BY <1>4, <1>5, <1>6 DEF CommitTokens

(* An intent stages a generation that nothing has named before.            *)
LEMMA BeginKeeps ==
    ASSUME TokenInv, NEW o \in Ops, BeginTokens(o)
    PROVE  TokenInv'
<1> DEFINE p == calls[o].p
<1>1. /\ TypeOK /\ RestTypes /\ calls[o].pc = "begin" /\ p \in Profiles /\ calls[o] \in Calls
      /\ calls \in [Ops -> Calls] /\ CallReads(o) /\ CallFields(o)
  BY RestFacts DEF BeginTokens, At, CallReads
<1>2. /\ UNCHANGED <<profiles, vault, loggedOut>>
      /\ UNCHANGED <<connections, deviceCodes, logins, cancelled, cancels, faults, starts, started>>
  BY DEF BeginTokens, manager, service, history, rest
<1>3. RestTypes'
  BY <1>1, <1>2 DEF RestTypes, LoginInOrder
<1>4. CASE Return(o) /\ UNCHANGED <<gens, journal>>
  <2>1. UNCHANGED store
    BY <1>2, <1>4 DEF store
  <2>2. QED
    BY <1>3, <1>4, <2>1, Moves
<1>5. ASSUME NEW g \in Generations, NEW pc \in {"own", "poll"},
             MayBegin(p, calls[o].rev, calls[o].gen, g),
             Begin(p, o, "replace", calls[o].rev, calls[o].gen, g),
             calls' = [calls EXCEPT ![o].staged = g, ![o].pc = pc]
      PROVE  TokenInv'
  <2> DEFINE rec == [op |-> o, phase |-> "IntentRecorded", intent |-> "replace",
                     base |-> calls[o].rev, old |-> calls[o].gen, staged |-> g]
             t == [calls[o] EXCEPT !.staged = g, !.pc = pc]
  <2>1. /\ journal \in [Profiles -> Records] /\ profiles \in [Profiles -> ProfileRows]
        /\ gens \in [Profiles -> [Generations -> GenStatuses]]
        /\ \A d \in Ops : CallInv(d) /\ calls[d] \in Calls
        /\ \A q \in Profiles : RecordInOrder(q) /\ PointerInOrder(q)
    BY <1>1, Types DEF TokenInv
  <2>2. g # NoGen /\ gens[p][g] = "none" /\ o # NoOp
    BY <1>5, ProfilesAssumption DEF MayBegin, IsNewest, Generations, NoGen
  <2>3. /\ t \in Calls /\ t.pc = pc /\ t.staged = g /\ t.p = p /\ t.rev = calls[o].rev
        /\ t.model = calls[o].model /\ t.gen = calls[o].gen
        /\ calls' = [calls EXCEPT ![o] = t]
    BY <1>1, <1>5 DEF Calls, CallPC
  <2>4. /\ rec \in Records /\ rec.op = o /\ rec.phase = "IntentRecorded"
        /\ rec.intent = "replace" /\ rec.base = calls[o].rev /\ rec.staged = g
        /\ journal' = [journal EXCEPT ![p] = rec]
    BY <1>1, <1>5 DEF Begin, Records, Phases, Intents, Calls
  <2>5. /\ gens' \in [Profiles -> [Generations -> GenStatuses]]
        /\ \A q \in Profiles, h \in Generations : GenUsed(q, h) => GenUsed(q, h)'
    <3>1. "retained" \in GenStatuses \ {"none"} /\ gens' = SetStatus(p, g, "retained")
      BY <1>5 DEF GenStatuses, Begin
    <3>2. QED
      BY <1>1, <3>1, StatusFacts
  <2>6. gens'[p][g] # "none"
    <3>1. gens' = [gens EXCEPT ![p][g] = "retained"]
      BY <1>5, <2>2 DEF Begin, SetStatus
    <3>2. QED
      BY <1>1, <2>1, <3>1
  <2> HIDE DEF rec, t
  <2>7. /\ calls' \in [Ops -> Calls] /\ calls'[o] = t
        /\ \A d \in Ops : d # o => calls'[d] = calls[d]
        /\ journal' \in [Profiles -> Records] /\ journal'[p] = rec
        /\ \A q \in Profiles : q # p => journal'[q] = journal[q]
    BY <1>1, <2>1, <2>3, <2>4
  <2>r. /\ calls[o].rev <= profiles[p].rev
        /\ calls[o].rev = profiles[p].rev => calls[o].model = profiles[p].model
    BY <1>1 DEF CallReads
  <2> HIDE DEF p
  <2>8. ASSUME NEW d \in Ops, calls[d].staged # NoGen, calls[d].p = p
        PROVE  calls[d].staged \in Generations /\ calls[d].staged # g
    BY <2>1, <2>2, <2>8 DEF CallInv, OwnStage, GenUsed, Calls
  <2>9. profiles[p].gen # g
    BY <1>1, <2>1, <2>2 DEF PointerInOrder, GenUsed
  <2>10. ASSUME NEW d \in Ops PROVE CallReads(d)' /\ CallFields(d)'
    <3>1. CASE d = o
      BY <1>1, <1>2, <2>2, <2>3, <2>7, <2>r, <3>1 DEF CallReads, CallFields, TakesOut, Restoring
    <3>2. CASE d # o
      BY <1>2, <2>1, <2>7, <3>2 DEF CallInv, CallReads, CallFields
    <3>3. QED
      BY <3>1, <3>2
  <2>11. ASSUME NEW d \in Ops PROVE OwnStage(d)'
    <3> SUFFICES ASSUME calls'[d].staged # NoGen PROVE OwnStage(d)'
      BY DEF OwnStage
    <3>1. CASE d = o
      <4>1. \A e \in Ops : e # o /\ calls'[e].p = p => calls'[e].staged # g
        BY <2>2, <2>7, <2>8
      <4>2. /\ calls'[o].pc # "idle" /\ calls'[o].p = p /\ calls'[o].staged = g
            /\ calls'[o].rev = calls[o].rev
        BY <2>3, <2>7
      <4>3. /\ calls'[o].pc # "idle"
            /\ gens'[calls'[o].p][calls'[o].staged] # "none"
            /\ journal'[calls'[o].p].staged = calls'[o].staged
            /\ journal'[calls'[o].p].base = calls'[o].rev
        BY <2>4, <2>6, <2>7, <4>2
      <4>4. \A e \in Ops : e # o /\ calls'[e].p = calls'[o].p => calls'[e].staged # calls'[o].staged
        BY <4>1, <4>2
      <4>5. QED
        BY <3>1, <4>3, <4>4 DEF OwnStage, GenUsed
    <3>2. CASE d # o
      <4>1. /\ calls'[d] = calls[d] /\ OwnStage(d) /\ calls[d].staged # NoGen
            /\ CallReads(d) /\ calls[d] \in Calls
        BY <2>1, <2>7, <3>2 DEF CallInv
      <4>2. calls[d].p \in Profiles /\ calls[d].staged \in Generations /\ calls[d].pc # "idle"
        BY <4>1 DEF OwnStage, CallReads, Calls, NoGen
      <4>3. gens'[calls[d].p][calls[d].staged] # "none"
        BY <2>5, <4>1, <4>2 DEF OwnStage, GenUsed
      <4>4. journal'[calls[d].p].op = d =>
               /\ journal'[calls[d].p].staged = calls[d].staged
               /\ journal'[calls[d].p].base = calls[d].rev
        BY <2>4, <2>7, <3>2, <4>1, <4>2 DEF OwnStage
      <4>5. \A e \in Ops : e # d /\ calls'[e].p = calls[d].p => calls'[e].staged # calls[d].staged
        <5>1. calls[d].p = p => calls[d].staged # g
          BY <2>8, <4>1
        <5>2. QED
          BY <2>3, <2>7, <4>1, <5>1 DEF OwnStage
      <4>6. QED
        BY <4>1, <4>2, <4>3, <4>4, <4>5 DEF OwnStage, GenUsed
    <3>3. QED
      BY <3>1, <3>2
  <2>12. ASSUME NEW d \in Ops PROVE StageStands(d)'
    <3>1. CASE d = o
      BY <1>2, <2>3, <2>4, <2>7, <2>9, <3>1 DEF StageStands, Written
    <3>2. CASE d # o
      <4>1. calls'[d] = calls[d] /\ StageStands(d) /\ CallFields(d) /\ CallReads(d)
        BY <2>1, <2>7, <3>2 DEF CallInv
      <4>2. CASE calls[d].pc \notin Staging
        BY <4>1, <4>2 DEF StageStands, Written, Staging
      <4>3. CASE calls[d].pc \in Staging
        <5>1. calls[d].staged # NoGen /\ calls[d].p \in Profiles
          BY <4>1, <4>3 DEF CallFields, CallReads, Stages, Staging
        <5>2. calls[d].p = p => calls[d].staged # g
          BY <2>8, <5>1
        <5>3. QED
          BY <1>2, <2>4, <2>7, <4>1, <5>1, <5>2 DEF StageStands, Kept
      <4>4. QED
        BY <4>2, <4>3
    <3>3. QED
      BY <3>1, <3>2
  <2>13. ASSUME NEW q \in Profiles PROVE RecordInOrder(q)' /\ PointerInOrder(q)'
    <3>1. RecordInOrder(q) /\ PointerInOrder(q) /\ journal[q] \in Records /\ profiles[q] \in ProfileRows
      BY <2>1
    <3>2. PointerInOrder(q)'
      <4>1. profiles[q].gen \in Generations \cup {NoGen}
        BY <3>1 DEF ProfileRows
      <4>2. QED
        BY <1>2, <2>5, <3>1, <4>1 DEF PointerInOrder, Kept
    <3>3. CASE q # p
      <4>1. journal[q].staged \in Generations \cup {NoGen}
        BY <3>1 DEF Records
      <4>2. journal[q].staged # NoGen => gens'[q][journal[q].staged] # "none"
        BY <2>5, <3>1, <4>1 DEF RecordInOrder, GenUsed
      <4>3. QED
        BY <1>2, <2>7, <3>1, <3>2, <3>3, <4>2 DEF RecordInOrder, GenUsed, Kept
    <3>4. CASE q = p
      BY <1>2, <2>2, <2>4, <2>6, <2>7, <2>9, <3>2, <3>4 DEF RecordInOrder, GenUsed
    <3>5. QED
      BY <3>3, <3>4
  <2>14. QED
    BY <1>1, <1>2, <1>3, <2>5, <2>7, <2>10, <2>11, <2>12, <2>13
       DEF TokenInv, TypeOK, RestTypes, CallInv
<1>6. QED
  BY <1>4, <1>5 DEF BeginTokens

(* A new revision makes every revision read before old.                    *)
LEMMA EditKeeps ==
    ASSUME TokenInv, NEW p \in Profiles, EditProfile(p)
    PROVE  TokenInv'
<1> DEFINE row == Draft(profiles[p].rev + 1, profiles[p].model, profiles[p].gen)
<1>1. /\ TypeOK /\ profiles[p] \in ProfileRows /\ profiles \in [Profiles -> ProfileRows]
  BY Types DEF TokenInv
<1>2. /\ UNCHANGED <<gens, journal, vault, loggedOut, calls>>
      /\ UNCHANGED <<connections, deviceCodes, logins, cancelled, cancels, faults, starts>>
      /\ started' = started + 1 /\ started < MaxCalls
      /\ profiles[p].rev < MaxRevision /\ profiles' = [profiles EXCEPT ![p] = row]
  BY DEF EditProfile, SaveRevision, manager, service, history
<1>3. /\ row \in ProfileRows /\ row.rev = profiles[p].rev + 1 /\ row.gen = profiles[p].gen
  <2>1. profiles[p].rev + 1 \in Revisions
    BY <1>1, <1>2, StoreBounds DEF ProfileRows, Revisions
  <2>2. NoProof \in Proofs /\ "Draft" \in ProfileStates
    BY DEF NoProof, Proofs, ProfileStates
  <2>3. QED
    BY <1>1, <2>1, <2>2 DEF Draft, ProfileRows
<1> HIDE DEF row
<1>4. /\ profiles' \in [Profiles -> ProfileRows] /\ profiles'[p] = row
      /\ \A q \in Profiles : /\ q # p => profiles'[q] = profiles[q]
                             /\ profiles'[q].gen = profiles[q].gen
  BY <1>1, <1>2, <1>3
<1>5. ASSUME NEW d \in Ops PROVE CallInv(d)'
  <2>1. CallInv(d) /\ calls[d] \in Calls
    BY <1>1, Types DEF TokenInv
  <2>2. CallReads(d)'
    <3> SUFFICES ASSUME calls[d].pc # "idle"
                 PROVE  /\ calls[d].p \in Profiles
                        /\ calls[d].rev <= profiles'[calls[d].p].rev
                        /\ calls[d].rev = profiles'[calls[d].p].rev =>
                              calls[d].model = profiles'[calls[d].p].model
      BY <1>2 DEF CallReads
    <3>1. calls[d].p \in Profiles /\ calls[d].rev <= profiles[calls[d].p].rev
          /\ (calls[d].rev = profiles[calls[d].p].rev =>
                              calls[d].model = profiles[calls[d].p].model)
      BY <2>1 DEF CallInv, CallReads
    <3>2. CASE calls[d].p # p
      BY <1>4, <3>1, <3>2
    <3>3. CASE calls[d].p = p
      <4>1. calls[d].rev \in Int /\ profiles[p].rev \in Int
        BY <1>1, <2>1 DEF Calls, ProfileRows, Revisions
      <4>2. profiles'[p].rev = profiles[p].rev + 1 /\ calls[d].rev <= profiles[p].rev
        BY <1>3, <1>4, <3>1, <3>3
      <4>3. calls[d].rev <= profiles'[p].rev /\ calls[d].rev # profiles'[p].rev
        BY <4>1, <4>2
      <4>4. QED
        BY <3>1, <3>3, <4>3
    <3>4. QED
      BY <3>2, <3>3
  <2>3. CallFields(d)' /\ OwnStage(d)'
    BY <1>2, <2>1 DEF CallInv, CallFields, OwnStage, GenUsed
  <2>4. StageStands(d)'
    <3>1. calls[d].pc \in Staging => calls[d].p \in Profiles
      BY <2>1 DEF CallInv, CallReads, Staging
    <3>2. QED
      BY <1>2, <1>4, <2>1, <3>1 DEF CallInv, StageStands, Kept
  <2>5. QED
    BY <2>2, <2>3, <2>4 DEF CallInv
<1>6. \A q \in Profiles : RecordInOrder(q)' /\ PointerInOrder(q)'
  BY <1>2, <1>4 DEF TokenInv, RecordInOrder, PointerInOrder, GenUsed, Kept
<1>7. started' \in 0 .. MaxCalls
  BY <1>1, <1>2, StoreBounds DEF TypeOK
<1>8. QED
  BY <1>1, <1>2, <1>4, <1>5, <1>6, <1>7 DEF TokenInv, TypeOK, LoginInOrder

(* A process that starts finds no call; what it takes out of the vault was *)
(* staged by an intent, which the pointer does not name.                   *)
LEMMA RestartKeeps ==
    ASSUME TokenInv, Restart
    PROVE  TokenInv'
<1> DEFINE left == {p \in Profiles : journal[p].phase = "IntentRecorded"}
<1>1. /\ TypeOK /\ profiles \in [Profiles -> ProfileRows] /\ journal \in [Profiles -> Records]
      /\ gens \in [Profiles -> [Generations -> GenStatuses]]
      /\ \A q \in Profiles : RecordInOrder(q) /\ PointerInOrder(q)
  BY Types DEF TokenInv
<1>2. /\ UNCHANGED <<profiles, started, faults, loggedOut>>
      /\ starts < MaxStarts /\ starts' = starts + 1
      /\ connections' = [p \in Profiles |-> NoConnection]
      /\ deviceCodes' = {} /\ cancelled' = {}
      /\ logins' = [o \in Ops |-> NoLogin]
      /\ cancels' = [o \in Ops |-> "none"]
      /\ calls' = [o \in Ops |-> IdleCall]
      /\ vault' = vault \ {<<p, journal[p].staged>> : p \in left}
      /\ journal' = [p \in Profiles |-> IF p \in left
                        THEN [journal[p] EXCEPT !.phase = "RolledBack"] ELSE journal[p]]
      /\ gens' = [p \in Profiles |-> IF p \in left
                     THEN [gens[p] EXCEPT ![journal[p].staged] = "deleted"] ELSE gens[p]]
  BY DEF Restart, history
<1>3. ASSUME NEW q \in Profiles
      PROVE  /\ journal'[q] \in Records /\ gens'[q] \in [Generations -> GenStatuses]
             /\ journal'[q].op = journal[q].op /\ journal'[q].intent = journal[q].intent
             /\ journal'[q].staged = journal[q].staged
             /\ q \in left => journal'[q].phase = "RolledBack"
             /\ q \notin left => journal'[q].phase = journal[q].phase
             /\ \A h \in Generations : gens[q][h] # "none" => gens'[q][h] # "none"
  <2>1. journal[q] \in Records /\ gens[q] \in [Generations -> GenStatuses]
    BY <1>1
  <2>2. CASE q \in left
    <3>1. /\ journal'[q] = [journal[q] EXCEPT !.phase = "RolledBack"]
          /\ gens'[q] = [gens[q] EXCEPT ![journal[q].staged] = "deleted"]
      BY <1>2, <2>2
    <3> HIDE DEF left
    <3>2. "RolledBack" \in Phases /\ "deleted" \in GenStatuses /\ "deleted" # "none"
      BY DEF Phases, GenStatuses
    <3>3. /\ journal'[q] \in Records /\ journal'[q].op = journal[q].op
          /\ journal'[q].intent = journal[q].intent /\ journal'[q].staged = journal[q].staged
          /\ journal'[q].phase = "RolledBack"
      BY <2>1, <3>1, <3>2 DEF Records
    <3>4. /\ gens'[q] \in [Generations -> GenStatuses]
          /\ \A h \in Generations : gens[q][h] # "none" => gens'[q][h] # "none"
      BY <2>1, <3>1, <3>2
    <3>5. QED
      BY <2>2, <3>3, <3>4
  <2>3. CASE q \notin left
    <3>1. journal'[q] = journal[q] /\ gens'[q] = gens[q]
      BY <1>2, <2>3
    <3>2. QED
      BY <2>1, <2>3, <3>1
  <2>4. QED
    BY <2>2, <2>3
<1>4. /\ journal' \in [Profiles -> Records] /\ gens' \in [Profiles -> [Generations -> GenStatuses]]
  BY <1>2, <1>3
<1>5. /\ IdleCall \in Calls /\ IdleCall.pc = "idle" /\ IdleCall.staged = NoGen
      /\ NoConnection \in Connections /\ NoLogin \in Logins /\ "none" \in CancelPC
  BY StoreBounds DEF IdleCall, Calls, CallPC, Revisions, NoGen, NoConnection, Connections,
                     Statuses, NoLogin, Logins, CancelPC
<1>6. ASSUME NEW d \in Ops PROVE CallInv(d)' /\ LoginInOrder(d)'
  <2>1. calls'[d].pc = "idle" /\ calls'[d].staged = NoGen /\ logins'[d] = NoLogin
    BY <1>2, <1>5
  <2>2. QED
    BY <2>1 DEF CallInv, CallReads, CallFields, OwnStage, StageStands, LoginInOrder,
                Stages, Staging, Written, TakesOut, Restoring
<1>7. ASSUME NEW q \in Profiles PROVE RecordInOrder(q)' /\ PointerInOrder(q)'
  <2>1. RecordInOrder(q) /\ PointerInOrder(q) /\ journal[q] \in Records /\ profiles[q] \in ProfileRows
    BY <1>1
  <2>2. journal[q].staged # NoGen => gens'[q][journal[q].staged] # "none"
    <3>1. journal[q].staged \in Generations \cup {NoGen}
      BY <2>1 DEF Records
    <3>2. QED
      BY <1>3, <2>1, <3>1 DEF RecordInOrder, GenUsed
  <2>3. profiles[q].gen # NoGen => gens'[q][profiles[q].gen] # "none"
    <3>1. profiles[q].gen \in Generations \cup {NoGen}
      BY <2>1 DEF ProfileRows
    <3>2. QED
      BY <1>3, <2>1, <3>1 DEF PointerInOrder, GenUsed
  <2>4. q \in left => profiles[q].gen # journal[q].staged
    BY <2>1 DEF RecordInOrder
  <2>5. \A h : <<q, h>> \in vault /\ (q \in left => h # journal[q].staged) => <<q, h>> \in vault'
    BY <1>2
  <2>6. PointerInOrder(q)'
    BY <1>2, <2>1, <2>3, <2>4, <2>5 DEF PointerInOrder, GenUsed, Kept
  <2>7. RecordInOrder(q)'
    <3>1. journal'[q].phase = "VaultWritten" =>
             <<q, journal[q].staged>> \in vault' \/ <<q, journal[q].staged>> \in loggedOut'
      BY <1>2, <1>3, <2>1, <2>5 DEF RecordInOrder, Kept
    <3>2. journal'[q].phase \in {"IntentRecorded", "VaultWritten"} => profiles'[q].gen # journal[q].staged
      BY <1>2, <1>3, <2>1 DEF RecordInOrder
    <3>3. journal'[q].op = NoOp => journal'[q].phase = "None"
      BY <1>3, <2>1 DEF RecordInOrder
    <3>4. QED
      BY <1>3, <2>1, <2>2, <3>1, <3>2, <3>3 DEF RecordInOrder, GenUsed, Kept
  <2>8. QED
    BY <2>6, <2>7
<1>8. starts' \in 0 .. MaxStarts /\ vault' \subseteq Profiles \X Generations
  BY <1>1, <1>2, StoreBounds DEF TypeOK
<1>9. /\ connections' \in [Profiles -> Connections] /\ logins' \in [Ops -> Logins]
      /\ cancels' \in [Ops -> CancelPC] /\ calls' \in [Ops -> Calls]
  BY <1>2, <1>5
<1>10. QED
  BY <1>1, <1>2, <1>4, <1>6, <1>7, <1>8, <1>9 DEF TokenInv, TypeOK

-----------------------------------------------------------------------------
(* The induction, and what it says.                                        *)

LEMMA TokenInit == Init => TokenInv
<1> SUFFICES ASSUME Init PROVE TokenInv
  OBVIOUS
<1>1. PICK in \in BOOLEAN, m \in Models :
        /\ profiles = [p \in Profiles |-> Draft(1, m, IF in THEN 1 ELSE NoGen)]
        /\ gens = [p \in Profiles |-> [g \in Generations |->
                      IF in /\ g = 1 THEN "available" ELSE "none"]]
        /\ vault = IF in THEN Profiles \X {1} ELSE {}
        /\ journal = [p \in Profiles |-> NoRecord]
        /\ connections = [p \in Profiles |-> NoConnection]
        /\ deviceCodes = {} /\ cancelled = {}
        /\ loggedOut = {}
        /\ logins = [o \in Ops |-> NoLogin]
        /\ cancels = [o \in Ops |-> "none"]
        /\ calls = [o \in Ops |-> IdleCall]
        /\ started = 0 /\ faults = 0 /\ starts = 0
  BY DEF Init
<1>2. 1 \in Generations /\ 1 \in Revisions /\ 1 # NoGen /\ 0 \in Revisions
  BY StoreBounds DEF Generations, Revisions, NoGen
<1> DEFINE row == Draft(1, m, IF in THEN 1 ELSE NoGen)
<1>3. row \in ProfileRows /\ row.gen = (IF in THEN 1 ELSE NoGen)
  <2>1. (IF in THEN 1 ELSE NoGen) \in Generations \cup {NoGen}
    BY <1>2
  <2>2. NoProof \in Proofs /\ "Draft" \in ProfileStates
    BY DEF NoProof, Proofs, ProfileStates
  <2>3. QED
    BY <1>2, <2>1, <2>2 DEF Draft, ProfileRows
<1> HIDE DEF row
<1>4. /\ IdleCall \in Calls /\ IdleCall.pc = "idle" /\ IdleCall.staged = NoGen
      /\ NoConnection \in Connections /\ NoLogin \in Logins /\ "none" \in CancelPC
  BY <1>2 DEF IdleCall, Calls, CallPC, NoGen, NoConnection, Connections,
              Statuses, NoLogin, Logins, CancelPC
<1>5. NoRecord \in Records /\ NoRecord.intent = "replace" /\ NoRecord.op = NoOp
      /\ NoRecord.phase = "None" /\ NoRecord.staged = NoGen
  BY <1>2 DEF NoRecord, Records, Phases, Intents
<1>6. gens \in [Profiles -> [Generations -> GenStatuses]]
  BY <1>1 DEF GenStatuses
<1>7. vault \subseteq Profiles \X Generations
  BY <1>1, <1>2
<1>8. TypeOK
  <2>1. faults \in 0 .. MaxFaults /\ starts \in 0 .. MaxStarts /\ started \in 0 .. MaxCalls
    BY <1>1, StoreBounds
  <2>2. /\ profiles \in [Profiles -> ProfileRows] /\ journal \in [Profiles -> Records]
        /\ connections \in [Profiles -> Connections] /\ logins \in [Ops -> Logins]
        /\ cancels \in [Ops -> CancelPC] /\ calls \in [Ops -> Calls]
    BY <1>1, <1>3, <1>4, <1>5 DEF row
  <2>3. QED
    BY <1>1, <1>6, <1>7, <2>1, <2>2 DEF TypeOK
<1>9. ASSUME NEW d \in Ops PROVE CallInv(d) /\ LoginInOrder(d)
  BY <1>1, <1>4 DEF CallInv, CallReads, CallFields, OwnStage, StageStands, LoginInOrder,
                    Stages, Staging, Written, TakesOut, Restoring
<1>10. ASSUME NEW p \in Profiles PROVE RecordInOrder(p) /\ PointerInOrder(p)
  <2>1. RecordInOrder(p)
    BY <1>1, <1>5 DEF RecordInOrder
  <2>2. profiles[p].gen = (IF in THEN 1 ELSE NoGen)
    BY <1>1, <1>3 DEF row
  <2>3. CASE in
    <3>1. gens[p][1] = "available" /\ <<p, 1>> \in vault /\ profiles[p].gen = 1
      BY <1>1, <1>2, <2>2, <2>3
    <3>2. QED
      BY <2>1, <3>1 DEF PointerInOrder, GenUsed, Kept
  <2>4. CASE ~in
    BY <2>1, <2>2, <2>4 DEF PointerInOrder
  <2>5. QED
    BY <2>3, <2>4
<1>11. QED
  BY <1>8, <1>9, <1>10 DEF TokenInv

LEMMA TokenNext == TokenInv /\ [Next]_oauthVars => TokenInv'
<1> SUFFICES ASSUME TokenInv, [Next]_oauthVars PROVE TokenInv'
  OBVIOUS
<1>1. CASE UNCHANGED oauthVars
  <2>1. /\ UNCHANGED store /\ UNCHANGED calls
        /\ UNCHANGED <<connections, deviceCodes, logins, cancelled, cancels, faults, starts, started>>
    BY <1>1 DEF oauthVars, store
  <2>2. RestTypes'
    <3>1. RestTypes
      BY DEF TokenInv, TypeOK, RestTypes
    <3>2. QED
      BY <2>1, <3>1 DEF RestTypes, LoginInOrder
  <2>3. QED
    BY <2>1, <2>2, NobodyMoves, Assemble
<1>2. ASSUME NEW o \in Ops,
             \/ \E p \in Profiles, kind \in CallKinds : StartCall(o, p, kind)
             \/ ReadLease(o) \/ RestoreConnection(o) \/ Login(o)
      PROVE  TokenInv'
  BY <1>2, StartCallKeeps, ReadLeaseKeeps, RestoreKeeps, LoginKeeps, CompleteLoginKeeps DEF Login
<1>3. ASSUME NEW o \in Ops, Connecting(o) PROVE TokenInv'
  BY <1>3, BeginKeeps, AskingKeeps, OwnKeeps DEF Connecting
<1>4. ASSUME NEW o \in Ops, Committing(o) PROVE TokenInv'
  BY <1>4, WriteKeeps, DiscardKeeps, ConnectKeeps, RecordKeeps, CommitKeeps, FinishKeeps
     DEF Committing
<1>5. ASSUME NEW o \in Ops, LoggingOut(o) PROVE TokenInv'
  BY <1>5, OwnKeeps, LogoutKeeps, DeleteKeeps, UndoKeeps, BlockKeeps DEF LoggingOut
<1>6. ASSUME NEW o \in Ops, Cancelling(o) PROVE TokenInv'
  BY <1>6, CancelKeeps, ClearKeeps, RollbackKeeps DEF Cancelling
<1>7. QED
  BY <1>1, <1>2, <1>3, <1>4, <1>5, <1>6, FailsKeeps, EditKeeps, RestartKeeps DEF Next

(* The pointer that a sign-in moves leaves the model as the Profile has it.*)
LEMMA PointerKeepsModel ==
    ASSUME TokenInv, [Next]_oauthVars, NEW p \in Profiles,
           journal[p].phase = "VaultWritten", journal'[p].phase = "PointerCommitted"
    PROVE  profiles'[p].model = profiles[p].model
<1>1. \/ UNCHANGED profiles
      \/ \E o \in Ops : CommitTokens(o)
      \/ \E q \in Profiles : EditProfile(q)
  <2>1. ASSUME NEW o \in Ops,
               \/ \E q \in Profiles, kind \in CallKinds : StartCall(o, q, kind)
               \/ ReadLease(o) \/ RestoreConnection(o) \/ Login(o)
        PROVE  UNCHANGED profiles
    BY <2>1 DEF StartCall, ReadLease, RestoreConnection, Login, EnterLogin, ShowCode, NoCode,
                CompleteLogin, rows
  <2>2. ASSUME NEW o \in Ops, Connecting(o) PROVE UNCHANGED profiles
    BY <2>2 DEF Connecting, BeginTokens, PollCode, OwnConnection, ReadOldTokens, PostRefresh, rows
  <2>3. ASSUME NEW o \in Ops, Committing(o), ~CommitTokens(o) PROVE UNCHANGED profiles
    BY <2>3 DEF Committing, WriteTokens, DiscardTokens, Connect, RecordTokens, FinishTokens, rows
  <2>4. ASSUME NEW o \in Ops, LoggingOut(o) PROVE UNCHANGED profiles
    BY <2>4 DEF LoggingOut, OwnLogout, ReadLogoutTokens, DeleteTokens, RevokeConnection,
                UndoTokens, BlockTokens, rows
  <2>5. ASSUME NEW o \in Ops, Cancelling(o) \/ ServiceFails(o) PROVE UNCHANGED profiles
    BY <2>5 DEF Cancelling, Cancel, DropCall, FindIntent, ClearIntent, RollbackIntent,
                ServiceFails, rows
  <2>6. Restart \/ UNCHANGED oauthVars => UNCHANGED profiles
    BY DEF Restart, oauthVars
  <2>7. QED
    BY <2>1, <2>2, <2>3, <2>4, <2>5, <2>6 DEF Next
<1>2. CASE \E q \in Profiles : EditProfile(q)
  BY <1>2 DEF EditProfile
<1>3. ASSUME NEW o \in Ops, CommitTokens(o), ~UNCHANGED profiles
      PROVE  profiles'[p].model = profiles[p].model
  <2> DEFINE q == calls[o].p
             new == IF journal[q].intent = "replace" THEN journal[q].staged ELSE NoGen
             row == Draft(journal[q].base + 1, calls[o].model, new)
  <2>1. /\ calls[o].pc = "commit" /\ journal[q].op = o /\ profiles[q].rev = journal[q].base
        /\ profiles' = [profiles EXCEPT ![q] = row]
    BY <1>3 DEF CommitTokens, At, InPhase, PointerStale, CommitPointer
  <2>2. row.model = calls[o].model
    BY DEF Draft
  <2>3. /\ CallReads(o) /\ CallFields(o) /\ OwnStage(o) /\ profiles \in [Profiles -> ProfileRows]
    BY Types DEF TokenInv, CallInv
  <2>4. /\ q \in Profiles /\ calls[o].staged # NoGen
    BY <2>1, <2>3 DEF CallReads, CallFields, Stages
  <2>5. profiles[q].rev = calls[o].rev
    BY <2>1, <2>3, <2>4 DEF OwnStage
  <2>6. calls[o].model = profiles[q].model
    BY <2>1, <2>3, <2>5 DEF CallReads
  <2> HIDE DEF row, new
  <2>7. QED
    BY <2>1, <2>2, <2>3, <2>4, <2>6
<1>4. QED
  BY <1>1, <1>2, <1>3

LEMMA Inductive == /\ Init => TokenInv
                   /\ TokenInv /\ [Next]_oauthVars => TokenInv'
BY TokenInit, TokenNext

LEMMA WhatItSays == TokenInv => TypeOK /\ TokensInVault
BY DEF TokenInv, PointerInOrder, TokensInVault, Kept, Held

KeepsModel(p) ==
    journal[p].phase = "VaultWritten" /\ journal'[p].phase = "PointerCommitted"
    => profiles'[p].model = profiles[p].model

LEMMA ModelStep == TokenInv /\ [Next]_oauthVars => \A p \in Profiles : KeepsModel(p)
BY PointerKeepsModel DEF KeepsModel

(* Whatever sign-ins, refreshes, logouts, views, cancels, failures and     *)
(* restarts interleave, the tokens a Profile points at are in the vault,   *)
(* unless a logout or a cancel took them out and left its trace.           *)
THEOREM TokensStay == Spec => []TokensInVault
BY Inductive, WhatItSays, PTL DEF Spec

(* Every table, local and counter of the sign-in has its type.             *)
THEOREM TokenTypesHold == Spec => []TypeOK
BY Inductive, WhatItSays, PTL DEF Spec

-----------------------------------------------------------------------------
(***************************************************************************)
(* What is left behind when nothing has failed and nothing was cancelled.  *)
(* One operation works at a time, views beside it.  An open record is that *)
(* operation's, which finishes it, rolls it back or blocks it; tokens the  *)
(* rollback writes off were thrown away before, or the connection of the   *)
(* Profile, which the rollback logs out first, names them.                 *)
(***************************************************************************)
Calm == faults = 0 /\ starts = 0 /\ cancelled = {}

Working == {"refresh", "complete"}
OutPC   == {"out", "outLease", "outDelete", "outState"}
UndoPC  == OutPC \cup {"undo", "block"}

Busy(o) == calls[o].pc # "idle" /\ calls[o].kind # "view"
Alone == \A o, q \in Ops : Busy(o) /\ Busy(q) => o = q

(* The calls that may be at a program counter.                             *)
KindInOrder(o) ==
    LET c == calls[o]
    IN  /\ c.kind = "view" => c.pc \in Restoring \cup {"idle"}
        /\ c.pc \in Stages \cup {"begin", "undo", "block"} => c.kind \in Working
        /\ c.pc \in OutPC => c.kind \in Working \cup {"logout"}

(* An operation between the begin of its record and the end of it.         *)
Mutating(o) == calls[o].pc \in Stages \cup UndoPC /\ calls[o].kind \in Working

PhaseInOrder(o) ==
    LET c == calls[o]
        ph == journal[c.p].phase
    IN  /\ c.pc \in Staging => ph = "IntentRecorded"
        /\ c.pc = "commit" => ph = "VaultWritten"
        /\ c.pc = "finish" => ph = "PointerCommitted"
        /\ c.pc \in UndoPC => ph \in {"IntentRecorded", "CleanupPending"}

(* Tokens that are written are the connection's, until they are out again. *)
Traced(o) ==
    LET c == calls[o]
    IN  Held(c.p, c.staged) =>
        /\ c.pc \notin {"poll", "own", "old", "post", "write", "outState", "undo"}
        /\ c.pc \in {"record", "commit", "out"} => connections[c.p].gen = c.staged
        /\ c.pc \in {"outLease", "outDelete"} => c.gen = c.staged

InStep(o) ==
    LET c == calls[o]
    IN  Mutating(o) =>
        /\ c.p \in Profiles /\ c.staged \in Generations /\ journal[c.p].op = o
        /\ PhaseInOrder(o)
        /\ StatusSaved(c.p, c.staged)
        /\ c.p \notin crossed => Traced(o)

Attended(p) ==
    Open(p) => \E o \in Ops : Mutating(o) /\ calls[o].p = p /\ journal[p].op = o

SavedOnly(p, g) == Held(p, g) /\ ~IsBlocked(p) /\ p \notin crossed => StatusSaved(p, g)

CalmParts ==
    /\ \A o \in Ops : cancels[o] = "none" /\ KindInOrder(o) /\ InStep(o)
    /\ Alone
    /\ \A p \in Profiles : Attended(p)
    /\ \A p \in Profiles, g \in Generations : SavedOnly(p, g)

CalmInv == Calm => CalmParts

LEMMA MutatingIsBusy ==
    ASSUME NEW o, Mutating(o)
    PROVE  Busy(o)
BY DEF Mutating, Busy, Stages, Staging, UndoPC, OutPC, Working

(* The frame of a step of one call.                                        *)
LEMMA CalmStep ==
    ASSUME CalmParts, NEW o \in Ops, \A q \in Ops \ {o} : calls'[q] = calls[q],
           cancels' = cancels, KindInOrder(o)', InStep(o)', Busy(o)' => Busy(o) \/ Serial,
           \/ Busy(o)
           \/ /\ UNCHANGED <<journal, gens, vault>>
              /\ \A p \in Profiles : \/ connections'[p] = connections[p]
                                     \/ p \in crossed' \/ Serial,
           crossed \subseteq crossed',
           \A p \in Profiles :
               \/ ~Open(p)'
               \/ journal'[p] = journal[p] /\ ~(Mutating(o) /\ calls[o].p = p)
               \/ Mutating(o)' /\ calls'[o].p = p /\ journal'[p].op = o,
           \A p \in Profiles, g \in Generations : SavedOnly(p, g)'
    PROVE  CalmParts'
<1>1. ASSUME NEW q \in Ops \ {o}
      PROVE  KindInOrder(q)' /\ InStep(q)'
  <2>1. KindInOrder(q) /\ InStep(q) /\ calls'[q] = calls[q]
    BY DEF CalmParts
  <2>2. KindInOrder(q)'
    BY <2>1 DEF KindInOrder
  <2>3. CASE ~Mutating(q)
    BY <2>1, <2>2, <2>3 DEF InStep, Mutating
  <2>4. CASE Mutating(q)
    <3>1. Busy(q) /\ ~Busy(o)
      BY <2>4, MutatingIsBusy DEF CalmParts, Alone
    <3>2. ~Serial
      BY <3>1 DEF Serial, Busy, At
    <3>3. PICK P \in Profiles : P = calls[q].p
      BY <2>1, <2>4 DEF InStep
    <3>4. UNCHANGED <<journal, gens, vault>>
          /\ (connections'[P] = connections[P] \/ P \in crossed')
      BY <3>1, <3>2
    <3>5. InStep(q)'
      BY <2>1, <2>4, <3>3, <3>4 DEF InStep, Mutating, PhaseInOrder, StatusSaved, Traced, Held
    <3>6. QED
      BY <2>2, <3>5
  <2>5. QED
    BY <2>3, <2>4
<1>2. Alone'
  <2>1. \A q \in Ops \ {o} : Busy(q)' => Busy(q)
    BY DEF Busy
  <2>2. Serial => \A q \in Ops : ~Busy(q)
    BY DEF Serial, Busy, At
  <2>3. QED
    BY <2>1, <2>2 DEF CalmParts, Alone
<1>3. ASSUME NEW p \in Profiles
      PROVE  Attended(p)'
  <2>1. CASE journal'[p] = journal[p] /\ ~(Mutating(o) /\ calls[o].p = p)
    BY <2>1 DEF CalmParts, Attended, Open, Mutating
  <2>2. CASE Mutating(o)' /\ calls'[o].p = p /\ journal'[p].op = o
    BY <2>2 DEF Attended
  <2>3. QED
    BY <2>1, <2>2 DEF Attended
<1>4. QED
  BY <1>1, <1>2, <1>3 DEF CalmParts

(* A step that leaves records and statuses alone.                          *)
LEMMA OutsideCalm ==
    ASSUME TokenInv, CalmParts, NEW o \in Ops, NEW t, calls' = [calls EXCEPT ![o] = t],
           cancels' = cancels, UNCHANGED <<journal, gens>>,
           KindInOrder(o)', InStep(o)', Busy(o)' => Busy(o) \/ Serial,
           \/ Busy(o) /\ crossed' = crossed
           \/ /\ vault' = vault /\ crossed \subseteq crossed'
              /\ \A p \in Profiles : \/ connections'[p] = connections[p]
                                     \/ p \in crossed' \/ Serial,
           Mutating(o) => Mutating(o)' /\ t.p = calls[o].p,
           \A p \in Profiles, g \in Generations :
              Held(p, g)' /\ ~Held(p, g) =>
                 Mutating(o) /\ p = calls[o].p /\ g = calls[o].staged
    PROVE  CalmParts'
<1>1. calls'[o] = t /\ \A q \in Ops \ {o} : calls'[q] = calls[q]
  BY RestFacts
<1>2. ASSUME NEW p \in Profiles, NEW g \in Generations
      PROVE  SavedOnly(p, g)'
  <2>1. SavedOnly(p, g)
    BY DEF CalmParts
  <2>2. Mutating(o) /\ p = calls[o].p /\ g = calls[o].staged => StatusSaved(p, g)
    BY DEF CalmParts, InStep
  <2>3. QED
    BY <2>1, <2>2 DEF SavedOnly, StatusSaved, IsBlocked
<1>3. ASSUME NEW p \in Profiles
      PROVE  \/ ~Open(p)'
             \/ journal'[p] = journal[p] /\ ~(Mutating(o) /\ calls[o].p = p)
             \/ Mutating(o)' /\ calls'[o].p = p /\ journal'[p].op = o
  <2>1. Mutating(o) => journal[calls[o].p].op = o
    BY DEF CalmParts, InStep
  <2>2. QED
    BY <1>1, <2>1
<1>4. QED
  BY <1>1, <1>2, <1>3, CalmStep

(* A step of a call that works on no record.                               *)
LEMMA IdleCalm ==
    ASSUME TokenInv, CalmParts, NEW o \in Ops, NEW t, calls' = [calls EXCEPT ![o] = t],
           cancels' = cancels, UNCHANGED <<journal, gens>>, ~Mutating(o),
           KindInOrder(o)', ~Mutating(o)', Busy(o)' => Busy(o) \/ Serial,
           \/ Busy(o) /\ crossed' = crossed
           \/ /\ vault' = vault /\ crossed \subseteq crossed'
              /\ \A p \in Profiles : \/ connections'[p] = connections[p]
                                     \/ p \in crossed' \/ Serial,
           vault' \subseteq vault
    PROVE  CalmParts'
<1>1. InStep(o)'
  BY DEF InStep
<1>2. \A p, g : Held(p, g)' => Held(p, g)
  BY DEF Held
<1>3. QED
  BY <1>1, <1>2, OutsideCalm

(* A step of an operation at work.                                         *)
LEMMA WorkCalm ==
    ASSUME TokenInv, CalmParts, NEW o \in Ops, NEW t, calls' = [calls EXCEPT ![o] = t],
           cancels' = cancels, crossed' = crossed, UNCHANGED <<journal, gens>>, Mutating(o),
           t.p = calls[o].p, t.kind = calls[o].kind, t.staged = calls[o].staged,
           t.pc \in Stages \cup UndoPC, t.pc \notin {"commit", "finish"},
           t.pc \in Staging => calls[o].pc \in Staging,
           t.pc \in UndoPC => calls[o].pc \in Staging \cup UndoPC,
           calls[o].p \notin crossed => Traced(o)',
           vault' \subseteq vault \cup {<<calls[o].p, calls[o].staged>>}
    PROVE  CalmParts'
<1>1. calls'[o] = t
  BY RestFacts
<1>2. InStep(o) /\ calls[o].kind \in Working /\ Busy(o)
  BY MutatingIsBusy DEF CalmParts, Mutating
<1>3. PICK P \in Profiles : P = calls[o].p
  BY <1>2 DEF InStep
<1>4. Mutating(o)' /\ KindInOrder(o)'
  BY <1>1, <1>2 DEF Mutating, KindInOrder, Working
<1>5. PhaseInOrder(o)'
  BY <1>1, <1>2 DEF InStep, PhaseInOrder, Mutating
<1>6. InStep(o)'
  BY <1>1, <1>2, <1>3, <1>5 DEF InStep, StatusSaved
<1>7. \A p \in Profiles, g \in Generations :
         Held(p, g)' /\ ~Held(p, g) => p = calls[o].p /\ g = calls[o].staged
  BY DEF Held
<1>8. QED
  BY <1>2, <1>4, <1>6, <1>7, OutsideCalm

(* A call that works on no record goes to pc, or has returned.             *)
LEMMA IdleLeaves ==
    ASSUME TokenInv, CalmParts, NEW o \in Ops, NEW pc \in CallPC, Leave(o, pc),
           UNCHANGED <<cancels, journal, gens, crossed>>, Busy(o), ~Mutating(o),
           pc \notin Stages \cup {"undo", "block"},
           pc = "begin" => calls[o].kind \in Working,
           pc \in OutPC => calls[o].kind = "logout",
           vault' \subseteq vault
    PROVE  CalmParts'
<1>1. CASE pc = "idle"
  <2>1. calls' = [calls EXCEPT ![o] = IdleCall]
    BY <1>1 DEF Leave, Return
  <2>2. calls'[o] = IdleCall
    BY <2>1, RestFacts
  <2>3. KindInOrder(o)' /\ ~Mutating(o)' /\ ~Busy(o)'
    BY <2>2 DEF KindInOrder, Mutating, Busy, IdleCall, Stages, Staging, UndoPC, OutPC, Working
  <2>4. QED
    BY <2>1, <2>3, IdleCalm
<1>2. CASE pc # "idle"
  <2>1. PICK t \in Calls :
              /\ calls' = [calls EXCEPT ![o] = t] /\ t.pc = pc
              /\ t.kind = calls[o].kind /\ t.p = calls[o].p /\ t.rev = calls[o].rev
              /\ t.gen = calls[o].gen /\ t.staged = calls[o].staged
              /\ t.model = calls[o].model
    BY <1>2, GoGives DEF TokenInv, Leave
  <2>2. calls'[o] = t
    BY <2>1, RestFacts
  <2>3. KindInOrder(o)' /\ ~Mutating(o)' /\ Busy(o)'
    BY <1>2, <2>1, <2>2 DEF KindInOrder, Mutating, Busy, UndoPC, OutPC, Working
  <2>4. QED
    BY <2>1, <2>3, IdleCalm
<1>3. QED
  BY <1>1, <1>2

LEMMA StartCallCalm ==
    ASSUME TokenInv, CalmParts, NEW o \in Ops, NEW p \in Profiles, NEW kind \in CallKinds,
           StartCall(o, p, kind)
    PROVE  CalmParts'
<1> DEFINE pc == IF profiles[p].gen # NoGen /\ ~Pending(p) THEN "lease" ELSE AfterRestore(kind)
           t == [IdleCall EXCEPT !.kind = kind, !.p = p, !.rev = profiles[p].rev,
                   !.gen = profiles[p].gen, !.model = profiles[p].model, !.pc = pc]
<1>1. kind \in {"login", "refresh", "logout", "view"} /\ (kind = "view" \/ Serial)
  BY DEF StartCall, CallKinds
<1>2. \/ pc = "lease"
      \/ kind = "login" /\ pc = "enter"
      \/ kind = "refresh" /\ pc = "begin"
      \/ kind = "logout" /\ pc = "out"
      \/ kind = "view" /\ pc = "idle"
  BY <1>1 DEF AfterRestore
<1>3. calls' = [calls EXCEPT ![o] = t]
  BY DEF StartCall
<1> HIDE DEF pc
<1>4. t.pc = pc /\ t.kind = kind
  BY DEF IdleCall
<1> HIDE DEF t
<1>5. calls'[o] = t /\ calls[o].pc = "idle"
  BY <1>3, RestFacts DEF StartCall, At
<1>6. ~Mutating(o) /\ ~Mutating(o)' /\ KindInOrder(o)'
  BY <1>2, <1>4, <1>5 DEF Mutating, KindInOrder, Stages, Staging, UndoPC, OutPC, Working, Restoring
<1>7. Busy(o)' => Serial
  BY <1>1, <1>4, <1>5 DEF Busy
<1>8. UNCHANGED <<cancels, journal, gens, vault, connections, crossed>>
  BY DEF StartCall, rows, manager, service, history
<1>9. QED
  BY <1>3, <1>6, <1>7, <1>8, IdleCalm

LEMMA ReadLeaseCalm ==
    ASSUME TokenInv, CalmParts, NEW o \in Ops, ReadLease(o)
    PROVE  CalmParts'
<1> DEFINE t == [calls[o] EXCEPT !.pc = "restore", !.held = Held(calls[o].p, calls[o].gen)]
<1>1. calls[o] \in Calls /\ calls[o].pc = "lease"
  BY RestFacts DEF ReadLease, At
<1>2. t.pc = "restore" /\ t.kind = calls[o].kind
  BY <1>1 DEF Calls
<1>3. calls' = [calls EXCEPT ![o] = t]
  BY RestFacts DEF ReadLease
<1> HIDE DEF t
<1>4. calls'[o] = t
  BY <1>3, RestFacts
<1>5. /\ ~Mutating(o) /\ ~Mutating(o)' /\ KindInOrder(o)'
      /\ Busy(o)' => Busy(o)
  BY <1>1, <1>2, <1>4 DEF Mutating, KindInOrder, Busy, Stages, Staging, UndoPC, OutPC, Working,
                          Restoring
<1>6. UNCHANGED <<cancels, journal, gens, vault, connections, crossed>>
  BY DEF ReadLease, rows, manager, service, history
<1>7. QED
  BY <1>3, <1>5, <1>6, IdleCalm

LEMMA RestoreCalm ==
    ASSUME TokenInv, CalmParts, NEW o \in Ops, RestoreConnection(o)
    PROVE  CalmParts'
<1>1. calls[o].pc = "restore" /\ calls[o].kind \in {"login", "refresh", "logout", "view"}
  BY RestFacts DEF RestoreConnection, At, CallFields, Restoring, Restorers, CallKinds
<1>2. UNCHANGED <<cancels, journal, gens, vault>>
  BY DEF RestoreConnection, rows, service
<1>3. ~Mutating(o)
  BY <1>1 DEF Mutating, Stages, Staging, UndoPC, OutPC
<1>4. CASE calls[o].kind = "view"
  <2>1. Return(o)
    BY <1>4 DEF RestoreConnection, AfterRestore
  <2>2. \A p \in Profiles : p # calls[o].p => connections'[p] = connections[p]
    BY RestFacts DEF RestoreConnection, SetConnection, RestTypes
  <2>3. crossed \subseteq crossed' /\ (Serial \/ calls[o].p \in crossed')
    BY <1>4 DEF RestoreConnection
  <2>4. calls' = [calls EXCEPT ![o] = IdleCall]
    BY <2>1 DEF Return
  <2>5. calls'[o] = IdleCall
    BY <2>4, RestFacts
  <2>6. KindInOrder(o)' /\ ~Mutating(o)' /\ ~Busy(o)'
    BY <2>5 DEF KindInOrder, Mutating, Busy, IdleCall, Stages, Staging, UndoPC, OutPC, Working
  <2>7. \A p \in Profiles : connections'[p] = connections[p] \/ p \in crossed' \/ Serial
    BY <2>2, <2>3
  <2>8. QED
    BY <1>2, <1>3, <2>3, <2>4, <2>6, <2>7, IdleCalm
<1>5. CASE calls[o].kind # "view"
  <2> DEFINE pc == AfterRestore(calls[o].kind)
  <2>1. \/ calls[o].kind = "login" /\ pc = "enter"
        \/ calls[o].kind = "refresh" /\ pc = "begin"
        \/ calls[o].kind = "logout" /\ pc = "out"
    BY <1>1, <1>5 DEF AfterRestore
  <2>2. Leave(o, pc) /\ crossed' = crossed
    BY <1>5 DEF RestoreConnection, Leave
  <2> HIDE DEF pc
  <2>3. pc \in CallPC /\ pc \notin Stages \cup {"undo", "block"}
    BY <2>1 DEF CallPC, Stages, Staging
  <2>4. /\ pc = "begin" => calls[o].kind \in Working
        /\ pc \in OutPC => calls[o].kind = "logout"
    BY <2>1 DEF Working, OutPC
  <2>5. Busy(o)
    BY <1>1, <1>5 DEF Busy
  <2>6. QED
    BY <1>2, <1>3, <2>2, <2>3, <2>4, <2>5, IdleLeaves
<1>6. QED
  BY <1>4, <1>5

LEMMA LoginCalm ==
    ASSUME TokenInv, CalmParts, NEW o \in Ops,
           \/ EnterLogin(o) \/ ShowCode(o) \/ NoCode(o)
           \/ BeginTokens(o) /\ Return(o) /\ UNCHANGED <<gens, journal>>
    PROVE  CalmParts'
<1>1. calls[o].pc \in {"enter", "device", "begin"}
  BY DEF EnterLogin, ShowCode, NoCode, BeginTokens, At
<1>2. Busy(o) /\ ~Mutating(o)
  <2>1. KindInOrder(o)
    BY DEF CalmParts
  <2>2. QED
    BY <1>1, <2>1 DEF KindInOrder, Busy, Mutating, Stages, Staging, UndoPC, OutPC, Restoring
<1>3. UNCHANGED <<cancels, journal, gens, crossed, vault>>
  BY DEF EnterLogin, ShowCode, NoCode, BeginTokens, rows, history, service
<1>4. Leave(o, "device") \/ Leave(o, "idle")
  BY DEF EnterLogin, ShowCode, NoCode, Leave
<1>5. /\ {"device", "idle"} \subseteq CallPC
      /\ {"device", "idle", "begin"} \cap (Stages \cup {"undo", "block"} \cup OutPC) = {}
  BY DEF CallPC, Stages, Staging, OutPC
<1>6. QED
  BY <1>2, <1>3, <1>4, <1>5, IdleLeaves

LEMMA CompleteLoginCalm ==
    ASSUME TokenInv, CalmParts, NEW o \in Ops, CompleteLogin(o)
    PROVE  CalmParts'
<1> DEFINE l == logins[o]
           next == [IdleCall EXCEPT !.pc = "begin", !.kind = "complete", !.p = l.p,
                       !.rev = l.rev, !.gen = l.gen, !.model = profiles[l.p].model]
<1>1. calls[o].pc = "idle" /\ Serial /\ KindInOrder(o)
  BY DEF CompleteLogin, At, CalmParts
<1>2. UNCHANGED <<cancels, journal, gens, crossed, vault, connections>>
  BY DEF CompleteLogin, rows, history, manager
<1>3. calls' = [calls EXCEPT ![o] = next] \/ calls' = calls
  BY DEF CompleteLogin
<1>4. next.pc = "begin" /\ next.kind = "complete"
  BY DEF IdleCall
<1> HIDE DEF next
<1>5. PICK t : calls' = [calls EXCEPT ![o] = t] /\ (t = next \/ t = calls[o])
  <2>1. calls = [calls EXCEPT ![o] = calls[o]]
    BY RestFacts
  <2>2. QED
    BY <1>3, <2>1
<1>6. calls'[o] = t
  BY <1>5, RestFacts
<1>7. KindInOrder(o)' /\ ~Mutating(o) /\ ~Mutating(o)'
  BY <1>1, <1>4, <1>5, <1>6 DEF KindInOrder, Mutating, Stages, Staging, UndoPC, OutPC, Working
<1>8. QED
  BY <1>1, <1>2, <1>5, <1>7, IdleCalm

(* A logout of the user.                                                   *)
LEMMA LogoutCalm ==
    ASSUME TokenInv, CalmParts, NEW o \in Ops, calls[o].kind = "logout",
           OwnLogout(o) \/ ReadLogoutTokens(o) \/ DeleteTokens(o) \/ RevokeConnection(o)
    PROVE  CalmParts'
<1>1. calls[o].pc \in OutPC
  BY DEF OwnLogout, ReadLogoutTokens, DeleteTokens, RevokeConnection, At, OutPC
<1>2. Busy(o) /\ ~Mutating(o)
  BY <1>1 DEF Busy, Mutating, OutPC, Working
<1>3. UNCHANGED <<cancels, journal, gens, crossed>> /\ vault' \subseteq vault
  BY DEF OwnLogout, ReadLogoutTokens, DeleteTokens, RevokeConnection, rows, history, service
<1>4. CASE \E pc \in {"idle", "outDelete", "outState"} : Leave(o, pc)
  <2>1. /\ {"idle", "outDelete", "outState"} \subseteq CallPC
        /\ {"idle", "outDelete", "outState"} \cap (Stages \cup {"undo", "block", "begin"}) = {}
    BY DEF CallPC, Stages, Staging
  <2>2. QED
    BY <1>2, <1>3, <1>4, <2>1, IdleLeaves
<1>5. CASE /\ OwnLogout(o) /\ connections[calls[o].p].gen # NoGen
  <2> DEFINE t == [calls[o] EXCEPT !.pc = "outLease", !.gen = connections[calls[o].p].gen]
  <2>1. t.pc = "outLease" /\ t.kind = "logout"
    BY RestFacts DEF Calls
  <2>2. calls' = [calls EXCEPT ![o] = t]
    BY <1>5, RestFacts DEF OwnLogout
  <2> HIDE DEF t
  <2>3. calls'[o] = t
    BY <2>2, RestFacts
  <2>4. KindInOrder(o)' /\ ~Mutating(o)'
    BY <2>1, <2>3 DEF KindInOrder, Mutating, Stages, Staging, OutPC, Working
  <2>5. QED
    BY <1>2, <1>3, <2>2, <2>4, IdleCalm
<1>6. ~OwnLogout(o) \/ connections[calls[o].p].gen = NoGen =>
         \E pc \in {"idle", "outDelete", "outState"} : Leave(o, pc)
  <2>1. AfterLogout("logout") = "idle" /\ LogoutError("logout") = "idle"
    BY DEF AfterLogout, LogoutError
  <2>2. ReadLogoutTokens(o) => Leave(o, "outDelete") \/ Leave(o, "idle")
    BY <2>1 DEF ReadLogoutTokens
  <2>3. DeleteTokens(o) => Leave(o, "outState")
    BY DEF DeleteTokens, Leave
  <2>4. RevokeConnection(o) => Leave(o, "idle")
    BY <2>1 DEF RevokeConnection
  <2>5. OwnLogout(o) /\ connections[calls[o].p].gen = NoGen => Leave(o, "idle")
    BY <2>1 DEF OwnLogout
  <2>6. QED
    BY <2>2, <2>3, <2>4, <2>5
<1>7. QED
  BY <1>4, <1>5, <1>6

LEMMA WorkFacts ==
    ASSUME TokenInv, CalmParts, NEW o \in Ops, Mutating(o)
    PROVE  \E P \in Profiles, G \in Generations :
              /\ P = calls[o].p /\ G = calls[o].staged
              /\ journal[P].op = o /\ StatusSaved(P, G) /\ PhaseInOrder(o)
              /\ P \notin crossed => Traced(o)
              /\ connections[P] \in Connections /\ journal[P] \in Records
              /\ calls[o] \in Calls /\ calls[o].kind \in Working
BY RestFacts, Types DEF CalmParts, InStep, Mutating

(* An operation at work goes to pc.                                        *)
LEMMA WorkGoes ==
    ASSUME TokenInv, CalmParts, NEW o \in Ops, Mutating(o), NEW pc \in CallPC, Go(o, pc),
           NEW P \in Profiles, NEW G \in Generations, P = calls[o].p, G = calls[o].staged,
           UNCHANGED <<cancels, crossed, journal, gens>>,
           pc \in Stages \cup UndoPC, pc \notin {"commit", "finish"},
           pc \in Staging => calls[o].pc \in Staging,
           pc \in UndoPC => calls[o].pc \in Staging \cup UndoPC,
           vault' \subseteq vault \cup {<<P, G>>},
           P \notin crossed /\ <<P, G>> \in vault' =>
              /\ pc \notin {"poll", "own", "old", "post", "write", "outState", "undo"}
              /\ pc \in {"record", "commit", "out"} => connections'[P].gen = G
              /\ pc \in {"outLease", "outDelete"} => calls[o].gen = G
    PROVE  CalmParts'
<1>1. PICK t \in Calls :
            /\ calls' = [calls EXCEPT ![o] = t] /\ t.pc = pc
            /\ t.kind = calls[o].kind /\ t.p = calls[o].p /\ t.rev = calls[o].rev
            /\ t.gen = calls[o].gen /\ t.staged = calls[o].staged
            /\ t.model = calls[o].model
  BY GoGives DEF TokenInv
<1>2. calls'[o] = t
  BY <1>1, RestFacts
<1>3. calls[o].p \notin crossed => Traced(o)'
  BY <1>1, <1>2 DEF Traced, Held
<1>4. QED
  BY <1>1, <1>3, WorkCalm

(* Before the tokens are written there are none.                           *)
LEMMA AskingCalm ==
    ASSUME TokenInv, CalmParts, NEW o \in Ops,
           PollCode(o) \/ ReadOldTokens(o) \/ PostRefresh(o)
    PROVE  CalmParts'
<1>1. calls[o].pc \in {"poll", "old", "post"} /\ KindInOrder(o)
  BY DEF PollCode, ReadOldTokens, PostRefresh, At, CalmParts
<1>2. Mutating(o) /\ calls[o].pc \in Staging
  BY <1>1 DEF Mutating, KindInOrder, Stages, Staging
<1>3. PICK P \in Profiles, G \in Generations :
              /\ P = calls[o].p /\ G = calls[o].staged
              /\ P \notin crossed => Traced(o)
  BY <1>2, WorkFacts
<1>4. UNCHANGED <<cancels, crossed, journal, gens, vault>>
  BY DEF PollCode, ReadOldTokens, PostRefresh, rows, service, history
<1>5. Go(o, "write") \/ Go(o, "post") \/ Go(o, "out")
  BY DEF PollCode, ReadOldTokens, PostRefresh
<1>6. P \notin crossed => <<P, G>> \notin vault'
  BY <1>1, <1>3, <1>4 DEF Traced, Held
<1>7. {"write", "post", "out"} \subseteq CallPC /\ {"write", "post", "out"} \subseteq Stages \cup UndoPC
  BY DEF CallPC, Stages, Staging, UndoPC, OutPC
<1>8. QED
  BY <1>2, <1>3, <1>4, <1>5, <1>6, <1>7, WorkGoes

LEMMA OwnConnectionCalm ==
    ASSUME TokenInv, CalmParts, NEW o \in Ops, OwnConnection(o)
    PROVE  CalmParts'
<1>1. calls[o].pc = "own" /\ KindInOrder(o)
  BY DEF OwnConnection, At, CalmParts
<1>2. Mutating(o) /\ calls[o].pc \in Staging
  BY <1>1 DEF Mutating, KindInOrder, Stages, Staging
<1>3. PICK P \in Profiles, G \in Generations :
              /\ P = calls[o].p /\ G = calls[o].staged
              /\ P \notin crossed => Traced(o)
  BY <1>2, WorkFacts
<1>4. UNCHANGED <<cancels, crossed, journal, gens, vault>>
  BY DEF OwnConnection, rows, service, history
<1>5. P \notin crossed => <<P, G>> \notin vault'
  BY <1>1, <1>3, <1>4 DEF Traced, Held
<1>6. CASE Go(o, "out")
  <2>1. "out" \in CallPC /\ "out" \in Stages \cup UndoPC
    BY DEF CallPC, UndoPC, OutPC
  <2>2. QED
    BY <1>2, <1>3, <1>4, <1>5, <1>6, <2>1, WorkGoes
<1>7. CASE ~Go(o, "out")
  <2> DEFINE t == [calls[o] EXCEPT !.pc = "old", !.gen = connections[calls[o].p].gen]
  <2>1. t.pc = "old" /\ t.kind = calls[o].kind /\ t.p = calls[o].p /\ t.staged = calls[o].staged
    BY RestFacts DEF Calls
  <2>2. calls' = [calls EXCEPT ![o] = t]
    BY <1>7, RestFacts DEF OwnConnection
  <2> HIDE DEF t
  <2>3. calls'[o] = t
    BY <2>2, RestFacts
  <2>4. calls[o].p \notin crossed => Traced(o)'
    BY <1>3, <1>5, <2>1, <2>3 DEF Traced, Held
  <2>5. "old" \in Staging /\ "old" \in Stages \cup UndoPC /\ "old" \notin UndoPC
    BY DEF Staging, Stages, UndoPC, OutPC
  <2>6. QED
    BY <1>2, <1>4, <2>1, <2>2, <2>4, <2>5, WorkCalm
<1>8. QED
  BY <1>6, <1>7

(* The tokens are written, and the connection's or thrown away.            *)
LEMMA WritingCalm ==
    ASSUME TokenInv, CalmParts, NEW o \in Ops,
           WriteTokens(o) \/ Connect(o) \/ DiscardTokens(o)
    PROVE  CalmParts'
<1>1. calls[o].pc \in {"write", "connect", "discard"} /\ KindInOrder(o)
  BY DEF WriteTokens, Connect, DiscardTokens, At, CalmParts
<1>2. Mutating(o) /\ calls[o].pc \in Staging
  BY <1>1 DEF Mutating, KindInOrder, Stages, Staging
<1>3. PICK P \in Profiles, G \in Generations :
              /\ P = calls[o].p /\ G = calls[o].staged
  BY <1>2, WorkFacts
<1>4. UNCHANGED <<cancels, crossed, journal, gens>>
  BY DEF WriteTokens, Connect, DiscardTokens, rows, service, history
<1>5. {"connect", "record", "discard", "out"} \subseteq CallPC
      /\ {"connect", "record", "discard", "out"} \subseteq Stages \cup UndoPC
      /\ {"connect", "record", "discard"} \cap UndoPC = {}
  BY DEF CallPC, Stages, Staging, UndoPC, OutPC
<1>6. CASE WriteTokens(o)
  <2>1. Go(o, "connect") /\ vault' = vault \cup {<<P, G>>}
    BY <1>3, <1>6 DEF WriteTokens
  <2>2. QED
    BY <1>2, <1>3, <1>4, <1>5, <2>1, WorkGoes
<1>7. CASE Connect(o) /\ Owns(o)
  <2>1. Go(o, "record") /\ vault' = vault
    BY <1>7 DEF Connect, rows
  <2>2. connections'[P].gen = G
    BY <1>3, <1>7, RestFacts DEF Connect, SetConnection, RestTypes
  <2>3. QED
    BY <1>2, <1>3, <1>4, <1>5, <2>1, <2>2, WorkGoes
<1>8. CASE Connect(o) /\ ~Owns(o)
  <2>1. Go(o, "discard") /\ vault' = vault
    BY <1>8 DEF Connect, rows
  <2>2. QED
    BY <1>2, <1>3, <1>4, <1>5, <2>1, WorkGoes
<1>9. CASE DiscardTokens(o)
  <2>1. Go(o, "out") /\ vault' = vault \ {<<P, G>>}
    BY <1>3, <1>9 DEF DiscardTokens
  <2>2. QED
    BY <1>2, <1>3, <1>4, <1>5, <2>1, WorkGoes
<1>10. QED
  BY <1>6, <1>7, <1>8, <1>9

(* The rollback of an operation logs its connection out first.             *)
LEMMA TakingBackCalm ==
    ASSUME TokenInv, CalmParts, NEW o \in Ops, calls[o].kind # "logout",
           OwnLogout(o) \/ ReadLogoutTokens(o) \/ DeleteTokens(o) \/ RevokeConnection(o)
    PROVE  CalmParts'
<1>1. calls[o].pc \in OutPC /\ KindInOrder(o)
  BY DEF OwnLogout, ReadLogoutTokens, DeleteTokens, RevokeConnection, At, OutPC, CalmParts
<1>2. Mutating(o) /\ calls[o].pc \in UndoPC
  BY <1>1 DEF Mutating, KindInOrder, UndoPC
<1>3. PICK P \in Profiles, G \in Generations :
              /\ P = calls[o].p /\ G = calls[o].staged
              /\ P \notin crossed => Traced(o)
              /\ connections[P] \in Connections /\ calls[o] \in Calls
              /\ calls[o].kind \in Working
  BY <1>2, WorkFacts
<1>4. UNCHANGED <<cancels, crossed, journal, gens>> /\ vault' \subseteq vault
  BY DEF OwnLogout, ReadLogoutTokens, DeleteTokens, RevokeConnection, rows, history, service
<1>5. /\ {"undo", "block", "outLease", "outDelete", "outState"} \subseteq CallPC
      /\ {"undo", "block", "outLease", "outDelete", "outState"} \subseteq UndoPC
      /\ {"undo", "block", "outLease", "outDelete", "outState"} \cap Stages = {}
      /\ Staging \subseteq Stages
  BY DEF CallPC, Stages, Staging, UndoPC, OutPC
<1>6. AfterLogout(calls[o].kind) = "undo" /\ LogoutError(calls[o].kind) = "block"
  BY DEF AfterLogout, LogoutError
<1>7. CASE OwnLogout(o) /\ connections[P].gen = NoGen
  <2>1. Go(o, "undo")
    BY <1>3, <1>6, <1>7 DEF OwnLogout, Leave
  <2>2. P \notin crossed => <<P, G>> \notin vault'
    BY <1>3, <1>4, <1>7 DEF OwnLogout, At, Traced, Held, Generations, NoGen
  <2>3. QED
    BY <1>2, <1>3, <1>4, <1>5, <2>1, <2>2, WorkGoes
<1>8. CASE OwnLogout(o) /\ connections[P].gen # NoGen
  <2> DEFINE t == [calls[o] EXCEPT !.pc = "outLease", !.gen = connections[calls[o].p].gen]
  <2>1. /\ t.pc = "outLease" /\ t.kind = calls[o].kind /\ t.p = calls[o].p
        /\ t.staged = calls[o].staged /\ t.gen = connections[P].gen
    BY <1>3 DEF Calls
  <2>2. calls' = [calls EXCEPT ![o] = t]
    BY <1>3, <1>8, RestFacts DEF OwnLogout
  <2> HIDE DEF t
  <2>3. calls'[o] = t
    BY <2>2, RestFacts
  <2>4. vault' = vault /\ calls[o].pc = "out"
    BY <1>8 DEF OwnLogout, At
  <2>5. calls[o].p \notin crossed => Traced(o)'
    BY <1>3, <2>1, <2>3, <2>4 DEF Traced, Held
  <2>6. QED
    BY <1>2, <1>4, <1>5, <2>1, <2>2, <2>5, WorkCalm
<1>9. CASE ReadLogoutTokens(o)
  <2>1. Go(o, "outDelete") \/ Go(o, "block")
    BY <1>6, <1>9 DEF ReadLogoutTokens, Leave
  <2>2. P \notin crossed /\ <<P, G>> \in vault' => calls[o].gen = G
    BY <1>3, <1>4, <1>9 DEF ReadLogoutTokens, At, Traced, Held
  <2>3. QED
    BY <1>2, <1>3, <1>4, <1>5, <2>1, <2>2, WorkGoes
<1>10. CASE DeleteTokens(o)
  <2>1. Go(o, "outState") /\ vault' = vault \ {<<P, calls[o].gen>>}
    BY <1>3, <1>10 DEF DeleteTokens
  <2>2. P \notin crossed /\ <<P, G>> \in vault => calls[o].gen = G
    BY <1>3, <1>10 DEF DeleteTokens, At, Traced, Held
  <2>3. P \notin crossed => <<P, G>> \notin vault'
    BY <2>1, <2>2
  <2>4. QED
    BY <1>2, <1>3, <1>4, <1>5, <2>1, <2>3, WorkGoes
<1>11. CASE RevokeConnection(o)
  <2>1. Go(o, "undo") \/ Go(o, "block")
    BY <1>6, <1>11 DEF RevokeConnection, Leave
  <2>2. P \notin crossed => <<P, G>> \notin vault'
    BY <1>3, <1>4, <1>11 DEF RevokeConnection, At, Traced, Held
  <2>3. QED
    BY <1>2, <1>3, <1>4, <1>5, <2>1, <2>2, WorkGoes
<1>12. QED
  BY <1>3, <1>7, <1>8, <1>9, <1>10, <1>11

(* The tokens cannot be recorded as written.                               *)
LEMMA UnrecordedCalm ==
    ASSUME TokenInv, CalmParts, NEW o \in Ops, At(o, "record"), Go(o, "out"),
           UNCHANGED <<rows, vault, manager, service, history>>
    PROVE  CalmParts'
<1>1. calls[o].pc = "record" /\ KindInOrder(o)
  BY DEF At, CalmParts
<1>2. Mutating(o) /\ calls[o].pc \in Staging
  BY <1>1 DEF Mutating, KindInOrder, Stages, Staging
<1>3. PICK P \in Profiles, G \in Generations :
              /\ P = calls[o].p /\ G = calls[o].staged
              /\ P \notin crossed => Traced(o)
  BY <1>2, WorkFacts
<1>4. UNCHANGED <<cancels, crossed, journal, gens, vault, connections>>
  BY DEF rows, service, history, manager
<1>5. P \notin crossed /\ <<P, G>> \in vault' => connections'[P].gen = G
  BY <1>1, <1>3, <1>4 DEF Traced, Held
<1>6. "out" \in CallPC /\ "out" \in UndoPC /\ "out" \notin Staging
  BY DEF CallPC, UndoPC, OutPC, Staging
<1>7. QED
  BY <1>2, <1>3, <1>4, <1>5, <1>6, WorkGoes

LEMMA StatusNow ==
    ASSUME TokenInv, NEW P \in Profiles, NEW g \in Generations \cup {NoGen},
           NEW st \in GenStatuses, gens' = SetStatus(P, g, st)
    PROVE  /\ \A h \in Generations : gens'[P][h] = IF h = g THEN st ELSE gens[P][h]
           /\ \A p \in Profiles \ {P} : gens'[p] = gens[p]
<1>1. gens \in [Profiles -> [Generations -> GenStatuses]]
  BY Types DEF TokenInv
<1>2. CASE g = NoGen
  BY <1>2 DEF SetStatus, NoGen, Generations
<1>3. CASE g # NoGen
  <2>1. gens' = [gens EXCEPT ![P] = [gens[P] EXCEPT ![g] = st]]
    BY <1>1, <1>3 DEF SetStatus
  <2>2. gens'[P] = [gens[P] EXCEPT ![g] = st] /\ \A p \in Profiles \ {P} : gens'[p] = gens[p]
    BY <1>1, <2>1
  <2>3. QED
    BY <1>1, <2>2
<1>4. QED
  BY <1>2, <1>3

LEMMA PhaseOf ==
    ASSUME TokenInv, NEW P \in Profiles, NEW ph, Transition(P, ph)
    PROVE  /\ journal'[P].phase = ph /\ journal'[P].op = journal[P].op
           /\ journal'[P].old = journal[P].old /\ journal'[P].staged = journal[P].staged
           /\ \A p \in Profiles \ {P} : journal'[p] = journal[p]
<1>1. journal[P] \in Records /\ journal \in [Profiles -> Records]
  BY Types DEF TokenInv
<1>2. journal' = [journal EXCEPT ![P] = [journal[P] EXCEPT !.phase = ph]]
  BY <1>1 DEF Transition
<1>3. journal'[P] = [journal[P] EXCEPT !.phase = ph] /\ \A p \in Profiles \ {P} : journal'[p] = journal[p]
  BY <1>1, <1>2
<1>4. QED
  BY <1>1, <1>3 DEF Records

(* A step of one call on the record of its Profile.                        *)
LEMMA JournalCalm ==
    ASSUME TokenInv, CalmParts, NEW o \in Ops, Busy(o),
           NEW P \in Profiles, P = calls[o].p, NEW t, calls' = [calls EXCEPT ![o] = t],
           UNCHANGED <<cancels, crossed, vault>>,
           \A q \in Profiles \ {P} : journal'[q] = journal[q] /\ gens'[q] = gens[q],
           KindInOrder(o)', InStep(o)',
           \/ journal'[P].phase \in Settled \cup {"Blocked"}
           \/ Mutating(o)' /\ t.p = P /\ journal'[P].op = o,
           \A g \in Generations : SavedOnly(P, g)'
    PROVE  CalmParts'
<1>1. calls'[o] = t /\ \A q \in Ops \ {o} : calls'[q] = calls[q]
  BY RestFacts
<1>2. ASSUME NEW p \in Profiles, NEW g \in Generations
      PROVE  SavedOnly(p, g)'
  <2>1. CASE p = P
    BY <2>1
  <2>2. CASE p # P
    <3>1. SavedOnly(p, g)
      BY DEF CalmParts
    <3>2. QED
      BY <2>2, <3>1 DEF SavedOnly, StatusSaved, IsBlocked, Held
  <2>3. QED
    BY <2>1, <2>2
<1>3. ASSUME NEW p \in Profiles
      PROVE  \/ ~Open(p)'
             \/ journal'[p] = journal[p] /\ ~(Mutating(o) /\ calls[o].p = p)
             \/ Mutating(o)' /\ calls'[o].p = p /\ journal'[p].op = o
  <2>1. CASE p = P
    BY <1>1, <2>1 DEF Open
  <2>2. CASE p # P
    BY <2>2
  <2>3. QED
    BY <2>1, <2>2
<1>4. QED
  BY <1>1, <1>2, <1>3, CalmStep

(* The operation returns with its record settled or blocked.               *)
LEMMA JournalEnds ==
    ASSUME TokenInv, CalmParts, NEW o \in Ops, Busy(o), Return(o),
           NEW P \in Profiles, P = calls[o].p,
           UNCHANGED <<cancels, crossed, vault>>,
           \A q \in Profiles \ {P} : journal'[q] = journal[q] /\ gens'[q] = gens[q],
           journal'[P].phase \in Settled \cup {"Blocked"},
           \A g \in Generations : SavedOnly(P, g)'
    PROVE  CalmParts'
<1>1. calls' = [calls EXCEPT ![o] = IdleCall]
  BY DEF Return
<1>2. calls'[o] = IdleCall
  BY <1>1, RestFacts
<1>3. KindInOrder(o)' /\ ~Mutating(o)'
  BY <1>2 DEF KindInOrder, Mutating, IdleCall, Stages, Staging, UndoPC, OutPC, Working
<1>4. InStep(o)'
  BY <1>3 DEF InStep
<1>5. QED
  BY <1>1, <1>3, <1>4, JournalCalm

(* The operation goes on at t, its record in the phase of t.pc.            *)
LEMMA JournalGoes ==
    ASSUME TokenInv, CalmParts, NEW o \in Ops, Busy(o), NEW t, calls' = [calls EXCEPT ![o] = t],
           NEW P \in Profiles, NEW G \in Generations, P = calls[o].p, t.p = P, t.staged = G,
           UNCHANGED <<cancels, crossed, vault, connections>>,
           \A q \in Profiles \ {P} : journal'[q] = journal[q] /\ gens'[q] = gens[q],
           journal'[P].op = o, t.kind \in Working,
           \/ t.pc \in {"poll", "own"} /\ journal'[P].phase = "IntentRecorded"
           \/ t.pc = "commit" /\ journal'[P].phase = "VaultWritten"
           \/ t.pc = "finish" /\ journal'[P].phase = "PointerCommitted"
           \/ t.pc = "out" /\ journal'[P].phase = "CleanupPending",
           P \notin crossed /\ <<P, G>> \in vault =>
              t.pc = "finish" \/ (t.pc \in {"commit", "out"} /\ connections[P].gen = G),
           \A h \in Generations : SavedOnly(P, h)',
           gens'[P][G] \in {"available", "retained"}
    PROVE  CalmParts'
<1>1. calls'[o] = t
  BY RestFacts
<1>2. t.pc \in {"poll", "own", "commit", "finish", "out"}
  OBVIOUS
<1>3. /\ {"poll", "own", "commit", "finish"} \subseteq Stages
      /\ {"commit", "finish", "out"} \cap Staging = {}
      /\ {"poll", "own", "commit", "finish"} \cap UndoPC = {}
      /\ "out" \in UndoPC
  BY DEF Stages, Staging, UndoPC, OutPC
<1>4. Mutating(o)' /\ KindInOrder(o)'
  BY <1>1, <1>2, <1>3 DEF Mutating, KindInOrder, Working
<1>5. PhaseInOrder(o)'
  BY <1>1, <1>2, <1>3 DEF PhaseInOrder
<1>6. calls[o].p \notin crossed => Traced(o)'
  BY <1>1, <1>2 DEF Traced, Held
<1>7. InStep(o)'
  BY <1>1, <1>5, <1>6 DEF InStep, StatusSaved
<1>8. QED
  BY <1>4, <1>7, JournalCalm

(* Tokens that nothing has written off stay so.                            *)
LEMMA SavedStays ==
    ASSUME CalmParts, NEW P \in Profiles, ~IsBlocked(P), UNCHANGED <<vault, crossed>>,
           NEW g \in Generations,
           gens'[P][g] = gens[P][g] \/ gens'[P][g] \in {"available", "retained"}
    PROVE  SavedOnly(P, g)'
<1>1. SavedOnly(P, g)
  BY DEF CalmParts
<1>2. QED
  BY <1>1 DEF SavedOnly, StatusSaved, Held

LEMMA BeginCalm ==
    ASSUME TokenInv, CalmParts, NEW o \in Ops, BeginTokens(o)
    PROVE  CalmParts'
<1>1. /\ calls[o].pc = "begin" /\ KindInOrder(o) /\ CallReads(o) /\ calls[o] \in Calls
  BY RestFacts DEF BeginTokens, At, CalmParts
<1>2. Busy(o) /\ calls[o].kind \in Working
  BY <1>1 DEF KindInOrder, Busy, Working
<1>3. PICK P \in Profiles : P = calls[o].p
  BY <1>1 DEF CallReads
<1>4. UNCHANGED <<cancels, crossed, vault, connections>>
  BY DEF BeginTokens, service, history, manager
<1>5. ASSUME NEW g \in Generations, NEW pc \in {"own", "poll"},
             IsNext(P, g), MayBegin(P, calls[o].rev, calls[o].gen, g),
             Begin(P, o, "replace", calls[o].rev, calls[o].gen, g),
             calls' = [calls EXCEPT ![o].staged = g, ![o].pc = pc]
      PROVE  CalmParts'
  <2> DEFINE rec == [op |-> o, phase |-> "IntentRecorded", intent |-> "replace",
                     base |-> calls[o].rev, old |-> calls[o].gen, staged |-> g]
             t == [calls[o] EXCEPT !.staged = g, !.pc = pc]
  <2>1. /\ t.pc = pc /\ t.staged = g /\ t.p = P /\ t.kind = calls[o].kind
        /\ calls' = [calls EXCEPT ![o] = t]
    BY <1>1, <1>3, <1>5, RestFacts DEF Calls
  <2>2. rec.op = o /\ rec.phase = "IntentRecorded" /\ journal' = [journal EXCEPT ![P] = rec]
    BY <1>5 DEF Begin
  <2> HIDE DEF rec, t
  <2>3. /\ journal'[P].op = o /\ journal'[P].phase = "IntentRecorded"
        /\ \A q \in Profiles \ {P} : journal'[q] = journal[q]
    <3>1. journal \in [Profiles -> Records]
      BY Types DEF TokenInv
    <3>2. QED
      BY <2>2, <3>1
  <2>4. /\ \A h \in Generations : gens'[P][h] = IF h = g THEN "retained" ELSE gens[P][h]
        /\ \A q \in Profiles \ {P} : gens'[q] = gens[q]
    <3>1. gens' = SetStatus(P, g, "retained") /\ "retained" \in GenStatuses
      BY <1>5 DEF Begin, GenStatuses
    <3>2. QED
      BY <3>1, StatusNow
  <2>5. gens[P][g] = "none" /\ ~IsBlocked(P)
    BY <1>5 DEF MayBegin, IsNewest, IsBlocked, Settled, Generations
  <2>6. P \notin crossed => <<P, g>> \notin vault
    <3>1. SavedOnly(P, g)
      BY DEF CalmParts
    <3>2. QED
      BY <2>5, <3>1 DEF SavedOnly, Held, StatusSaved
  <2>7. \A h \in Generations : SavedOnly(P, h)'
    BY <1>4, <2>4, <2>5, SavedStays
  <2>8. /\ \A q \in Profiles \ {P} : journal'[q] = journal[q] /\ gens'[q] = gens[q]
        /\ journal'[P].op = o /\ gens'[P][g] \in {"available", "retained"}
        /\ t.p = P /\ t.staged = g /\ t.kind \in Working /\ P = calls[o].p
        /\ t.pc \in {"poll", "own"} /\ journal'[P].phase = "IntentRecorded"
        /\ ~(P \notin crossed /\ <<P, g>> \in vault)
    BY <1>2, <1>3, <2>1, <2>3, <2>4, <2>6
  <2>9. QED
    BY <1>2, <1>4, <2>1, <2>7, <2>8, JournalGoes
<1>6. CASE Return(o) /\ UNCHANGED <<gens, journal>>
  BY <1>6, LoginCalm
<1>7. QED
  BY <1>3, <1>5, <1>6 DEF BeginTokens

LEMMA RecordCalm ==
    ASSUME TokenInv, CalmParts, NEW o \in Ops, RecordTokens(o)
    PROVE  CalmParts'
<1>1. calls[o].pc = "record" /\ KindInOrder(o) /\ OwnStage(o)
  BY DEF RecordTokens, At, CalmParts, TokenInv, CallInv
<1>2. Mutating(o) /\ calls[o].pc \in Staging
  BY <1>1 DEF Mutating, KindInOrder, Stages, Staging
<1>3. PICK P \in Profiles, G \in Generations :
              /\ P = calls[o].p /\ G = calls[o].staged
              /\ journal[P].op = o /\ PhaseInOrder(o)
              /\ P \notin crossed => Traced(o)
              /\ calls[o].kind \in Working
  BY <1>2, WorkFacts
<1>4. UNCHANGED <<cancels, crossed, vault, connections>>
  BY DEF RecordTokens, service, history, manager
<1>5. CASE ~MayRecordWrite(P, o)
  <2>1. Go(o, "out") /\ UNCHANGED <<rows, vault, manager, service, history>>
    BY <1>3, <1>5 DEF RecordTokens, rows
  <2>2. QED
    BY <2>1, UnrecordedCalm DEF RecordTokens
<1>6. CASE MayRecordWrite(P, o)
  <2>1. RecordWrite(P) /\ Go(o, "commit")
    BY <1>3, <1>6 DEF RecordTokens
  <2>2. journal[P].staged = G
    BY <1>1, <1>3 DEF OwnStage, Generations, NoGen
  <2>3. /\ \A h \in Generations : gens'[P][h] = IF h = G THEN "available" ELSE gens[P][h]
        /\ \A q \in Profiles \ {P} : gens'[q] = gens[q]
    <3>1. gens' = SetStatus(P, G, "available") /\ "available" \in GenStatuses
      BY <2>1, <2>2 DEF RecordWrite, GenStatuses
    <3>2. QED
      BY <3>1, StatusNow
  <2>4. /\ journal'[P].phase = "VaultWritten" /\ journal'[P].op = o
        /\ \A q \in Profiles \ {P} : journal'[q] = journal[q]
    BY <1>3, <2>1, PhaseOf DEF RecordWrite
  <2>5. PICK t \in Calls :
            /\ calls' = [calls EXCEPT ![o] = t] /\ t.pc = "commit"
            /\ t.kind = calls[o].kind /\ t.p = calls[o].p /\ t.rev = calls[o].rev
            /\ t.gen = calls[o].gen /\ t.staged = calls[o].staged
            /\ t.model = calls[o].model
    <3>1. "commit" \in CallPC
      BY DEF CallPC
    <3>2. QED
      BY <2>1, <3>1, GoGives DEF TokenInv
  <2>6. ~IsBlocked(P)
    BY <1>6 DEF MayRecordWrite, InPhase, IsBlocked
  <2>7. \A h \in Generations : SavedOnly(P, h)'
    BY <1>4, <2>3, <2>6, SavedStays
  <2>8. P \notin crossed /\ <<P, G>> \in vault => connections[P].gen = G
    BY <1>1, <1>3 DEF Traced, Held
  <2>9. Busy(o)
    BY <1>2, MutatingIsBusy
  <2>10. /\ \A q \in Profiles \ {P} : journal'[q] = journal[q] /\ gens'[q] = gens[q]
         /\ journal'[P].op = o /\ gens'[P][G] \in {"available", "retained"}
         /\ t.p = P /\ t.staged = G /\ t.kind \in Working /\ P = calls[o].p
         /\ t.pc = "commit" /\ journal'[P].phase = "VaultWritten"
         /\ P \notin crossed /\ <<P, G>> \in vault => connections[P].gen = G
    BY <1>3, <2>3, <2>4, <2>5, <2>8
  <2>11. QED
    BY <1>4, <2>5, <2>7, <2>9, <2>10, JournalGoes
<1>7. QED
  BY <1>5, <1>6

LEMMA CommitCalm ==
    ASSUME TokenInv, CalmParts, NEW o \in Ops, CommitTokens(o)
    PROVE  CalmParts'
<1>1. calls[o].pc = "commit" /\ KindInOrder(o)
  BY DEF CommitTokens, At, CalmParts
<1>2. Mutating(o) /\ Busy(o)
  BY <1>1, MutatingIsBusy DEF Mutating, KindInOrder, Stages
<1>3. PICK P \in Profiles, G \in Generations :
              /\ P = calls[o].p /\ G = calls[o].staged
              /\ journal[P].op = o /\ StatusSaved(P, G) /\ PhaseInOrder(o)
              /\ P \notin crossed => Traced(o)
              /\ journal[P] \in Records /\ calls[o].kind \in Working
  BY <1>2, WorkFacts
<1>4. UNCHANGED <<cancels, crossed, vault, connections>>
  BY DEF CommitTokens, service, history, manager
<1>5. journal[P].phase = "VaultWritten" /\ InPhase(P, o, {"VaultWritten"}) /\ ~IsBlocked(P)
  BY <1>1, <1>3 DEF PhaseInOrder, InPhase, IsBlocked
<1>6. P \notin crossed /\ <<P, G>> \in vault => connections[P].gen = G
  BY <1>1, <1>3 DEF Traced, Held
<1>7. CASE CommitPointer(P, calls[o].model) /\ Go(o, "finish")
  <2>1. /\ journal'[P].phase = "PointerCommitted" /\ journal'[P].op = o
        /\ \A q \in Profiles \ {P} : journal'[q] = journal[q]
    BY <1>3, <1>7, PhaseOf DEF CommitPointer
  <2>2. PICK t \in Calls :
            /\ calls' = [calls EXCEPT ![o] = t] /\ t.pc = "finish"
            /\ t.kind = calls[o].kind /\ t.p = calls[o].p /\ t.rev = calls[o].rev
            /\ t.gen = calls[o].gen /\ t.staged = calls[o].staged
            /\ t.model = calls[o].model
    <3>1. "finish" \in CallPC
      BY DEF CallPC
    <3>2. QED
      BY <1>7, <3>1, GoGives DEF TokenInv
  <2>3. /\ \A q \in Profiles \ {P} : gens'[q] = gens[q]
        /\ \A h \in Generations : gens'[P][h] = gens[P][h] \/ gens'[P][h] = "retained"
    <3>1. journal[P].old \in Generations \cup {NoGen} /\ "retained" \in GenStatuses
      BY <1>3 DEF Records, GenStatuses
    <3>2. gens' = gens \/ gens' = SetStatus(P, journal[P].old, "retained")
      BY <1>7 DEF CommitPointer
    <3>3. QED
      BY <3>1, <3>2, StatusNow
  <2>4. \A h \in Generations : SavedOnly(P, h)'
    BY <1>4, <1>5, <2>3, SavedStays
  <2>5. /\ \A q \in Profiles \ {P} : journal'[q] = journal[q] /\ gens'[q] = gens[q]
        /\ journal'[P].op = o /\ gens'[P][G] \in {"available", "retained"}
        /\ t.p = P /\ t.staged = G /\ t.kind \in Working /\ P = calls[o].p
        /\ t.pc = "finish" /\ journal'[P].phase = "PointerCommitted"
    BY <1>3, <2>1, <2>2, <2>3 DEF StatusSaved
  <2>6. QED
    BY <1>2, <1>4, <2>2, <2>4, <2>5, JournalGoes
<1>8. CASE Transition(P, "CleanupPending") /\ Go(o, "out") /\ UNCHANGED gens
  <2>1. /\ journal'[P].phase = "CleanupPending" /\ journal'[P].op = o
        /\ \A q \in Profiles \ {P} : journal'[q] = journal[q]
    BY <1>3, <1>8, PhaseOf
  <2>2. PICK t \in Calls :
            /\ calls' = [calls EXCEPT ![o] = t] /\ t.pc = "out"
            /\ t.kind = calls[o].kind /\ t.p = calls[o].p /\ t.rev = calls[o].rev
            /\ t.gen = calls[o].gen /\ t.staged = calls[o].staged
            /\ t.model = calls[o].model
    <3>1. "out" \in CallPC
      BY DEF CallPC
    <3>2. QED
      BY <1>8, <3>1, GoGives DEF TokenInv
  <2>3. \A h \in Generations : SavedOnly(P, h)'
    BY <1>4, <1>5, <1>8, SavedStays
  <2>4. /\ \A q \in Profiles \ {P} : journal'[q] = journal[q] /\ gens'[q] = gens[q]
        /\ journal'[P].op = o /\ gens'[P][G] \in {"available", "retained"}
        /\ t.p = P /\ t.staged = G /\ t.kind \in Working /\ P = calls[o].p
        /\ t.pc = "out" /\ journal'[P].phase = "CleanupPending"
    BY <1>3, <1>8, <2>1, <2>2 DEF StatusSaved
  <2>5. QED
    BY <1>2, <1>4, <1>6, <2>2, <2>3, <2>4, JournalGoes
<1>9. QED
  BY <1>3, <1>5, <1>7, <1>8 DEF CommitTokens

LEMMA FinishCalm ==
    ASSUME TokenInv, CalmParts, NEW o \in Ops, FinishTokens(o)
    PROVE  CalmParts'
<1>1. calls[o].pc = "finish" /\ KindInOrder(o) /\ Return(o)
  BY DEF FinishTokens, At, CalmParts
<1>2. Mutating(o) /\ Busy(o)
  BY <1>1, MutatingIsBusy DEF Mutating, KindInOrder, Stages
<1>3. PICK P \in Profiles : P = calls[o].p /\ journal[P] \in Records
  BY <1>2, WorkFacts
<1>4. UNCHANGED <<cancels, crossed, vault>> /\ InPhase(P, o, {"PointerCommitted"}) /\ Complete(P)
  BY <1>3 DEF FinishTokens, history
<1>5. journal[P].intent = "replace"
  BY <1>3 DEF TokenInv, RecordInOrder
<1>6. /\ journal'[P].phase = "Completed"
      /\ \A q \in Profiles \ {P} : journal'[q] = journal[q]
  BY <1>4, PhaseOf DEF Complete
<1>7. /\ \A h \in Generations : gens'[P][h] = gens[P][h] \/ gens'[P][h] = "retained"
      /\ \A q \in Profiles \ {P} : gens'[q] = gens[q]
  <2>1. gens' = SetStatus(P, journal[P].old, "retained") /\ "retained" \in GenStatuses
    BY <1>4, <1>5 DEF Complete, GenStatuses
  <2>2. journal[P].old \in Generations \cup {NoGen}
    BY <1>3 DEF Records
  <2>3. QED
    BY <2>1, <2>2, StatusNow
<1>8. ~IsBlocked(P)
  BY <1>4 DEF InPhase, IsBlocked
<1>9. \A h \in Generations : SavedOnly(P, h)'
  BY <1>4, <1>7, <1>8, SavedStays
<1>10. journal'[P].phase \in Settled \cup {"Blocked"}
  BY <1>6 DEF Settled
<1>11. QED
  BY <1>1, <1>2, <1>3, <1>4, <1>6, <1>7, <1>9, <1>10, JournalEnds

(* What the rollback writes off is out of the vault.                       *)
LEMMA UndoCalm ==
    ASSUME TokenInv, CalmParts, NEW o \in Ops, UndoTokens(o)
    PROVE  CalmParts'
<1>1. calls[o].pc = "undo" /\ KindInOrder(o) /\ OwnStage(o)
  BY DEF UndoTokens, At, CalmParts, TokenInv, CallInv
<1>2. Mutating(o) /\ Busy(o)
  BY <1>1, MutatingIsBusy DEF Mutating, KindInOrder, UndoPC
<1>3. PICK P \in Profiles, G \in Generations :
              /\ P = calls[o].p /\ G = calls[o].staged
              /\ journal[P].op = o /\ PhaseInOrder(o)
              /\ P \notin crossed => Traced(o)
  BY <1>2, WorkFacts
<1>4. journal[P].phase \in {"IntentRecorded", "CleanupPending"} /\ journal[P].staged = G
  BY <1>1, <1>3 DEF PhaseInOrder, UndoPC, OwnStage, Generations, NoGen
<1>5. MayRollback(P, o) /\ ~IsBlocked(P)
  BY <1>3, <1>4 DEF MayRollback, InPhase, IsBlocked
<1>6. Rollback(P) /\ Return(o) /\ UNCHANGED <<cancels, crossed, vault>>
  BY <1>3, <1>5 DEF UndoTokens, history
<1>7. /\ journal'[P].phase = "RolledBack"
      /\ \A q \in Profiles \ {P} : journal'[q] = journal[q]
  BY <1>6, PhaseOf DEF Rollback
<1>8. /\ \A h \in Generations : gens'[P][h] = IF h = G THEN "deleted" ELSE gens[P][h]
      /\ \A q \in Profiles \ {P} : gens'[q] = gens[q]
  <2>1. gens' = SetStatus(P, G, "deleted") /\ "deleted" \in GenStatuses
    BY <1>4, <1>6 DEF Rollback, GenStatuses
  <2>2. QED
    BY <2>1, StatusNow
<1>9. ASSUME NEW h \in Generations PROVE SavedOnly(P, h)'
  <2>1. CASE h = G
    <3>1. P \in crossed \/ <<P, G>> \notin vault
      BY <1>1, <1>3 DEF Traced, Held
    <3>2. QED
      BY <1>6, <2>1, <3>1 DEF SavedOnly, Held
  <2>2. CASE h # G
    BY <1>5, <1>6, <1>8, <2>2, SavedStays
  <2>3. QED
    BY <2>1, <2>2
<1>10. journal'[P].phase \in Settled \cup {"Blocked"}
  BY <1>7 DEF Settled
<1>11. QED
  BY <1>2, <1>3, <1>6, <1>7, <1>8, <1>9, <1>10, JournalEnds

LEMMA BlockCalm ==
    ASSUME TokenInv, CalmParts, NEW o \in Ops, BlockTokens(o)
    PROVE  CalmParts'
<1>1. calls[o].pc = "block" /\ KindInOrder(o) /\ Return(o)
  BY DEF BlockTokens, At, CalmParts
<1>2. Mutating(o) /\ Busy(o)
  BY <1>1, MutatingIsBusy DEF Mutating, KindInOrder, UndoPC
<1>3. PICK P \in Profiles :
          P = calls[o].p /\ journal[P].op = o /\ PhaseInOrder(o) /\ journal[P] \in Records
  BY <1>2, WorkFacts
<1>4. Open(P)
  BY <1>1, <1>3 DEF PhaseInOrder, UndoPC, Open, Settled
<1>5. Block(P) /\ UNCHANGED <<cancels, crossed, vault>>
  BY <1>3, <1>4 DEF BlockTokens, service, history
<1>6. /\ journal'[P].phase = "Blocked"
      /\ \A q \in Profiles \ {P} : journal'[q] = journal[q]
  BY <1>5, PhaseOf DEF Block
<1>7. \A q \in Profiles \ {P} : gens'[q] = gens[q]
  <2>1. gens' = SetStatus(P, journal[P].staged, "revoked") /\ "revoked" \in GenStatuses
    BY <1>5 DEF Block, GenStatuses
  <2>2. journal[P].staged \in Generations \cup {NoGen}
    BY <1>3 DEF Records
  <2>3. QED
    BY <2>1, <2>2, StatusNow
<1>8. \A h \in Generations : SavedOnly(P, h)'
  BY <1>6 DEF SavedOnly, IsBlocked
<1>9. QED
  BY <1>1, <1>2, <1>3, <1>5, <1>6, <1>7, <1>8, JournalEnds

LEMMA SameCalm ==
    ASSUME CalmParts, UNCHANGED <<gens, journal, vault, connections, cancels, calls, crossed>>
    PROVE  CalmParts'
<1>1. UNCHANGED gens /\ UNCHANGED journal /\ UNCHANGED vault /\ UNCHANGED connections
      /\ UNCHANGED cancels /\ UNCHANGED calls /\ UNCHANGED crossed
  OBVIOUS
<1>2. \A o \in Ops : KindInOrder(o)' /\ InStep(o)'
  BY <1>1 DEF CalmParts, KindInOrder, InStep, Mutating, PhaseInOrder, StatusSaved, Traced, Held
<1>3. Alone'
  BY <1>1 DEF CalmParts, Alone, Busy
<1>4. \A p \in Profiles : Attended(p)'
  BY <1>1 DEF CalmParts, Attended, Open, Mutating
<1>5. \A p \in Profiles, g \in Generations : SavedOnly(p, g)'
  BY <1>1 DEF CalmParts, SavedOnly, Held, IsBlocked, StatusSaved
<1>6. QED
  BY <1>1, <1>2, <1>3, <1>4, <1>5 DEF CalmParts

(* Failures and starts are counted, and a cancel leaves its mark.          *)
LEMMA CalmBefore ==
    ASSUME TokenInv, [Next]_oauthVars, Calm'
    PROVE  /\ Calm
           /\ \/ \E o \in Ops :
                    \/ \E p \in Profiles, kind \in CallKinds : StartCall(o, p, kind)
                    \/ ReadLease(o) \/ RestoreConnection(o) \/ Login(o) \/ Connecting(o)
                    \/ Committing(o) \/ LoggingOut(o)
                    \/ FindIntent(o) \/ ClearIntent(o) \/ RollbackIntent(o)
              \/ \E p \in Profiles : EditProfile(p)
              \/ UNCHANGED oauthVars
<1>1. faults \in Nat /\ starts \in Nat
  BY StoreBounds DEF TokenInv, TypeOK
<1>2. \A o \in Ops : ~ServiceFails(o)
  BY <1>1 DEF ServiceFails, Calm
<1>3. ~Restart
  BY <1>1 DEF Restart, Calm
<1>4. \A o \in Ops : ~Cancel(o)
  BY DEF Cancel, Calm
<1>5. ASSUME NEW o \in Ops,
             \/ \E p \in Profiles, kind \in CallKinds : StartCall(o, p, kind)
             \/ ReadLease(o) \/ RestoreConnection(o) \/ Login(o)
      PROVE  UNCHANGED <<faults, starts, cancelled>>
  BY <1>5 DEF StartCall, ReadLease, RestoreConnection, Login, EnterLogin, ShowCode, NoCode,
              CompleteLogin, rest, service
<1>6. ASSUME NEW o \in Ops, Connecting(o)
      PROVE  UNCHANGED <<faults, starts, cancelled>>
  BY <1>6 DEF Connecting, BeginTokens, PollCode, OwnConnection, ReadOldTokens, PostRefresh,
              rest, service
<1>7. ASSUME NEW o \in Ops, Committing(o)
      PROVE  UNCHANGED <<faults, starts, cancelled>>
  BY <1>7 DEF Committing, WriteTokens, DiscardTokens, Connect, RecordTokens, CommitTokens,
              FinishTokens, rest, service
<1>8. ASSUME NEW o \in Ops, LoggingOut(o)
      PROVE  UNCHANGED <<faults, starts, cancelled>>
  BY <1>8 DEF LoggingOut, OwnLogout, ReadLogoutTokens, DeleteTokens, RevokeConnection,
              UndoTokens, BlockTokens, rest, service
<1>9. ASSUME NEW o \in Ops, DropCall(o) \/ FindIntent(o) \/ ClearIntent(o) \/ RollbackIntent(o)
      PROVE  UNCHANGED <<faults, starts, cancelled>>
  BY <1>9 DEF DropCall, FindIntent, ClearIntent, RollbackIntent, rest, service
<1>10. ASSUME (\E p \in Profiles : EditProfile(p)) \/ UNCHANGED oauthVars
       PROVE  UNCHANGED <<faults, starts, cancelled>>
  BY <1>10 DEF EditProfile, service, oauthVars
<1>11. ASSUME NEW o \in Ops, DropCall(o)
       PROVE  FALSE
  <2>1. o \in cancelled /\ cancelled' = cancelled
    BY <1>11 DEF DropCall, service
  <2>2. QED
    BY <2>1 DEF Calm
<1>12. \/ \E o \in Ops :
             \/ \E p \in Profiles, kind \in CallKinds : StartCall(o, p, kind)
             \/ ReadLease(o) \/ RestoreConnection(o) \/ Login(o) \/ Connecting(o)
             \/ Committing(o) \/ LoggingOut(o)
             \/ FindIntent(o) \/ ClearIntent(o) \/ RollbackIntent(o)
       \/ \E p \in Profiles : EditProfile(p)
       \/ UNCHANGED oauthVars
  BY <1>2, <1>3, <1>4, <1>11 DEF Next, Cancelling
<1>13. UNCHANGED <<faults, starts, cancelled>>
  BY <1>5, <1>6, <1>7, <1>8, <1>9, <1>10, <1>12
<1>14. QED
  BY <1>12, <1>13 DEF Calm

LEMMA CalmStays == TokenInv /\ CalmInv /\ [Next]_oauthVars => CalmInv'
<1> SUFFICES ASSUME TokenInv, CalmInv, [Next]_oauthVars, Calm'
             PROVE  CalmParts'
  BY DEF CalmInv
<1>1. CalmParts
  BY CalmBefore DEF CalmInv
<1>2. ASSUME NEW o \in Ops
      PROVE  ~FindIntent(o) /\ ~ClearIntent(o) /\ ~RollbackIntent(o)
  BY <1>1 DEF CalmParts, FindIntent, ClearIntent, RollbackIntent
<1>3. ASSUME NEW o \in Ops,
             \/ \E p \in Profiles, kind \in CallKinds : StartCall(o, p, kind)
             \/ ReadLease(o) \/ RestoreConnection(o) \/ Login(o)
      PROVE  CalmParts'
  BY <1>1, <1>3, StartCallCalm, ReadLeaseCalm, RestoreCalm, LoginCalm, CompleteLoginCalm DEF Login
<1>4. ASSUME NEW o \in Ops, Connecting(o)
      PROVE  CalmParts'
  BY <1>1, <1>4, BeginCalm, AskingCalm, OwnConnectionCalm DEF Connecting
<1>5. ASSUME NEW o \in Ops, Committing(o)
      PROVE  CalmParts'
  BY <1>1, <1>5, WritingCalm, RecordCalm, CommitCalm, FinishCalm DEF Committing
<1>6. ASSUME NEW o \in Ops, LoggingOut(o)
      PROVE  CalmParts'
  BY <1>1, <1>6, LogoutCalm, TakingBackCalm, UndoCalm, BlockCalm DEF LoggingOut
<1>7. ASSUME NEW p \in Profiles, EditProfile(p)
      PROVE  CalmParts'
  <2>1. UNCHANGED <<gens, journal, vault, connections, cancels, calls, crossed>>
    BY <1>7 DEF EditProfile, manager, service, history
  <2>2. QED
    BY <1>1, <2>1, SameCalm
<1>8. CASE UNCHANGED oauthVars
  BY <1>1, <1>8, SameCalm DEF oauthVars
<1>9. QED
  BY <1>2, <1>3, <1>4, <1>5, <1>6, <1>7, <1>8, CalmBefore

LEMMA CalmInitially == Init => CalmInv
<1> SUFFICES ASSUME Init
             PROVE  CalmParts
  BY DEF CalmInv
<1>1. PICK in \in BOOLEAN :
         /\ gens = [p \in Profiles |-> [g \in Generations |->
                       IF in /\ g = 1 THEN "available" ELSE "none"]]
         /\ vault = IF in THEN Profiles \X {1} ELSE {}
  BY DEF Init
<1>2. /\ \A o \in Ops : calls[o] = IdleCall /\ cancels[o] = "none"
      /\ \A p \in Profiles : journal[p] = NoRecord
  BY DEF Init
<1>3. \A o \in Ops : calls[o].pc = "idle" /\ calls[o].kind = "none"
  BY <1>2 DEF IdleCall
<1>4. \A o \in Ops : KindInOrder(o) /\ InStep(o) /\ ~Busy(o)
  BY <1>3 DEF KindInOrder, InStep, Mutating, Busy, Stages, Staging, UndoPC, OutPC, Working
<1>5. \A p \in Profiles : Attended(p)
  BY <1>2 DEF Attended, Open, Settled, NoRecord
<1>6. ASSUME NEW p \in Profiles, NEW g \in Generations, Held(p, g)
      PROVE  StatusSaved(p, g)
  <2>1. in /\ g = 1
    BY <1>1, <1>6 DEF Held
  <2>2. QED
    BY <1>1, <2>1 DEF StatusSaved
<1>7. QED
  BY <1>2, <1>4, <1>5, <1>6 DEF CalmParts, Alone, SavedOnly

LEMMA CalmSays == CalmInv => NoOrphanTokens /\ NothingLeftOpen
<1> SUFFICES ASSUME CalmInv, Quiet
             PROVE  /\ \A p \in Profiles : ~Open(p)
                    /\ \A p \in Profiles, g \in Generations : SavedOnly(p, g)
  BY DEF NoOrphanTokens, NothingLeftOpen, SavedOnly
<1>1. CalmParts
  BY DEF CalmInv, Quiet, Calm
<1>2. \A o \in Ops : ~Mutating(o)
  BY DEF Quiet, At, Mutating, Stages, Staging, UndoPC, OutPC
<1>3. QED
  BY <1>1, <1>2 DEF CalmParts, Attended

LEMMA CalmInductive == /\ Init => CalmInv
                       /\ TokenInv /\ CalmInv /\ [Next]_oauthVars => CalmInv'
                       /\ CalmInv => NoOrphanTokens /\ NothingLeftOpen
BY CalmInitially, CalmStays, CalmSays

(* Without failures and cancels no sign-in, refresh or logout leaves the   *)
(* journal of its Profile open, which would forbid every new Run, nor      *)
(* tokens in the vault that the store has written off.                     *)
THEOREM SignInLeavesNothing == Spec => [](NoOrphanTokens /\ NothingLeftOpen)
<1>1. Init => TokenInv /\ CalmInv
  BY Inductive, CalmInductive
<1>2. TokenInv /\ CalmInv /\ [Next]_oauthVars => (TokenInv /\ CalmInv)'
  BY Inductive, CalmInductive
<1>3. CalmInv => NoOrphanTokens /\ NothingLeftOpen
  BY CalmInductive
<1>4. QED
  BY <1>1, <1>2, <1>3, PTL DEF Spec

=============================================================================
