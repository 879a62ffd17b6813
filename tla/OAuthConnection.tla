--------------------------- MODULE OAuthConnection ---------------------------
(***************************************************************************)
(* The subscription sign-in of a Profile: ProviderManagementService drives *)
(* ChatGptOAuthManager and the credential journal.  The manager keeps one  *)
(* connection per Profile, with the operation that owns it; tokens live in *)
(* the vault, as generations.  A login is two calls of one operation: start*)
(* shows a device code, complete waits for the user.  Each action is the   *)
(* code between two awaits; a call may be dropped at any await.            *)
(***************************************************************************)
EXTENDS ProviderStore

VARIABLES
    connections,  \* ManagerState.profiles
    deviceCodes,  \* ManagerState.pending: operations that show a code
    logins,       \* oauth_operations: the revision a login began on
    cancelled,    \* cancelled_operations
    cancels,      \* cancel_operation calls in progress
    calls,        \* the other calls in progress
    started, faults, starts,
    loggedOut,    \* history: generations a logout or a cancel removed
    crossed       \* history: Profiles whose connection a view read back while
                  \* an operation was about to replace it

oauthVars == <<profiles, active, gens, journal, vault, bindings, connections,
               deviceCodes, logins, cancelled, cancels, calls, started, faults,
               starts, loggedOut, crossed>>
history == <<loggedOut, crossed>>
manager == <<connections, deviceCodes>>
service == <<logins, cancelled, cancels>>
rows    == <<profiles, active, gens, journal>>
rest    == <<bindings, started, faults, starts>>

Statuses    == {"Pending", "Connected", "Expired", "Revoked", "Failed"}
Connections == [status : Statuses, gen : Generations \cup {NoGen},
                owner : Ops \cup {NoOp}]
NoConnection == [status |-> "Failed", gen |-> NoGen, owner |-> NoOp]
Revoked      == [status |-> "Revoked", gen |-> NoGen, owner |-> NoOp]

NoLogin == [p |-> NoProfile, rev |-> 0, gen |-> NoGen]
Logins  == [p : Profiles \cup {NoProfile}, rev : Revisions,
            gen : Generations \cup {NoGen}]

CallKinds == {"login", "complete", "refresh", "logout", "view"}
CallPC == {"idle", "lease", "restore", "enter", "device", "begin", "poll",
           "own", "old", "post", "write", "discard", "connect",
           "record", "commit", "finish", "out", "outLease", "outDelete",
           "outState", "undo", "block"}
Calls == [pc : CallPC, kind : CallKinds \cup {"none"},
          p : Profiles \cup {NoProfile}, rev : Revisions,
          gen : Generations \cup {NoGen}, staged : Generations \cup {NoGen},
          model : Models \cup {NoModel}, held : BOOLEAN]
IdleCall == [pc |-> "idle", kind |-> "none", p |-> NoProfile, rev |-> 0,
             gen |-> NoGen, staged |-> NoGen, model |-> NoModel, held |-> FALSE]
CancelPC == {"none", "look", "clear", "rollback"}

(* A ChatGPT Profile: new, or signed in by an earlier process.             *)
Init ==
    \E in \in BOOLEAN, m \in Models :
        /\ profiles = [p \in Profiles |-> Draft(1, m, IF in THEN 1 ELSE NoGen)]
        /\ gens = [p \in Profiles |-> [g \in Generations |->
                      IF in /\ g = 1 THEN "available" ELSE "none"]]
        /\ vault = IF in THEN Profiles \X {1} ELSE {}
        /\ active = NoActive
        /\ journal = [p \in Profiles |-> NoRecord]
        /\ bindings = [r \in Runs |-> NoBinding]
        /\ connections = [p \in Profiles |-> NoConnection]
        /\ deviceCodes = {} /\ cancelled = {}
        /\ loggedOut = {} /\ crossed = {}
        /\ logins = [o \in Ops |-> NoLogin]
        /\ cancels = [o \in Ops |-> "none"]
        /\ calls = [o \in Ops |-> IdleCall]
        /\ started = 0 /\ faults = 0 /\ starts = 0

-----------------------------------------------------------------------------
At(o, pc) == calls[o].pc = pc
Go(o, pc) == calls' = [calls EXCEPT ![o].pc = pc]
Return(o) == calls' = [calls EXCEPT ![o] = IdleCall]
Held(p, g) == <<p, g>> \in vault

SetConnection(p, c) == connections' = [connections EXCEPT ![p] = c]

(* ensure_current_operation.                                               *)
Owns(o) == connections[calls[o].p].owner = o

(* has_pending_oauth_operation.                                            *)
Pending(p) == \E o \in Ops : logins[o].p = p

ForgetLogin(o) == logins' = [logins EXCEPT ![o] = NoLogin]

-----------------------------------------------------------------------------
(* oauth_connection: the view the TUI loads, and the first step of the     *)
(* other calls.  The exact generation is read back, never another one.     *)

AfterRestore(kind) ==
    CASE kind = "login"   -> "enter"
      [] kind = "refresh" -> "begin"
      [] kind = "logout"  -> "out"
      [] kind = "view"    -> "idle"

(* The registry of the TUI runs one operation at a time, and a dropped one *)
(* holds its permit to its end; views are loaded beside it.                *)
Serial == \A o \in Ops : At(o, "idle") \/ calls[o].kind = "view"

StartCall(o, p, kind) ==
    LET gen == profiles[p].gen
    IN  /\ kind \in CallKinds \ {"complete"}
        /\ Exists(p) /\ o \notin cancelled
        /\ kind = "view" \/ Serial
        /\ At(o, "idle") /\ started < MaxCalls
        /\ started' = started + 1
        /\ calls' = [calls EXCEPT ![o] = [IdleCall EXCEPT
                       !.kind = kind, !.p = p, !.rev = profiles[p].rev,
                       !.gen = gen, !.model = profiles[p].model,
                       !.pc = IF gen # NoGen /\ ~Pending(p)
                                THEN "lease" ELSE AfterRestore(kind)]]
        /\ UNCHANGED <<rows, vault, bindings, manager, service, faults, starts,
                       history>>

ReadLease(o) ==
    /\ At(o, "lease")
    /\ calls' = [calls EXCEPT ![o].pc = "restore",
                              ![o].held = Held(calls[o].p, calls[o].gen)]
    /\ UNCHANGED <<rows, vault, rest, manager, service, history>>

(* restore_connection: whatever the connection was before is overwritten.  *)
RestoreConnection(o) ==
    LET c == calls[o]
    IN  /\ At(o, "restore")
        /\ IF c.held
             THEN \E st \in {"Connected", "Expired"} :
                     SetConnection(c.p, [status |-> st, gen |-> c.gen, owner |-> NoOp])
             ELSE SetConnection(c.p, Revoked)
        /\ crossed' = IF c.kind = "view" /\ ~Serial THEN crossed \cup {c.p} ELSE crossed
        /\ IF AfterRestore(c.kind) = "idle" THEN Return(o)
           ELSE Go(o, AfterRestore(c.kind))
        /\ UNCHANGED <<rows, vault, rest, deviceCodes, service, loggedOut>>

-----------------------------------------------------------------------------
(* start_oauth and reauthorize_oauth.                                      *)

EnterLogin(o) ==
    LET c == calls[o]
    IN  /\ At(o, "enter")
        /\ IF logins[o] = NoLogin /\ o \notin deviceCodes
             THEN /\ logins' = [logins EXCEPT ![o] =
                                  [p |-> c.p, rev |-> c.rev, gen |-> c.gen]]
                  /\ Go(o, "device")
             ELSE Return(o) /\ UNCHANGED logins
        /\ UNCHANGED <<rows, vault, rest, manager, cancelled, cancels, history>>

(* The code arrives: this operation owns the connection now, and the code  *)
(* of the one that owned it is forgotten.                                  *)
ShowCode(o) ==
    LET c == calls[o]
        was == connections[c.p]
    IN  /\ At(o, "device")
        /\ deviceCodes' = (deviceCodes \ {was.owner}) \cup {o}
        /\ SetConnection(c.p, [status |-> "Pending", gen |-> was.gen, owner |-> o])
        /\ Return(o)
        /\ UNCHANGED <<rows, vault, rest, service, history>>

NoCode(o) ==
    /\ At(o, "device")
    /\ ForgetLogin(o)
    /\ Return(o)
    /\ UNCHANGED <<rows, vault, rest, manager, cancelled, cancels, history>>

-----------------------------------------------------------------------------
(* complete_oauth.                                                         *)

CompleteLogin(o) ==
    LET l == logins[o]
        row == profiles[l.p]
    IN  /\ l # NoLogin /\ o \notin cancelled /\ Serial
        /\ At(o, "idle") /\ started < MaxCalls
        /\ started' = started + 1
        /\ IF row.rev = l.rev /\ row.gen = l.gen
             THEN /\ calls' = [calls EXCEPT ![o] = [IdleCall EXCEPT
                                 !.pc = "begin", !.kind = "complete", !.p = l.p,
                                 !.rev = l.rev, !.gen = l.gen, !.model = row.model]]
                  /\ UNCHANGED logins
             ELSE ForgetLogin(o) /\ UNCHANGED calls
        /\ UNCHANGED <<rows, vault, bindings, manager, cancelled, cancels, faults,
                       starts, history>>

Refreshable == {"Connected", "Expired"}

(* A refresh needs a connection that is usable or expired.  Allocate the   *)
(* next generation and record the intent.                                  *)
BeginTokens(o) ==
    LET c == calls[o]
    IN  /\ At(o, "begin")
        /\ \/ /\ c.kind = "refresh" => connections[c.p].status \in Refreshable
              /\ \E g \in Generations :
                    /\ IsNext(c.p, g)
                    /\ MayBegin(c.p, c.rev, c.gen, g)
                    /\ Begin(c.p, o, "replace", c.rev, c.gen, g)
                    /\ calls' = [calls EXCEPT
                          ![o].staged = g,
                          ![o].pc = IF c.kind = "refresh" THEN "own" ELSE "poll"]
           \/ /\ Return(o)
              /\ UNCHANGED <<gens, journal>>
        /\ UNCHANGED <<profiles, active, vault, rest, manager, service, history>>

(* finish_failure: only the owner reports.                                 *)
FinishFailure(o, status) ==
    IF Owns(o)
      THEN /\ deviceCodes' = deviceCodes \ {o}
           /\ connections' = [connections EXCEPT ![calls[o].p].status = status,
                                                 ![calls[o].p].owner = NoOp]
      ELSE UNCHANGED manager

(* poll_for_authorization and exchange_authorization_code: the operation   *)
(* must own the connection before and after; a remote error is a failure.  *)
PollCode(o) ==
    /\ At(o, "poll")
    /\ \/ /\ o \in deviceCodes /\ Owns(o)
          /\ Go(o, "write")
          /\ UNCHANGED manager
       \/ /\ o \in deviceCodes /\ Owns(o)
          /\ FinishFailure(o, "Failed")
          /\ Go(o, "out")
       \/ /\ ~(o \in deviceCodes /\ Owns(o))
          /\ Go(o, "out")
          /\ UNCHANGED manager
    /\ UNCHANGED <<rows, vault, rest, service, history>>

-----------------------------------------------------------------------------
(* refresh_connection.                                                     *)

OwnConnection(o) ==
    LET c == calls[o]
        was == connections[c.p]
    IN  /\ At(o, "own")
        /\ IF was.status \in Refreshable
             THEN /\ SetConnection(c.p, [was EXCEPT !.owner = o])
                  /\ IF was.gen = NoGen THEN Go(o, "out")
                     ELSE calls' = [calls EXCEPT ![o].pc = "old", ![o].gen = was.gen]
             ELSE Go(o, "out") /\ UNCHANGED connections
        /\ UNCHANGED <<rows, vault, rest, deviceCodes, service, history>>

ReadOldTokens(o) ==
    LET c == calls[o]
    IN  /\ At(o, "old")
        /\ IF ~Held(c.p, c.gen) THEN FinishFailure(o, "Failed") /\ Go(o, "out")
           ELSE UNCHANGED manager /\ Go(o, IF Owns(o) THEN "post" ELSE "out")
        /\ UNCHANGED <<rows, vault, rest, service, history>>

(* classify_refresh_failure.                                               *)
PostRefresh(o) ==
    /\ At(o, "post")
    /\ \/ /\ Go(o, IF Owns(o) THEN "write" ELSE "out")
          /\ UNCHANGED manager
       \/ /\ Owns(o)
          /\ \E st \in {"Expired", "Revoked", "Failed"} : FinishFailure(o, st)
          /\ Go(o, "out")
    /\ UNCHANGED <<rows, vault, rest, service, history>>

-----------------------------------------------------------------------------
(* write_bundle, and what both calls do after it.                          *)

WriteTokens(o) ==
    /\ At(o, "write")
    /\ vault' = vault \cup {<<calls[o].p, calls[o].staged>>}
    /\ Go(o, "connect")
    /\ UNCHANGED <<rows, rest, manager, service, history>>

(* The tokens are kept if the operation still owns the connection.         *)
Connect(o) ==
    LET c == calls[o]
    IN  /\ At(o, "connect")
        /\ IF Owns(o)
             THEN /\ SetConnection(c.p, [status |-> "Connected", gen |-> c.staged,
                                         owner |-> NoOp])
                  /\ deviceCodes' = deviceCodes \ {o}
                  /\ Go(o, "record")
             ELSE Go(o, "discard") /\ UNCHANGED manager
        /\ UNCHANGED <<rows, vault, rest, service, history>>

(* Mutant of DiscardTokens: the tokens it meant to replace go.             *)
DiscardOldTokens(o) ==
    /\ At(o, "discard")
    /\ vault' = vault \ {<<calls[o].p, calls[o].gen>>}
    /\ Go(o, "out")
    /\ UNCHANGED <<rows, rest, manager, service, history>>

DiscardTokens(o) ==
    /\ At(o, "discard")
    /\ vault' = vault \ {<<calls[o].p, calls[o].staged>>}
    /\ Go(o, "out")
    /\ UNCHANGED <<rows, rest, manager, service, history>>

(* commit_oauth_generation: acknowledge, move the pointer, complete.       *)
RecordTokens(o) ==
    LET p == calls[o].p
    IN  /\ At(o, "record")
        /\ IF MayRecordWrite(p, o) THEN RecordWrite(p) /\ Go(o, "commit")
           ELSE Go(o, "out") /\ UNCHANGED <<journal, gens>>
        /\ UNCHANGED <<profiles, active, vault, rest, manager, service, history>>

CommitTokens(o) ==
    LET c == calls[o]
        fits == InPhase(c.p, o, {"VaultWritten"})
    IN  /\ At(o, "commit")
        /\ \/ /\ fits /\ ~PointerStale(c.p)
              /\ CommitPointer(c.p, c.model)
              /\ Go(o, "finish")
           \/ /\ fits /\ PointerStale(c.p)
              /\ Transition(c.p, "CleanupPending")
              /\ Go(o, "out")
              /\ UNCHANGED <<profiles, gens>>
           \/ /\ ~fits
              /\ Go(o, "out")
              /\ UNCHANGED <<profiles, gens, journal>>
        /\ UNCHANGED <<active, vault, rest, manager, service, history>>

FinishTokens(o) ==
    LET p == calls[o].p
    IN  /\ At(o, "finish")
        /\ InPhase(p, o, {"PointerCommitted"})
        /\ Complete(p)
        /\ IF calls[o].kind = "complete" THEN ForgetLogin(o) ELSE UNCHANGED logins
        /\ Return(o)
        /\ UNCHANGED <<profiles, active, vault, rest, manager, cancelled, cancels,
                       history>>

-----------------------------------------------------------------------------
(* logout_connection: a call of its own, and the way rollback_oauth_       *)
(* mutation takes back what an operation did.                              *)

AfterLogout(kind) == IF kind = "logout" THEN "idle" ELSE "undo"
LogoutError(kind) == IF kind = "logout" THEN "idle" ELSE "block"
Leave(o, pc) == IF pc = "idle" THEN Return(o) ELSE Go(o, pc)

OwnLogout(o) ==
    LET c == calls[o]
        was == connections[c.p]
    IN  /\ At(o, "out")
        /\ IF was.gen = NoGen
             THEN /\ connections' = [connections EXCEPT ![c.p].status =
                        IF was = NoConnection THEN @ ELSE "Revoked"]
                  /\ Leave(o, AfterLogout(c.kind))
             ELSE /\ SetConnection(c.p, [was EXCEPT !.owner = o])
                  /\ calls' = [calls EXCEPT ![o].pc = "outLease", ![o].gen = was.gen]
        /\ UNCHANGED <<rows, vault, rest, deviceCodes, service, history>>

ReadLogoutTokens(o) ==
    LET c == calls[o]
    IN  /\ At(o, "outLease")
        /\ Leave(o, IF Held(c.p, c.gen) /\ Owns(o) THEN "outDelete"
                    ELSE LogoutError(c.kind))
        /\ UNCHANGED <<rows, vault, rest, manager, service, history>>

(* Mutant of DeleteTokens: only the connection is forgotten.               *)
DeleteNoTokens(o) ==
    /\ At(o, "outDelete")
    /\ Go(o, "outState")
    /\ UNCHANGED <<rows, vault, rest, manager, service, history>>

DeleteTokens(o) ==
    LET c == calls[o]
    IN  /\ At(o, "outDelete")
        /\ vault' = vault \ {<<c.p, c.gen>>}
        /\ loggedOut' = loggedOut \cup {<<c.p, c.gen>>}
        /\ Go(o, "outState")
        /\ UNCHANGED <<rows, rest, manager, service, crossed>>

(* The remote revocation that follows reports a residual risk at worst.    *)
RevokeConnection(o) ==
    LET c == calls[o]
    IN  /\ At(o, "outState")
        /\ IF Owns(o)
             THEN SetConnection(c.p, Revoked) /\ Leave(o, AfterLogout(c.kind))
             ELSE Leave(o, LogoutError(c.kind)) /\ UNCHANGED connections
        /\ UNCHANGED <<rows, vault, rest, deviceCodes, service, history>>

(* Mutant of UndoTokens: the error is returned without a rollback.         *)
UndoNoTokens(o) ==
    /\ At(o, "undo")
    /\ ForgetLogin(o)
    /\ Return(o)
    /\ UNCHANGED <<rows, vault, rest, manager, cancelled, cancels, history>>

UndoTokens(o) ==
    LET p == calls[o].p
    IN  /\ At(o, "undo")
        /\ IF MayRollback(p, o)
             THEN Rollback(p) /\ ForgetLogin(o) /\ Return(o)
             ELSE Go(o, "block") /\ UNCHANGED <<journal, gens, logins>>
        /\ UNCHANGED <<profiles, active, vault, rest, manager, cancelled, cancels,
                       history>>

BlockTokens(o) ==
    LET p == calls[o].p
    IN  /\ At(o, "block")
        /\ IF journal[p].op = o /\ Open(p)
             THEN Block(p) ELSE UNCHANGED <<journal, gens, active>>
        /\ Return(o)
        /\ UNCHANGED <<profiles, vault, rest, manager, service, history>>

(* The store or the vault fails the call.                                  *)
FailureOf ==
    [lease |-> "restore", begin |-> "idle", old |-> "out", write |-> "out",
     record |-> "out", commit |-> "out", finish |-> "idle", outLease |-> "err",
     outDelete |-> "err", undo |-> "block", block |-> "idle"]

ServiceFails(o) ==
    LET c == calls[o]
        next == FailureOf[c.pc]
    IN  /\ faults + starts < MaxFaults
        /\ c.pc \in DOMAIN FailureOf
        /\ faults' = faults + 1
        /\ Leave(o, IF next = "err" THEN LogoutError(c.kind) ELSE next)
        /\ IF c.pc \in {"old", "write"} THEN FinishFailure(o, "Failed")
           ELSE UNCHANGED manager
        /\ UNCHANGED <<rows, vault, bindings, started, starts, service, history>>

-----------------------------------------------------------------------------
(* Esc: the wrapper of the operation and cancel_operation run concurrently.*)

Cancel(o) ==
    /\ o \notin cancelled /\ (~At(o, "idle") \/ logins[o] # NoLogin)
    /\ cancelled' = cancelled \cup {o}
    /\ ForgetLogin(o)
    /\ cancels' = [cancels EXCEPT ![o] = "look"]
    /\ UNCHANGED <<rows, vault, rest, manager, calls, history>>

DropCall(o) ==
    /\ o \in cancelled /\ ~At(o, "idle")
    /\ Return(o)
    /\ UNCHANGED <<rows, vault, rest, manager, service, history>>

(* rollback_cancelled_intent.                                              *)
FindIntent(o) ==
    /\ cancels[o] = "look"
    /\ cancels' = [cancels EXCEPT ![o] =
          IF \E p \in Profiles : InPhase(p, o, {"IntentRecorded"})
            THEN "clear" ELSE "none"]
    /\ UNCHANGED <<rows, vault, rest, manager, logins, cancelled, calls, history>>

ClearIntent(o) ==
    \E p \in Profiles :
        /\ cancels[o] = "clear" /\ journal[p].op = o
        /\ vault' = vault \ {<<p, journal[p].staged>>}
        /\ loggedOut' = loggedOut \cup {<<p, journal[p].staged>>}
        /\ cancels' = [cancels EXCEPT ![o] = "rollback"]
        /\ UNCHANGED <<rows, rest, manager, logins, cancelled, calls, crossed>>

RollbackIntent(o) ==
    \E p \in Profiles :
        /\ cancels[o] = "rollback" /\ journal[p].op = o
        /\ IF MayRollback(p, o) THEN Rollback(p) ELSE UNCHANGED <<journal, gens>>
        /\ cancels' = [cancels EXCEPT ![o] = "none"]
        /\ UNCHANGED <<profiles, active, vault, rest, manager, logins, cancelled,
                       calls, history>>

(* A form saved meanwhile (its model does not matter here): the pointer of *)
(* the operation becomes stale.                                            *)
EditProfile(p) ==
    /\ started < MaxCalls /\ Exists(p)
    /\ started' = started + 1
    /\ SaveRevision(p, profiles[p].rev, profiles[p].model, profiles[p].gen)
    /\ UNCHANGED <<active, gens, journal, vault, bindings, manager, service, calls,
                   faults, starts, history>>

(* The process dies; what it kept in memory is lost, and the next one      *)
(* recovers abandoned intents before it accepts a call.                    *)
Restart ==
    LET left == {p \in Profiles : journal[p].phase = "IntentRecorded"}
    IN  /\ starts < MaxStarts /\ faults + starts < MaxFaults
        /\ starts' = starts + 1
        /\ connections' = [p \in Profiles |-> NoConnection]
        /\ deviceCodes' = {} /\ cancelled' = {}
        /\ logins' = [o \in Ops |-> NoLogin]
        /\ cancels' = [o \in Ops |-> "none"]
        /\ calls' = [o \in Ops |-> IdleCall]
        /\ vault' = vault \ {<<p, journal[p].staged>> : p \in left}
        /\ journal' = [p \in Profiles |-> IF p \in left
                          THEN [journal[p] EXCEPT !.phase = "RolledBack"] ELSE journal[p]]
        /\ gens' = [p \in Profiles |-> IF p \in left
                       THEN [gens[p] EXCEPT ![journal[p].staged] = "deleted"] ELSE gens[p]]
        /\ UNCHANGED <<profiles, active, bindings, started, faults, history>>

-----------------------------------------------------------------------------
Login(o)   == EnterLogin(o) \/ ShowCode(o) \/ NoCode(o) \/ CompleteLogin(o)
Connecting(o) == BeginTokens(o) \/ PollCode(o) \/ OwnConnection(o)
                 \/ ReadOldTokens(o) \/ PostRefresh(o)
Committing(o) ==
    \/ WriteTokens(o)
    \/ DiscardTokens(o)
    \/ Connect(o)
    \/ RecordTokens(o)
    \/ CommitTokens(o)
    \/ FinishTokens(o)
LoggingOut(o) ==
    \/ OwnLogout(o)
    \/ ReadLogoutTokens(o)
    \/ DeleteTokens(o)
    \/ RevokeConnection(o)
    \/ UndoTokens(o)
    \/ BlockTokens(o)
Cancelling(o) == Cancel(o) \/ DropCall(o) \/ FindIntent(o) \/ ClearIntent(o)
                 \/ RollbackIntent(o)

Next ==
    \/ \E o \in Ops :
          \/ \E p \in Profiles, kind \in CallKinds : StartCall(o, p, kind)
          \/ ReadLease(o)
          \/ RestoreConnection(o)
          \/ Login(o)
          \/ Connecting(o)
          \/ Committing(o)
          \/ LoggingOut(o)
          \/ Cancelling(o)
          \/ ServiceFails(o)
    \/ \E p \in Profiles : EditProfile(p)
    \/ Restart

Spec == Init /\ [][Next]_oauthVars

-----------------------------------------------------------------------------
(* Every table, local and counter has the values the code can give it.     *)
TypeOK ==
    /\ profiles \in [Profiles -> ProfileRows]
    /\ gens \in [Profiles -> [Generations -> GenStatuses]]
    /\ journal \in [Profiles -> Records]
    /\ vault \subseteq Profiles \X Generations
    /\ loggedOut \subseteq Profiles \X Generations
    /\ connections \in [Profiles -> Connections]
    /\ deviceCodes \subseteq Ops /\ cancelled \subseteq Ops
    /\ logins \in [Ops -> Logins]
    /\ cancels \in [Ops -> CancelPC]
    /\ calls \in [Ops -> Calls]
    /\ faults \in 0 .. MaxFaults /\ starts \in 0 .. MaxStarts
    /\ started \in 0 .. MaxCalls

(* Tokens the Profile points at are never lost: only a logout, of the user *)
(* or of a rollback, and a cancel may take them out of the vault.          *)
TokensInVault ==
    \A p \in Profiles :
        profiles[p].gen # NoGen =>
            Held(p, profiles[p].gen) \/ <<p, profiles[p].gen>> \in loggedOut

Quiet == /\ \A o \in Ops : At(o, "idle") /\ cancels[o] = "none"
         /\ faults = 0 /\ starts = 0 /\ cancelled = {}

(* Without failures no operation leaves the journal of its Profile open,   *)
(* which would forbid every new Run.                                       *)
NothingLeftOpen == Quiet => \A p \in Profiles : ~Open(p)

(* ... nor tokens in the vault that the store has written off.             *)
NoOrphanTokens ==
    Quiet => \A p \in Profiles, g \in Generations :
                 Held(p, g) /\ ~IsBlocked(p) /\ p \notin crossed
                 => StatusSaved(p, g)

=============================================================================
