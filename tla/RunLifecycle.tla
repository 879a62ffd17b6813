---------------------------- MODULE RunLifecycle ----------------------------
(***************************************************************************)
(* The life of the Runs of one Task: the AgentService commands, the        *)
(* BackgroundScheduler, the LoopDriver with the harness steps it drives,   *)
(* RecoveryManager, and the SQLite runtime store under all of them.        *)
(*                                                                         *)
(* One action is one store transaction (BEGIN IMMEDIATE serialises them)   *)
(* together with the code around it that touches no shared state.  Several *)
(* host processes (the TUI, `ysda task resume`, `ysda task cancel`) may    *)
(* share the store file; each has its own scheduler.  A process may crash  *)
(* between any two transactions.                                           *)
(***************************************************************************)
EXTENDS RunJournal

CONSTANTS
    Procs,        \* host processes that share the store
    NoProc,       \* the API call is not, or no longer, served by a process
    Slots,        \* deliveries of API calls, each used once
    Kinds,        \* the commands the clients of this instance issue
    Costs,        \* the cost classes of the Tool calls of this instance
    MaxSteps,     \* LoopBudget.max_steps
    MaxCrashes,   \* bound on process crashes
    ReconstructIsAtomic  \* TRUE: no append lands inside reconstruct

CommandKinds == {"start", "resume", "answer", "cancel"}

ASSUME KindsAssumption == Kinds \subseteq CommandKinds
ASSUME CostsAssumption == Costs \subseteq CostClasses
ASSUME ProcsAssumption == NoProc \notin Procs
ASSUME BoundsAssumption == MaxSteps \in Nat \ {0} /\ MaxCrashes \in Nat
ASSUME ReconstructAssumption == ReconstructIsAtomic \in BOOLEAN

VARIABLES
    rows,       \* table runs: the cached snapshot of each Run
    journal,    \* table run_events: each Run's batches of Events
    created,    \* the Runs in the order of runs.created_at
    receipts,   \* table command_receipts
    reqs,       \* the API calls the clients have made
    sched,      \* per process: BackgroundScheduler.scheduled
    drv,        \* per process and Run: the spawned LoopDriver::run
    lastCall,   \* ToolCallIds minted so far
    crashes     \* process crashes so far

store == <<rows, journal, created, receipts>>
vars  == <<rows, journal, created, receipts, reqs, sched, drv, lastCall, crashes>>

-----------------------------------------------------------------------------
NoReceipt == [kind |-> "none", target |-> NoRun, run |-> NoRun]
Receipts  == [kind : Kinds \cup {"none"}, target : Runs \cup {NoRun},
              run : Runs \cup {NoRun}]

DriverPC == {"idle", "step", "loaded", "model", "acked", "tool", "outcome",
             "failload", "failappend", "returned"}
Drivers  == [pc : DriverPC, cur : Snapshots, call : Nat, cost : CostClasses,
             steps : Nat]
IdleDriver == [pc |-> "idle", cur |-> AbsentRun, call |-> NoCall,
               cost |-> "Low", steps |-> 0]
NewDriver  == [IdleDriver EXCEPT !.pc = "step"]
Leaving(pc) == [IdleDriver EXCEPT !.pc = pc]   \* the step's locals are dropped

RequestPC == {"idle", "check", "load", "commit", "read", "compare", "replace",
              "facts", "mark", "receipt", "schedule", "done"}
Requests  == [pc : RequestPC, kind : Kinds \cup {"none"}, cmd : Cmds \cup {NoCmd},
              target : Runs \cup {NoRun}, proc : Procs \cup {NoProc},
              run : Runs \cup {NoRun}, cur : Snapshots, seen : Snapshots,
              pass : 1 .. 2, call : Nat, cost : CostClasses, ev : SUBSET Events,
              wake : BOOLEAN, ok : BOOLEAN]
IdleRequest ==
    [pc |-> "idle", kind |-> "none", cmd |-> NoCmd, target |-> NoRun,
     proc |-> NoProc, run |-> NoRun, cur |-> AbsentRun, seen |-> AbsentRun,
     pass |-> 1, call |-> NoCall, cost |-> "Low", ev |-> {}, wake |-> FALSE,
     ok |-> FALSE]

Created == {created[i] : i \in DOMAIN created}

(* RunId::new(): an id no Run has and no reply has named.                  *)
FreshRuns == Runs \ (Created \cup {reqs[q].run : q \in Slots})

Init ==
    /\ rows = [r \in Runs |-> AbsentRun]
    /\ journal = [r \in Runs |-> <<>>]
    /\ created = <<>>
    /\ receipts = [c \in Cmds |-> NoReceipt]
    /\ reqs = [q \in Slots |-> IdleRequest]
    /\ sched = [p \in Procs |-> {}]
    /\ drv = [p \in Procs |-> [r \in Runs |-> IdleDriver]]
    /\ lastCall = NoCall
    /\ crashes = 0

-----------------------------------------------------------------------------
(* The store: SqliteRuntimeStore.                                          *)

(* Mutant of VersionMatches: the UPDATE has no version in its WHERE.       *)
VersionIgnored(r, cur) == TRUE

(* The compare-and-set of append_in_transaction and update_snapshot.       *)
VersionMatches(r, cur) == rows[r].version = cur.version

(* Mutant of AppendBatch: the batch closes with the snapshot it replaces.  *)
AppendStaleBatch(r, cur, next, ev, cmd) ==
    /\ VersionMatches(r, cur)
    /\ rows' = [rows EXCEPT ![r] = next]
    /\ journal' = [journal EXCEPT ![r] =
                      Append(@, [snap |-> cur, ev |-> ev, cmd |-> cmd])]

(* append_in_transaction: the Events, their projection and the row.        *)
AppendBatch(r, cur, next, ev, cmd) ==
    /\ VersionMatches(r, cur)
    /\ rows' = [rows EXCEPT ![r] = next]
    /\ journal' = [journal EXCEPT ![r] =
                      Append(@, [snap |-> next, ev |-> ev, cmd |-> cmd])]

(* insert_run with its first Events.                                       *)
InsertRun(r, snap, cmd) ==
    /\ rows' = [rows EXCEPT ![r] = snap]
    /\ journal' = [journal EXCEPT ![r] = <<[snap |-> snap, ev |-> {}, cmd |-> cmd]>>]
    /\ created' = Append(created, r)

Fingerprint(req) == <<req.kind, req.target>>
StoredFingerprint(c) == <<receipts[c].kind, receipts[c].target>>
HasReceipt(c) == receipts[c].kind # "none"

(* Mutant of MayCommit: only replayed_receipt looks for the receipt.       *)
CommitUnchecked(c) == TRUE

(* The receipt check inside commit_command's transaction.                  *)
MayCommit(c) == ~HasReceipt(c)

PutReceipt(req, run) ==
    receipts' = [receipts EXCEPT ![req.cmd] =
                    [kind |-> req.kind, target |-> req.target, run |-> run]]

-----------------------------------------------------------------------------
(* LoopDriver::run and Harness::step, one instance per process and Run.    *)

Driver(p, r) == drv[p][r]
SetDriver(p, r, d) == drv' = [drv EXCEPT ![p][r] = d]
At(p, r, pc) == drv[p][r].pc = pc
Goto(p, r, pc) == SetDriver(p, r, Leaving(pc))

(* A step that ended in StepOutcome::Continue: back to the loop head.      *)
NextStep(d) == [NewDriver EXCEPT !.steps = d.steps + 1]

(* The next snapshot is appended and the driver moves to "d".              *)
StepAppend(p, r, next, ev, d) ==
    /\ AppendBatch(r, Driver(p, r).cur, next, ev, NoCmd)
    /\ SetDriver(p, r, d)
    /\ UNCHANGED <<created, receipts, reqs, sched, crashes>>

(* The same, with the appended snapshot held by the rest of the step.      *)
Holding(p, r, pc, next) == [Driver(p, r) EXCEPT !.pc = pc, !.cur = next]

(* The head of the loop, then step's load_run.  A Run that is not Running  *)
(* ends the loop with StepOutcome::Terminal.                               *)
StepLoad(p, r) ==
    /\ At(p, r, "step")
    /\ Driver(p, r).steps < MaxSteps
    /\ IF rows[r].status = "Running"
       THEN SetDriver(p, r, Holding(p, r, "loaded", rows[r]))
       ELSE Goto(p, r, "outcome")
    /\ UNCHANGED <<store, reqs, sched, lastCall, crashes>>

(* Mutant of BudgetExceeded: the loop returns and leaves the Run as it is. *)
BudgetReturns(p, r) ==
    /\ At(p, r, "step")
    /\ Goto(p, r, "returned")
    /\ UNCHANGED <<store, reqs, sched, lastCall, crashes>>

(* The step budget at the head of the loop, or the deadline, or the model, *)
(* tool or token budget the step before has overdrawn.                     *)
BudgetExceeded(p, r) ==
    /\ At(p, r, "step")
    /\ Goto(p, r, "failload")
    /\ UNCHANGED <<store, reqs, sched, lastCall, crashes>>

(* advance, classify, and a verify without hard failures.                  *)
Advance(p, r) ==
    LET d == Driver(p, r) IN
    /\ At(p, r, "loaded")
    /\ d.cur.pend = NoCall
    /\ StepAppend(p, r, NextSnapshot(d.cur, "Running", "none"), {}, NextStep(d))
    /\ UNCHANGED lastCall

(* verify with hard failures.                                              *)
VerificationFails(p, r) ==
    LET d == Driver(p, r)
        next == NextSnapshot(d.cur, "Failed", "none") IN
    /\ At(p, r, "loaded")
    /\ d.cur.pend = NoCall
    /\ StepAppend(p, r, next, {}, Leaving("outcome"))
    /\ UNCHANGED lastCall

(* wait: from the workflow's Clarify phase, or after the model's request   *)
(* for clarification was acknowledged.                                     *)
Wait(p, r) ==
    LET d == Driver(p, r)
        next == NextSnapshot(d.cur, "WaitingForInput", "clarification") IN
    /\ \/ At(p, r, "loaded") /\ d.cur.pend = NoCall
       \/ At(p, r, "acked")
    /\ StepAppend(p, r, next, {}, Leaving("outcome"))
    /\ UNCHANGED lastCall

(* model_step up to ModelRequested; the model then answers.                *)
RequestModel(p, r) ==
    LET d == Driver(p, r)
        next == NextSnapshot(d.cur, "Running", "none") IN
    /\ At(p, r, "loaded")
    /\ d.cur.pend = NoCall
    /\ StepAppend(p, r, next, {}, Holding(p, r, "model", next))
    /\ UNCHANGED lastCall

(* apply_model_response: Repair or persist_plan.                           *)
ModelContinues(p, r) ==
    LET d == Driver(p, r) IN
    /\ At(p, r, "model")
    /\ StepAppend(p, r, NextSnapshot(d.cur, "Running", "none"), {}, NextStep(d))
    /\ UNCHANGED lastCall

(* apply_model_response: RequestClarification is acknowledged first.       *)
ModelAcknowledged(p, r) ==
    LET d == Driver(p, r)
        next == NextSnapshot(d.cur, "Running", "none") IN
    /\ At(p, r, "model")
    /\ StepAppend(p, r, next, {}, Holding(p, r, "acked", next))
    /\ UNCHANGED lastCall

(* complete: the Run succeeds, or the completion gate fails it.            *)
Complete(p, r) ==
    LET d == Driver(p, r) IN
    /\ At(p, r, "model")
    /\ \E status \in {"Succeeded", "Failed"} :
          StepAppend(p, r, NextSnapshot(d.cur, status, "none"), {}, Leaving("outcome"))
    /\ UNCHANGED lastCall

(* run_tool: the preflight denies the call, the workflow can repair it.    *)
ToolRejected(p, r) ==
    LET d == Driver(p, r) IN
    /\ At(p, r, "model")
    /\ lastCall' = lastCall + 1
    /\ \E cost \in Costs :
          StepAppend(p, r, NextSnapshot(d.cur, "Running", "none"),
                     {ToolEvent("rejected", lastCall', cost)}, NextStep(d))

(* run_tool: the start is journaled before the tool runs.                  *)
ToolStarted(p, r) ==
    LET d == Driver(p, r)
        next == NextSnapshot(d.cur, "Running", "none") IN
    /\ At(p, r, "model")
    /\ lastCall' = lastCall + 1
    /\ \E cost \in Costs :
          StepAppend(p, r, next, {ToolEvent("started", lastCall', cost)},
                     [Holding(p, r, "tool", next) EXCEPT
                         !.call = lastCall', !.cost = cost])

(* run_recovered_tool: the preflight denies the recovered call.            *)
RecoveredToolRejected(p, r) ==
    LET d == Driver(p, r) IN
    /\ At(p, r, "loaded")
    /\ d.cur.pend # NoCall
    /\ StepAppend(p, r, TakePending(d.cur),
                  {ToolEvent("rejected", d.cur.pend, d.cur.cost)}, NextStep(d))
    /\ UNCHANGED lastCall

(* run_recovered_tool: the recovered call starts.                          *)
RecoveredToolStarted(p, r) ==
    LET d == Driver(p, r)
        next == TakePending(d.cur) IN
    /\ At(p, r, "loaded")
    /\ d.cur.pend # NoCall
    /\ StepAppend(p, r, next, {ToolEvent("started", d.cur.pend, d.cur.cost)},
                  [Holding(p, r, "tool", next) EXCEPT
                      !.call = d.cur.pend, !.cost = d.cur.cost])
    /\ UNCHANGED lastCall

(* The tool succeeded, or failed in a way the workflow repairs.            *)
ToolEnded(p, r) ==
    LET d == Driver(p, r) IN
    /\ At(p, r, "tool")
    /\ StepAppend(p, r, NextSnapshot(d.cur, "Running", "none"),
                  {ToolEvent("ended", d.call, d.cost)}, NextStep(d))
    /\ UNCHANGED lastCall

(* The step returns an error and appends nothing: a version conflict, a    *)
(* provider or storage error, an action the phase forbids, a tool failure  *)
(* that cannot be repaired, an indeterminate tool, or the deadline.        *)
StepFails(p, r) ==
    /\ drv[p][r].pc \in {"loaded", "model", "acked", "tool"}
    /\ Goto(p, r, "failload")
    /\ UNCHANGED <<store, reqs, sched, lastCall, crashes>>

(* The step returned Wait or Terminal: so does the loop.                   *)
LoopReturns(p, r) ==
    /\ At(p, r, "outcome")
    /\ Goto(p, r, "returned")
    /\ UNCHANGED <<store, reqs, sched, lastCall, crashes>>

(* The deadline fires after the step's commit and before it returned, or   *)
(* its model call overdrew a budget: checked before the outcome is.        *)
OutcomeOverrun(p, r) ==
    /\ At(p, r, "outcome")
    /\ Goto(p, r, "failload")
    /\ UNCHANGED <<store, reqs, sched, lastCall, crashes>>

(* fail_terminal: load_run, with no look at the status ...                 *)
FailLoad(p, r) ==
    /\ At(p, r, "failload")
    /\ SetDriver(p, r, Holding(p, r, "failappend", rows[r]))
    /\ UNCHANGED <<store, reqs, sched, lastCall, crashes>>

(* ... then RunFailed is appended ...                                      *)
FailAppend(p, r) ==
    LET d == Driver(p, r) IN
    /\ At(p, r, "failappend")
    /\ StepAppend(p, r, NextSnapshot(d.cur, "Failed", "none"), {}, Leaving("returned"))
    /\ UNCHANGED lastCall

(* ... or its compare-and-set loses, and LoopDriver::run returns the error.*)
FailConflict(p, r) ==
    /\ At(p, r, "failappend")
    /\ ~VersionMatches(r, Driver(p, r).cur)
    /\ Goto(p, r, "returned")
    /\ UNCHANGED <<store, reqs, sched, lastCall, crashes>>

(* Mutant of Forget: the scheduled set is not cleaned up.                  *)
Remember(runs, r) == runs

(* The spawned task forgets the Run, whatever the driver returned.         *)
Forget(runs, r) == runs \ {r}

Release(p, r) ==
    /\ At(p, r, "returned")
    /\ sched' = [sched EXCEPT ![p] = Forget(@, r)]
    /\ SetDriver(p, r, IdleDriver)
    /\ UNCHANGED <<store, reqs, lastCall, crashes>>

DriverNext(p, r) ==
    \/ StepLoad(p, r)              \/ BudgetExceeded(p, r)
    \/ Advance(p, r)               \/ VerificationFails(p, r)
    \/ Wait(p, r)                  \/ RequestModel(p, r)
    \/ ModelContinues(p, r)        \/ ModelAcknowledged(p, r)
    \/ Complete(p, r)              \/ ToolRejected(p, r)
    \/ ToolStarted(p, r)           \/ RecoveredToolRejected(p, r)
    \/ RecoveredToolStarted(p, r)  \/ ToolEnded(p, r)
    \/ StepFails(p, r)             \/ LoopReturns(p, r)
    \/ OutcomeOverrun(p, r)        \/ FailLoad(p, r)
    \/ FailAppend(p, r)            \/ FailConflict(p, r)
    \/ Release(p, r)

-----------------------------------------------------------------------------
(* AgentService: the commands, one request per delivery of an API call.    *)

RequestAt(q, pc) == reqs[q].pc = pc
SetRequest(q, req) == reqs' = [reqs EXCEPT ![q] = req]
RequestGoto(q, pc) == SetRequest(q, [reqs[q] EXCEPT !.pc = pc])

(* The API call returns: Ok with the Run it names, or an error.            *)
Replied(run, ok) == [IdleRequest EXCEPT !.pc = "done", !.run = run, !.ok = ok]
Reply(q, run) == SetRequest(q, Replied(run, TRUE))
Refuse(q)     == SetRequest(q, Replied(NoRun, FALSE))

(* What is left of the call once it has to schedule its Run and reply.     *)
Waking(req, run) ==
    [IdleRequest EXCEPT !.pc = "schedule", !.proc = req.proc, !.run = run]
Wake(q, run)  == SetRequest(q, Waking(reqs[q], run))

(* A client calls, or calls again with a command id it used before.        *)
Issue(q, p, c, kind, target) ==
    /\ RequestAt(q, "idle")
    /\ kind \in Kinds
    /\ IF kind \in {"answer", "cancel"} THEN target \in Created ELSE target = NoRun
    /\ SetRequest(q, [IdleRequest EXCEPT !.pc = "check", !.kind = kind, !.cmd = c,
                                         !.target = target, !.proc = p])
    /\ UNCHANGED <<store, sched, drv, lastCall, crashes>>

(* replayed_receipt: an identical replay answers with what was stored, the *)
(* same id with other contents is an IdempotencyConflict.                  *)
CheckReceipt(q) ==
    LET req == reqs[q] IN
    /\ RequestAt(q, "check")
    /\ CASE ~HasReceipt(req.cmd) ->
              RequestGoto(q, IF req.kind = "start" THEN "commit" ELSE "load")
         [] HasReceipt(req.cmd) /\ StoredFingerprint(req.cmd) = Fingerprint(req) ->
              Reply(q, receipts[req.cmd].run)
         [] OTHER -> Refuse(q)
    /\ UNCHANGED <<store, sched, drv, lastCall, crashes>>

(* resume_task: list_runs_for_task, then the branch on the last Run.       *)
ResumeLoad(q) ==
    /\ RequestAt(q, "load")
    /\ reqs[q].kind = "resume"
    /\ IF created = <<>>
       THEN RequestGoto(q, "commit")
       ELSE LET last == created[Len(created)] IN
            SetRequest(q, [reqs[q] EXCEPT
                !.pc = IF rows[last].status = "Failed" THEN "commit" ELSE "read",
                !.run = last, !.cur = rows[last]])
    /\ UNCHANGED <<store, sched, drv, lastCall, crashes>>

(* answer_clarification: only a WaitingForInput Run that holds the id of a *)
(* clarification can be answered, and a confirmation only by a yes.        *)
AnswerLoad(q) ==
    LET row == rows[reqs[q].target]
        answerable == row.status = "WaitingForInput" /\ row.wait # "none" IN
    /\ RequestAt(q, "load")
    /\ reqs[q].kind = "answer"
    /\ \/ /\ answerable
          /\ SetRequest(q, [reqs[q] EXCEPT !.pc = "commit", !.cur = row,
                                           !.run = reqs[q].target])
       \/ /\ ~answerable \/ row.wait = "confirm"
          /\ Refuse(q)
    /\ UNCHANGED <<store, sched, drv, lastCall, crashes>>

(* Mutant of CancelLoad: a terminal Run is cancelled all the same.         *)
CancelLoadAny(q) ==
    /\ RequestAt(q, "load")
    /\ reqs[q].kind = "cancel"
    /\ SetRequest(q, [reqs[q] EXCEPT !.pc = "commit", !.cur = rows[reqs[q].target],
                                     !.run = reqs[q].target])
    /\ UNCHANGED <<store, sched, drv, lastCall, crashes>>

(* cancel_run: a terminal Run cannot be cancelled again.                   *)
CancelLoad(q) ==
    LET row == rows[reqs[q].target] IN
    /\ RequestAt(q, "load")
    /\ reqs[q].kind = "cancel"
    /\ IF row.status \in Terminal
       THEN Refuse(q)
       ELSE SetRequest(q, [reqs[q] EXCEPT !.pc = "commit", !.cur = row,
                                          !.run = reqs[q].target])
    /\ UNCHANGED <<store, sched, drv, lastCall, crashes>>

(* commit_command found this command's receipt in its transaction: the     *)
(* same contents return that receipt, other contents are a conflict.       *)
Recommit(q) ==
    LET req == reqs[q] IN
    /\ RequestAt(q, "commit")
    /\ ~MayCommit(req.cmd)
    /\ UNCHANGED <<store, sched, drv, lastCall, crashes>>

(* send_message replies with the stored Run and schedules nothing.         *)
StartRecommit(q) ==
    LET req == reqs[q] IN
    /\ Recommit(q)
    /\ req.kind = "start"
    /\ IF StoredFingerprint(req.cmd) = Fingerprint(req)
       THEN Reply(q, receipts[req.cmd].run)
       ELSE Refuse(q)

(* resume_task ignores the stored receipt: it replies with, and schedules, *)
(* the Run it proposed, which no transaction has created.                  *)
ResumeRecommit(q) ==
    LET req == reqs[q] IN
    /\ Recommit(q)
    /\ req.kind = "resume"
    /\ IF StoredFingerprint(req.cmd) = Fingerprint(req)
       THEN \E r \in FreshRuns : Reply(q, r)
       ELSE Refuse(q)

(* answer_clarification schedules its Run again, cancel_run is done.       *)
UpdateRecommit(q) ==
    LET req == reqs[q] IN
    /\ Recommit(q)
    /\ req.kind \in {"answer", "cancel"}
    /\ IF StoredFingerprint(req.cmd) # Fingerprint(req) THEN Refuse(q)
       ELSE IF req.kind = "answer" THEN Wake(q, req.run)
       ELSE Reply(q, req.run)

(* send_message commits a Run that starts at once, or one that first asks  *)
(* for a clarification and is not scheduled.                               *)
CommitStart(q) ==
    LET req == reqs[q] IN
    /\ RequestAt(q, "commit")
    /\ req.kind = "start"
    /\ MayCommit(req.cmd)
    /\ \E r \in FreshRuns :
          /\ PutReceipt(req, r)
          /\ \/ /\ InsertRun(r, RunningSnapshot, req.cmd)
                /\ Wake(q, r)
             \/ /\ InsertRun(r, WaitingSnapshot, req.cmd)
                /\ Reply(q, r)
    /\ UNCHANGED <<sched, drv, lastCall, crashes>>

(* resume_task commits the first Run of the Task or a retry of the failed  *)
(* Run it has read.                                                        *)
CommitResume(q) ==
    LET req == reqs[q] IN
    /\ RequestAt(q, "commit")
    /\ req.kind = "resume"
    /\ MayCommit(req.cmd)
    /\ \E r \in FreshRuns :
          /\ PutReceipt(req, r)
          /\ InsertRun(r, IF req.run = NoRun THEN RunningSnapshot
                          ELSE RetrySnapshot(req.cur, req.run), req.cmd)
          /\ Wake(q, r)
    /\ UNCHANGED <<sched, drv, lastCall, crashes>>

(* answer_clarification commits its Events, the resumed snapshot and the   *)
(* receipt in one transaction.                                             *)
CommitAnswer(q) ==
    LET req == reqs[q]
        confirm == req.cur.wait = "confirm" IN
    /\ RequestAt(q, "commit")
    /\ req.kind = "answer"
    /\ MayCommit(req.cmd)
    /\ lastCall' = IF confirm THEN lastCall + 1 ELSE lastCall
    /\ AppendBatch(req.run, req.cur, AnsweredSnapshot(req.cur, lastCall'),
                   {RunResumed}, req.cmd)
    /\ PutReceipt(req, req.run)
    /\ Wake(q, req.run)
    /\ UNCHANGED <<created, sched, drv, crashes>>

(* cancel_run commits RunCancelled, the snapshot and the receipt.          *)
CommitCancel(q) ==
    LET req == reqs[q] IN
    /\ RequestAt(q, "commit")
    /\ req.kind = "cancel"
    /\ MayCommit(req.cmd)
    /\ AppendBatch(req.run, req.cur, NextSnapshot(req.cur, "Cancelled", "none"),
                   {}, req.cmd)
    /\ PutReceipt(req, req.run)
    /\ Reply(q, req.run)
    /\ UNCHANGED <<created, sched, drv, lastCall, crashes>>

(* The compare-and-set of an answer or a cancel loses: nothing is written. *)
CommitConflict(q) ==
    LET req == reqs[q] IN
    /\ RequestAt(q, "commit")
    /\ req.kind \in {"answer", "cancel"}
    /\ MayCommit(req.cmd)
    /\ ~VersionMatches(req.run, req.cur)
    /\ Refuse(q)
    /\ UNCHANGED <<store, sched, drv, lastCall, crashes>>

-----------------------------------------------------------------------------
(* RecoveryManager, called by resume_task with explicit_resume.            *)

(* apply reconstructs once (pass 1, the snapshot it will append to), then  *)
(* assess reconstructs again (pass 2, the status it decides on).           *)
AfterReconstruct(req, snap) ==
    IF req.pass = 1
    THEN [req EXCEPT !.pc = "read", !.pass = 2, !.cur = snap, !.seen = AbsentRun]
    ELSE [req EXCEPT !.pc = "facts", !.seen = snap]

(* reconstruct as if nothing could land between its three store calls.     *)
Reconstruct(q) ==
    LET req == reqs[q] IN
    /\ ReconstructIsAtomic
    /\ RequestAt(q, "read")
    /\ Projectable(journal[req.run])
    /\ rows' = [rows EXCEPT ![req.run] = Projection(journal[req.run])]
    /\ SetRequest(q, AfterReconstruct(req, Projection(journal[req.run])))
    /\ UNCHANGED <<journal, created, receipts, sched, drv, lastCall, crashes>>

(* reconstruct: load_events, and the projection they end with.             *)
ReadProjection(q) ==
    LET req == reqs[q] IN
    /\ ~ReconstructIsAtomic
    /\ RequestAt(q, "read")
    /\ Projectable(journal[req.run])
    /\ SetRequest(q, [req EXCEPT !.pc = "compare",
                                 !.seen = Projection(journal[req.run])])
    /\ UNCHANGED <<store, sched, drv, lastCall, crashes>>

(* reconstruct refuses a history whose projections skip a version.         *)
ReadCorrupt(q) ==
    /\ RequestAt(q, "read")
    /\ ~Projectable(journal[reqs[q].run])
    /\ Refuse(q)
    /\ UNCHANGED <<store, sched, drv, lastCall, crashes>>

(* reconstruct: load_run, and whether the row is the projection.           *)
CompareCache(q) ==
    LET req == reqs[q] IN
    /\ RequestAt(q, "compare")
    /\ SetRequest(q, IF rows[req.run] = req.seen
                     THEN AfterReconstruct(req, req.seen)
                     ELSE [req EXCEPT !.pc = "replace"])
    /\ UNCHANGED <<store, sched, drv, lastCall, crashes>>

(* reconstruct: replace_snapshot_cache, with no version in its WHERE.      *)
ReplaceCache(q) ==
    LET req == reqs[q] IN
    /\ RequestAt(q, "replace")
    /\ rows' = [rows EXCEPT ![req.run] = req.seen]
    /\ SetRequest(q, AfterReconstruct(req, req.seen))
    /\ UNCHANGED <<journal, created, receipts, sched, drv, lastCall, crashes>>

(* apply is done: what resume_task still needs to commit its receipt.      *)
Receipting(req, wake) ==
    [req EXCEPT !.pc = "receipt", !.wake = wake, !.cur = AbsentRun,
                !.seen = AbsentRun, !.call = NoCall, !.cost = "Low", !.ev = {}]

(* assess: the facts of the Events it has loaded again, and the decision   *)
(* they give a Run whose status pass 2 has read.                           *)
Assess(q) ==
    LET req == reqs[q]
        history == journal[req.run]
        valid == FactsValid(history)
        running == valid /\ req.seen.status = "Running"
        open == UnfinishedCalls(history)
        mark(call, cost, ev) ==
            SetRequest(q, [req EXCEPT !.pc = "mark", !.call = call, !.cost = cost,
                                      !.ev = ev, !.seen = AbsentRun])
        settled(wake) == SetRequest(q, Receipting(req, wake))
    IN
    /\ RequestAt(q, "facts")
    /\ \/ /\ \/ ~valid
             \/ req.seen.status = "Failed"
             \/ running /\ Cardinality(open) > 1
          /\ Refuse(q)
       \/ /\ valid
          /\ req.seen.status \in {"WaitingForInput", "Succeeded", "Cancelled"}
          /\ settled(FALSE)
       \/ /\ running
          /\ Cardinality(open) = 1
          /\ \E call \in open :
                LET cost == CostOfCall(history, call) IN
                mark(call, cost, IndeterminateEvents(call, cost))
       \/ /\ running
          /\ open = {} /\ UnresolvedUnknown(history)
          /\ mark(LatestUnknown(history), "High", {})
       \/ /\ running
          /\ open = {} /\ ~UnresolvedUnknown(history)
          /\ settled(TRUE)
    /\ UNCHANGED <<store, sched, drv, lastCall, crashes>>

(* MarkToolIndeterminate, and ConfirmHighCostRetry for an outcome that is  *)
(* journaled as unknown already: append_state on the snapshot of pass 1.   *)
MarkIndeterminate(q) ==
    LET req == reqs[q] IN
    /\ RequestAt(q, "mark")
    /\ lastCall' = IF req.cost = "Low" THEN lastCall + 1 ELSE lastCall
    /\ AppendBatch(req.run, req.cur,
                   IndeterminateSnapshot(req.cur, req.call, req.cost, lastCall'),
                   req.ev, NoCmd)
    /\ SetRequest(q, Receipting(req, req.cost = "Low"))
    /\ UNCHANGED <<created, receipts, sched, drv, crashes>>

(* append_state loses the compare-and-set: resume_task returns the error.  *)
MarkConflict(q) ==
    /\ RequestAt(q, "mark")
    /\ ~VersionMatches(reqs[q].run, reqs[q].cur)
    /\ Refuse(q)
    /\ UNCHANGED <<store, sched, drv, lastCall, crashes>>

(* resume_task commits its receipt in a transaction of its own.            *)
CommitResumed(q) ==
    LET req == reqs[q] IN
    /\ RequestAt(q, "receipt")
    /\ IF MayCommit(req.cmd)
       THEN /\ PutReceipt(req, req.run)
            /\ IF req.wake THEN Wake(q, req.run) ELSE Reply(q, req.run)
       ELSE /\ UNCHANGED receipts
            /\ IF StoredFingerprint(req.cmd) # Fingerprint(req) THEN Refuse(q)
               ELSE IF req.wake THEN Wake(q, req.run)
               ELSE Reply(q, req.run)
    /\ UNCHANGED <<rows, journal, created, sched, drv, lastCall, crashes>>

(* RunScheduler::schedule: a Run that is scheduled already is left alone.  *)
Schedule(q) ==
    LET req == reqs[q] IN
    /\ RequestAt(q, "schedule")
    /\ IF req.run \in sched[req.proc]
       THEN UNCHANGED <<sched, drv>>
       ELSE /\ sched' = [sched EXCEPT ![req.proc] = @ \cup {req.run}]
            /\ SetDriver(req.proc, req.run, NewDriver)
    /\ Reply(q, req.run)
    /\ UNCHANGED <<store, lastCall, crashes>>

(* The store, the Provider binding or the caller fails the call before its *)
(* receipt is committed.                                                   *)
CallFails(q) ==
    /\ reqs[q].pc \notin {"idle", "schedule", "done"}
    /\ Refuse(q)
    /\ UNCHANGED <<store, sched, drv, lastCall, crashes>>

RequestNext(q) ==
    \/ CheckReceipt(q)    \/ ResumeLoad(q)     \/ AnswerLoad(q)
    \/ CancelLoad(q)      \/ StartRecommit(q)  \/ ResumeRecommit(q)
    \/ UpdateRecommit(q)  \/ CommitStart(q)    \/ CommitResume(q)
    \/ CommitAnswer(q)    \/ CommitCancel(q)   \/ CommitConflict(q)
    \/ Reconstruct(q)     \/ ReadProjection(q) \/ ReadCorrupt(q)
    \/ CompareCache(q)    \/ ReplaceCache(q)   \/ Assess(q)
    \/ MarkIndeterminate(q) \/ MarkConflict(q) \/ CommitResumed(q)
    \/ Schedule(q)

-----------------------------------------------------------------------------
(* A host process ends: its drivers, its scheduler and the API calls it    *)
(* was serving are gone; the store stays.                                  *)
Crash(p) ==
    /\ crashes < MaxCrashes
    /\ crashes' = crashes + 1
    /\ sched' = [sched EXCEPT ![p] = {}]
    /\ drv' = [drv EXCEPT ![p] = [r \in Runs |-> IdleDriver]]
    /\ reqs' = [q \in Slots |->
                   IF reqs[q].proc = p THEN Replied(NoRun, FALSE) ELSE reqs[q]]
    /\ UNCHANGED <<store, lastCall>>

(* Every slot is used and every driver has returned: the clients are done. *)
(* A call that would create a Run when Runs is exhausted stays unanswered.  *)
Quiet ==
    /\ \A q \in Slots :
          \/ RequestAt(q, "done")
          \/ RequestAt(q, "commit") /\ FreshRuns = {}
    /\ \A p \in Procs, r \in Runs : At(p, r, "idle")
    /\ UNCHANGED vars

Next ==
    \/ \E p \in Procs, r \in Runs : DriverNext(p, r)
    \/ \E q \in Slots : RequestNext(q) \/ CallFails(q)
    \/ \E q \in Slots, p \in Procs, c \in Cmds, kind \in Kinds,
          target \in Runs \cup {NoRun} : Issue(q, p, c, kind, target)
    \/ \E p \in Procs : Crash(p)
    \/ Quiet

Spec == Init /\ [][Next]_vars

(* Drivers are tokio tasks and API calls are futures their callers await:  *)
(* while their process lives, each gets to take its next step.             *)
Fairness ==
    /\ \A p \in Procs, r \in Runs : WF_vars(DriverNext(p, r))
    /\ \A q \in Slots : WF_vars(RequestNext(q))

FairSpec == Spec /\ Fairness
=============================================================================
