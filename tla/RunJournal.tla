----------------------------- MODULE RunJournal -----------------------------
(***************************************************************************)
(* The data the runtime store keeps about a Run, and the pure functions    *)
(* the code computes over it: the Run snapshot, the batches of Events one  *)
(* transaction appends, and the facts RecoveryManager derives by replaying *)
(* the Events.                                                             *)
(*                                                                         *)
(* Abstractions.  The workflow state inside a snapshot is reduced to the   *)
(* three fields recovery reads and writes (pending_recovery_call, its cost *)
(* class and the confirmation flag); "High" stands for CostClass::High and *)
(* CostClass::Unknown, which every branch treats alike.  Of a batch only   *)
(* the Events that describe Tool calls and RunResumed are kept: the store  *)
(* closes every batch with a RunStateProjected Event, which is "snap", and *)
(* numbers the Events inside its write transaction, so the position in the *)
(* sequence is the order of the Events.                                    *)
(***************************************************************************)
EXTENDS Integers, Sequences, FiniteSets

CONSTANTS
    Runs,     \* identities of the Runs of one Task
    NoRun,    \* Option<RunId>::None
    Cmds,     \* command ids chosen by the clients
    NoCmd     \* the batch was not appended by a command

ASSUME RunsAssumption == NoRun \notin Runs
ASSUME CmdsAssumption == NoCmd \notin Cmds

NoCall == 0       \* Option<ToolCall>::None; calls are numbered as they are minted

CostClasses == {"Low", "High"}
RunStatus   == {"Running", "WaitingForInput", "Succeeded", "Failed", "Cancelled"}
Terminal    == {"Succeeded", "Failed", "Cancelled"}

(***************************************************************************)
(* RunSnapshot.  A Run no transaction has created yet is "Absent".         *)
(***************************************************************************)
Snapshots ==
    [status   : RunStatus \cup {"Absent"},
     version  : Nat,
     attempt  : Nat,
     retryOf  : Runs \cup {NoRun},
     wait     : {"none", "clarification", "confirm"},
     pend     : Nat,
     cost     : CostClasses,
     granted  : BOOLEAN]

AbsentRun ==
    [status |-> "Absent", version |-> 0, attempt |-> 0, retryOf |-> NoRun,
     wait |-> "none", pend |-> NoCall, cost |-> "Low", granted |-> FALSE]

(***************************************************************************)
(* Tool Events: "started" is ToolCallProposed with ToolExecutionStarted,   *)
(* "rejected" is ToolCallProposed with ToolExecutionFailed and no start    *)
(* (the preflight denied the call), "ended" is ToolExecutionSucceeded or   *)
(* ToolExecutionFailed, "unknown" is ToolExecutionIndeterminate.           *)
(***************************************************************************)
EventTypes == {"started", "rejected", "ended", "unknown", "resumed"}
Events  == [type : EventTypes, call : Nat, cost : CostClasses]
Batches == [snap : Snapshots, ev : SUBSET Events, cmd : Cmds \cup {NoCmd}]

ToolEvent(type, call, cost) == [type |-> type, call |-> call, cost |-> cost]
RunResumed == ToolEvent("resumed", NoCall, "Low")

-----------------------------------------------------------------------------
(* Snapshots the services build.                                           *)

(* Mutant of RunningSnapshot: run.start() is forgotten.                    *)
QueuedSnapshot ==
    [AbsentRun EXCEPT !.status = "Queued", !.version = 1, !.attempt = 1]

(* running_snapshot: the first snapshot of a Run that starts at once.      *)
RunningSnapshot ==
    [AbsentRun EXCEPT !.status = "Running", !.version = 1, !.attempt = 1]

(* waiting_snapshot: the first snapshot of a Run that asks before it runs. *)
WaitingSnapshot ==
    [RunningSnapshot EXCEPT !.status = "WaitingForInput", !.wait = "clarification"]

(* Mutant of RetrySnapshot: the attempt is not counted.                    *)
RetrySameAttempt(previous, run) ==
    [previous EXCEPT !.status = "Running", !.version = 1, !.wait = "none",
                     !.retryOf = run]

(* The retry Run of a failed one: a new Run that inherits workflow_state.  *)
RetrySnapshot(previous, run) ==
    [previous EXCEPT !.status = "Running", !.version = 1, !.wait = "none",
                     !.attempt = @ + 1, !.retryOf = run]

(* next_snapshot of the harness and of append_state in recovery.           *)
NextSnapshot(current, status, wait) ==
    [current EXCEPT !.status = status, !.version = @ + 1, !.wait = wait]

(* The snapshot a clarification answer resumes the Run with: an answer to  *)
(* a high-cost confirmation replaces the pending call by a new one.        *)
AnsweredSnapshot(current, newCall) ==
    IF current.wait = "confirm"
    THEN [NextSnapshot(current, "Running", "none") EXCEPT
              !.pend = newCall, !.granted = TRUE]
    ELSE NextSnapshot(current, "Running", "none")

(* recovered_tool_step consumes the pending call and its confirmation.     *)
TakePending(current) ==
    [NextSnapshot(current, "Running", "none") EXCEPT
        !.pend = NoCall, !.cost = "Low", !.granted = FALSE]

(* Mutant of IndeterminateSnapshot: the question about a high-cost retry   *)
(* is an ordinary clarification, which any answer settles.                 *)
AskedAsClarification(current, call, cost, newCall) ==
    IF cost = "Low"
    THEN [NextSnapshot(current, "Running", "none") EXCEPT
              !.pend = newCall, !.cost = "Low"]
    ELSE [NextSnapshot(current, "WaitingForInput", "clarification") EXCEPT
              !.pend = call, !.cost = cost]

(* Mutant of IndeterminateSnapshot: the retry keeps the interrupted id.    *)
RetryUnderOldId(current, call, cost, newCall) ==
    IF cost = "Low"
    THEN [NextSnapshot(current, "Running", "none") EXCEPT
              !.pend = call, !.cost = "Low"]
    ELSE [NextSnapshot(current, "WaitingForInput", "confirm") EXCEPT
              !.pend = call, !.cost = cost]

(* MarkToolIndeterminate under an explicit resume: a low-cost call is      *)
(* retried under a new id, any other call waits for the user's consent.    *)
IndeterminateSnapshot(current, call, cost, newCall) ==
    IF cost = "Low"
    THEN [NextSnapshot(current, "Running", "none") EXCEPT
              !.pend = newCall, !.cost = "Low"]
    ELSE [NextSnapshot(current, "WaitingForInput", "confirm") EXCEPT
              !.pend = call, !.cost = cost]

(* Mutants of IndeterminateEvents: the interrupted call, or the decision   *)
(* about it, is not journaled.                                             *)
ResumedOnly(call, cost) == IF cost = "Low" THEN {RunResumed} ELSE {}
UnknownOnly(call, cost) == {ToolEvent("unknown", call, cost)}

(* The Events MarkToolIndeterminate appends.                               *)
IndeterminateEvents(call, cost) ==
    {ToolEvent("unknown", call, cost)} \cup (IF cost = "Low" THEN {RunResumed} ELSE {})

-----------------------------------------------------------------------------
(* What RecoveryManager reads out of a Run's history.                      *)

CallsOf(history, types) ==
    {e.call : e \in {x \in UNION {history[i].ev : i \in DOMAIN history} :
                        x.type \in types}}

Proposing == {"started", "rejected"}
Ending    == {"ended", "unknown", "rejected"}

Repeated(history, types) ==
    \E i, j \in DOMAIN history :
        /\ i # j
        /\ \E e \in history[i].ev, f \in history[j].ev :
              {e.type, f.type} \subseteq types /\ e.call = f.call

(* ExternalFacts.apply and ExternalFacts.validate accept every Event.      *)
FactsValid(history) ==
    /\ ~Repeated(history, Proposing)
    /\ ~Repeated(history, Ending)
    /\ CallsOf(history, Ending) \subseteq CallsOf(history, {"started"})

(* started_without_terminal: what was started and has no terminal Event.   *)
UnfinishedCalls(history) ==
    CallsOf(history, {"started"}) \ CallsOf(history, Ending)

CostOfCall(history, call) ==
    CHOOSE cost \in CostClasses :
        \E i \in DOMAIN history : ToolEvent("started", call, cost) \in history[i].ev

(* latest_indeterminate: the last unknown outcome, if no RunResumed has    *)
(* settled it.  It is of a High call: a Low one is journaled together with *)
(* its RunResumed.                                                         *)
IsUnknown(e) == e.type = "unknown"

UnresolvedAt(history, i) ==
    /\ \E e \in history[i].ev : IsUnknown(e)
    /\ \A j \in i .. Len(history) : RunResumed \notin history[j].ev
    /\ \A j \in i + 1 .. Len(history) : ~\E e \in history[j].ev : IsUnknown(e)

UnresolvedUnknown(history) == \E i \in DOMAIN history : UnresolvedAt(history, i)

LatestUnknown(history) ==
    LET i == CHOOSE i \in DOMAIN history : UnresolvedAt(history, i)
    IN  (CHOOSE e \in history[i].ev : IsUnknown(e)).call

(* reconstruct: the projections count 1, 2, 3, ... and the last one is the *)
(* state of the Run.                                                       *)
Projectable(history) ==
    /\ history # <<>>
    /\ \A i \in DOMAIN history : history[i].snap.version = i

Projection(history) == history[Len(history)].snap
=============================================================================
