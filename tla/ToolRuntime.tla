----------------------------- MODULE ToolRuntime -----------------------------
(***************************************************************************)
(* Tool calls of one Run: a call is checked against the tools of its phase,*)
(* waits for one of the Run's permits under a timeout, and works under     *)
(* another.  Giving up does not stop what was sent to the data source: an  *)
(* SQLite query runs on in its thread, a Postgres one in its backend.      *)
(***************************************************************************)
EXTENDS Integers, FiniteSets

CONSTANTS
    Calls,       \* tool calls of the Run
    MaxPermits,  \* max_concurrency of the budget of the first call
    MaxRetries   \* max_same_call_retries

VARIABLES
    tasks,   \* execute_prepared, for each call
    permits, \* free permits of the Run's semaphore
    sent,    \* attempts of each call that reached the data source
    remote,  \* calls something of which still runs there
    unread   \* history: calls that failed before the source was done with them

toolVars == <<tasks, permits, sent, remote, unread>>

-----------------------------------------------------------------------------
(* What a phase may use; query_data is two tools, by its action.           *)

Phases == {"ResolveContext", "Plan", "ValidateAndPreflight", "Execute", "Verify"}
Tools  == {"resolve_metric", "inspect_schema", "preflight", "execute", "read_freshness"}
View == [p \in Phases |->
    CASE p = "ResolveContext"       -> {"resolve_metric", "inspect_schema"}
      [] p = "ValidateAndPreflight" -> {"preflight"}
      [] p = "Execute"              -> {"execute"}
      [] p = "Verify"               -> {"read_freshness"}
      [] OTHER                      -> {}]

\* sound: arguments, permission, policy, source and budgets are in order.
Admitted(phase, tool, sound) == tool \in View[phase] /\ sound

\* Every tool but the one that reads the registered metrics asks the source.
AsksSource == Tools \ {"resolve_metric"}

PC       == {"idle", "gate", "tool", "source", "answered", "done"}
Outcomes == {"none", "Succeeded", "Failed", "Rejected", "Indeterminate"}
\* low: the cost is Low and known; asks: the tool asks the data source.
Tasks    == [pc : PC, low : BOOLEAN, asks : BOOLEAN, retries : 0 .. MaxRetries,
             outcome : Outcomes]
IdleTask == [pc |-> "idle", low |-> FALSE, asks |-> FALSE, retries |-> 0,
             outcome |-> "none"]
Working(c) == tasks[c].pc \in {"tool", "source", "answered"}

Init ==
    /\ tasks = [c \in Calls |-> IdleTask]
    /\ permits = MaxPermits
    /\ sent = [c \in Calls |-> 0]
    /\ remote = {} /\ unread = {}

(* Mutant of RetryAllowed: whatever did not succeed is tried again.        *)
RetryAny(task, outcome, retryable) ==
    outcome # "Succeeded" /\ task.low /\ task.retries < MaxRetries

\* retry_same_call_allowed: the tools are all idempotent and read only.
RetryAllowed(task, outcome, retryable) ==
    /\ outcome = "Failed" /\ retryable
    /\ task.low /\ task.retries < MaxRetries

\* What execute_prepared does with the outcome of an attempt.
Finished(task, outcome, retryable) ==
    IF RetryAllowed(task, outcome, retryable)
      THEN [task EXCEPT !.pc = "gate", !.retries = @ + 1]
      ELSE [task EXCEPT !.pc = "done", !.outcome = outcome]

Prepare(c) ==
    /\ tasks[c] = IdleTask
    /\ \E phase \in Phases, tool \in Tools, sound, low \in BOOLEAN :
          tasks' = [tasks EXCEPT ![c] =
              IF Admitted(phase, tool, sound)
                THEN [IdleTask EXCEPT !.pc = "gate", !.low = low, !.asks = tool \in AsksSource]
                ELSE [IdleTask EXCEPT !.pc = "done", !.outcome = "Rejected"]]
    /\ UNCHANGED <<permits, sent, remote, unread>>

(* Mutant of PermitsAfter: the permit is dropped as soon as it is got.     *)
PermitsUnheld(n) == n

PermitsAfter(n) == n - 1

TakePermit(c) ==
    /\ tasks[c].pc = "gate" /\ permits > 0
    /\ permits' = PermitsAfter(permits)
    /\ tasks' = [tasks EXCEPT ![c].pc = "tool"]
    /\ UNCHANGED <<sent, remote, unread>>

(* acquire_timeout: nothing was sent, so that a cheap call may try again.  *)
GateTimeout(c) ==
    /\ tasks[c].pc = "gate"
    /\ tasks' = [tasks EXCEPT ![c] = Finished(@, "Failed", @.low)]
    /\ UNCHANGED <<permits, sent, remote, unread>>

(* The query leaves for the data source ...                                *)
Ask(c) ==
    /\ tasks[c].pc = "tool" /\ tasks[c].asks
    /\ tasks' = [tasks EXCEPT ![c].pc = "source"]
    /\ sent' = [sent EXCEPT ![c] = @ + 1]
    /\ remote' = remote \cup {c}
    /\ UNCHANGED <<permits, unread>>

(* ... which answers, or fails it, whether someone still waits or not.     *)
SourceAnswers(c) ==
    /\ c \in remote
    /\ remote' = remote \ {c}
    /\ tasks' = IF tasks[c].pc = "source" THEN [tasks EXCEPT ![c].pc = "answered"] ELSE tasks
    /\ UNCHANGED <<permits, sent, unread>>

\* The attempt of c is over, and its permit dropped.
Ends(c, outcome) ==
    /\ tasks' = [tasks EXCEPT ![c] = Finished(@, outcome, FALSE)]
    /\ permits' = permits + 1

(* The tool refuses the call, or has an answer, which it may fail to store *)
(* and normalize_outcome to accept.                                        *)
ToolReturns(c) ==
    /\ \/ tasks[c].pc = "tool" /\ \E o \in {"Rejected", "Failed"} : Ends(c, o)
       \/ /\ tasks[c].pc = "answered" \/ (tasks[c].pc = "tool" /\ ~tasks[c].asks)
          /\ \E o \in {"Succeeded", "Failed"} : Ends(c, o)
    /\ UNCHANGED <<sent, remote, unread>>

(* A Postgres stream of rows is given up before its end: the connection    *)
(* breaks, or a row has a cell that does not decode.  The tool fails, the  *)
(* backend may run on.                                                     *)
StreamBreaks(c) ==
    /\ tasks[c].pc = "source"
    /\ Ends(c, "Failed")
    /\ unread' = unread \cup {c}
    /\ UNCHANGED <<sent, remote>>

(* Mutant of TimedOut: a timeout is a failure like another.                *)
TimedOutAsFailed == "Failed"

TimedOut == "Indeterminate"

(* The smaller of the timeouts of the tool and of the budget.              *)
ToolTimeout(c) ==
    /\ Working(c)
    /\ Ends(c, TimedOut)
    /\ UNCHANGED <<sent, remote, unread>>

-----------------------------------------------------------------------------
Timeout == \E c \in Calls : GateTimeout(c) \/ ToolTimeout(c)
Next ==
    \/ \E c \in Calls : \/ Prepare(c) \/ TakePermit(c) \/ Ask(c) \/ SourceAnswers(c)
                        \/ ToolReturns(c) \/ StreamBreaks(c)
    \/ Timeout

Spec == Init /\ [][Next]_toolVars /\ WF_toolVars(Timeout)

-----------------------------------------------------------------------------
(* Every variable has the values the code can give it.                     *)
TypeOK ==
    /\ tasks \in [Calls -> Tasks]
    /\ permits \in 0 .. MaxPermits
    /\ sent \in [Calls -> 0 .. MaxRetries + 1]
    /\ remote \subseteq Calls /\ unread \subseteq Calls

(* Retries included, a call asks the data source at most once.             *)
AsksOnce == \A c \in Calls : sent[c] <= 1

(* A call that is said to have failed or been refused has left nothing     *)
(* running at the data source, unless it failed in the middle of its rows. *)
FailedHasStopped ==
    \A c \in Calls : tasks[c].outcome \in {"Failed", "Rejected"} => c \notin remote \ unread

(* Whoever works holds a permit, and every permit comes back.              *)
PermitsHeld == permits + Cardinality({c \in Calls : Working(c)}) = MaxPermits

(* Calls ask once, have stopped if they failed, and give back the permit.  *)
ToolCallsAccounted == AsksOnce /\ FailedHasStopped /\ PermitsHeld

(* A call in progress ends, by a timeout if nothing else.                  *)
InProgress == \E c \in Calls : tasks[c].pc \notin {"idle", "done"}
CallsEnd == InProgress ~> ~InProgress

=============================================================================
