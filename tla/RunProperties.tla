---------------------------- MODULE RunProperties ----------------------------
(***************************************************************************)
(* The properties of RunLifecycle: what the runs check, what the theorems  *)
(* of RunLifecycle_proofs establish, and what the findings refute.         *)
(***************************************************************************)
EXTENDS RunLifecycle

(* Every variable of the model has its type.                               *)
TypeOK ==
    /\ rows \in [Runs -> Snapshots]
    /\ journal \in [Runs -> Seq(Batches)]
    /\ created \in Seq(Runs)
    /\ receipts \in [Cmds -> Receipts]
    /\ reqs \in [Slots -> Requests]
    /\ sched \in [Procs -> SUBSET Runs]
    /\ drv \in [Procs -> [Runs -> Drivers]]
    /\ lastCall \in Nat
    /\ crashes \in 0 .. MaxCrashes

-----------------------------------------------------------------------------
(* The ledger.                                                             *)

(* PRD 19.2: the Events are the truth and the row is a cache of them.      *)
RowIsLastProjection ==
    \A r \in Runs :
        rows[r] = IF journal[r] = <<>> THEN AbsentRun ELSE Projection(journal[r])

(* The versions of the projections count 1, 2, 3, ...: no transaction ever *)
(* built on a snapshot another one had already replaced.                   *)
VersionsContiguous ==
    \A r \in Runs : \A i \in DOMAIN journal[r] : journal[r][i].snap.version = i

(* Whoever appends, in whatever order, every Run's row is the projection   *)
(* of its journal and the journal has no gap and no fork (append, update_  *)
(* snapshot, insert_run, reconstruct).                                     *)
LedgerInv == RowIsLastProjection /\ VersionsContiguous

(* Even when appends land inside reconstruct, a row is some state the Run  *)
(* was really in: replace_snapshot_cache never invents one.                *)
RowWasJournaled ==
    \A r \in Runs : journal[r] # <<>> =>
        \E i \in DOMAIN journal[r] : journal[r][i].snap = rows[r]

-----------------------------------------------------------------------------
(* Tool calls.                                                             *)

(* recovery.rs: a Run has at most one unfinished Tool call; recovery that  *)
(* found two would refuse the Run for good (started_without_terminal).     *)
SingleUnfinishedCall ==
    \A r \in Runs : rows[r].status = "Running" =>
        Cardinality(UnfinishedCalls(journal[r])) <= 1

(* No call is proposed or ended twice in a Run, whatever drivers, answers  *)
(* and recoveries do to it: ExternalFacts would call the history corrupt.  *)
CallEventsOnce ==
    \A r \in Runs : ~Repeated(journal[r], Proposing) /\ ~Repeated(journal[r], Ending)

(* The call h[i] takes from its predecessor's pending_recovery_call.       *)
RecoveredAt(history, i) ==
    /\ i > 1
    /\ history[i - 1].snap.pend # NoCall
    /\ ToolEvent("started", history[i - 1].snap.pend, history[i - 1].snap.cost)
          \in history[i].ev

(* A high-cost call whose outcome became unknown in this Run starts again  *)
(* only when the user has confirmed it (RecoveryManager::apply,            *)
(* answer_clarification, recovered_tool_step).  A call that a retry Run    *)
(* has inherited starts without a confirmation, and query_data refuses it: *)
(* see UnknownNotRepeated in QueryProperties.                              *)
HighCostRetryConfirmed ==
    \A r \in Runs : LET h == journal[r] IN
        \A i \in DOMAIN h :
            /\ RecoveredAt(h, i)
            /\ h[i - 1].snap.cost = "High"
            /\ h[1].snap.pend # h[i - 1].snap.pend
            => h[i - 1].snap.granted

(* While a Run is Running no outcome is left unknown and undecided: it was *)
(* rescheduled under a new call or the user confirmed.  This is why the    *)
(* RetryLowCost and Reconcile branches of apply are out of resume's reach. *)
NoUndecidedWhileRunning ==
    \A r \in Runs : rows[r].status = "Running" => ~UnresolvedUnknown(journal[r])

-----------------------------------------------------------------------------
(* Commands.                                                               *)

Effects(c) ==
    UNION {{<<r, i>> : i \in {i \in DOMAIN journal[r] : journal[r][i].cmd = c}} :
              r \in Runs}

(* A command is applied at most once, under duplicate deliveries, replays, *)
(* crashes and races between deliveries, and a receipt of anything but a   *)
(* resume goes with exactly one effect, on the Run the receipt names.      *)
OneEffectPerCommand ==
    \A c \in Cmds :
        /\ \A x, y \in Effects(c) : x = y
        /\ Effects(c) # {} => \E x \in Effects(c) : receipts[c].run = x[1]
        /\ receipts[c].kind \in {"start", "answer", "cancel"} => Effects(c) # {}

-----------------------------------------------------------------------------
(* The contract the service keeps with its clients.                        *)
Contract == INSTANCE RunContract WITH
    status  <- [r \in Runs |-> rows[r].status],
    retryOf <- [r \in Runs |-> rows[r].retryOf],
    attempt <- [r \in Runs |-> rows[r].attempt],
    receipt <- receipts

(* The runtime implements RunContract: whatever drivers, deliveries and    *)
(* recoveries interleave, an answer or a late step does not revive a Run   *)
(* that has ended, and only a failed Run is retried, under the next number.*)
ImplementsContract == Contract!Spec

-----------------------------------------------------------------------------
(* Liveness.                                                               *)

(* A scheduled Run is released: the loop budget ends every driver, and the *)
(* scheduler forgets the Run so that a later command can schedule it again.*)
ScheduledRunSettles ==
    \A p \in Procs, r \in Runs : r \in sched[p] ~> r \notin sched[p]

(* A Run that is Running does not stay so forever.                         *)
RunningRunStops ==
    \A r \in Runs : rows[r].status = "Running" ~> rows[r].status # "Running"

-----------------------------------------------------------------------------
(* Statements of the documentation that the code does not keep.            *)

(* run.rs, can_transition: no edge leaves Succeeded, Failed or Cancelled.  *)
TerminalIsFinal ==
    [][\A r \in Runs : rows[r].status \in Terminal => rows'[r].status = rows[r].status]_vars

(* README: the Run resumes between durable steps, so recovery can always   *)
(* read the history of a Running Run.                                      *)
RecoverableHistory ==
    \A r \in Runs : rows[r].status = "Running" =>
        Projectable(journal[r]) /\ FactsValid(journal[r])
=============================================================================
