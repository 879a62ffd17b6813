------------------------------ MODULE QueryLoop ------------------------------
(* The Query Workflow of one Task, driven by the Harness: the question is  *)
(* clarified and classified, the model chooses tools and a plan, tools     *)
(* gather evidence, the verifier and the completion gate decide.  Failed   *)
(* Runs are retried by Runs that inherit their state, processes end with a *)
(* tool call open, and a restart may find another metric registry or       *)
(* another configuration.  One action is one commit of the Run; what the   *)
(* store does with commits that race is the subject of RunLifecycle.       *)
EXTENDS QueryEvidence

CONSTANT MaxRuns   \* bound on the Runs of the Task

ASSUME MaxRunsAssumption == MaxRuns \in Nat \ {0}

VARIABLES
    question,   \* what Rust reads out of the Task's goal
    registry,   \* [Metrics -> the Active version, if there is one]
    policy,     \* data scope and query budget of the process
    run,        \* the attempt number of the Task's latest Run
    status,     \* its status
    wf,         \* its workflow_state
    call,       \* its started ToolCall without outcome, if there is one
    live,       \* a driver works on it
    unknown     \* plans whose query may have run, unknown to the Task: the
                \* calls marked indeterminate and not yet confirmed

vars == <<question, registry, policy, run, status, wf, call, live, unknown>>
world == <<question, registry, policy>>

Questions == [ambiguous : BOOLEAN, metadata : BOOLEAN, current : BOOLEAN]
Registries == [Metrics -> Option(Versions)]
RunStatus == {"Running", "WaitingForInput", "Succeeded", "Failed"}
Calls == [tool : Tools, granted : BOOLEAN]

TypeOK ==
    /\ question \in Questions
    /\ registry \in Registries
    /\ policy \in Policies
    /\ run \in 1 .. MaxRuns
    /\ status \in RunStatus
    /\ wf \in WorkflowStates
    /\ call \in Option(Calls)
    /\ live \in BOOLEAN
    /\ unknown \subseteq Plans

Init ==
    /\ question \in Questions
    /\ registry \in Registries
    /\ policy \in Policies
    /\ run = 1
    /\ status = "Running"
    /\ wf = NewWorkflowState
    /\ call = {}
    /\ live = TRUE
    /\ unknown = {}

-----------------------------------------------------------------------------
(* Steps of Harness::step without a tool.                                  *)

(* The driver is between two steps, and no recovered call comes first.     *)
Stepping == live /\ status = "Running" /\ call = {} /\ wf.recover = {}

(* The step commits a state and the Run goes on.                           *)
Continue(next) == wf' = next /\ UNCHANGED <<world, run, status, call, live, unknown>>

(* wait: the Run waits for an answer and its driver returns.               *)
WaitFor(next, kind) ==
    /\ wf' = [next EXCEPT !.pending = kind]
    /\ status' = "WaitingForInput"
    /\ live' = FALSE

Clarify ==
    /\ Stepping /\ wf.phase = "Clarify"
    /\ NeedsClarification(wf, question)
    /\ WaitFor(wf, "time")
    /\ UNCHANGED <<world, run, call, unknown>>

(* advance: out of Clarify, and out of Package.                            *)
Advance ==
    /\ Stepping
    /\ \E next \in {"ClassifyIntent", "ReadyToComplete"} :
          /\ CanMove(wf, next)
          /\ next = "ClassifyIntent" => ~NeedsClarification(wf, question)
          /\ Continue(At(wf, next))

Classify ==
    LET classified == [wf EXCEPT !.intent = ClassifiedIntent(question)] IN
    /\ Stepping /\ wf.phase = "ClassifyIntent"
    /\ CanMove(classified, "ResolveContext")
    /\ Continue(At(classified, "ResolveContext"))

(* RequestClarification is open to the model wherever it is asked.         *)
ModelClarifies ==
    /\ Stepping /\ AsksModel(wf)
    /\ WaitFor(wf, "model")
    /\ UNCHANGED <<world, run, call, unknown>>

(* persist_plan.                                                           *)
ProposePlan ==
    /\ Stepping /\ wf.phase = "Plan"
    /\ \E about \in Metrics \cup {AdHoc}, body \in Bodies :
          LET plan == [run |-> run, about |-> about, body |-> body]
              planned == [wf EXCEPT !.plan = {plan}] IN
          /\ PlanFitsIntent(wf, plan)
          /\ CanMove(planned, "ValidateAndPreflight")
          /\ Continue(At(planned, "ValidateAndPreflight"))

(* A plan proposed out of phase, or a call the Tool Runtime rejects before *)
(* it starts, is repaired by a new plan.                                   *)
RepairToPlan ==
    /\ Stepping /\ AsksModel(wf)
    /\ CanReturnToPlan(wf)
    /\ Continue(ReturnToPlan(wf))

(* verify: the report is written whatever it says.                         *)
VerifyPasses ==
    LET reported == [wf EXCEPT !.report = {"clean"}] IN
    /\ Stepping /\ wf.phase = "Verify" /\ ~AsksModel(wf)
    /\ Verified(wf, question, policy)
    /\ CanMove(reported, "Package")
    /\ Continue(At(reported, "Package"))

(* A check of Verified fails, or one on what the model leaves out: the     *)
(* source, the permission, the shape of the rows, retention metadata.      *)
VerifyFails ==
    /\ Stepping /\ wf.phase = "Verify" /\ ~AsksModel(wf)
    /\ wf' = [wf EXCEPT !.report = {"hard"}]
    /\ status' = "Failed"
    /\ live' = FALSE
    /\ UNCHANGED <<world, run, call, unknown>>

Complete ==
    /\ Stepping /\ wf.phase = "ReadyToComplete"
    /\ Packageable(wf)
    /\ status' = "Succeeded"
    /\ live' = FALSE
    /\ UNCHANGED <<world, run, wf, call, unknown>>

(* fail_terminal, on the stored state: after any error of a step, a budget *)
(* or the deadline, and also by a driver that outlived the Run's pause.    *)
FailTerminal ==
    /\ status \in {"Running", "WaitingForInput"}
    /\ status' = "Failed"
    /\ live' = FALSE
    /\ call' = {}
    /\ UNCHANGED <<world, run, wf, unknown>>

-----------------------------------------------------------------------------
(* Tool calls: ToolExecutionStarted is committed, then the outcome.        *)

(* run_tool.                                                               *)
StartTool ==
    /\ Stepping /\ AsksModel(wf)
    /\ \E tool \in Tools :
          /\ ToolAllowed(wf, tool)
          /\ call' = {[tool |-> tool, granted |-> FALSE]}
    /\ UNCHANGED <<world, run, status, wf, live, unknown>>

(* run_recovered_tool: before anything else the step would do.             *)
StartRecoveredTool ==
    /\ live /\ status = "Running" /\ call = {}
    /\ \E tool \in wf.recover :
          call' = {[tool |-> tool, granted |-> wf.granted]}
    /\ wf' = TakeRecovered(wf)
    /\ UNCHANGED <<world, run, status, live, unknown>>

(* The outcome of the open call is committed.                              *)
Outcome(tool, next) ==
    /\ live /\ status = "Running"
    /\ \E c \in call : c.tool = tool
    /\ call' = {}
    /\ wf' = next
    /\ UNCHANGED <<world, run, status, live, unknown>>

MetricResolved ==
    \E m \in Metrics : \E v \in registry[m] :
        LET resolved == [wf EXCEPT !.intent = "GovernedMetric",
                                   !.metric = {[metric |-> m, version |-> v]}] IN
        /\ CanMove(resolved, "Plan")
        /\ Outcome("resolve_metric", At(resolved, "Plan"))

SchemaInspected ==
    LET inspected == [wf EXCEPT !.schema = TRUE]
        next == IF wf.intent = "Metadata" THEN "Verify" ELSE "Plan" IN
    /\ wf.phase = "ResolveContext" /\ wf.intent \in {"AdHocRead", "Metadata"}
    /\ CanMove(inspected, next)
    /\ Outcome("inspect_schema", At(inspected, next))

(* preflight_action on the plan shown to the model.                        *)
Preflighted ==
    /\ wf.phase = "ValidateAndPreflight"
    /\ \E plan \in wf.plan, confirm \in BOOLEAN :
          /\ OfRun(plan, run)
          /\ \E compiled \in Compiled(plan, registry) :
                LET preflight == [run |-> run, plan |-> plan, compiled |-> compiled,
                                  policy |-> policy, confirm |-> confirm]
                    done == [wf EXCEPT !.preflight = {preflight}, !.allowed = TRUE] IN
                /\ CanMove(done, "Execute")
                /\ Outcome("query_data", At(done, "Execute"))

(* execute_action on the plan and the preflight shown to the model.        *)
Executed ==
    /\ wf.phase = "Execute"
    /\ \E plan \in wf.plan, preflight \in wf.preflight, c \in call :
          /\ OfRun(plan, run) /\ OfRun(preflight, run)
          /\ StillPreflighted(preflight, plan, registry, policy)
          /\ CostAccepted(preflight, c.granted)
          /\ \E compiled \in Compiled(plan, registry) :
                LET result == [run |-> run, plan |-> plan, preflight |-> preflight,
                               compiled |-> compiled, ranUnder |-> policy]
                    done == [wf EXCEPT !.result = {result}] IN
                /\ CanMove(done, "Verify")
                /\ Outcome("query_data", At(done, "Verify"))

FreshnessRead ==
    /\ wf.phase = "Verify"
    /\ \E f \in FreshnessState :
          Outcome("read_freshness", [wf EXCEPT !.fresh = {f}])

(* apply_tool_outcome, for a failure whose parameters may be revised.      *)
ToolRepairable ==
    \E tool \in Tools :
        \/ wf.phase = "ResolveContext" /\ Outcome(tool, wf)
        \/ CanReturnToPlan(wf) /\ Outcome(tool, ReturnToPlan(wf))

-----------------------------------------------------------------------------
(* Commands and processes.                                                 *)

(* answer_clarification; only an explicit yes settles a confirmation.      *)
Answer ==
    /\ status = "WaitingForInput"
    /\ wf' = [wf EXCEPT !.pending = "none",
                        !.answered = wf.answered \/ wf.pending = "time",
                        !.granted = wf.granted \/ wf.pending = "confirm"]
    /\ unknown' = IF wf.pending = "confirm" THEN unknown \ wf.plan ELSE unknown
    /\ status' = "Running"
    /\ live' = TRUE
    /\ UNCHANGED <<world, run, call>>

(* resume_task after the process ended: the open call is rescheduled if it *)
(* is cheap, and asked about if it may have executed the query.            *)
Resume ==
    /\ status = "Running" /\ ~live
    /\ \/ /\ call = {}
          /\ live' = TRUE
          /\ UNCHANGED <<status, wf, unknown>>
       \/ \E c \in call :
             IF wf.phase = "Execute"
             THEN /\ WaitFor([wf EXCEPT !.recover = {c.tool}], "confirm")
                  /\ unknown' = unknown \cup wf.plan
             ELSE /\ wf' = [wf EXCEPT !.recover = {c.tool}]
                  /\ live' = TRUE
                  /\ UNCHANGED <<status, unknown>>
    /\ call' = {}
    /\ UNCHANGED <<world, run>>

(* resume_task of a Failed Run.                                            *)
Retry ==
    /\ status = "Failed" /\ run < MaxRuns
    /\ run' = run + 1
    /\ status' = "Running"
    /\ wf' = InheritedState(wf)
    /\ live' = TRUE
    /\ UNCHANGED <<world, call, unknown>>

(* The process ends and another one starts, with the registry and the      *)
(* configuration it finds.                                                 *)
Restart ==
    /\ live' = FALSE
    /\ registry' \in Registries
    /\ policy' \in Policies
    /\ UNCHANGED <<question, run, status, wf, call, unknown>>

Next ==
    \/ Clarify \/ Advance \/ Classify \/ ModelClarifies \/ ProposePlan
    \/ RepairToPlan \/ VerifyPasses \/ VerifyFails \/ Complete \/ FailTerminal
    \/ StartTool \/ StartRecoveredTool
    \/ MetricResolved \/ SchemaInspected \/ Preflighted \/ Executed
    \/ FreshnessRead \/ ToolRepairable
    \/ Answer \/ Resume \/ Retry \/ Restart

Spec == Init /\ [][Next]_vars
=============================================================================
