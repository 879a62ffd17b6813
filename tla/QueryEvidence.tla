---------------------------- MODULE QueryEvidence ----------------------------
(* The data of the Query Workflow: the evidence Artifacts a Run gathers,   *)
(* the QueryWorkflowState that refers to them, the transitions between its *)
(* phases, the checks of QueryVerifier and the gate of                     *)
(* QueryArtifact::package.  An optional field is a set of at most one      *)
(* element.  An Artifact is the facts later steps compare; two Artifacts   *)
(* that agree on all of them are not told apart.                           *)
EXTENDS Naturals

CONSTANTS
    Metrics,    \* ids of the metrics the registry defines
    AdHoc,      \* what a plan without a metric is about
    Versions,   \* versions of a metric contract
    NoVersion,  \* the metric_version of an AdHoc query
    Bodies,     \* what else a plan fixes: its time range, or its SQL text
    Policies    \* configurations of data scope and query budget

ASSUME SubjectsAssumption == AdHoc \notin Metrics /\ NoVersion \notin Versions

Option(S) == {o \in SUBSET S : \A x, y \in o : x = y}

QueryPhase == {"Clarify", "ClassifyIntent", "ResolveContext", "Plan",
               "ValidateAndPreflight", "Execute", "Verify", "Package",
               "ReadyToComplete"}
QueryIntent == {"AdHocRead", "GovernedMetric", "Metadata"}
Tools == {"resolve_metric", "inspect_schema", "query_data", "read_freshness"}
FreshnessState == {"Fresh", "Stale", "Unknown"}

Contracts == [metric : Metrics, version : Versions]
Plans == [run : Nat, about : Metrics \cup {AdHoc}, body : Bodies]
CompiledQueries == [about : Metrics \cup {AdHoc}, version : Versions \cup {NoVersion},
                    body : Bodies]
Preflights == [run : Nat, plan : Plans, compiled : CompiledQueries,
               policy : Policies, confirm : BOOLEAN]
(* ranUnder is not stored: the policy the query really ran under.          *)
Results == [run : Nat, plan : Plans, preflight : Preflights,
            compiled : CompiledQueries, ranUnder : Policies]

WorkflowStates ==
    [phase     : QueryPhase,
     intent    : QueryIntent \cup {"None"},
     metric    : Option(Contracts),
     schema    : BOOLEAN,
     fresh     : Option(FreshnessState),
     plan      : Option(Plans),
     preflight : Option(Preflights),
     result    : Option(Results),
     report    : Option({"clean", "hard"}),
     allowed   : BOOLEAN,
     answered  : BOOLEAN,
     pending   : {"none", "time", "model", "confirm"},
     recover   : Option(Tools),
     granted   : BOOLEAN]

NewWorkflowState ==
    [phase |-> "Clarify", intent |-> "None", metric |-> {}, schema |-> FALSE,
     fresh |-> {}, plan |-> {}, preflight |-> {}, result |-> {}, report |-> {},
     allowed |-> FALSE, answered |-> FALSE, pending |-> "none", recover |-> {},
     granted |-> FALSE]

-----------------------------------------------------------------------------
(* Phases.                                                                 *)

(* legal_transition.                                                       *)
LegalTransition(wf, next) ==
    \/ <<wf.phase, next>> \in
          {<<"Clarify", "ClassifyIntent">>, <<"ClassifyIntent", "ResolveContext">>,
           <<"ResolveContext", "Plan">>, <<"Plan", "ValidateAndPreflight">>,
           <<"ValidateAndPreflight", "Execute">>, <<"Execute", "Verify">>,
           <<"Verify", "Package">>, <<"Package", "ReadyToComplete">>}
    \/ <<wf.phase, next>> = <<"ResolveContext", "Verify">> /\ wf.intent = "Metadata"

(* validate_entry.                                                         *)
EntryAllowed(wf, next) ==
    CASE next \in {"Clarify", "ClassifyIntent"} -> TRUE
      [] next = "ResolveContext" -> wf.intent # "None"
      [] next = "Plan" -> \/ wf.intent = "GovernedMetric" /\ wf.metric # {}
                          \/ wf.intent = "AdHocRead" /\ wf.schema
      [] next = "ValidateAndPreflight" -> wf.plan # {}
      [] next = "Execute" -> wf.preflight # {}
      [] next = "Verify" -> \/ wf.intent = "Metadata" /\ wf.schema
                            \/ wf.intent \in {"GovernedMetric", "AdHocRead"} /\ wf.result # {}
      [] next \in {"Package", "ReadyToComplete"} -> wf.report # {}

CanMove(wf, next) == LegalTransition(wf, next) /\ EntryAllowed(wf, next)

At(wf, next) == [wf EXCEPT !.phase = next]

(* Mutants: a repair from any phase; one that forgets the plan only.       *)
CanAlwaysReturnToPlan(wf) == TRUE
ReturnKeepingPreflight(wf) == [wf EXCEPT !.phase = "Plan", !.plan = {}]

(* return_to_plan, which forgets what the abandoned plan led to.           *)
CanReturnToPlan(wf) == wf.phase \in {"ValidateAndPreflight", "Execute"}
ReturnToPlan(wf) ==
    [wf EXCEPT !.phase = "Plan", !.plan = {}, !.preflight = {}, !.result = {},
               !.report = {}]

-----------------------------------------------------------------------------
(* Deciding on a question and a plan.                                      *)

(* classify_intent; the registry may still turn it into GovernedMetric.    *)
ClassifiedIntent(question) == IF question.metadata THEN "Metadata" ELSE "AdHocRead"

NeedsClarification(wf, question) == question.ambiguous /\ ~wf.answered

(* The phases in which QueryWorkflow::next asks the model.                 *)
AsksModel(wf) ==
    \/ wf.phase \in {"ResolveContext", "Plan", "ValidateAndPreflight", "Execute",
                     "ReadyToComplete"}
    \/ wf.phase = "Verify" /\ wf.intent = "GovernedMetric" /\ wf.fresh = {}

(* validate_action: the tools a phase admits.                              *)
ToolAllowed(wf, tool) ==
    \/ wf.phase = "ResolveContext" /\ tool \in {"resolve_metric", "inspect_schema"}
    \/ wf.phase \in {"ValidateAndPreflight", "Execute"} /\ tool = "query_data"
    \/ wf.phase = "Verify" /\ tool = "read_freshness"

(* validate_action: the plan's kind is that of the intent.                 *)
PlanFitsIntent(wf, plan) ==
    IF plan.about = AdHoc THEN wf.intent = "AdHocRead" ELSE wf.intent = "GovernedMetric"

-----------------------------------------------------------------------------
(* query_data.                                                             *)

(* Mutant: a contract that is not Active compiles too.                     *)
CompiledInactive(plan, registry) ==
    {[about |-> plan.about, body |-> plan.body,
      version |-> IF plan.about = AdHoc THEN NoVersion
                  ELSE IF registry[plan.about] = {} THEN "inactive"
                  ELSE CHOOSE v \in registry[plan.about] : TRUE]}

(* compile_plan: a metric compiles under its Active contract, if it has    *)
(* one; AdHoc SQL is taken as it is.                                       *)
Compiled(plan, registry) ==
    IF plan.about = AdHoc
    THEN {[about |-> AdHoc, version |-> NoVersion, body |-> plan.body]}
    ELSE {[about |-> plan.about, version |-> v, body |-> plan.body] :
              v \in registry[plan.about]}

(* Mutant: query_data reads any Artifact of the Task.                      *)
OfTask(artifact, run) == artifact.run <= run

(* verify_artifact_identity: query_data reads only Artifacts of its Run.   *)
OfRun(artifact, run) == artifact.run = run

(* Mutant: the configuration is not compared.                              *)
PolicyNotCompared(preflight, plan, registry, policy) ==
    preflight.plan = plan /\ preflight.compiled \in Compiled(plan, registry)

(* execute_action: the preflight is about this plan, this configuration    *)
(* and what the plan compiles to now.                                      *)
StillPreflighted(preflight, plan, registry, policy) ==
    /\ preflight.plan = plan
    /\ preflight.policy = policy
    /\ preflight.compiled \in Compiled(plan, registry)

(* execute_action: a preflight that asks for a confirmation runs with one. *)
CostAccepted(preflight, granted) == preflight.confirm => granted

-----------------------------------------------------------------------------
(* QueryVerifier and the completion gate.                                  *)

CommonChecks(wf, policy) ==
    \/ wf.intent = "Metadata" /\ (wf.result # {} \/ wf.schema)
    \/ /\ wf.allowed
       /\ \E p \in wf.preflight : p.policy = policy
       /\ wf.result # {}

(* Mutant: the version of the contract is not compared.                    *)
MetricIdChecks(wf, question) ==
    /\ \E plan \in wf.plan, contract \in wf.metric, result \in wf.result :
          /\ plan.about # AdHoc
          /\ result.compiled.body = plan.body
          /\ result.compiled.about = contract.metric
    /\ \E f \in wf.fresh : question.current => f # "Unknown"

(* verify_metric: the range requested is the one compiled, the contract    *)
(* resolved is the one compiled, freshness was read.                       *)
MetricChecks(wf, question) ==
    /\ \E plan \in wf.plan, contract \in wf.metric, result \in wf.result :
          /\ plan.about # AdHoc
          /\ result.compiled.body = plan.body
          /\ result.compiled.about = contract.metric
          /\ result.compiled.version = contract.version
    /\ \E f \in wf.fresh : question.current => f # "Unknown"

(* verify_adhoc: assumptions are cited by every AdHoc plan.                *)
AdHocChecks(wf) ==
    /\ \E plan \in wf.plan : plan.about = AdHoc
    /\ wf.preflight # {}
    /\ \E result \in wf.result : result.compiled.about = AdHoc

(* verify_metadata: something was observed and nothing was executed.       *)
MetadataChecks(wf) == (wf.schema \/ wf.fresh # {}) /\ wf.result = {}

(* The report has no hard failure.                                         *)
Verified(wf, question, policy) ==
    /\ CommonChecks(wf, policy)
    /\ wf.intent = "GovernedMetric" => MetricChecks(wf, question)
    /\ wf.intent = "AdHocRead" => AdHocChecks(wf)
    /\ wf.intent = "Metadata" => MetadataChecks(wf)

(* complete and QueryArtifact::package, as to the evidence they need.      *)
Packageable(wf) ==
    /\ wf.report = {"clean"}
    /\ wf.intent = "GovernedMetric" =>
          /\ wf.metric # {} /\ wf.fresh # {}
          /\ \E result \in wf.result : result.compiled.about # AdHoc
    /\ wf.intent = "AdHocRead" =>
          \E result \in wf.result : result.compiled.about = AdHoc
    /\ wf.intent = "Metadata" => wf.result = {}

-----------------------------------------------------------------------------
(* Recovered calls and retry Runs.                                         *)

(* Mutant: the confirmation is kept.                                       *)
TakeKeepingGrant(wf) == [wf EXCEPT !.recover = {}]

(* recovered_tool_step: the call and its confirmation are used once.       *)
TakeRecovered(wf) == [wf EXCEPT !.recover = {}, !.granted = FALSE]

(* Mutant: a retry Run starts without the results of the failed one.       *)
InheritedWithoutResult(wf) == [wf EXCEPT !.result = {}]

(* A retry Run starts from its predecessor's workflow_state.               *)
InheritedState(wf) == wf
=============================================================================
