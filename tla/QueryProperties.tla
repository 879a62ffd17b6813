--------------------------- MODULE QueryProperties ---------------------------
(* What makes the answer of a Task trustworthy, as properties of QueryLoop. *)
EXTENDS QueryLoop

(* Every phase has the evidence its actions assume, across retries and     *)
(* restarts: validate_entry looks at a field when a phase is entered, and  *)
(* nothing looks again when a later process or a retry Run continues it.   *)
PhaseEvidence ==
    /\ wf.phase \in {"Clarify", "ClassifyIntent", "ResolveContext", "Plan"} => wf.plan = {}
    /\ wf.phase \in {"ValidateAndPreflight", "Execute"} => wf.plan # {}
    /\ wf.preflight # {} => wf.phase \in {"Execute", "Verify", "Package", "ReadyToComplete"}
    /\ wf.phase = "Execute" => wf.preflight # {}
    /\ wf.result # {} => wf.phase \in {"Verify", "Package", "ReadyToComplete"}
    /\ wf.phase \in {"Verify", "Package", "ReadyToComplete"} =>
          IF wf.intent = "Metadata" THEN wf.schema ELSE wf.result # {}

(* The plan, the preflight and the result a Run presents belong together:  *)
(* the query that ran is the one that was preflighted, for the plan that   *)
(* is presented, as it compiled then, under the scope and the budget it    *)
(* was preflighted for, and all three are Artifacts of one Run, whatever   *)
(* restarts, repairs and retries came in between (query_data).             *)
EvidenceChain ==
    /\ \A preflight \in wf.preflight :
          preflight.plan \in wf.plan /\ preflight.run = preflight.plan.run
    /\ \A result \in wf.result :
          /\ result.preflight \in wf.preflight
          /\ result.plan = result.preflight.plan
          /\ result.run = result.preflight.run
          /\ result.compiled = result.preflight.compiled
          /\ result.ranUnder = result.preflight.policy

(* The two gates agree: a Run the verifier let through to ReadyToComplete  *)
(* is never refused by QueryArtifact::package for want of evidence, also   *)
(* when it is a retry Run that inherited the report.                       *)
CompletionReady == wf.phase = "ReadyToComplete" => Packageable(wf)

(* What the workflow state presents is executed under the contract it      *)
(* resolved, id and version, and is as fresh as the question asks.         *)
GovernedAnswer ==
    /\ wf.intent = "GovernedMetric" =>
          \E contract \in wf.metric, plan \in wf.plan, result \in wf.result :
              /\ result.compiled.about = contract.metric
              /\ result.compiled.version = contract.version
              /\ plan.about = contract.metric /\ result.plan = plan
              /\ question.current => wf.fresh # {} /\ wf.fresh # {"Unknown"}
    /\ wf.intent = "Metadata" => wf.result = {}

(* A Task that succeeded with a governed answer executed the contract, id  *)
(* and version, that the Run resolved and presents, and knows how fresh    *)
(* the data is when the question asks; a metadata answer executed nothing. *)
SucceededIsGoverned == status = "Succeeded" => GovernedAnswer

(* From Verify on nothing replaces the plan or the result a report speaks  *)
(* of: only validation and execution failures lead back to Plan            *)
(* (return_to_plan), whatever the model proposes later.                    *)
VerifiedIsFinal ==
    [][wf.phase \in {"Verify", "Package", "ReadyToComplete"} =>
          /\ wf'.phase \in {"Verify", "Package", "ReadyToComplete"}
          /\ wf'.plan = wf.plan /\ wf'.preflight = wf.preflight
          /\ wf'.result = wf.result /\ wf'.metric = wf.metric]_vars

(* A query whose outcome is unknown and that nobody confirmed is not       *)
(* executed again, not even by a retry Run that inherits the pending call: *)
(* query_data refuses the Artifacts of another Run.                        *)
UnknownNotRepeated == \A result \in wf.result : result.plan \notin unknown

(* A confirmation is held only for the recovered query it was given for,   *)
(* and is spent with it.                                                   *)
GrantForRecoveredCall ==
    wf.granted => wf.recover = {"query_data"} /\ wf.plan \cap unknown = {}

(* docs/PRD.md:481: the answer to a question that asks for current data    *)
(* does not complete while its freshness cannot be confirmed.              *)
CurrentDataIsKnown ==
    status = "Succeeded" /\ question.current /\ wf.result # {} =>
        \E f \in wf.fresh : f # "Unknown"
=============================================================================
