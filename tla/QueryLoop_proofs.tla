--------------------------- MODULE QueryLoop_proofs ---------------------------
(* Proofs about QueryLoop, for any metrics, versions, plans, policies and  *)
(* number of Runs: its type invariant; that the evidence of the Task       *)
(* belongs together in every phase and suffices to package; that no query  *)
(* of unknown outcome is repeated, and a confirmation is spent on the call *)
(* it was given for; that an answer is governed by the contract its Run    *)
(* resolved; and that from Verify on nothing replaces what was verified.   *)
EXTENDS QueryProperties, TLAPS

(* Optional values.                                                        *)
LEMMA OptionFacts ==
    ASSUME NEW S
    PROVE  /\ {} \in Option(S)
           /\ \A x \in S : {x} \in Option(S)
           /\ \A o \in Option(S) : \A x \in o : x \in S
BY DEF Option

(* The updates of the workflow state the actions make keep its type.       *)
LEMMA PhaseType ==
    ASSUME NEW w \in WorkflowStates, NEW next \in QueryPhase
    PROVE  At(w, next) \in WorkflowStates
BY DEF At, WorkflowStates

LEMMA ReturnToPlanType ==
    ASSUME NEW w \in WorkflowStates
    PROVE  ReturnToPlan(w) \in WorkflowStates
<1>1. /\ {} \in Option(Plans) /\ {} \in Option(Preflights) /\ {} \in Option(Results)
      /\ {} \in Option({"clean", "hard"})
  BY OptionFacts
<1>2. "Plan" \in QueryPhase
  BY DEF QueryPhase
<1>3. QED
  BY <1>1, <1>2 DEF ReturnToPlan, WorkflowStates

LEMMA RecoverType ==
    ASSUME NEW w \in WorkflowStates, NEW tool \in Tools
    PROVE  /\ [w EXCEPT !.recover = {tool}] \in WorkflowStates
           /\ TakeRecovered(w) \in WorkflowStates
<1>1. {tool} \in Option(Tools) /\ {} \in Option(Tools)
  BY OptionFacts
<1>2. QED
  BY <1>1 DEF TakeRecovered, WorkflowStates

LEMMA PendingType ==
    ASSUME NEW w \in WorkflowStates, NEW kind \in {"none", "time", "model", "confirm"}
    PROVE  [w EXCEPT !.pending = kind] \in WorkflowStates
BY DEF WorkflowStates

LEMMA EvidenceTypes ==
    ASSUME NEW w \in WorkflowStates
    PROVE  /\ \A i \in QueryIntent : [w EXCEPT !.intent = i] \in WorkflowStates
           /\ [w EXCEPT !.schema = TRUE] \in WorkflowStates
           /\ \A p \in Plans : [w EXCEPT !.plan = {p}] \in WorkflowStates
           /\ \A p \in Preflights :
                 [w EXCEPT !.preflight = {p}, !.allowed = TRUE] \in WorkflowStates
           /\ \A r \in Results : [w EXCEPT !.result = {r}] \in WorkflowStates
           /\ \A f \in FreshnessState : [w EXCEPT !.fresh = {f}] \in WorkflowStates
           /\ \A r \in {"clean", "hard"} : [w EXCEPT !.report = {r}] \in WorkflowStates
<1>1. \A i \in QueryIntent : [w EXCEPT !.intent = i] \in WorkflowStates
  BY DEF WorkflowStates
<1>2. [w EXCEPT !.schema = TRUE] \in WorkflowStates
  BY DEF WorkflowStates
<1>3. ASSUME NEW p \in Plans PROVE [w EXCEPT !.plan = {p}] \in WorkflowStates
  <2>1. {p} \in Option(Plans) BY OptionFacts
  <2>2. QED BY <2>1 DEF WorkflowStates
<1>4. ASSUME NEW p \in Preflights
      PROVE  [w EXCEPT !.preflight = {p}, !.allowed = TRUE] \in WorkflowStates
  <2>1. {p} \in Option(Preflights) BY OptionFacts
  <2>2. QED BY <2>1 DEF WorkflowStates
<1>5. ASSUME NEW r \in Results PROVE [w EXCEPT !.result = {r}] \in WorkflowStates
  <2>1. {r} \in Option(Results) BY OptionFacts
  <2>2. QED BY <2>1 DEF WorkflowStates
<1>6. ASSUME NEW f \in FreshnessState PROVE [w EXCEPT !.fresh = {f}] \in WorkflowStates
  <2>1. {f} \in Option(FreshnessState) BY OptionFacts
  <2>2. QED BY <2>1 DEF WorkflowStates
<1>7. ASSUME NEW r \in {"clean", "hard"} PROVE [w EXCEPT !.report = {r}] \in WorkflowStates
  <2>1. {r} \in Option({"clean", "hard"}) BY OptionFacts
  <2>2. QED BY <2>1 DEF WorkflowStates
<1>8. QED
  BY <1>1, <1>2, <1>3, <1>4, <1>5, <1>6, <1>7

LEMMA ResolvedType ==
    ASSUME NEW w \in WorkflowStates, NEW c \in Contracts
    PROVE  [w EXCEPT !.intent = "GovernedMetric", !.metric = {c}] \in WorkflowStates
<1>1. {c} \in Option(Contracts)
  BY OptionFacts
<1>2. QED
  BY <1>1 DEF WorkflowStates, QueryIntent

(* What compiles is a compiled query.                                      *)
LEMMA CompiledType ==
    ASSUME NEW plan \in Plans, NEW reg \in Registries
    PROVE  Compiled(plan, reg) \subseteq CompiledQueries
<1>1. CASE plan.about = AdHoc
  BY <1>1 DEF Compiled, CompiledQueries, Plans
<1>2. CASE plan.about # AdHoc
  <2>1. plan.about \in Metrics /\ plan.body \in Bodies
    BY <1>2 DEF Plans
  <2>2. \A v \in reg[plan.about] : v \in Versions
    BY <2>1, OptionFacts DEF Registries
  <2>3. QED
    BY <1>2, <2>1, <2>2 DEF Compiled, CompiledQueries
<1>3. QED
  BY <1>1, <1>2

-----------------------------------------------------------------------------
(* The type invariant.                                                     *)

LEMMA InitTypeOK == Init => TypeOK
<1> SUFFICES ASSUME Init PROVE TypeOK
  OBVIOUS
<1>1. NewWorkflowState \in WorkflowStates
  <2>1. /\ {} \in Option(Contracts) /\ {} \in Option(FreshnessState)
        /\ {} \in Option(Plans) /\ {} \in Option(Preflights) /\ {} \in Option(Results)
        /\ {} \in Option({"clean", "hard"}) /\ {} \in Option(Tools)
    BY OptionFacts
  <2>2. "Clarify" \in QueryPhase
    BY DEF QueryPhase
  <2>3. QED
    BY <2>1, <2>2 DEF NewWorkflowState, WorkflowStates
<1>2. {} \in Option(Calls)
  BY OptionFacts
<1>3. 1 \in 1 .. MaxRuns
  BY MaxRunsAssumption
<1>4. QED
  BY <1>1, <1>2, <1>3 DEF Init, TypeOK, RunStatus

LEMMA NextTypeOK == TypeOK /\ [Next]_vars => TypeOK'
<1> SUFFICES ASSUME TypeOK, [Next]_vars PROVE TypeOK'
  OBVIOUS
<1> USE DEF TypeOK
<1>1. {} \in Option(Calls)
  BY OptionFacts
<1>2. CASE Clarify \/ ModelClarifies
  <2>1. "time" \in {"none", "time", "model", "confirm"}
        /\ "model" \in {"none", "time", "model", "confirm"}
    OBVIOUS
  <2>2. QED
    BY <1>2, <2>1, PendingType DEF Clarify, ModelClarifies, WaitFor, world, RunStatus
<1>3. CASE Advance
  BY <1>3, PhaseType DEF Advance, Continue, world, QueryPhase
<1>4. CASE Classify
  <2> DEFINE classified == [wf EXCEPT !.intent = ClassifiedIntent(question)]
  <2>1. ClassifiedIntent(question) \in QueryIntent /\ "ResolveContext" \in QueryPhase
    BY DEF ClassifiedIntent, QueryIntent, QueryPhase
  <2>2. classified \in WorkflowStates
    BY <2>1, EvidenceTypes
  <2>3. wf' = At(classified, "ResolveContext") /\ UNCHANGED <<world, run, status, call, live, unknown>>
    BY <1>4 DEF Classify, Continue
  <2> HIDE DEF classified
  <2>4. QED
    BY <2>1, <2>2, <2>3, PhaseType DEF world
<1>5. CASE ProposePlan
  <2>1. PICK about \in Metrics \cup {AdHoc}, body \in Bodies :
          wf' = At([wf EXCEPT !.plan = {[run |-> run, about |-> about, body |-> body]}],
                   "ValidateAndPreflight")
    BY <1>5 DEF ProposePlan, Continue
  <2> DEFINE plan == [run |-> run, about |-> about, body |-> body]
             planned == [wf EXCEPT !.plan = {plan}]
  <2>2. plan \in Plans
    BY MaxRunsAssumption DEF Plans
  <2>3. planned \in WorkflowStates
    <3> HIDE DEF plan
    <3>1. QED BY <2>2, EvidenceTypes
  <2>4. wf' = At(planned, "ValidateAndPreflight") /\ "ValidateAndPreflight" \in QueryPhase
    BY <2>1 DEF QueryPhase
  <2>5. UNCHANGED <<world, run, status, call, live, unknown>>
    BY <1>5 DEF ProposePlan, Continue
  <2> HIDE DEF planned
  <2>6. QED
    BY <2>3, <2>4, <2>5, PhaseType DEF world
<1>6. CASE RepairToPlan
  BY <1>6, ReturnToPlanType DEF RepairToPlan, Continue, world
<1>7. CASE VerifyPasses
  <2> DEFINE reported == [wf EXCEPT !.report = {"clean"}]
  <2>1. reported \in WorkflowStates
    BY EvidenceTypes
  <2>2. /\ wf' = At(reported, "Package") /\ "Package" \in QueryPhase
        /\ UNCHANGED <<world, run, status, call, live, unknown>>
    BY <1>7 DEF VerifyPasses, Continue, QueryPhase
  <2> HIDE DEF reported
  <2>3. QED
    BY <2>1, <2>2, PhaseType DEF world
<1>8. CASE VerifyFails
  BY <1>8, EvidenceTypes DEF VerifyFails, world, RunStatus
<1>9. CASE Complete \/ FailTerminal
  BY <1>1, <1>9 DEF Complete, FailTerminal, world, RunStatus
<1>10. CASE StartTool
  <2>1. PICK tool \in Tools : call' = {[tool |-> tool, granted |-> FALSE]}
    BY <1>10 DEF StartTool
  <2>2. [tool |-> tool, granted |-> FALSE] \in Calls
    BY DEF Calls
  <2>3. call' \in Option(Calls)
    BY <2>1, <2>2, OptionFacts
  <2>4. QED
    BY <1>10, <2>3 DEF StartTool, world
<1>11. CASE StartRecoveredTool
  <2>1. PICK tool \in wf.recover : call' = {[tool |-> tool, granted |-> wf.granted]}
    BY <1>11 DEF StartRecoveredTool
  <2>2. wf.recover \in Option(Tools) /\ wf.granted \in BOOLEAN
    BY DEF WorkflowStates
  <2>3. tool \in Tools
    BY <2>1, <2>2, OptionFacts
  <2>4. [tool |-> tool, granted |-> wf.granted] \in Calls
    BY <2>2, <2>3 DEF Calls
  <2>5. call' \in Option(Calls)
    BY <2>1, <2>4, OptionFacts
  <2>6. wf' \in WorkflowStates
    BY <1>11, <2>3, RecoverType DEF StartRecoveredTool
  <2>7. QED
    BY <1>11, <2>5, <2>6 DEF StartRecoveredTool, world
<1>12. ASSUME NEW tool, NEW next \in WorkflowStates, Outcome(tool, next)
       PROVE  TypeOK'
  BY <1>1, <1>12 DEF Outcome, world
<1>13. CASE MetricResolved
  <2>1. PICK m \in Metrics : \E v \in registry[m] :
          Outcome("resolve_metric",
                  At([wf EXCEPT !.intent = "GovernedMetric",
                                !.metric = {[metric |-> m, version |-> v]}], "Plan"))
    BY <1>13 DEF MetricResolved
  <2>2. PICK v \in registry[m] :
          Outcome("resolve_metric",
                  At([wf EXCEPT !.intent = "GovernedMetric",
                                !.metric = {[metric |-> m, version |-> v]}], "Plan"))
    BY <2>1
  <2> DEFINE contract == [metric |-> m, version |-> v]
             resolved == [wf EXCEPT !.intent = "GovernedMetric", !.metric = {contract}]
  <2>3. v \in Versions
    BY <2>1, <2>2, OptionFacts DEF Registries
  <2>4. contract \in Contracts
    BY <2>3 DEF Contracts
  <2>5. resolved \in WorkflowStates
    <3> HIDE DEF contract
    <3>1. QED BY <2>4, ResolvedType
  <2>6. Outcome("resolve_metric", At(resolved, "Plan"))
    BY <2>2
  <2> HIDE DEF resolved
  <2>7. At(resolved, "Plan") \in WorkflowStates
    BY <2>5, PhaseType DEF QueryPhase
  <2>8. QED
    BY <1>12, <2>6, <2>7
<1>14. CASE SchemaInspected
  <2> DEFINE inspected == [wf EXCEPT !.schema = TRUE]
             next == IF wf.intent = "Metadata" THEN "Verify" ELSE "Plan"
  <2>1. inspected \in WorkflowStates /\ next \in QueryPhase
    BY EvidenceTypes DEF QueryPhase
  <2>2. Outcome("inspect_schema", At(inspected, next))
    BY <1>14 DEF SchemaInspected
  <2> HIDE DEF inspected, next
  <2>3. QED
    BY <1>12, <2>1, <2>2, PhaseType
<1>15. CASE Preflighted
  <2>1. PICK plan \in wf.plan, confirm \in BOOLEAN : \E compiled \in Compiled(plan, registry) :
          Outcome("query_data",
                  At([wf EXCEPT !.preflight =
                         {[run |-> run, plan |-> plan, compiled |-> compiled,
                           policy |-> policy, confirm |-> confirm]}, !.allowed = TRUE],
                     "Execute"))
    BY <1>15 DEF Preflighted
  <2>2. PICK compiled \in Compiled(plan, registry) :
          Outcome("query_data",
                  At([wf EXCEPT !.preflight =
                         {[run |-> run, plan |-> plan, compiled |-> compiled,
                           policy |-> policy, confirm |-> confirm]}, !.allowed = TRUE],
                     "Execute"))
    BY <2>1
  <2> DEFINE preflight == [run |-> run, plan |-> plan, compiled |-> compiled,
                           policy |-> policy, confirm |-> confirm]
             done == [wf EXCEPT !.preflight = {preflight}, !.allowed = TRUE]
  <2>3. wf.plan \in Option(Plans)
    BY DEF WorkflowStates
  <2>4. plan \in Plans
    BY <2>1, <2>3, OptionFacts
  <2>5. compiled \in CompiledQueries
    BY <2>2, <2>4, CompiledType
  <2>6. preflight \in Preflights
    BY <2>1, <2>4, <2>5, MaxRunsAssumption DEF Preflights
  <2>7. done \in WorkflowStates
    <3> HIDE DEF preflight
    <3>1. QED BY <2>6, EvidenceTypes
  <2>8. Outcome("query_data", At(done, "Execute"))
    BY <2>2
  <2> HIDE DEF done
  <2>9. At(done, "Execute") \in WorkflowStates
    BY <2>7, PhaseType DEF QueryPhase
  <2>10. QED
    BY <1>12, <2>8, <2>9
<1>16. CASE Executed
  <2>1. PICK plan \in wf.plan, preflight \in wf.preflight :
          \E compiled \in Compiled(plan, registry) :
             Outcome("query_data",
                     At([wf EXCEPT !.result =
                            {[run |-> run, plan |-> plan, preflight |-> preflight,
                              compiled |-> compiled, ranUnder |-> policy]}], "Verify"))
    BY <1>16 DEF Executed
  <2>2. PICK compiled \in Compiled(plan, registry) :
             Outcome("query_data",
                     At([wf EXCEPT !.result =
                            {[run |-> run, plan |-> plan, preflight |-> preflight,
                              compiled |-> compiled, ranUnder |-> policy]}], "Verify"))
    BY <2>1
  <2> DEFINE result == [run |-> run, plan |-> plan, preflight |-> preflight,
                        compiled |-> compiled, ranUnder |-> policy]
             done == [wf EXCEPT !.result = {result}]
  <2>3. wf.plan \in Option(Plans) /\ wf.preflight \in Option(Preflights)
    BY DEF WorkflowStates
  <2>4. plan \in Plans /\ preflight \in Preflights
    BY <2>1, <2>3, OptionFacts
  <2>5. compiled \in CompiledQueries
    BY <2>2, <2>4, CompiledType
  <2>6. result \in Results
    BY <2>4, <2>5, MaxRunsAssumption DEF Results
  <2>7. done \in WorkflowStates
    <3> HIDE DEF result
    <3>1. QED BY <2>6, EvidenceTypes
  <2>8. Outcome("query_data", At(done, "Verify"))
    BY <2>2
  <2> HIDE DEF done
  <2>9. At(done, "Verify") \in WorkflowStates
    BY <2>7, PhaseType DEF QueryPhase
  <2>10. QED
    BY <1>12, <2>8, <2>9
<1>17. CASE FreshnessRead
  BY <1>12, <1>17, EvidenceTypes DEF FreshnessRead
<1>18. CASE ToolRepairable
  BY <1>12, <1>18, ReturnToPlanType DEF ToolRepairable
<1>19. CASE Answer
  <2>1. wf' \in WorkflowStates
    BY <1>19 DEF Answer, WorkflowStates
  <2>2. QED
    BY <1>19, <2>1 DEF Answer, world, RunStatus
<1>20. CASE Resume
  <2>1. wf.plan \in Option(Plans) /\ call \in Option(Calls)
    BY DEF WorkflowStates
  <2>2. \A p \in wf.plan : p \in Plans
    BY <2>1, OptionFacts
  <2>3. \A c \in call : c.tool \in Tools
    <3>1. \A c \in call : c \in Calls
      BY <2>1, OptionFacts
    <3>2. QED
      BY <3>1 DEF Calls
  <2>4. \A c \in call : [wf EXCEPT !.recover = {c.tool}] \in WorkflowStates
    BY <2>3, RecoverType
  <2>5. \A w \in WorkflowStates : [w EXCEPT !.pending = "confirm"] \in WorkflowStates
    BY PendingType
  <2>6. /\ call' = {} /\ UNCHANGED <<world, run>>
        /\ unknown' = unknown \/ unknown' = unknown \cup wf.plan
        /\ wf' \in WorkflowStates /\ status' \in RunStatus /\ live' \in BOOLEAN
    BY <1>20, <2>4, <2>5 DEF Resume, WaitFor, RunStatus
  <2>7. QED
    BY <1>1, <2>2, <2>6 DEF world
<1>21. CASE Retry
  BY <1>21, MaxRunsAssumption DEF Retry, InheritedState, world, RunStatus
<1>22. CASE Restart
  BY <1>22 DEF Restart
<1>23. CASE UNCHANGED vars
  BY <1>23 DEF vars, world
<1>24. QED
  BY <1>2, <1>3, <1>4, <1>5, <1>6, <1>7, <1>8, <1>9, <1>10, <1>11, <1>13, <1>14, <1>15,
     <1>16, <1>17, <1>18, <1>19, <1>20, <1>21, <1>22, <1>23 DEF Next

(* The state of a Query Task is well typed, for any values of the          *)
(* constants (TypeOK).                                                     *)
THEOREM QueryTypeCorrect == Spec => []TypeOK
<1>1. Init => TypeOK
  BY InitTypeOK
<1>2. TypeOK /\ [Next]_vars => TypeOK'
  BY NextTypeOK
<1>3. QED
  BY <1>1, <1>2, PTL DEF Spec

-----------------------------------------------------------------------------
(* The evidence of the Task belongs together.                              *)

(* Beyond PhaseEvidence and EvidenceChain: the package gate is satisfied   *)
(* as soon as the report is in, before the Run is ReadyToComplete.         *)
GatesAgree == wf.phase \in {"Package", "ReadyToComplete"} => Packageable(wf)

EvidenceInv == PhaseEvidence /\ EvidenceChain /\ GatesAgree

(* The part of the workflow state the invariant is about.                  *)
Evidence(w) == <<w.phase, w.intent, w.metric, w.schema, w.fresh, w.plan,
                 w.preflight, w.result, w.report>>

LEMMA SameEvidence ==
    ASSUME EvidenceInv, Evidence(wf') = Evidence(wf)
    PROVE  EvidenceInv'
BY DEF EvidenceInv, PhaseEvidence, EvidenceChain, GatesAgree, Packageable, Evidence

(* What At changes.                                                        *)
LEMMA AtFacts ==
    ASSUME NEW w \in WorkflowStates, NEW next
    PROVE  /\ At(w, next).phase = next
           /\ At(w, next).intent = w.intent /\ At(w, next).metric = w.metric
           /\ At(w, next).schema = w.schema /\ At(w, next).fresh = w.fresh
           /\ At(w, next).plan = w.plan /\ At(w, next).preflight = w.preflight
           /\ At(w, next).result = w.result /\ At(w, next).report = w.report
BY DEF At, WorkflowStates

LEMMA InitEvidenceInv == Init => EvidenceInv
BY DEF Init, NewWorkflowState, EvidenceInv, PhaseEvidence, EvidenceChain, GatesAgree

(* Going back to Plan leaves no evidence of the abandoned plan.            *)
LEMMA ReturnKeepsEvidenceInv ==
    ASSUME TypeOK, wf' = ReturnToPlan(wf)
    PROVE  EvidenceInv'
<1>1. /\ wf'.phase = "Plan" /\ wf'.plan = {} /\ wf'.preflight = {} /\ wf'.result = {}
  BY DEF TypeOK, WorkflowStates, ReturnToPlan
<1>2. QED
  BY <1>1 DEF EvidenceInv, PhaseEvidence, EvidenceChain, GatesAgree

LEMMA NextEvidenceInv == TypeOK /\ EvidenceInv /\ [Next]_vars => EvidenceInv'
<1> SUFFICES ASSUME TypeOK, EvidenceInv, [Next]_vars PROVE EvidenceInv'
  OBVIOUS
<1>0. wf \in WorkflowStates
  BY DEF TypeOK
<1> USE <1>0
<1>1. CASE Clarify \/ ModelClarifies
  <2>1. Evidence(wf') = Evidence(wf)
    BY <1>1 DEF Clarify, ModelClarifies, WaitFor, Evidence, WorkflowStates
  <2>2. QED
    BY <2>1, SameEvidence
<1>2. CASE Advance
  <2>1. PICK next \in {"ClassifyIntent", "ReadyToComplete"} :
           CanMove(wf, next) /\ wf' = At(wf, next)
    BY <1>2 DEF Advance, Continue
  <2>2. CASE next = "ClassifyIntent"
    <3>1. wf.phase = "Clarify"
      BY <2>1, <2>2 DEF CanMove, LegalTransition
    <3>2. QED
      BY <2>1, <2>2, <3>1, AtFacts
         DEF EvidenceInv, PhaseEvidence, EvidenceChain, GatesAgree
  <2>3. CASE next = "ReadyToComplete"
    <3>1. wf.phase = "Package"
      BY <2>1, <2>3 DEF CanMove, LegalTransition
    <3>2. QED
      BY <2>1, <2>3, <3>1, AtFacts
         DEF EvidenceInv, PhaseEvidence, EvidenceChain, GatesAgree, Packageable
  <2>4. QED
    BY <2>1, <2>2, <2>3
<1>3. CASE Classify
  <2> DEFINE classified == [wf EXCEPT !.intent = ClassifiedIntent(question)]
  <2>0. classified \in WorkflowStates
    <3>1. ClassifiedIntent(question) \in QueryIntent
      BY DEF ClassifiedIntent, QueryIntent
    <3>2. QED
      BY <3>1, EvidenceTypes
  <2>1. /\ classified.phase = wf.phase
        /\ classified.plan = wf.plan /\ classified.preflight = wf.preflight
        /\ classified.result = wf.result
    BY DEF WorkflowStates
  <2>2. wf' = At(classified, "ResolveContext") /\ wf.phase = "ClassifyIntent"
    BY <1>3 DEF Classify, Continue
  <2> HIDE DEF classified
  <2>3. QED
    BY <2>0, <2>1, <2>2, AtFacts DEF EvidenceInv, PhaseEvidence, EvidenceChain, GatesAgree
<1>4. CASE ProposePlan
  <2>1. PICK plan : wf' = At([wf EXCEPT !.plan = {plan}], "ValidateAndPreflight")
    BY <1>4 DEF ProposePlan, Continue
  <2>2. /\ wf'.phase = "ValidateAndPreflight" /\ wf'.plan # {}
        /\ wf'.preflight = wf.preflight /\ wf'.result = wf.result
    BY <2>1 DEF At, WorkflowStates
  <2>3. wf.phase = "Plan"
    BY <1>4 DEF ProposePlan
  <2>4. QED
    BY <2>2, <2>3 DEF EvidenceInv, PhaseEvidence, EvidenceChain, GatesAgree
<1>5. CASE RepairToPlan
  BY <1>5, ReturnKeepsEvidenceInv DEF RepairToPlan, Continue
<1>6. CASE VerifyPasses
  <2> DEFINE reported == [wf EXCEPT !.report = {"clean"}]
  <2>0. reported \in WorkflowStates
    BY EvidenceTypes
  <2>1. /\ reported.report = {"clean"}
        /\ reported.intent = wf.intent /\ reported.metric = wf.metric
        /\ reported.schema = wf.schema /\ reported.fresh = wf.fresh
        /\ reported.plan = wf.plan /\ reported.preflight = wf.preflight
        /\ reported.result = wf.result
    BY DEF WorkflowStates
  <2>2. wf' = At(reported, "Package") /\ wf.phase = "Verify"
        /\ Verified(wf, question, policy)
    BY <1>6 DEF VerifyPasses, Continue
  <2> HIDE DEF reported
  <2>3. /\ wf'.phase = "Package" /\ wf'.report = {"clean"}
        /\ wf'.intent = wf.intent /\ wf'.metric = wf.metric
        /\ wf'.schema = wf.schema /\ wf'.fresh = wf.fresh
        /\ wf'.plan = wf.plan /\ wf'.preflight = wf.preflight
        /\ wf'.result = wf.result
    BY <2>0, <2>1, <2>2, AtFacts
  <2>4. wf.intent = "GovernedMetric" =>
           /\ wf.metric # {} /\ wf.fresh # {}
           /\ \E result \in wf.result : result.compiled.about # AdHoc
    <3> SUFFICES ASSUME wf.intent = "GovernedMetric"
                 PROVE  /\ wf.metric # {} /\ wf.fresh # {}
                        /\ \E result \in wf.result : result.compiled.about # AdHoc
      OBVIOUS
    <3>1. MetricChecks(wf, question)
      BY <2>2 DEF Verified
    <3>2. wf.metric \in Option(Contracts)
      BY DEF WorkflowStates
    <3>3. \A c \in wf.metric : c.metric \in Metrics
      <4>1. \A c \in wf.metric : c \in Contracts
        BY <3>2, OptionFacts
      <4>2. QED
        BY <4>1 DEF Contracts
    <3>4. QED
      BY <3>1, <3>3, SubjectsAssumption DEF MetricChecks
  <2>5. Packageable(wf')
    BY <2>2, <2>3, <2>4 DEF Packageable, Verified, AdHocChecks, MetadataChecks
  <2>6. QED
    BY <2>2, <2>3, <2>5 DEF EvidenceInv, PhaseEvidence, EvidenceChain, GatesAgree
<1>7. CASE VerifyFails
  <2>1. /\ wf.phase = "Verify" /\ wf' = [wf EXCEPT !.report = {"hard"}]
    BY <1>7 DEF VerifyFails
  <2>2. /\ wf'.phase = wf.phase /\ wf'.intent = wf.intent /\ wf'.schema = wf.schema
        /\ wf'.plan = wf.plan /\ wf'.preflight = wf.preflight /\ wf'.result = wf.result
    BY <2>1 DEF WorkflowStates
  <2>3. QED
    BY <2>1, <2>2 DEF EvidenceInv, PhaseEvidence, EvidenceChain, GatesAgree
<1>8. CASE wf' = wf
  BY <1>8, SameEvidence
<1>9. CASE Complete \/ FailTerminal \/ StartTool \/ Restart \/ UNCHANGED vars
  BY <1>8, <1>9 DEF Complete, FailTerminal, StartTool, Restart, vars
<1>10. CASE StartRecoveredTool
  <2>1. Evidence(wf') = Evidence(wf)
    BY <1>10 DEF StartRecoveredTool, TakeRecovered, Evidence, WorkflowStates
  <2>2. QED
    BY <2>1, SameEvidence
<1>11. CASE MetricResolved
  <2>1. PICK c : LET resolved == [wf EXCEPT !.intent = "GovernedMetric", !.metric = {c}] IN
           CanMove(resolved, "Plan") /\ wf' = At(resolved, "Plan")
    BY <1>11 DEF MetricResolved, Outcome
  <2>2. /\ wf'.phase = "Plan" /\ wf'.plan = wf.plan
        /\ wf'.preflight = wf.preflight /\ wf'.result = wf.result
    BY <2>1 DEF At, WorkflowStates
  <2>3. wf.phase = "ResolveContext"
    BY <2>1 DEF CanMove, LegalTransition, WorkflowStates
  <2>4. QED
    BY <2>2, <2>3 DEF EvidenceInv, PhaseEvidence, EvidenceChain, GatesAgree
<1>12. CASE SchemaInspected
  <2> DEFINE inspected == [wf EXCEPT !.schema = TRUE]
             next == IF wf.intent = "Metadata" THEN "Verify" ELSE "Plan"
  <2>0. inspected \in WorkflowStates
    BY EvidenceTypes
  <2>1. /\ inspected.phase = wf.phase /\ inspected.schema
        /\ inspected.intent = wf.intent /\ inspected.plan = wf.plan
        /\ inspected.preflight = wf.preflight /\ inspected.result = wf.result
    BY DEF WorkflowStates
  <2>2. /\ wf' = At(inspected, next)
        /\ wf.phase = "ResolveContext"
    BY <1>12 DEF SchemaInspected, Outcome
  <2>3. next = IF wf.intent = "Metadata" THEN "Verify" ELSE "Plan"
    OBVIOUS
  <2> HIDE DEF inspected, next
  <2>4. /\ wf'.phase = next /\ wf'.schema /\ wf'.intent = wf.intent /\ wf'.plan = wf.plan
        /\ wf'.preflight = wf.preflight /\ wf'.result = wf.result
    BY <2>0, <2>1, <2>2, AtFacts
  <2>5. QED
    BY <2>2, <2>3, <2>4 DEF EvidenceInv, PhaseEvidence, EvidenceChain, GatesAgree
<1>13. CASE Preflighted
  <2>1. PICK plan \in wf.plan, confirm \in BOOLEAN : OfRun(plan, run) /\
           \E compiled \in Compiled(plan, registry) :
              wf' = At([wf EXCEPT !.preflight =
                           {[run |-> run, plan |-> plan, compiled |-> compiled,
                             policy |-> policy, confirm |-> confirm]}, !.allowed = TRUE],
                       "Execute")
    BY <1>13 DEF Preflighted, Outcome
  <2>2. PICK compiled : wf' = At([wf EXCEPT !.preflight =
                           {[run |-> run, plan |-> plan, compiled |-> compiled,
                             policy |-> policy, confirm |-> confirm]}, !.allowed = TRUE],
                       "Execute")
    BY <2>1
  <2> DEFINE preflight == [run |-> run, plan |-> plan, compiled |-> compiled,
                           policy |-> policy, confirm |-> confirm]
  <2>3. preflight.plan = plan /\ preflight.run = plan.run
    BY <2>1 DEF OfRun
  <2>4. wf' = At([wf EXCEPT !.preflight = {preflight}, !.allowed = TRUE], "Execute")
    BY <2>2
  <2> HIDE DEF preflight
  <2>5. /\ wf'.phase = "Execute" /\ wf'.plan = wf.plan /\ wf'.preflight = {preflight}
        /\ wf'.result = wf.result
    BY <2>4 DEF At, WorkflowStates
  <2>6. wf.phase = "ValidateAndPreflight"
    BY <1>13 DEF Preflighted
  <2>7. QED
    BY <2>1, <2>3, <2>5, <2>6 DEF EvidenceInv, PhaseEvidence, EvidenceChain, GatesAgree
<1>14. CASE Executed
  <2>1. PICK plan \in wf.plan, preflight \in wf.preflight :
           /\ OfRun(preflight, run)
           /\ StillPreflighted(preflight, plan, registry, policy)
           /\ \E compiled \in Compiled(plan, registry) :
                 wf' = At([wf EXCEPT !.result =
                              {[run |-> run, plan |-> plan, preflight |-> preflight,
                                compiled |-> compiled, ranUnder |-> policy]}], "Verify")
    BY <1>14 DEF Executed, Outcome
  <2>2. PICK compiled \in Compiled(plan, registry) :
                 wf' = At([wf EXCEPT !.result =
                              {[run |-> run, plan |-> plan, preflight |-> preflight,
                                compiled |-> compiled, ranUnder |-> policy]}], "Verify")
    BY <2>1
  <2> DEFINE result == [run |-> run, plan |-> plan, preflight |-> preflight,
                        compiled |-> compiled, ranUnder |-> policy]
  <2>3. compiled = preflight.compiled
    <3>1. wf.plan \in Option(Plans)
      BY DEF WorkflowStates
    <3>2. plan \in Plans
      BY <2>1, <3>1, OptionFacts
    <3>3. plan.about # AdHoc => plan.about \in Metrics
      BY <3>2 DEF Plans
    <3>4. registry \in [Metrics -> Option(Versions)]
      BY DEF TypeOK, Registries
    <3>5. plan.about # AdHoc => \A v, u \in registry[plan.about] : v = u
      BY <3>3, <3>4 DEF Option
    <3>6. \A c, d \in Compiled(plan, registry) : c = d
      BY <3>5 DEF Compiled
    <3>7. QED
      BY <2>1, <2>2, <3>6 DEF StillPreflighted
  <2>4. /\ result.preflight = preflight /\ result.plan = preflight.plan
        /\ result.run = preflight.run /\ result.compiled = preflight.compiled
        /\ result.ranUnder = preflight.policy
    BY <2>1, <2>3 DEF OfRun, StillPreflighted
  <2>5. wf' = At([wf EXCEPT !.result = {result}], "Verify")
    BY <2>2
  <2> HIDE DEF result
  <2>6. /\ wf'.phase = "Verify" /\ wf'.plan = wf.plan /\ wf'.preflight = wf.preflight
        /\ wf'.result = {result} /\ wf'.intent = wf.intent /\ wf'.schema = wf.schema
    BY <2>5 DEF At, WorkflowStates
  <2>7. wf.intent = "Metadata" => wf.schema
    <3>1. PICK r : EntryAllowed([wf EXCEPT !.result = {r}], "Verify")
      BY <1>14 DEF Executed, CanMove
    <3>2. QED
      BY <3>1 DEF EntryAllowed, WorkflowStates
  <2>8. QED
    BY <2>1, <2>4, <2>6, <2>7 DEF EvidenceInv, PhaseEvidence, EvidenceChain, GatesAgree
<1>15. CASE FreshnessRead
  <2>1. PICK f : wf' = [wf EXCEPT !.fresh = {f}]
    BY <1>15 DEF FreshnessRead, Outcome
  <2>2. /\ wf'.phase = wf.phase /\ wf'.intent = wf.intent /\ wf'.schema = wf.schema
        /\ wf'.plan = wf.plan /\ wf'.preflight = wf.preflight /\ wf'.result = wf.result
    BY <2>1 DEF WorkflowStates
  <2>3. wf.phase = "Verify"
    BY <1>15 DEF FreshnessRead
  <2>4. QED
    BY <2>2, <2>3 DEF EvidenceInv, PhaseEvidence, EvidenceChain, GatesAgree
<1>16. CASE ToolRepairable
  BY <1>8, <1>16, ReturnKeepsEvidenceInv DEF ToolRepairable, Outcome
<1>17. CASE Answer
  <2>1. Evidence(wf') = Evidence(wf)
    BY <1>17 DEF Answer, Evidence, WorkflowStates
  <2>2. QED
    BY <2>1, SameEvidence
<1>18. CASE Resume
  <2>1. Evidence(wf') = Evidence(wf)
    BY <1>18 DEF Resume, WaitFor, Evidence, WorkflowStates
  <2>2. QED
    BY <2>1, SameEvidence
<1>19. CASE Retry
  BY <1>8, <1>19 DEF Retry, InheritedState
<1>20. QED
  BY <1>1, <1>2, <1>3, <1>4, <1>5, <1>6, <1>7, <1>9, <1>10, <1>11, <1>12, <1>13, <1>14,
     <1>15, <1>16, <1>17, <1>18, <1>19 DEF Next

(* The evidence of a Task belongs together in every phase, for any values  *)
(* of the constants: what each phase has, and that plan, preflight and     *)
(* result are of one query.                                                *)
THEOREM EvidenceBelongsTogether == Spec => [](PhaseEvidence /\ EvidenceChain)
<1>1. Init => TypeOK /\ EvidenceInv
  BY InitTypeOK, InitEvidenceInv
<1>2. TypeOK /\ EvidenceInv /\ [Next]_vars => TypeOK' /\ EvidenceInv'
  BY NextTypeOK, NextEvidenceInv
<1>3. EvidenceInv => PhaseEvidence /\ EvidenceChain
  BY DEF EvidenceInv
<1>4. QED
  BY <1>1, <1>2, <1>3, PTL DEF Spec

(* A Run that the verifier let through is never refused by the package     *)
(* gate for want of evidence, a retry Run that inherited the report        *)
(* included.                                                               *)
THEOREM VerifiedRunPackages == Spec => []CompletionReady
<1>1. Init => TypeOK /\ EvidenceInv
  BY InitTypeOK, InitEvidenceInv
<1>2. TypeOK /\ EvidenceInv /\ [Next]_vars => TypeOK' /\ EvidenceInv'
  BY NextTypeOK, NextEvidenceInv
<1>3. EvidenceInv => CompletionReady
  BY DEF EvidenceInv, GatesAgree, CompletionReady
<1>4. QED
  BY <1>1, <1>2, <1>3, PTL DEF Spec

-----------------------------------------------------------------------------
(* Queries with an unknown outcome.                                        *)

(* An unconfirmed query belongs to an earlier Run, or its Run has failed,  *)
(* or its Run waits for the confirmation with that plan: no Run that is    *)
(* Running can have it for its plan.                                       *)
UnknownInv ==
    /\ \A p \in wf.plan : p.run <= run
    /\ \A p \in unknown :
          /\ p.run <= run
          /\ \/ p.run < run
             \/ status = "Failed"
             \/ status = "WaitingForInput" /\ wf.pending = "confirm" /\ wf.plan = {p}
    /\ UnknownNotRepeated

LEMMA InitUnknownInv == Init => UnknownInv
BY DEF Init, NewWorkflowState, UnknownInv, UnknownNotRepeated

(* A step of a Running Run that brings no result and whose plan is of a    *)
(* Run that exists.                                                        *)
LEMMA RunningStep ==
    ASSUME TypeOK, UnknownInv, status = "Running", run' = run, unknown' = unknown,
           \A p \in wf'.plan : p.run <= run,
           \A r \in wf'.result : r \in wf.result
    PROVE  UnknownInv'
<1>1. \A p \in unknown : p.run < run
  BY DEF UnknownInv
<1>2. QED
  BY <1>1 DEF UnknownInv, UnknownNotRepeated

LEMMA NextUnknownInv ==
    TypeOK /\ EvidenceInv /\ UnknownInv /\ [Next]_vars => UnknownInv'
<1> SUFFICES ASSUME TypeOK, EvidenceInv, UnknownInv, [Next]_vars PROVE UnknownInv'
  OBVIOUS
<1>0. wf \in WorkflowStates /\ run \in Nat
  BY MaxRunsAssumption DEF TypeOK
<1> USE <1>0
<1>p. \A p \in wf.plan : p.run <= run
  BY DEF UnknownInv
<1>1. ASSUME status = "Running", run' = run, unknown' = unknown,
             wf'.plan \in {wf.plan, {}}, wf'.result \in {wf.result, {}}
      PROVE  UnknownInv'
  BY <1>1, <1>p, RunningStep
<1>2. CASE Clarify \/ ModelClarifies
  <2>1. wf'.plan = wf.plan /\ wf'.result = wf.result
    BY <1>2 DEF Clarify, ModelClarifies, WaitFor, WorkflowStates
  <2>2. QED
    BY <1>1, <1>2, <2>1 DEF Clarify, ModelClarifies, Stepping
<1>3. CASE Advance \/ Classify
  <2>1. wf'.plan = wf.plan /\ wf'.result = wf.result
    BY <1>3 DEF Advance, Classify, Continue, At, WorkflowStates
  <2>2. QED
    BY <1>1, <1>3, <2>1 DEF Advance, Classify, Continue, Stepping
<1>4. CASE ProposePlan
  <2>1. PICK about, body :
          wf' = At([wf EXCEPT !.plan = {[run |-> run, about |-> about, body |-> body]}],
                   "ValidateAndPreflight")
    BY <1>4 DEF ProposePlan, Continue
  <2> DEFINE plan == [run |-> run, about |-> about, body |-> body]
  <2>2. plan.run <= run /\ wf' = At([wf EXCEPT !.plan = {plan}], "ValidateAndPreflight")
    BY <2>1
  <2> HIDE DEF plan
  <2>3. wf'.plan = {plan} /\ wf'.result = wf.result
    BY <2>2 DEF At, WorkflowStates
  <2>4. status = "Running" /\ run' = run /\ unknown' = unknown
    BY <1>4 DEF ProposePlan, Continue, Stepping
  <2>5. QED
    BY <2>2, <2>3, <2>4, RunningStep
<1>5. CASE RepairToPlan
  <2>1. wf'.plan = {} /\ wf'.result = {}
    BY <1>5 DEF RepairToPlan, Continue, ReturnToPlan, WorkflowStates
  <2>2. QED
    BY <1>1, <1>5, <2>1 DEF RepairToPlan, Continue, Stepping
<1>6. CASE VerifyPasses \/ VerifyFails
  <2>1. wf'.plan = wf.plan /\ wf'.result = wf.result
    BY <1>6 DEF VerifyPasses, VerifyFails, Continue, At, WorkflowStates
  <2>2. QED
    BY <1>1, <1>6, <2>1 DEF VerifyPasses, VerifyFails, Continue, Stepping
<1>7. CASE Complete \/ StartTool
  BY <1>1, <1>7 DEF Complete, StartTool, Stepping
<1>8. CASE FailTerminal
  BY <1>8 DEF FailTerminal, UnknownInv, UnknownNotRepeated
<1>9. CASE StartRecoveredTool
  <2>1. wf'.plan = wf.plan /\ wf'.result = wf.result
    BY <1>9 DEF StartRecoveredTool, TakeRecovered, WorkflowStates
  <2>2. QED
    BY <1>1, <1>9, <2>1 DEF StartRecoveredTool
<1>10. ASSUME NEW tool, NEW next, Outcome(tool, next),
              next.plan \in {wf.plan, {}}, next.result \in {wf.result, {}}
       PROVE  UnknownInv'
  BY <1>1, <1>10 DEF Outcome
<1>11. CASE MetricResolved
  <2>1. PICK c : LET resolved == [wf EXCEPT !.intent = "GovernedMetric", !.metric = {c}] IN
           Outcome("resolve_metric", At(resolved, "Plan"))
    BY <1>11 DEF MetricResolved
  <2>2. QED
    BY <1>10, <2>1 DEF At, WorkflowStates
<1>12. CASE SchemaInspected
  <2>1. PICK next : Outcome("inspect_schema", At([wf EXCEPT !.schema = TRUE], next))
    BY <1>12 DEF SchemaInspected
  <2>2. QED
    BY <1>10, <2>1 DEF At, WorkflowStates
<1>13. CASE Preflighted
  <2>1. PICK preflight : Outcome("query_data",
            At([wf EXCEPT !.preflight = {preflight}, !.allowed = TRUE], "Execute"))
    BY <1>13 DEF Preflighted
  <2>2. QED
    BY <1>10, <2>1 DEF At, WorkflowStates
<1>14. CASE Executed
  <2>1. PICK plan \in wf.plan, preflight \in wf.preflight : OfRun(plan, run) /\
           \E compiled \in Compiled(plan, registry) :
              wf' = At([wf EXCEPT !.result =
                           {[run |-> run, plan |-> plan, preflight |-> preflight,
                             compiled |-> compiled, ranUnder |-> policy]}], "Verify")
    BY <1>14 DEF Executed, Outcome
  <2>2. PICK compiled :
              wf' = At([wf EXCEPT !.result =
                           {[run |-> run, plan |-> plan, preflight |-> preflight,
                             compiled |-> compiled, ranUnder |-> policy]}], "Verify")
    BY <2>1
  <2> DEFINE result == [run |-> run, plan |-> plan, preflight |-> preflight,
                        compiled |-> compiled, ranUnder |-> policy]
  <2>3. result.plan = plan /\ plan.run = run
    BY <2>1 DEF OfRun
  <2>4. wf' = At([wf EXCEPT !.result = {result}], "Verify")
    BY <2>2
  <2> HIDE DEF result
  <2>5. wf'.plan = wf.plan /\ wf'.result = {result}
    BY <2>4 DEF At, WorkflowStates
  <2>6. status = "Running" /\ UNCHANGED <<run, status, unknown>>
    BY <1>14 DEF Executed, Outcome
  <2>7. \A p \in unknown : p.run < run
    BY <2>6 DEF UnknownInv
  <2>8. plan \notin unknown
    BY <2>3, <2>7
  <2>9. QED
    BY <1>p, <2>3, <2>5, <2>6, <2>7, <2>8 DEF UnknownInv, UnknownNotRepeated
<1>15. CASE FreshnessRead
  <2>1. PICK f : Outcome("read_freshness", [wf EXCEPT !.fresh = {f}])
    BY <1>15 DEF FreshnessRead
  <2>2. QED
    BY <1>10, <2>1 DEF WorkflowStates
<1>16. CASE ToolRepairable
  BY <1>10, <1>16 DEF ToolRepairable, ReturnToPlan, WorkflowStates
<1>17. CASE Answer
  <2>1. wf'.plan = wf.plan /\ wf'.result = wf.result
    BY <1>17 DEF Answer, WorkflowStates
  <2>2. status = "WaitingForInput" /\ run' = run
    BY <1>17 DEF Answer
  <2>3. \A p \in unknown' : p \in unknown /\ p.run < run
    BY <1>17, <2>2 DEF Answer, UnknownInv
  <2>4. QED
    BY <1>p, <2>1, <2>2, <2>3 DEF UnknownInv, UnknownNotRepeated
<1>18. CASE Resume
  <2>1. wf'.plan = wf.plan /\ wf'.result = wf.result /\ run' = run /\ status = "Running"
    BY <1>18 DEF Resume, WaitFor, world, WorkflowStates
  <2>2. CASE unknown' = unknown
    BY <1>1, <2>1, <2>2
  <2>3. CASE /\ unknown' = unknown \cup wf.plan /\ wf.phase = "Execute"
             /\ status' = "WaitingForInput" /\ wf'.pending = "confirm"
    <3>1. wf.result = {}
      BY <2>3 DEF EvidenceInv, PhaseEvidence
    <3>2. \A p \in unknown : p.run < run
      BY <2>1 DEF UnknownInv
    <3>3. \A p \in wf.plan : wf.plan = {p}
      BY DEF WorkflowStates, Option
    <3>4. QED
      BY <1>p, <2>1, <2>3, <3>1, <3>2, <3>3 DEF UnknownInv, UnknownNotRepeated
  <2>4. QED
    BY <1>18, <2>2, <2>3 DEF Resume, WaitFor, WorkflowStates
<1>19. CASE Retry
  <2>1. wf' = wf /\ run' = run + 1 /\ unknown' = unknown /\ status' = "Running"
    BY <1>19 DEF Retry, InheritedState
  <2>2. run \in Nat
    BY DEF TypeOK
  <2>3. \A p \in unknown : p.run \in Nat /\ p.run <= run
    BY DEF UnknownInv, TypeOK, Plans
  <2>4. \A p \in unknown' : p.run <= run' /\ p.run < run'
    BY <2>1, <2>2, <2>3
  <2>5. \A p \in wf'.plan : p.run <= run'
    <3>1. wf.plan \subseteq Plans
      BY DEF WorkflowStates, Option
    <3>2. \A p \in wf.plan : p.run \in Nat /\ p.run <= run
      BY <1>p, <3>1 DEF Plans
    <3>3. QED
      BY <2>1, <2>2, <3>2
  <2>6. QED
    BY <2>1, <2>4, <2>5 DEF UnknownInv, UnknownNotRepeated
<1>20. CASE Restart \/ UNCHANGED vars
  BY <1>20 DEF Restart, vars, UnknownInv, UnknownNotRepeated
<1>21. QED
  BY <1>2, <1>3, <1>4, <1>5, <1>6, <1>7, <1>8, <1>9, <1>11, <1>12, <1>13, <1>14, <1>15,
     <1>16, <1>17, <1>18, <1>19, <1>20 DEF Next

(* A query whose outcome is unknown is not executed again without the      *)
(* user's confirmation, by its own Run or by any retry of it.              *)
THEOREM UnknownQueryNotRepeated == Spec => []UnknownNotRepeated
<1>1. Init => TypeOK /\ EvidenceInv /\ UnknownInv
  BY InitTypeOK, InitEvidenceInv, InitUnknownInv
<1>2. TypeOK /\ EvidenceInv /\ UnknownInv /\ [Next]_vars
         => TypeOK' /\ EvidenceInv' /\ UnknownInv'
  BY NextTypeOK, NextEvidenceInv, NextUnknownInv
<1>3. UnknownInv => UnknownNotRepeated
  BY DEF UnknownInv
<1>4. QED
  BY <1>1, <1>2, <1>3, PTL DEF Spec

-----------------------------------------------------------------------------
(* The confirmation of a recovered query.                                  *)

(* A call is open, recovered, or asked about, never two of these; in       *)
(* Execute it is the query; and what the user confirms is that query.      *)
ConfirmInv ==
    /\ status # "Running" => call = {}
    /\ call # {} => wf.recover = {}
    /\ wf.phase = "Execute" =>
          /\ \A c \in call : c.tool = "query_data"
          /\ \A tool \in wf.recover : tool = "query_data"
    /\ status = "WaitingForInput" /\ wf.pending = "confirm" => wf.recover = {"query_data"}
    /\ GrantForRecoveredCall

LEMMA InitConfirmInv == Init => ConfirmInv
BY DEF Init, NewWorkflowState, ConfirmInv, GrantForRecoveredCall

(* No call is open or recovered, and nobody asks for a confirmation.       *)
LEMMA NothingRecovered ==
    ASSUME call' = {}, wf'.recover = {}, ~wf'.granted,
           status' = "WaitingForInput" => wf'.pending # "confirm"
    PROVE  ConfirmInv'
BY DEF ConfirmInv, GrantForRecoveredCall

LEMMA NextConfirmInv == TypeOK /\ ConfirmInv /\ [Next]_vars => ConfirmInv'
<1> SUFFICES ASSUME TypeOK, ConfirmInv, [Next]_vars PROVE ConfirmInv'
  OBVIOUS
<1>0. wf \in WorkflowStates
  BY DEF TypeOK
<1> USE <1>0
<1>1. call # {} \/ wf.recover = {} => ~wf.granted
  BY DEF ConfirmInv, GrantForRecoveredCall
<1>2. ASSUME Stepping, call' = {}, wf'.recover = wf.recover, wf'.granted = wf.granted,
             status' = "WaitingForInput" => wf'.pending # "confirm"
      PROVE  ConfirmInv'
  BY <1>1, <1>2, NothingRecovered DEF Stepping
<1>3. CASE Clarify \/ ModelClarifies
  <2>1. wf'.recover = wf.recover /\ wf'.granted = wf.granted /\ wf'.pending # "confirm"
    BY <1>3 DEF Clarify, ModelClarifies, WaitFor, WorkflowStates
  <2>2. QED
    BY <1>2, <1>3, <2>1 DEF Clarify, ModelClarifies, Stepping
<1>4. CASE Advance \/ Classify \/ ProposePlan \/ RepairToPlan \/ VerifyPasses
  <2>1. Stepping /\ call' = {} /\ status' = "Running"
    BY <1>4 DEF Advance, Classify, ProposePlan, RepairToPlan, VerifyPasses, Continue, Stepping
  <2>2. wf'.recover = wf.recover /\ wf'.granted = wf.granted
    BY <1>4 DEF Advance, Classify, ProposePlan, RepairToPlan, VerifyPasses, Continue, At,
                ReturnToPlan, WorkflowStates
  <2>3. QED
    BY <1>2, <2>1, <2>2
<1>5. CASE VerifyFails \/ Complete
  <2>1. wf'.recover = wf.recover /\ wf'.granted = wf.granted
    BY <1>5 DEF VerifyFails, Complete, WorkflowStates
  <2>2. QED
    BY <1>2, <1>5, <2>1 DEF VerifyFails, Complete, Stepping
<1>6. CASE FailTerminal
  BY <1>6 DEF FailTerminal, ConfirmInv, GrantForRecoveredCall
<1>7. CASE StartTool
  <2>1. PICK tool \in Tools :
          ToolAllowed(wf, tool) /\ call' = {[tool |-> tool, granted |-> FALSE]}
    BY <1>7 DEF StartTool
  <2>2. wf.phase = "Execute" => tool = "query_data"
    BY <2>1 DEF ToolAllowed
  <2>3. wf.recover = {} /\ status = "Running" /\ UNCHANGED <<status, wf, unknown>>
    BY <1>7 DEF StartTool, Stepping
  <2>4. QED
    BY <2>1, <2>2, <2>3 DEF ConfirmInv, GrantForRecoveredCall
<1>8. CASE StartRecoveredTool
  <2>1. PICK tool \in wf.recover : call' = {[tool |-> tool, granted |-> wf.granted]}
    BY <1>8 DEF StartRecoveredTool
  <2>2. wf'.phase = wf.phase /\ wf'.recover = {} /\ ~wf'.granted
    BY <1>8 DEF StartRecoveredTool, TakeRecovered, WorkflowStates
  <2>3. wf.phase = "Execute" => tool = "query_data"
    BY <2>1 DEF ConfirmInv
  <2>4. status' = "Running"
    BY <1>8 DEF StartRecoveredTool
  <2>5. QED
    BY <2>1, <2>2, <2>3, <2>4 DEF ConfirmInv, GrantForRecoveredCall
<1>9. ASSUME NEW tool, NEW next, Outcome(tool, next),
             next.recover = wf.recover, next.granted = wf.granted
      PROVE  ConfirmInv'
  <2>1. call # {} /\ status' = "Running" /\ call' = {} /\ wf' = next
    BY <1>9 DEF Outcome
  <2>2. wf'.recover = {} /\ ~wf'.granted
    BY <1>1, <1>9, <2>1 DEF ConfirmInv
  <2>3. QED
    BY <2>1, <2>2, NothingRecovered
<1>10. CASE MetricResolved
  <2>1. PICK c : Outcome("resolve_metric",
                    At([wf EXCEPT !.intent = "GovernedMetric", !.metric = {c}], "Plan"))
    BY <1>10 DEF MetricResolved
  <2>2. QED
    BY <1>9, <2>1 DEF At, WorkflowStates
<1>11. CASE SchemaInspected
  <2>1. PICK next : Outcome("inspect_schema", At([wf EXCEPT !.schema = TRUE], next))
    BY <1>11 DEF SchemaInspected
  <2>2. QED
    BY <1>9, <2>1 DEF At, WorkflowStates
<1>12. CASE Preflighted
  <2>1. PICK preflight : Outcome("query_data",
            At([wf EXCEPT !.preflight = {preflight}, !.allowed = TRUE], "Execute"))
    BY <1>12 DEF Preflighted
  <2>2. QED
    BY <1>9, <2>1 DEF At, WorkflowStates
<1>13. CASE Executed
  <2>1. PICK result : Outcome("query_data", At([wf EXCEPT !.result = {result}], "Verify"))
    BY <1>13 DEF Executed
  <2>2. QED
    BY <1>9, <2>1 DEF At, WorkflowStates
<1>14. CASE FreshnessRead
  <2>1. PICK f : Outcome("read_freshness", [wf EXCEPT !.fresh = {f}])
    BY <1>14 DEF FreshnessRead
  <2>2. QED
    BY <1>9, <2>1 DEF WorkflowStates
<1>15. CASE ToolRepairable
  BY <1>9, <1>15 DEF ToolRepairable, ReturnToPlan, WorkflowStates
<1>16. CASE Answer
  <2>1. /\ wf'.phase = wf.phase /\ wf'.recover = wf.recover /\ wf'.plan = wf.plan
        /\ wf'.granted = (wf.granted \/ wf.pending = "confirm")
    BY <1>16 DEF Answer, WorkflowStates
  <2>2. call = {} /\ call' = {} /\ status = "WaitingForInput" /\ status' = "Running"
    BY <1>16 DEF Answer, ConfirmInv
  <2>3. wf'.granted => wf'.recover = {"query_data"}
    BY <2>1, <2>2 DEF ConfirmInv, GrantForRecoveredCall
  <2>4. wf'.granted => wf'.plan \cap unknown' = {}
    BY <1>16, <2>1, <2>2 DEF Answer, ConfirmInv, GrantForRecoveredCall
  <2>5. QED
    BY <2>1, <2>2, <2>3, <2>4 DEF ConfirmInv, GrantForRecoveredCall
<1>17. CASE Resume
  <2>1. call' = {} /\ status = "Running"
    BY <1>17 DEF Resume
  <2>2. CASE call = {}
    <3>1. UNCHANGED <<status, wf, unknown>>
      BY <1>17, <2>2 DEF Resume
    <3>2. QED
      BY <2>1, <3>1 DEF ConfirmInv, GrantForRecoveredCall
  <2>3. CASE call # {}
    <3>1. PICK c \in call :
            IF wf.phase = "Execute"
            THEN /\ wf' = [[wf EXCEPT !.recover = {c.tool}] EXCEPT !.pending = "confirm"]
                 /\ status' = "WaitingForInput"
            ELSE wf' = [wf EXCEPT !.recover = {c.tool}] /\ status' = status
      BY <1>17, <2>3 DEF Resume, WaitFor
    <3>2. /\ wf'.phase = wf.phase /\ wf'.recover = {c.tool} /\ wf'.granted = wf.granted
      BY <3>1 DEF WorkflowStates
    <3>3. wf.phase = "Execute" => c.tool = "query_data"
      BY <3>1 DEF ConfirmInv
    <3>4. wf.phase # "Execute" => status' = "Running"
      BY <2>1, <3>1
    <3>5. ~wf'.granted
      BY <1>1, <2>3, <3>2
    <3>6. QED
      BY <2>1, <3>2, <3>3, <3>4, <3>5 DEF ConfirmInv, GrantForRecoveredCall
  <2>4. QED
    BY <2>2, <2>3
<1>18. CASE Retry
  BY <1>18 DEF Retry, InheritedState, ConfirmInv, GrantForRecoveredCall
<1>19. CASE Restart \/ UNCHANGED vars
  BY <1>19 DEF Restart, vars, ConfirmInv, GrantForRecoveredCall
<1>20. QED
  BY <1>3, <1>4, <1>5, <1>6, <1>7, <1>8, <1>10, <1>11, <1>12, <1>13, <1>14, <1>15,
     <1>16, <1>17, <1>18, <1>19 DEF Next

(* A confirmation stands for the recovered query it was given for and for  *)
(* no other call, through processes that end and Runs that are retried.    *)
THEOREM ConfirmationIsForItsQuery == Spec => []GrantForRecoveredCall
<1>1. Init => TypeOK /\ ConfirmInv
  BY InitTypeOK, InitConfirmInv
<1>2. TypeOK /\ ConfirmInv /\ [Next]_vars => TypeOK' /\ ConfirmInv'
  BY NextTypeOK, NextConfirmInv
<1>3. ConfirmInv => GrantForRecoveredCall
  BY DEF ConfirmInv
<1>4. QED
  BY <1>1, <1>2, <1>3, PTL DEF Spec

-----------------------------------------------------------------------------
(* What a Task that succeeded presents.                                    *)

(* What ran is about what its plan is about; from Package on the answer is *)
(* governed; and a Task succeeds nowhere else.                             *)
AnswerInv ==
    /\ \A result \in wf.result : result.compiled.about = result.plan.about
    /\ wf.phase \in {"Package", "ReadyToComplete"} => GovernedAnswer
    /\ status = "Succeeded" => wf.phase = "ReadyToComplete"

LEMMA InitAnswerInv == Init => AnswerInv
BY DEF Init, NewWorkflowState, AnswerInv

LEMMA SameAnswer ==
    ASSUME AnswerInv, Evidence(wf') = Evidence(wf), question' = question,
           status' = "Succeeded" => status = "Succeeded" \/ wf.phase = "ReadyToComplete"
    PROVE  AnswerInv'
BY DEF AnswerInv, GovernedAnswer, Evidence

(* A step of a Run that works, which does not bring it to Package.         *)
LEMMA WorkingStep ==
    ASSUME AnswerInv, status' # "Succeeded", wf'.result \in {wf.result, {}},
           wf'.phase \notin {"Package", "ReadyToComplete"}
    PROVE  AnswerInv'
BY DEF AnswerInv

(* What compiles is about what the plan is about.                          *)
LEMMA CompiledAbout ==
    ASSUME NEW plan, NEW reg, NEW compiled \in Compiled(plan, reg)
    PROVE  compiled.about = plan.about
BY DEF Compiled

(* The checks of the verifier make the answer governed.                    *)
LEMMA VerifiedIsGoverned ==
    ASSUME TypeOK, EvidenceInv, AnswerInv, Verified(wf, question, policy)
    PROVE  GovernedAnswer
<1>0. wf \in WorkflowStates
  BY DEF TypeOK
<1>1. ASSUME wf.intent = "Metadata" PROVE wf.result = {}
  BY <1>1 DEF Verified, MetadataChecks
<1>2. ASSUME wf.intent = "GovernedMetric"
      PROVE  \E contract \in wf.metric, plan \in wf.plan, result \in wf.result :
                 /\ result.compiled.about = contract.metric
                 /\ result.compiled.version = contract.version
                 /\ plan.about = contract.metric /\ result.plan = plan
                 /\ question.current => wf.fresh # {} /\ wf.fresh # {"Unknown"}
  <2>1. MetricChecks(wf, question)
    BY <1>2 DEF Verified
  <2>2. PICK plan \in wf.plan, contract \in wf.metric, result \in wf.result :
           /\ result.compiled.about = contract.metric
           /\ result.compiled.version = contract.version
    BY <2>1 DEF MetricChecks
  <2>3. result.plan \in wf.plan
    BY <2>2 DEF EvidenceInv, EvidenceChain
  <2>4. result.plan = plan
    BY <1>0, <2>2, <2>3 DEF WorkflowStates, Option
  <2>5. plan.about = contract.metric
    BY <2>2, <2>4 DEF AnswerInv
  <2>6. PICK f \in wf.fresh : question.current => f # "Unknown"
    BY <2>1 DEF MetricChecks
  <2>7. QED
    BY <2>2, <2>4, <2>5, <2>6
<1>3. QED
  BY <1>1, <1>2 DEF GovernedAnswer

LEMMA NextAnswerInv ==
    TypeOK /\ EvidenceInv /\ AnswerInv /\ [Next]_vars => AnswerInv'
<1> SUFFICES ASSUME TypeOK, EvidenceInv, AnswerInv, [Next]_vars PROVE AnswerInv'
  OBVIOUS
<1>0. wf \in WorkflowStates
  BY DEF TypeOK
<1> USE <1>0
<1>1. CASE Clarify \/ ModelClarifies
  <2>1. Evidence(wf') = Evidence(wf) /\ question' = question /\ status' = "WaitingForInput"
    BY <1>1 DEF Clarify, ModelClarifies, WaitFor, world, Evidence, WorkflowStates
  <2>2. QED
    BY <2>1, SameAnswer
<1>2. CASE Advance
  <2>1. PICK next \in {"ClassifyIntent", "ReadyToComplete"} :
           CanMove(wf, next) /\ wf' = At(wf, next)
    BY <1>2 DEF Advance, Continue
  <2>2. question' = question /\ status' = "Running"
    BY <1>2 DEF Advance, Continue, Stepping, world
  <2>3. next = "ReadyToComplete" => wf.phase = "Package"
    BY <2>1 DEF CanMove, LegalTransition
  <2>4. QED
    BY <2>1, <2>2, <2>3, AtFacts DEF AnswerInv, GovernedAnswer
<1>3. CASE Classify
  <2>1. PICK i : wf' = At([wf EXCEPT !.intent = i], "ResolveContext")
    BY <1>3 DEF Classify, Continue
  <2>2. wf'.phase = "ResolveContext" /\ wf'.result = wf.result
    BY <2>1 DEF At, WorkflowStates
  <2>3. QED
    BY <1>3, <2>2, WorkingStep DEF Classify, Continue, Stepping
<1>4. CASE ProposePlan
  <2>1. PICK plan : wf' = At([wf EXCEPT !.plan = {plan}], "ValidateAndPreflight")
    BY <1>4 DEF ProposePlan, Continue
  <2>2. wf'.phase = "ValidateAndPreflight" /\ wf'.result = wf.result
    BY <2>1 DEF At, WorkflowStates
  <2>3. QED
    BY <1>4, <2>2, WorkingStep DEF ProposePlan, Continue, Stepping
<1>5. CASE RepairToPlan
  <2>1. wf'.phase = "Plan" /\ wf'.result = {}
    BY <1>5 DEF RepairToPlan, Continue, ReturnToPlan, WorkflowStates
  <2>2. QED
    BY <1>5, <2>1, WorkingStep DEF RepairToPlan, Continue, Stepping
<1>6. CASE VerifyPasses
  <2>1. GovernedAnswer
    BY <1>6, VerifiedIsGoverned DEF VerifyPasses
  <2>2. wf' = At([wf EXCEPT !.report = {"clean"}], "Package")
    BY <1>6 DEF VerifyPasses, Continue
  <2>3. /\ wf'.intent = wf.intent /\ wf'.metric = wf.metric /\ wf'.plan = wf.plan
        /\ wf'.result = wf.result /\ wf'.fresh = wf.fresh
    BY <2>2 DEF At, WorkflowStates
  <2>4. question' = question /\ status' = "Running"
    BY <1>6 DEF VerifyPasses, Continue, Stepping, world
  <2>5. QED
    BY <2>1, <2>3, <2>4 DEF AnswerInv, GovernedAnswer
<1>7. CASE VerifyFails
  <2>1. wf'.phase = "Verify" /\ wf'.result = wf.result
    BY <1>7 DEF VerifyFails, WorkflowStates
  <2>2. QED
    BY <1>7, <2>1, WorkingStep DEF VerifyFails
<1>8. CASE Complete \/ FailTerminal \/ StartTool \/ Restart \/ UNCHANGED vars
  <2>1. /\ Evidence(wf') = Evidence(wf) /\ question' = question
        /\ status' = "Succeeded" => status = "Succeeded" \/ wf.phase = "ReadyToComplete"
    BY <1>8 DEF Complete, FailTerminal, StartTool, Restart, vars, world
  <2>2. QED
    BY <2>1, SameAnswer
<1>9. CASE StartRecoveredTool
  <2>1. Evidence(wf') = Evidence(wf) /\ question' = question /\ status' = "Running"
    BY <1>9 DEF StartRecoveredTool, TakeRecovered, Evidence, world, WorkflowStates
  <2>2. QED
    BY <2>1, SameAnswer
<1>10. ASSUME NEW tool, NEW next, Outcome(tool, next), next.result \in {wf.result, {}},
              next.phase \notin {"Package", "ReadyToComplete"}
       PROVE  AnswerInv'
  BY <1>10, WorkingStep DEF Outcome
<1>11. CASE MetricResolved
  <2>1. PICK c : Outcome("resolve_metric",
                    At([wf EXCEPT !.intent = "GovernedMetric", !.metric = {c}], "Plan"))
    BY <1>11 DEF MetricResolved
  <2>2. QED
    BY <1>10, <2>1 DEF At, WorkflowStates
<1>12. CASE SchemaInspected
  <2>1. PICK next \in {"Verify", "Plan"} :
            Outcome("inspect_schema", At([wf EXCEPT !.schema = TRUE], next))
    BY <1>12 DEF SchemaInspected
  <2>2. QED
    BY <1>10, <2>1 DEF At, WorkflowStates
<1>13. CASE Preflighted
  <2>1. PICK preflight : Outcome("query_data",
            At([wf EXCEPT !.preflight = {preflight}, !.allowed = TRUE], "Execute"))
    BY <1>13 DEF Preflighted
  <2>2. QED
    BY <1>10, <2>1 DEF At, WorkflowStates
<1>14. CASE Executed
  <2>1. PICK plan \in wf.plan, preflight \in wf.preflight :
           \E compiled \in Compiled(plan, registry) :
              Outcome("query_data", At([wf EXCEPT !.result =
                           {[run |-> run, plan |-> plan, preflight |-> preflight,
                             compiled |-> compiled, ranUnder |-> policy]}], "Verify"))
    BY <1>14 DEF Executed
  <2>2. PICK compiled \in Compiled(plan, registry) :
              Outcome("query_data", At([wf EXCEPT !.result =
                           {[run |-> run, plan |-> plan, preflight |-> preflight,
                             compiled |-> compiled, ranUnder |-> policy]}], "Verify"))
    BY <2>1
  <2> DEFINE result == [run |-> run, plan |-> plan, preflight |-> preflight,
                        compiled |-> compiled, ranUnder |-> policy]
  <2>3. result.compiled.about = result.plan.about
    BY <2>2, CompiledAbout
  <2>4. wf' = At([wf EXCEPT !.result = {result}], "Verify") /\ status' = "Running"
    BY <2>2 DEF Outcome
  <2> HIDE DEF result
  <2>5. wf'.phase = "Verify" /\ wf'.result = {result}
    BY <2>4 DEF At, WorkflowStates
  <2>6. QED
    BY <2>3, <2>4, <2>5 DEF AnswerInv
<1>15. CASE FreshnessRead
  <2>1. PICK f : Outcome("read_freshness", [wf EXCEPT !.fresh = {f}])
    BY <1>15 DEF FreshnessRead
  <2>2. wf.phase = "Verify"
    BY <1>15 DEF FreshnessRead
  <2>3. QED
    BY <1>10, <2>1, <2>2 DEF WorkflowStates
<1>16. CASE ToolRepairable
  <2>1. PICK next : /\ \E tool : Outcome(tool, next)
                    /\ \/ next = wf /\ wf.phase = "ResolveContext"
                       \/ next = ReturnToPlan(wf)
    BY <1>16 DEF ToolRepairable
  <2>2. QED
    BY <1>10, <2>1 DEF ReturnToPlan, WorkflowStates
<1>17. CASE Answer
  <2>1. Evidence(wf') = Evidence(wf) /\ question' = question /\ status' = "Running"
    BY <1>17 DEF Answer, Evidence, world, WorkflowStates
  <2>2. QED
    BY <2>1, SameAnswer
<1>18. CASE Resume
  <2>1. Evidence(wf') = Evidence(wf) /\ question' = question /\ status' # "Succeeded"
    BY <1>18 DEF Resume, WaitFor, Evidence, world, WorkflowStates
  <2>2. QED
    BY <2>1, SameAnswer
<1>19. CASE Retry
  <2>1. Evidence(wf') = Evidence(wf) /\ question' = question /\ status' = "Running"
    BY <1>19 DEF Retry, InheritedState, world
  <2>2. QED
    BY <2>1, SameAnswer
<1>20. QED
  BY <1>1, <1>2, <1>3, <1>4, <1>5, <1>6, <1>7, <1>8, <1>9, <1>11, <1>12, <1>13, <1>14,
     <1>15, <1>16, <1>17, <1>18, <1>19 DEF Next

(* A Task that succeeded with a governed answer executed the contract it   *)
(* presents, and knows how fresh the data is when the question asks.       *)
THEOREM AnswersAreGoverned == Spec => []SucceededIsGoverned
<1>1. Init => TypeOK /\ EvidenceInv /\ AnswerInv
  BY InitTypeOK, InitEvidenceInv, InitAnswerInv
<1>2. TypeOK /\ EvidenceInv /\ AnswerInv /\ [Next]_vars
         => TypeOK' /\ EvidenceInv' /\ AnswerInv'
  BY NextTypeOK, NextEvidenceInv, NextAnswerInv
<1>3. AnswerInv => SucceededIsGoverned
  BY DEF AnswerInv, SucceededIsGoverned
<1>4. QED
  BY <1>1, <1>2, <1>3, PTL DEF Spec

-----------------------------------------------------------------------------
(* Nothing replaces what a report speaks of.                               *)

(* The part of the workflow state a report speaks of is kept.              *)
KeepsVerified(w) ==
    /\ w.plan = wf.plan /\ w.preflight = wf.preflight
    /\ w.result = wf.result /\ w.metric = wf.metric

(* A step of a Run that is in Verify or after it.                          *)
LEMMA VerifiedStep ==
    ASSUME TypeOK, [Next]_vars, wf.phase \in {"Verify", "Package", "ReadyToComplete"}
    PROVE  /\ wf'.phase \in {"Verify", "Package", "ReadyToComplete"}
           /\ KeepsVerified(wf')
<1>0. wf \in WorkflowStates
  BY DEF TypeOK
<1> USE <1>0 DEF KeepsVerified
<1>1. CASE wf' = wf
  BY <1>1
<1>2. CASE Clarify \/ Classify \/ ProposePlan \/ RepairToPlan \/ Preflighted \/ Executed
           \/ ToolRepairable
  BY <1>2 DEF Clarify, Classify, ProposePlan, RepairToPlan, Preflighted, Executed,
              ToolRepairable, CanReturnToPlan
<1>3. CASE MetricResolved
  <2>1. PICK c : CanMove([wf EXCEPT !.intent = "GovernedMetric", !.metric = {c}], "Plan")
    BY <1>3 DEF MetricResolved
  <2>2. wf.phase = "ResolveContext"
    BY <2>1 DEF CanMove, LegalTransition, WorkflowStates
  <2>3. QED
    BY <2>2
<1>4. CASE SchemaInspected
  BY <1>4 DEF SchemaInspected
<1>5. CASE ModelClarifies
  BY <1>5 DEF ModelClarifies, WaitFor, WorkflowStates
<1>6. CASE Advance
  <2>1. PICK next \in {"ClassifyIntent", "ReadyToComplete"} :
           CanMove(wf, next) /\ wf' = At(wf, next)
    BY <1>6 DEF Advance, Continue
  <2>2. next = "ReadyToComplete"
    BY <2>1 DEF CanMove, LegalTransition
  <2>3. QED
    BY <2>1, <2>2, AtFacts
<1>7. CASE VerifyPasses \/ VerifyFails
  BY <1>7 DEF VerifyPasses, VerifyFails, Continue, At, WorkflowStates
<1>8. CASE FreshnessRead
  BY <1>8 DEF FreshnessRead, Outcome, WorkflowStates
<1>9. CASE StartRecoveredTool \/ Answer \/ Resume
  BY <1>9 DEF StartRecoveredTool, TakeRecovered, Answer, Resume, WaitFor, WorkflowStates
<1>10. CASE Complete \/ FailTerminal \/ StartTool \/ Retry \/ Restart \/ UNCHANGED vars
  BY <1>1, <1>10 DEF Complete, FailTerminal, StartTool, Retry, InheritedState, Restart, vars
<1>11. QED
  BY <1>2, <1>3, <1>4, <1>5, <1>6, <1>7, <1>8, <1>9, <1>10 DEF Next

(* From Verify on no step, of this Run or of a retry that inherits it,     *)
(* replaces the plan or the result a report speaks of.                     *)
THEOREM ReportStaysTrue == Spec => VerifiedIsFinal
<1>1. TypeOK /\ [Next]_vars =>
        (wf.phase \in {"Verify", "Package", "ReadyToComplete"} =>
          /\ wf'.phase \in {"Verify", "Package", "ReadyToComplete"}
          /\ wf'.plan = wf.plan /\ wf'.preflight = wf.preflight
          /\ wf'.result = wf.result /\ wf'.metric = wf.metric)
  BY VerifiedStep DEF KeepsVerified
<1>2. QED
  BY <1>1, QueryTypeCorrect, PTL DEF Spec, VerifiedIsFinal
=============================================================================
