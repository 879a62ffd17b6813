---------------------------- MODULE ContextPacking ----------------------------
(***************************************************************************)
(* What ContextAssembler puts in a prompt: evidence by rank, each once, as *)
(* long as it fits in the token budget, then the summary of a recent task. *)
(* PromptBuilder and ContextManifestArtifactWriter count the tokens again  *)
(* and refuse a manifest that does not add up.                             *)
(***************************************************************************)
EXTENDS Naturals, Sequences, SequencesExt

CONSTANTS
    Lengths,  \* bytes of a text
    Budgets,  \* token budgets
    MaxFound  \* bound on the evidence of the Run that matches

VARIABLES wanted, assembled

packingVars == <<wanted, assembled>>

Types    == {"Metric", "DbtManifest", "ObservedSchema", "Freshness", "TaskSummary"}
Sources  == {"metric", "d1", "d2", "r1", "r2"}
Evidence == [type : Types, source : Sources, length : Lengths,
             restricted : BOOLEAN, within : BOOLEAN]
Nothing  == [length |-> 0, relevant |-> FALSE]
\* seen: the identities met; left: what does not go to the model, and why.
Empty   == [included |-> <<>>, left |-> <<>>, seen |-> {}, summary |-> FALSE, used |-> 0]
Pending == [result |-> "pending", manifest |-> Empty, needs |-> {}]

\* What each source may find.  The registry and the dbt manifest load
\* Internal evidence, a resource of dbt once; that of the Run is a list in
\* any order.
Metrics  == [length : Lengths, active : {TRUE}] \cup [length : {1}, active : {FALSE}]
Models   == [type : {"DbtManifest"}, source : {"d1", "d2"}, length : Lengths,
             restricted : {FALSE}, within : {TRUE}]
RunFound == [type : {"ObservedSchema"}, source : {"r1", "r2"}, length : Lengths,
             restricted : BOOLEAN, within : BOOLEAN]
            \cup [type : {"Freshness"}, source : {"r1"}, length : Lengths,
                  restricted : BOOLEAN, within : {TRUE}]
            \cup [type : {"TaskSummary"}, source : {"r2"}, length : {1},
                  restricted : {FALSE}, within : {TRUE}]
UpTo(n, S) == UNION {[1 .. k -> S] : k \in 0 .. n}
OnceEach(list) == \A i, j \in DOMAIN list : list[i].source = list[j].source => i = j
Requests == [budget : Budgets, metric : UpTo(1, Metrics),
             dbt : {list \in UpTo(2, Models) : OnceEach(list)},
             found : UpTo(MaxFound, RunFound),
             summary : {Nothing} \cup [length : {1}, relevant : BOOLEAN],
             requires : {{}, {"ObservedSchema"}, {"Freshness"}}]

Init ==
    /\ wanted \in Requests /\ Len(wanted.dbt) + Len(wanted.found) <= MaxFound + 1
    /\ assembled = Pending

-----------------------------------------------------------------------------
\* estimate_tokens: four bytes a token, rounded up.
EstimateTokens(length) == (length + 3) \div 4

\* The evidence of the Run that is ranked, and why the rest is not.
Screened(e) ==
    CASE e.type = "ObservedSchema" /\ ~e.within -> "expired"
      [] e.type \in {"ObservedSchema", "Freshness"} /\ e.restricted -> "restricted"
      [] e.type = "TaskSummary" -> "unranked"
      [] OTHER -> "ranked"
\* Those of a list that are in a set, in their order.
Those(list, S) ==
    FoldLeft(LAMBDA some, e : IF e \in S THEN Append(some, e) ELSE some, <<>>, list)
Ranked(found) == Those(found, {e \in RunFound : Screened(e) = "ranked"})
Unranked(found) ==
    LET out == Those(found, {e \in RunFound : Screened(e) # "ranked"})
    IN  [i \in DOMAIN out |-> [of |-> out[i], why |-> Screened(out[i])]]

\* metric_evidence
MetricEvidence(metric) ==
    [type |-> "Metric", source |-> "metric", length |-> metric.length,
     restricted |-> FALSE, within |-> TRUE]

\* Metrics are of rank 0, models of rank 1 and those of the Run of rank 2; in
\* a rank they are sorted by source, and keep their order otherwise.
OfSource(list, s) == Those(list, {e \in Models \cup RunFound : e.source = s})
Candidates(r) ==
    [i \in DOMAIN r.metric |-> MetricEvidence(r.metric[i])]
        \o (OfSource(r.dbt, "d1") \o OfSource(r.dbt, "d2"))
        \o (OfSource(Ranked(r.found), "r1") \o OfSource(Ranked(r.found), "r2"))

Leave(m, e, why) == [m EXCEPT !.left = Append(@, [of |-> e, why |-> why])]

(* Mutant of Fits: one token too many.                                     *)
FitsOneMore(used, cost, budget) == used + cost <= budget + 1

(* Mutant of Fits: the last token of the budget is not used.               *)
FitsOneLess(used, cost, budget) == used + cost < budget

Fits(used, cost, budget) == used + cost <= budget

\* The identity of evidence, its source and version, is its source here.
Packed(m, e, budget) ==
    LET cost == EstimateTokens(e.length)
        met  == [m EXCEPT !.seen = @ \cup {e.source}]
    IN  CASE e.source \in m.seen -> Leave(m, e, "duplicate")
          [] e.source \notin m.seen /\ e.restricted -> Leave(met, e, "restricted")
          [] e.source \notin m.seen /\ ~e.restricted /\ ~Fits(m.used, cost, budget) ->
                Leave(met, e, "token_budget")
          [] OTHER -> [met EXCEPT !.included = Append(@, e), !.used = @ + cost]

WithSummary(m, s, budget) ==
    LET cost == EstimateTokens(s.length)
    IN  CASE s = Nothing -> m
          [] s # Nothing /\ ~s.relevant -> Leave(m, s, "irrelevant")
          [] s.relevant /\ ~Fits(m.used, cost, budget) -> Leave(m, s, "token_budget")
          [] OTHER -> [m EXCEPT !.summary = TRUE, !.used = @ + cost]

ManifestOf(r) ==
    LET start  == [Empty EXCEPT !.left = Unranked(r.found)]
        packed == FoldLeft(LAMBDA m, e : Packed(m, e, r.budget), start, Candidates(r))
    IN  WithSummary(packed, r.summary, r.budget)

(* Mutant of Has: a schema past its time to live counts.                   *)
HasAny(r, type) == \E i \in DOMAIN r.found : r.found[i].type = type

\* has_valid_schema and has_freshness
Has(r, type) ==
    \E i \in DOMAIN r.found : r.found[i].type = type /\ Screened(r.found[i]) = "ranked"

Assembled ==
    /\ \A i \in DOMAIN wanted.metric : wanted.metric[i].active
    /\ assembled' = [result |-> "manifest", manifest |-> ManifestOf(wanted),
                     needs |-> {type \in wanted.requires : ~Has(wanted, type)}]

\* A metric is not Active, or a source fails: two resources of dbt have the name
\* of the relation.  No evidence is of another trust than UntrustedData, the one
\* there is.
Refused == assembled' = [Pending EXCEPT !.result = "error"]

Assemble ==
    /\ assembled = Pending /\ UNCHANGED wanted
    /\ Assembled \/ Refused

Spec == Init /\ [][Assemble]_packingVars

-----------------------------------------------------------------------------
\* validate_manifest_budget counts what is in the manifest.
TokensOf(m) ==
    FoldLeft(LAMBDA n, e : n + EstimateTokens(e.length), 0, m.included)
        + (IF m.summary THEN EstimateTokens(wanted.summary.length) ELSE 0)
WithinBudget(m) == TokensOf(m) = m.used /\ m.used <= wanted.budget
ModelSafe(m)    == \A i \in DOMAIN m.included : ~m.included[i].restricted

\* The writer of the manifest's artifact, then the builder of the prompt.
Written(m)  == WithinBudget(m) /\ ModelSafe(m)
Prompted(m) == WithinBudget(m) /\ ModelSafe(m)

(* What the assembler packs, the prompt builder and the writer accept.     *)
PromptAccepts ==
    assembled.result = "manifest" => Written(assembled.manifest) /\ Prompted(assembled.manifest)

(* What is left out for the budget would not fit in what is left of it,    *)
(* and everything that was found is in the manifest once, in or out.       *)
FillsBudget ==
    LET m == assembled.manifest IN
    assembled.result = "manifest" =>
        /\ \A i \in DOMAIN m.left : m.left[i].why = "token_budget" =>
               m.used + EstimateTokens(m.left[i].of.length) > wanted.budget
        /\ Len(m.included) + Len(m.left) + (IF m.summary THEN 1 ELSE 0) =
               Len(wanted.metric) + Len(wanted.dbt) + Len(wanted.found)
                   + (IF wanted.summary = Nothing THEN 0 ELSE 1)

\* Evidence that came to be weighed is in the manifest, or out for the budget.
Weighed(m, e) ==
    \/ \E i \in DOMAIN m.included : m.included[i] = e
    \/ \E i \in DOMAIN m.left : m.left[i] = [of |-> e, why |-> "token_budget"]
Doubles(m, e) ==
    /\ \E i \in DOMAIN m.left : m.left[i] = [of |-> e, why |-> "duplicate"]
    /\ \E j \in DOMAIN Candidates(wanted) :
          Candidates(wanted)[j].source = e.source /\ Weighed(m, Candidates(wanted)[j])

(* A phase that requires the schema, or the freshness, asks for it unless  *)
(* valid evidence of that type was found and weighed for its prompt.  It   *)
(* does not ask for what it has found and then lost to the token budget,   *)
(* or to evidence of the same source and version that was weighed before.  *)
EvidenceOrNeed ==
    assembled.result = "manifest" => \A type \in wanted.requires :
        \/ type \in assembled.needs
        \/ \E i \in DOMAIN wanted.found :
              LET e == wanted.found[i] IN
              /\ e.type = type
              /\ Weighed(assembled.manifest, e) \/ Doubles(assembled.manifest, e)

=============================================================================
