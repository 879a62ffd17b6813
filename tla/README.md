# Verification of the ys-data-agent runtime

`ysda` answers questions about data: a client (the TUI or the CLI) sends a
message, the runtime turns it into a *Run* of a *Task*, a loop alternates a
language model and governed tools until the Run waits, ends or is cancelled, and
everything that happened is kept in one SQLite file. The Runs outlive the
process: `ysda task resume` picks one up where a crash left it.

The TLA+ modules in this directory model that runtime from the Rust source at
this commit (paths below are relative to `src/`). `PROJECT.json` maps every
definition to the lines it stands for.

## 1. Inventory

State is what the component keeps between two calls.

| component | source | state | operations | talks to |
|---|---|---|---|---|
| AgentService (Run commands) | `crates/ys-agent-runtime/src/service.rs` | none of its own: rows `runs`, `run_events`, `command_receipts` | `send_message`, `resume_task`, `answer_clarification`, `cancel_run`, reads | store, scheduler, recovery, coordinator, provider service |
| BackgroundScheduler | `apps/ysda/src/bootstrap.rs` | `scheduled`: set of Run ids, per process | `schedule`; the spawned task removes the id | LoopDriver, event publisher |
| LoopDriver | `.../loop_driver.rs` | usage counters of one call of `run` | `run`, `fail` | harness |
| Harness | `.../harness.rs` | none: a step reads the row and appends | `step`, `fail_terminal` | store, workflow, tool runtime, model, artifact store |
| Query workflow | `.../workflow/query/` | `QueryWorkflowState`, inside the snapshot | `next`, `validate_action`, `apply_tool_outcome`, `verify`, `package` | harness |
| RecoveryManager | `.../recovery.rs` | none: replays Events | `reconstruct`, `assess`, `apply` | store |
| Tool runtime, catalog, view | `.../tools/` | semaphores per tool | `prepare`, `execute_prepared` | tools |
| Query tools | `crates/ys-agent-adapters/src/tools/` | immutable artifacts | `query_data` preflight and execute, `inspect_schema`, `resolve_metric`, `read_freshness` | connectors, artifact store |
| SQLite runtime store | `crates/ys-agent-store/src/sqlite.rs` | the database | `append`, `commit_command`, `create`, `replace_snapshot_cache`, loads | everyone |
| Event publisher and subscription | `service.rs`, lines 280-420 | broadcast channel; a cursor per subscriber | `notify`, `next` | TUI |
| Provider management | `.../provider/`, `crates/ys-agent-store/src/provider.rs` | profiles with revisions, active selection, bindings of Runs, credential journal | create, update, validate, activate, remove | vaults, store, resolver |
| Credential vaults | `crates/ys-agent-adapters/src/credential/` | files, memory | put, get, delete | provider management |
| ChatGPT OAuth | `crates/ys-agent-adapters/src/oauth/chatgpt.rs` | pending authorization, tokens | authorize, exchange, refresh | vault |
| Artifact store, export | `crates/ys-agent-store/src/local_artifacts.rs`, `.../export.rs` | content-addressed files | put, get, export | store |
| Context assembler | `.../context_assembler.rs` | none | `assemble` (a token budget) | context adapters |
| Coordinator | `.../coordinator.rs` | none | routes a message | service |
| Model adapters, connectors, SQL policy | `crates/ys-agent-adapters/src/model`, `data` | none shared | one remote call each | harness, tools |
| TUI | `apps/ysda/src/tui/` | application state, generation counters of background work | key and event handlers | AgentService |
| CLI and wiring | `apps/ysda/src/{cli,main,bootstrap}.rs` | none | start-up | everyone |

What is hard here, and what makes each part correct:

* **Store + harness + commands.** Drivers, answers, cancels and recoveries of
  several tasks and processes build the next snapshot from one they read
  earlier. Correct: the version of the row serialises them, the row is the
  projection of the Events, a command takes effect once, an ended Run does not
  run again.
* **Recovery.** A process may end between `ToolExecutionStarted` and the
  outcome, or a resume may arrive while the tool still runs. Correct: a Run has
  at most one open call, an interrupted call is retried under a new id, and an
  expensive one only when the user says yes.
* **Scheduler.** A wake-up may arrive while the driver is returning. Correct: a
  scheduled Run is always released; a Run that is Running has someone to run it.
* **Workflow.** The model proposes any action in any phase. Correct: a Run
  succeeds only with a verification report about the evidence it cites.
* **Tool runtime.** Timeouts, retries and semaphores. Correct: an attempt that
  may have had an effect is not repeated, a call said to have failed left nothing
  running (but for rows given up half read, T2), permits come back.
* **Providers and credentials.** Two stores (database, vault) with no common
  transaction, calls that may be dropped at every await, and a recovery that runs
  when any process starts. Correct: no profile names a credential that is gone,
  no orphan secret stays, a Run keeps the credential it was bound to, only what
  was proved is activated, and what is active keeps its credential.
* **Resolver.** Concurrent steps share one client per Run. Correct: one build,
  the bound credential, and nobody fails for another's reason.
* **Event feed.** A broadcast that may lose notifications, a reload that may be
  dropped, three sources of truth for one timeline (replies, Events, rows).
  Correct: the TUI ends with how its Run ended, and an answer reaches its Run.
* **TUI.** Background completions race the user, who leaves, returns and retries.
  Correct: a stale completion changes nothing, a screen that waits waits for
  something, and what the user typed is kept.
* **Files.** Bytes are written before the transaction that records them, into
  directories that are not all synced. Correct: a row has its bytes and a recorded
  export is whole whenever the process stops; what a loss of power may take is named.
* **Context.** A token budget that several parts count. Correct: what one packs
  the others accept, everything that was found is in the manifest, in or out, and
  what is required and was not found is asked for.

Every such place is listed with its line under `hazards` in `PROJECT.json`.

## 2. Plan

| # | module | about | state |
|---|---|---|---|
| 1 | `RunJournal` | snapshots, batches of Events, what recovery reads out of them | done |
| 2 | `RunLifecycle` | commands, scheduler, driver, recovery over the store, several processes | done |
| 3 | `RunContract` | what clients are promised; refined by 2 | done |
| 4 | `RunLifecycle_proofs` | types, ledger, commands, calls, the refinement | done |
| 5 | `QueryEvidence`, `QueryLoop` | the phases of the workflow, evidence and its provenance, the completion gate, retries | done |
| 5a | `QueryLoop_proofs` | types, evidence, packaging, unknown queries, confirmations, answers, reports | done |
| 6 | `ProviderStore`, `ProviderLifecycle` | revisions, activation, Run bindings, the credential journal against the vault | done |
| 7 | `OAuthConnection` | the subscription sign-in over the same tables | done |
| 7a | `ProviderLifecycle_proofs`, `OAuthConnection_proofs`, `MCProvider_proofs` | vault and tables, bindings, evidence, lost edits, tokens, what stays behind; the two of them together | done |
| 8 | `ProviderScreen` | the setup screen and its background operations | done |
| 9 | `EventFeed` | subscription and timeline of a Run | done |
| 10 | `ToolRuntime` | permits, both timeouts, the retry rule, what runs on | done |
| 10a | `MCHost_proofs` | tool calls; the timeline and the answers; the screen; the types of all three | done |
| 11 | `RunResolver` | the cache of clients, the active Profile of a turn | done |
| 12 | `ArtifactFiles`, `ContextPacking` | files under crashes; the token budget | done |
| 12a | `ArtifactFiles_proofs`, `MCCommands_proofs` | rows and exports under crashes; the client of a Run; the picker; the line; the prompt | done |
| 13 | `ModelPicker`, `Composer` | guards of background reads; the line | done |

How the modules compose:

* `RunLifecycle` EXTENDS `RunJournal`; `RunProperties` EXTENDS it and INSTANCEs
  `RunContract`; `QueryLoop` EXTENDS `QueryEvidence`.
* `ProviderLifecycle` and `OAuthConnection` EXTEND `ProviderStore`, the tables both
  work on; `MCProvider` declares these once and instantiates the two.
* `MCHost` and `MCCommands` instantiate parts that share no state, each over its own
  variables. A variable `part`, chosen initially, says which of them moves. This is
  the union of the parts' behaviours, not their product: parts that share nothing
  would only multiply states. What crosses between them is an input of each (a Run's
  Events in `EventFeed` are what `RunLifecycle` appends, a generation in
  `RunResolver` is a row of `ProviderStore`), left as open as the other allows.

* The proofs of a part are in a module that EXTENDS it. What is proved of
  `ProviderLifecycle`, `OAuthConnection` and `ArtifactFiles` reaches the
  specifications the runs check by instantiating the module of their proofs
  (`MCProvider_proofs`, `MCCommands_proofs`); the parts of `MCHost`, the resolver,
  the picker and the line are proved about where they are instantiated.

## 3. Run lifecycle

### Modules and their correspondence with the code

`RunJournal` holds the data. A *snapshot* is `RunSnapshot` reduced to what the
lifecycle tells apart: `status`, `version`, `attempt`, `retryOf`
(`retry_of_run_id`), `wait` (the kind of the pending clarification), and from
`workflow_state` the pending recovery call, its cost class and the confirmation
flag. A *journal* is the sequence of batches one transaction appended: the Tool
Events, `RunResumed` where recovery looks for it, and the snapshot of the
`RunStateProjected` Event that closes every batch. `FactsValid`,
`UnfinishedCalls`, `UnresolvedUnknown`, `Projectable` and `Projection` are the
pure functions of `recovery.rs`.

`RunLifecycle` has one action per store transaction (`BEGIN IMMEDIATE`
serialises them), together with the code around it that touches no shared state:

| variable | code |
|---|---|
| `rows`, `journal`, `created`, `receipts` | tables `runs`, `run_events`, order of `runs.created_at`, `command_receipts` |
| `reqs` | futures of AgentService calls: program counter and locals across `.await` |
| `sched` | `BackgroundScheduler.scheduled`, per process |
| `drv` | the spawned `LoopDriver::run`: program counter, the snapshot the step has loaded, its call, the steps used |

A driver walks `step` (head of the loop), `loaded` (after `load_run`), `model`
(ModelRequested appended, the model thinks), `acked`, `tool` (ToolExecutionStarted
appended, the tool runs), `outcome`, `failload`/`failappend` (`fail_terminal`),
`returned`. A request walks `check` (`replayed_receipt`), `load`, `commit`
(`commit_command`), and for a resume of an existing Run `read`, `compare`,
`replace` (`reconstruct`, twice: once in `apply`, once in `assess`), `facts`
(`assess`'s own load of the Events), `mark` (`append_state`), `receipt`,
`schedule`.

`RunProperties` states the properties, `MCRunLifecycle` the symmetry for TLC.
`RunContract` is the abstract specification; `ImplementsContract` in
`RunProperties` gives the mapping (statuses, retries, attempts and receipts are
projections of the store). Among what it promises: a Run that has ended is never
Running or waiting again, and only a failed Run is retried, by a Run with the next
attempt number.

### Abstractions

* One Task, whose Runs are the constant `Runs`. Message routing leaves
  `send_message` three outcomes; replies without a Run are not modelled.
* `"High"` stands for `CostClass::High` and `CostClass::Unknown`: every branch
  of recovery treats them alike.
* Which directive the workflow gives at a step is left open; all outcomes a
  step can have are enabled from a loaded snapshot. The phases are `QueryLoop`'s.
* A deadline, an overdrawn model, tool or token budget and a step limit are one
  action, `BudgetExceeded`, at the head of the loop, or `OutcomeOverrun` after a
  step has committed its last transaction.
* `reconcile` waits need a remote query id. No adapter of this repository
  attaches one to an interrupted call, so that branch of `assess` is left out.
* A driver that is scheduled for a Run that does not exist (the resume race of
  section 8) fails its `load_run` and ends; the model keeps the reply and the
  schedule, not the failing load.
* A step whose future the deadline drops is modelled as one whose last
  transaction did, or did not, commit before `fail_terminal` loads the row. A
  transaction that commits on the blocking pool after that load is not modelled.

### Runs

All of them check deadlock: `Quiet` is the one state in which the system may
stop (every delivery answered, every driver gone).

| run | instance | what it shows |
|---|---|---|
| `run_two_hosts` | 1 Run, 2 processes, 2 commands, 2 deliveries, drivers of 2 steps | `TypeOK`, `LedgerInv`, `CallEventsOnce`, `NoUndecidedWhileRunning` |
| `run_commands` | 2 Runs, 1 process, 2 commands, 2 deliveries, 1 crash | `OneEffectPerCommand`, `SingleUnfinishedCall`, `ImplementsContract`; the other parts of this run are section 7 |
| `run_high_cost` | 1 Run, 3 commands and deliveries, of which only an answer may share a command, 2 crashes, high-cost calls only | `HighCostRetryConfirmed` |
| `run_settles` | 1 Run, resumes, 1 crash, reconstruct in separate store calls, fair | `RowWasJournaled`, `ScheduledRunSettles` |

The bounds. One Run with two commands already has all pairs of actors at one row
(driver/driver, driver/command, command/command, command/recovery); a third actor
meets the same compare-and-set. Two Runs are what retries and a second start need.
Confirming an expensive retry takes three commands (start, resume, answer), hence
`run_high_cost`; only answers are delivered twice there (action constraint
`MarkedIssues`; the other runs duplicate everything), and two crashes let the
confirmed call be interrupted in turn. A driver of one step makes a whole tool
call and then runs out of budget; two steps add the loop. A crash with one process
is what a second process is to the first, so `run_two_hosts` has none. Symmetry
permutes model values and is used in the runs with safety properties only.

### Fairness

`FairSpec` gives weak fairness to each driver (a tokio task: runnable until it
returns) and to each API call (a future its caller awaits). Nothing forces a
client to call, a process to crash, or a call to fail. A driver that waits for a
model or a tool is bounded by the deadline of the loop
(`tokio::time::timeout(remaining, step)`), which is why `DriverNext` is fair as a
whole. `ScheduledRunSettles` then rests on the loop budget, on the driver's
errors all ending the loop, and on the scheduler's unconditional remove.

### Proofs

`RunLifecycle_proofs` proves, for any Runs, commands, processes, deliveries, crashes
and lengths of a driver's loop,

* `TypeCorrect`: `Spec => []TypeOK`. `TypeOK` is not inductive: a request that
  is past `load` writes `rows[req.run]` and `receipts[req.cmd]`, so the
  induction needs that these name a Run and a command at the program counters
  that use them. That is `WellAddressed`; `TypeInv` is the conjunction. One lemma per
  action, grouped by actor.
* `CommandsTakeEffectOnce`: a receipt stands for one journaled effect, of the Run it
  names. The argument is that of `commit_command`: receipt and effect are one
  transaction, and `replayed_receipt` is asked again inside it.
* `RowsAreJournaled`: every row is some projection of its Run's journal, also when
  appends land inside a reconstruct and the cache write of the recovery goes
  backwards: what a request has replayed and is about to write is such a
  projection (`JournaledInv`).

and, under the hypothesis `ReconstructIsAtomic` (no append between the two store
calls of `reconstruct`),

* `LedgerIntegrity`: `LedgerInv`: each row is the last projection of
  its journal, and the versions of the journal are 1, 2, 3, ... The inductive
  invariant adds `TypeInv` and `NoWindow` (no request is between the store calls
  of a reconstruct). Every append is guarded by `VersionMatches`, and by
  induction the row's version is the length of the journal, so the appended
  snapshot, whose version is one more than the one it was built from, extends
  the numbering. Inserts need that `FreshRuns` are rows nobody wrote.
* `RuntimeImplementsContract`: `Spec => ImplementsContract`, a step simulation. A
  commit is one step of `RunContract`, everything between commits a stutter. It
  needs what a program counter knows of the row it read: whoever holds a snapshot
  whose version still matches holds the row.
* `CallsHappenOnce`, `OutcomesAreDecided`, `RetriesAreConfirmed`: the histories of
  Tool calls. `CallIInv` follows the batches of a journal in order: which calls a
  prefix has proposed, started and ended, that the call a driver works on is one
  the journal has as open, and that a pending recovery call stands in the row
  that the unknown outcome was written with.
* `CallsAreUnfinishedOneByOne`, under the further hypothesis `OneProcess` (one
  process serves the store, as in the run): `SingleUnfinishedCall`. A driver starts
  a call only where none is unfinished, but it leaves one unfinished on its way to
  `failload`, and a crash leaves one in a Run that stays Running. `OpenInv` says who
  may then be near the Run: a driver is idle, runs that call, or is about to fail the
  Run, and no request that would schedule the Run is past its own append unless a
  driver of that kind is there to refuse it (`Rouses`, `Attended`). The crash that
  leaves a call takes these requests along, since they are of the same process; the
  next resume marks the call before it schedules.

`ReconstructIsAtomic` is needed: `finding_cache_race` is the counterexample to the
ledger without it, and the five others rest on the ledger. So is `OneProcess`: two
processes may drive one Run (section 8, Runs).

Of the lifecycle only model-checked: `ScheduledRunSettles` (liveness).

## 4. Query workflow

### Modules and their correspondence with the code

`QueryEvidence` holds the data and the pure functions: an Artifact is the facts
a later step compares (which Run wrote it, what it is about, which contract
version and plan body it was compiled from, under which scope and budget), and
`WorkflowStates` is `QueryWorkflowState` with each optional field a set of at
most one element. `LegalTransition`, `EntryAllowed` and `ReturnToPlan` are the
functions of `state.rs`; `Compiled`, `OfRun`, `StillPreflighted` and
`CostAccepted` the checks of `query_data.rs` in the order it makes them;
`MetricChecks`, `AdHocChecks`, `MetadataChecks` and `CommonChecks` those of
`verifier.rs` on the input `verification_input` builds; `Packageable` those of
`complete` and `QueryArtifact::package`.

`QueryLoop` has one action per commit of a Run: the directives of
`QueryWorkflow::next`, the effects of a model response, the start and the outcome
of a tool call, and the commands and process ends in between.

| variable | code |
|---|---|
| `question` | what `material_ambiguity`, `classify_intent` and `requires_current_freshness` read out of the Task's text |
| `registry`, `policy` | the metric registry and `HarnessConfig` (scope, budget) of the process |
| `run`, `status`, `wf` | attempt, status and `workflow_state` of the Task's latest Run |
| `call` | the ToolCall journaled as started and not as ended |
| `live` | a driver works on the Run |
| `unknown` | ghost: plans whose execution was marked indeterminate and not yet confirmed |

`ranUnder`, in a result, is the second ghost: the configuration the query really
ran under. The code stores no such thing; `EvidenceChain` says it is the
preflight's.

`QueryProperties` states the properties, `MCQueryLoop` the symmetry for TLC.

### Abstractions

* The races of drivers and commands on one row are `RunLifecycle`'s subject.
  Here commits of a Run follow each other, and a driver that outlives its Run's
  pause is kept only as `FailTerminal` while the Run waits; that it can also
  overwrite an ended Run is `finding_terminal`.
* Budgets, deadlines, cancellation and every error without a repair are one
  action, `FailTerminal`, enabled whenever the Run has not ended.
* The model passes `query_data` the Artifacts of the state it is shown
  (`workflow_evidence_messages`). An id it remembers from an abandoned plan of
  the same Run is left out: nothing in the workflow compares the plan a result
  names with the plan of the state, so `EvidenceChain` rests on that.
* The registry and the configuration change only with the process: both are read
  from files at start-up.
* `RepairToPlan` is both the repair of an action the workflow refuses and that of
  a call rejected before it starts; a repair in phase Plan changes only warnings.
* Checks on what the model leaves out (source, permission, the shape of rows,
  retention, the SQL policy) may fail at any verification, hence `VerifyFails`
  has no further guard. That the metric's relation is the compiled one follows
  from the contract being the same and is not a fact of its own. Which relation
  a freshness observation is about is compared by no code.

### Runs

| run | instance | what it shows |
|---|---|---|
| `query_loop` | 2 metrics, 2 versions, 2 plan bodies, 2 configurations, 2 Runs | `TypeOK`, `EvidenceChain`, `CompletionReady`, `SucceededIsGoverned`, `UnknownNotRepeated`, `GrantForRecoveredCall`, `VerifiedIsFinal` |

Two of each is what a mismatch takes: evidence about one metric, version, plan or
configuration presented for the other. Two Runs are one inheritance; the second
Run inherits any state the first can fail in, and a third would inherit a state
the second could have been in, but for the attempt numbers, which the theorems
of this section cover for any number. Within a Run nothing is bounded: repairs,
restarts, clarifications and interruptions may repeat for ever. Deadlock is
checked; a Run that has ended still has `Restart`.

### Proofs

`QueryLoop_proofs` proves, for any metrics, versions, plans, configurations and
number of Runs,

* `QueryTypeCorrect`: `Spec => []TypeOK`, which is inductive as it stands; the
  work is in the evidence records (`EvidenceTypes`) and in `CompiledType`, which
  needs that a registry has at most one Active version of a metric.
* `EvidenceBelongsTogether` and `VerifiedRunPackages`: `PhaseEvidence`,
  `EvidenceChain`, `CompletionReady`. `CompletionReady` speaks of one phase only;
  the inductive `GatesAgree` says the same of Package, where the report has just
  been written, because `Verified` implies `Packageable`. `PhaseEvidence` is what
  makes `EvidenceChain` inductive: a new preflight meets no old result, as there
  is none before Verify, and a new plan meets no old preflight, as there is none
  in Plan. It has no run of its own.
* `UnknownQueryNotRepeated`: the invariant `UnknownInv` says where an unconfirmed
  query can be: in an earlier Run, in a Run that failed, or in the Run that waits
  for its confirmation. So the plan of a Running Run, if it is the Run's own
  (`OfRun`), is never one of them.
* `ConfirmationIsForItsQuery`: a granted confirmation stands beside the recovered
  call it was given for and goes with it.
* `AnswersAreGoverned`: a governed result stands in a Run whose phase saw its
  contract resolved; the contract of plan, preflight and result is one.
* `ReportStaysTrue`, an action property: from Verify on, no step changes plan or
  result.

Every property of the run `query_loop` is stated by one of these theorems.

## 5. Providers and credentials

### Modules and their correspondence with the code

A *Profile* names a model and a credential *generation*; the secret of a generation
is in the vault, everything else in SQLite. `ProviderStore` has the tables and, as
operators over them, the transactions of `crates/ys-agent-store/src/provider.rs`
with the rules of `crates/ys-agent-core/src/provider.rs` they call.

| variable | code |
|---|---|
| `profiles` | `provider_profiles` with the current revision: model, generation, state, and the evidence (`proof`: which model and generation a validation was about) |
| `active` | the `active_provider` singleton, with its activation number |
| `gens` | `provider_credential_generations.status` |
| `journal` | `credential_mutations`: the newest record of a Profile, its phase and its staged generation |
| `vault` | the generations the vault can return |
| `bindings` | `run_provider_bindings`, with whether the Run has ended |

`ProviderLifecycle` has the calls of the management API: save, replace or delete a
credential, validate, switch the model, activate, remove a Profile, and the binding
of a new Run. A call is a record with the locals it keeps across awaits; each action
is the code between two awaits. `boot` is `recover_abandoned_intents` of a process
that starts, after a crash or beside a living one. `torn` and `late` are history.

`OAuthConnection` has the sign-in with a subscription: start (a device code),
complete, refresh, logout, view and cancel. `connections`, `deviceCodes` are
`ManagerState` of `ChatGptOAuthManager`; `logins`, `cancelled`, `cancels` belong to
the service. A call may be dropped at any await (`DropCall`), which is what the TUI
does with a timed-out operation.

`ProviderProperties` states what the first two promise; `MCProvider` runs them
(`part = "api"`) and the sign-in (`part = "oauth"`).

### Abstractions

* Pricing, limits, endpoints and the names of a Profile are left out; a revision
  differs from another by model and generation. `Revisions`, `Generations` and
  activation numbers are bounded by `MaxRevision`, `MaxGeneration` and
  `MaxActivation`.
* A probe of the remote model is a verdict; a listing of models any set.
* A failing store or vault call is an error return that changed nothing, at most
  `MaxFaults` of them. `MaxStarts` bounds crashes and second processes together.
* What ends a Run is `RunLifecycle`'s subject: a binding's Run may end at any time.

### Run

| run | instance | what it shows |
|---|---|---|
| `provider` | 1 Profile, 2 models, 1 Run, 2 operations, 3 calls, 1 fault, 1 start; 3 revisions, 3 generations, 2 activations | `TypeOK`, `CredentialInVault`, `BoundRunKeepsCredential`, `OnlyProvenIsUsed`, `ActiveKeepsCredential`, `NothingLeftBehind`, `NoLostEdit` |

Profiles share nothing but the active row, so one Profile and two concurrent calls on
it are where the conflicts are; the third call is what overtakes a stale form. Two
generations are an old and a new one, the third the rollback copy. Deadlock is not
checked: once the calls are used up the system may stop.

Where the code does not keep a promise, the property says so with a history variable
and names the entry of section 8: `torn` (F2, F9), `late` (F6), `crossed`,
`loggedOut` (F3), and `Quiet`, without faults, in `NothingLeftBehind` (F1).

### Proofs

`ProviderLifecycle_proofs` proves of the management API, for any Profiles, models,
Runs, operations, generations, calls, failures and starts:

* `ProviderTypesHold`. `TypeInv` adds to `TypeOK` what a program counter knows of
  its locals: which of them are set, and that they name rows.
* `VaultFollowsStore`: `CredentialInVault`. The invariants are `GensInv` (a generation
  that a call has staged, or the journal would have taken away, is named by no row and
  is at most one call's), `CallInv` (what a call knows of its record, of the revision it
  has seen and of the generation it retires) and `KeptInv` (what a row in force names is
  in the vault, unless the Profile is `torn` or a deletion has just taken it and not yet
  committed or put it back).
* `RunsKeepCredentials`: a generation a live Run is bound to is referenced, and only an
  unreferenced one is retired, except between the two reads of F6 (`late`).
* `UseIsProven`: `ProvenInv` carries the evidence from the validation to the active
  row and the bindings: model and generation of an active or bound revision are those
  of its proof.
* `ActiveStaysUsable`: `ActiveKeepsCredential`. The active row may be of a revision long
  replaced, so its generation need not be the one its Profile names. A retirement asks
  the active row before it deletes (`ReadActiveReference`), and a generation is retired
  only when its Profile has another, while an activation takes the current one: nobody
  can make the retired one active between the question and the deletion. The exception
  is a Profile whose credential a deletion has taken and not yet put back, or lost
  (`Taken`, which includes `torn`: F2, F9).
* `EditsSurvive`: `NoLostEdit`, an action property. A call that moves a pointer compares
  the revision it has seen (`SeenRevision`), and an open record of the journal is its
  own (`OwnRecord`).
* `NoSecretOrphaned`: without failures nothing stays in the vault that the store has
  written off. Failures and starts are only counted up, so a state without them
  (`Calm`) has only such states behind it, and `CalmInv` may say what those know of all
  calls at once: an open record has a call at work on it (`Attended`), at a point
  that fits the phase of the record (`InStep`); and what the vault holds or is about to
  get is known to the store (`Known`, `Comes`) until the call that writes it off has
  emptied the vault of it (`Emptied`).

`OAuthConnection_proofs` proves of the sign-in `TokenTypesHold`, `TokensStay` and
`SignInLeavesNothing`. The invariant `TokenInv`: a generation that is staged is one operation's own and no pointer
names it; it is recorded as written before a pointer does; and what was recorded is
kept in the vault or is traced by the journal, up to the exceptions the property
names. `SignInLeavesNothing` (no tokens the store has written off, no journal left
open, without failures and cancels) follows `NoSecretOrphaned`: one operation works at
a time (`Alone`) and the open record is its own; tokens it wrote are named by the
connection until its rollback has logged it out (`Traced`).

`MCProvider_proofs` carries them over to the specification of the run, where either part
may be the one that moves: `CredentialsStay`, `RunKeepsCredential`, `ProvenIsUsed`,
`ActiveIsUsable`, `ModelsStay`, `NothingStays`, and `AllTyped`. Every property of the run
is stated by one of these theorems.

Nothing here says that a Profile whose mutation was blocked is never bound again: it is
not true. The block clears the active row, activation numbers start again at 1 (F5), and
with five calls a snapshot read before the block can match a later activation of the same
Profile, so that a Run is bound on it.

## 6. Around a Run: screen, feed, tools, recovery

`MCHost` runs four parts, under the liveness property `WaitEnds`.

### Modules and their correspondence with the code

`ProviderScreen` is the Provider setup of the TUI.

| variable | code |
|---|---|
| `ui` | `ProviderManagementScreen` and the Provider fields of `TuiController` |
| `ops` | `AsyncOperationRegistry` (`event_loop.rs`): queued, inside the service, completed or cancelled, with retries |
| `nav` | the stack of routes and its generation; whether the screen is shown; a message in flight |
| `store` | the Profile behind the service and the active snapshot |

Keys, completions and the operations interleave; `Elsewhere` is another client of the
same store. An operation is keyed by the visit it began on (`key`), as in the code.

`EventFeed` is `EventPublisher`, `EventSubscription` and the timeline. `logs` are the
Events of each Run that may move a status, `drivers` the Runs a driver holds (it
notifies only when it lets go), `tui` the Run in focus with its cursor, subscription
and base view, `timeline` is `TimelineState` with its ranks, `request` the submission
in flight. `DropNext` is the `tokio::select!` of the event loop, which drops the
future of `next()` at any await.

`ToolRuntime` is `execute_prepared` for the calls of one Run: admission by phase, the
semaphore under its timeout (`gate`), the tool under the other, the source that
answers whether someone still waits or not (`remote`), and the retry rule. A call may
fail after its source was done, or in the middle of its rows (`StreamBreaks`): the
connection breaks, or a cell does not decode (`postgres.rs:241-262`), and
`execute_postgres_rows` returns while the statement may run on. Such calls are
remembered in `unread`.

The part `recovery` is `ProviderLifecycle` once more, with credential calls only.

### Abstractions

* Typed text is whether it is there, a model list its members. One Profile: the setup
  works on one.
* Events that cannot move a status are left out of `logs`; a lagged channel is one
  more notification, as `next` reloads either way.
* Every tool of the tree declares itself idempotent (`spec.idempotent`,
  `tools/runtime.rs:694`), so the retry rule depends on cost, outcome and the error's
  retryability. `MaxRetries` in the run is 1,
  the value of the production configuration (`bootstrap.rs:1163`).

### Run

| run | instance | what it shows |
|---|---|---|
| `host` | screen: 2 models, 2 operations, 3 revisions, 2 visits, 1 retry; recovery: 1 Profile, 2 calls, 1 fault, 1 start; feed: 2 Runs, 4 Events; tools: 2 calls, 1 permit, 1 retry | `TypeOK`, `BusyIffActive`, `OneInside`, `ActivatesWhatIsShown`, `AnswerReachesRun`, `Conclusion`, `ToolCallsAccounted`, `WaitEnds` |

Two operations are one inside the service and one that waits or was started after a
cancel; a third would wait behind the same mutex. Two visits are what a stale
completion needs. Four Events take a Run through a question, its answer and its end,
or one Run to its end and the next to its start. Two calls at one permit contend.
Deadlock is not checked: the bounds on Events and visits end a behaviour.

### Fairness

`Spec` of `MCHost` states it per part: weak fairness of what an operation of the
screen does and of the registry (`Working`, `Registry`: spawned tasks and the event
loop's completion channel), of the calls and the recovery of a process (`Mutation`,
`Deletion`, `Recovery`), of the subscription's steps (`Following`), and of the two
timers of the tool runtime (`Timeout`). Strong fairness of `FirstRead` and `Loaded`:
a read of the store can be dropped by every tick and every key, but takes less than a
tick, so that one of its attempts is finished. Nothing forces the user, the remote
model, a driver or the data source. With that, a screen is not busy for ever, an
abandoned intent is rolled back by the process that starts next (if no call fails
it), the TUI learns that its Run ended (unless it dropped the reload, E1), and a tool
call returns.

### Proofs

`MCHost_proofs` proves of the specification of the run, `Init` and `Next` of all its
parts included:

* `ToolCallsAreAccounted`: `ToolCallsAccounted` for any finite set of calls and any
  number of permits and retries (`ToolsAssumption`); that a failed call has stopped is
  said of all but those in `unread` (T2). `CallInOrder` says what was sent and
  what still runs at each point of a call: it is retried only before it was sent. That
  the permits out are the number of calls at work is an induction over steps that
  move one call, by the cardinality of the set of those that hold one.
* `AnswersReachTheirRun`: `AnswerReachesRun`, for any Runs and Events. `FocusInv` says
  what cursor, subscription and inbox of the Run in focus know of its log, `AnswerInv`
  that whoever has applied the whole log of a waiting Run in focus shows the
  clarification, unless the reply to an answer came late (E9, `overtaken`).
* `TimelineConcludes`: `Conclusion`, an action property. By `TimelineInv` the timeline
  shows a status of the Run in focus (`Shows`) with the rank that keeps what is older
  from replacing it.
* `OneOperationInside`, `ScreenWaitsForWhatRuns`, `ActivationIsOfTheModelShown`:
  `OneInside`, `BusyIffActive` and the action property `ActivatesWhatIsShown`, for any
  models, revisions, visits, retries and any size of the registry (`ScreenAssumption`).
  `ScreenIInv` relates screen, registry and navigation (`ScreenInOrder`): a cancelled
  operation belongs to no visit (`RegistryInOrder`); a shown screen is of the current
  visit (`VisitInOrder`); a busy one waits for an operation that runs for that visit
  (`WaitInOrder`), and whatever runs for the visit is that operation (`OwnsInOrder`);
  the candidate kept to the last step, the operation waited for and what it found are
  of the model on the screen (`ModelInOrder`, `TaskInOrder`). The last three need that
  the screen was not hidden by a submission and opened again over an operation of its
  visit (`reused`, U3), and that the program has not panicked (`alive`, U1). The proof
  follows the handlers: `AppliedResult` is what a completion makes of a screen,
  `StartKeeps` what starting an operation may change and fail to change, and
  `TakeCompletionKeeps` composes the two as `apply_provider_operation` does.

* `HostTyped`: `TypeOK`, the bounds included. The screen's invariant carries them
  (`ScrTypes`): the attempts of an operation stay within the policy's, as `Attempt`
  ends it before it counts further, and the routes within the visits
  (`RoutesWithin`), as each push can be undone by one pop: the generation plus the
  routes above the timeline never exceeds twice the bound on pushes. The feed has
  `FeedWithin`: a log grows only while there is room (`MoreRoom` bounds one log by the
  cardinality of all Events), and with `FocusInv` the cursor, what a subscription has
  loaded and what the timeline counts stay within it.

The assumptions on the constants (`ScreenAssumption`, `FeedAssumption`,
`ToolsAssumption`) are stated in `MCHost`, where the run evaluates them.

Only model-checked: `WaitEnds` (liveness).

## 7. Beside the commands: files, prompt, client, picker, line

`MCCommands` runs `MCRunLifecycle` and, as behaviours of their own, five small parts.

| module | code | variables |
|---|---|---|
| `ArtifactFiles` | `local_artifacts.rs`, `export.rs`, the export writer of `bootstrap.rs:447` | each put with its row; content files and their shards, each `volatile` until the directory that has its name is synced; temporaries; each export call, the export files, the receipts |
| `ContextPacking` | `context_assembler.rs`, `dbt_manifest.rs`, the prompt builder and the manifest writer | what was wanted and found; the manifest |
| `RunResolver` | `provider/resolver.rs` | bindings, what provider management keeps (`world`), the `OnceCell`s and the cache that names them, the callers |
| `ModelPicker` | `model_selection.rs`, `async_guard.rs`, the picker's part of `app.rs` and `event_loop.rs` | the picker, the reads under way with the Catalog lane, the switch under way, the header, the active model |
| `Composer` | `composer.rs`, `palette.rs`, `mode_picker.rs` and the keys of `app.rs` and `event_loop.rs` that reach them | line, history and its index, draft, overlay, a submission in flight |

Abstractions. A body is its hash, and hashes that begin alike share a shard. A crash of the process
(`Crash`) loses no file. A loss of power (`PowerLoss`) takes any choice of the names in
directories that were not synced: content files in a shard that `put_artifact` had not
yet synced, whole shards whose name is in `artifacts`, which nothing syncs, and export
files, whose directories nothing syncs either. What is found again afterwards is on disk
(`durable`, `onDisk`). Writing, syncing and renaming may each fail, the write of an export
after it has truncated a recorded file. In the prompt, every source may fail, an inactive
metric is an error, and the one trust that evidence can have (`context.rs:8-12`) makes the
check of `context_assembler.rs:212-217` unreachable. The lengths of evidence are two, on both sides of a
token. Bindings are immutable, so the digest of a cached client always matches
and is left out; a credential status counts as usable or not; that a client cannot be
built is left out, as validation has built it before. The reads of earlier visits of
the picker are one kind: dropped whenever they come. A line is a sequence of pieces
(a word, a slash, a command); undo, redo and movement of the cursor but to the ends
are left out.

| run | instance | what it shows |
|---|---|---|
| `run_commands` | 2 puts of 1 body, its shard new or old, 2 exports of 1 command, crashes, losses of power | `RowHasBytes`, `ExportStands` |
| | budget 3, lengths 4 and 5, 3 pieces of evidence of the Run (at most 2) and of dbt, besides metric and summary | `PromptPacked` |
| | 2 callers, 1 bound Run, 2 generations, 2 changes of the world, restarts | `RightClient` |
| | 2 targets, 2 reads under way, 1 switch | `PickerShowsAnswer`, `ShowsActive` |
| | lines of 2 pieces, 2 lines of history | `TextIsKept` |
| | artifacts and picker | `PartsTypeOK` |

Two puts of one body are the only way files are shared; two exports of one command are
a duplicate delivery, or two exports of which one may fail or tear what the other has
recorded. Symmetry permutes commands, puts and exports. A budget of three tokens is filled exactly, overrun by one and
underrun by one. Cells of distinct Runs share nothing, so one bound Run has every
race on a cell, and two changes are a break and a repair. A third read of the picker would
be dropped by the same comparison with the lane. Two pieces are a word with a slash
in front or behind.

### Proofs

* `ArtifactFiles_proofs`: `RowsHaveBytes`, `ExportsStand`, `ArtifactTypesHold`, for any
  artifacts, bodies, shards, exports, commands, crashes and losses of power, with the one
  hypothesis that `NoExport` names no export. `PutInOrder` follows a put from its
  temporary over the rename and the sync of the shard to its row: past the sync the file
  is not `volatile`, so that a loss of power takes it only with its shard, and then the
  put had found the shard without knowing it on disk (`fresh`), or had found the file
  and synced nothing (`saw`). `ExportInOrder` says that a file somebody writes will be
  whole by that writer or by the one that cut it, or is in `torn`. `MCCommands_proofs` carries the first two
  over to the run (`RecordsHaveBytes`, `ExportsStandFast`).
* `MCCommands_proofs`, `BoundClientAnswers`: `RightClient`, for any callers, Runs,
  generations and changes of the world. `ResolverInv` says what each program counter of
  a caller knows: the cell it holds, what was built for that cell, that a client in a
  cell is of the generation of the Run the cell is for. The hypothesis `Apart` says that
  model values that stand for nothing (`Talk`, `NoGeneration`) are none of the values.

* `MCCommands_proofs`, `PickerAnswersHold` and `ActiveModelShown`: `PickerShowsAnswer` and
  `ShowsActive`, for any models and any number of background reads. The properties are
  about what is on show; `PickerInv` adds what is on its way to it. The request in the
  lane is for the target on show (`LaneFits`); nothing is asked for from another screen,
  and a committed switch of this visit has set the active model (`VisitFits`); and while
  no switch has committed, the header, an answer under way and the list agree with the
  service (`AgreesWithService`). The hypothesis `PickerConstants` gives the bound on
  reads a positive value and sets the model value `NoTarget` apart.
* `MCCommands_proofs`, `TypedTextStays`: the action property `TextIsKept`, for texts and
  histories of any length, with no hypothesis. It speaks of lines with no overlay open:
  a line that is replaced is in the history or put aside, or was edited away by the key
  just pressed; a line of the history that was pasted into is excepted (`PastedInto`).
  It says nothing of a line an overlay closes over, where the code wipes what the
  repository's design keeps (section 8).
* `MCCommands_proofs`, `PromptsArePacked`: `PromptPacked`, the exact condition under which a
  required type is not asked for included (C1), for any evidence, texts of any
  length and any budgets, all natural numbers (`PackingConstants`). The
  manifest is a fold over the list of candidates, its cost one over what it includes.
  The library's induction theorems, which take the statement as an operator, cannot be
  cited; `Counting` states induction as a property of sets, from the well-foundedness
  of `<`. With it `Recursion` shows that the function a fold chooses
  exists, `Results` what it is on the first n elements, and `ThoseSteps`, `CostSteps` and
  `PackSteps` give each fold as a sequence of steps. Then `AddsUp` is an invariant of the
  packing: tokens used are the cost of what is included and within the budget, what
  was left out for the budget does not fit, and each candidate met is in or left out.
  For that the model writes the choices from the Run's evidence as folds (`Those`):
  the prover does not expand `SelectSeq`.
* `MCCommands_proofs`, `PartsTyped`: `PartsTypeOK`.

Of these parts nothing is only model-checked.

## 8. Disagreements between code and documentation

### Found by a run

Each of these is a `violation` run whose counterexample is a behaviour of the code.

* `finding_terminal`: `fail_terminal` (`harness.rs:1113`) does not look at the
  status. A Run cancelled while its driver works ends as Failed, although
  `can_transition` (`run.rs:157-191`) has no edge out of a terminal status.
* `finding_history`: a call that preflight rejects is journaled as proposed and
  failed, never as started (`harness.rs:709`). `ExternalFacts::validate`
  (`recovery.rs:168`) calls such a history corrupt, so the Run can no longer be
  resumed, against `README.md:318`.
* `finding_cache_race`: `replace_snapshot_cache` (`sqlite.rs:825`) overwrites
  the row whatever its version is. An append that lands between reconstruct's
  two store calls is undone in the row and the next one forks the versions,
  against the single-writer rule of `docs/PRD.md:1050`.
* `finding_lost_wakeup`: `schedule` (`bootstrap.rs:789`) returns when the Run is
  still in the set. An answer committed between the driver's last transaction
  and its removal leaves the Run Running with no driver (`README.md:318`).
* `finding_current_data`: `docs/PRD.md:481` blocks the answer to a question for
  current data while its freshness cannot be confirmed. `verify_metric` does
  (`required_freshness_known`); `verify_adhoc` (`verifier.rs:213`) has no such
  check, and an AdHoc Run is not even asked to read freshness
  (`QueryWorkflow::next`, `mod.rs:86`). Instance: one metric, one version, one
  plan, one configuration, one Run.

### Met while modelling

These are not runs: most are outside what the documents say, and the properties above
exclude them by name where they would violate them.

**Runs.** `resume_task` ignores the receipt
`commit_run` returns (`service.rs:1632-1642`), so of two racing deliveries of one
command one is answered with a Run id nothing created; two processes may drive one
Run at a time, as the scheduled set is per process (`bootstrap.rs:789`), and then
`SingleUnfinishedCall`, proved and checked for one process, does not hold. A retry Run
copies `workflow_state` (`service.rs:1627`), a pending high-cost call included,
and starts that call without a confirmation; the query is not repeated only
because `query_data` refuses the Artifacts of another Run
(`UnknownNotRepeated`). For the same reason a retry of a Run that failed between
Plan and Verify fails again, unless the model proposes a plan out of phase and the
repair leads it back to Plan. A preflight that asks for a cost confirmation can be
executed only by a recovered call the user confirmed: no other path passes
`confirmation_granted: true`.

**Providers.**

* F1. A crash or a dropped call after the vault was written (`VaultWritten`,
  `PointerCommitted`) leaves its record open for good: `recover_abandoned_intents`
  takes back intents only (`provider/service.rs:70-88`), and an open record forbids
  every new Run.
* F2. The recovery of a second process rolls back the intent of a mutation the first
  is still making (`provider/service.rs:70-74`), and deletes the secret it stages.
* F3. A failed refresh rolls back by a logout, which deletes the old, good generation.
* F4. `delete_profile` removes only the current generation from the vault; a
  generation that was retained stays.
* F5. Activation numbers start again at 1 when nothing is active (`crates/ys-agent-store/src/provider.rs:535`),
  so that a snapshot read before may match one activated after.
* F6. `generation_is_referenced` is two reads (`provider/service.rs:272`): a Run bound
  between them loses its credential.
* F7. `complete` sets a generation that was retired meanwhile back to retained.
* F8. `switch_model` activates whatever revision is current and Ready at the end.
* F9. A crash, or a failing write-back, between the vault and the store in
  `delete_profile` leaves a Profile without its credential.
* R1. `release_run` (`provider/resolver.rs:137`) has no caller, although the comment at
  `resolver.rs:20-21` has clients released when their Run ends: a client, with its
  secret, stays cached until the process ends, also after a revocation.
* Sign-in: a view that reads a connection back while an operation owns it resets the
  owner (`crossed`); the late completion of a superseded login logs the current
  connection out.

**Terminal interface.**

* U1. A revalidation that completes for a screen in another state meets an `expect`
  (`app.rs:1355`). U2. After a save from the last step the candidate is gone: `a` and
  Enter do nothing. U3. The completion of a message hides the Provider screen; opened
  again on the same route, the old operation drives it and Esc does not reach it
  (`reused`). U4. On a hidden screen `/model` drops a completion; a sign-in code is
  then never shown. U5. Closing keeps the candidate, and a typed secret in memory.
  U6. A secret is taken from the form before the registry is found busy.
* U7. The result of a model switch is dropped when the route changed, and the header
  stays stale; a switch has no timeout. U8. `begin_command` uses a pending command id
  again for a command of another kind, after a failure. U9. A validation retried after
  its first attempt had committed fails on a Ready revision. U10. Tab while the
  candidates load leaves the picker loading (`model_selection.rs:323`). U11. A switch
  may fail after its commit (`provider/api.rs:183`). U12. A refresh replaces the retry
  of a first snapshot, and its failure leaves the picker loading.
* U13. Closing an overlay loses what was on the line, against the repository's own design:
  `.kiro/specs/tui-interaction/design.md:22` has the content of the Composer unchanged
  after an overlay closes, and `requirements.md:79` has a cancelled choice of mode restore
  it. `close_transient` (`app.rs:421-442`) sets the line to what stood before its first
  slash (`sync_slash_palette`, `app.rs:397-418`), which is nothing when the slash was typed
  in front of a text: Esc wipes the whole line. It sets the line to what the mode picker was
  opened on, so that a paste that reached the line under the picker (`event_loop.rs:724`)
  is gone. `CloseOverlay` and `Escape` of `Composer` do the same; `TextIsKept` speaks of
  lines with no overlay open. A line of the history that was pasted into is lost when
  browsing goes on (`PastedInto`). An edit of a recalled line ends the browsing and
  leaves the draft behind: the next key up puts the edited line aside over it. The reply
  to an answer closes whatever overlay is open (`app.rs:1627`), and the line with it.

**Event feed.**

* E1. `EventSubscription::next` is not safe to drop: a notification taken and a reload
  not finished are lost until the next notification (`missed`). E2. `resume_task`
  replays the history, and an old question sets the base view. E3. A Run that fails or
  is cancelled while it waits leaves the base view on the clarification, with no Run in focus:
  every later message is refused (`app.rs:2367`). E4. The Events of a Run in focus are
  applied to the timeline of the next question (`mixed`). E5. A reply without a Run
  wipes the timeline of the Run in focus. E6. A denial makes the timeline terminal,
  though the Run goes on. E7. A gap moves the cursor past Events that were not
  applied. E8. A cancel from another process is never noticed by a TUI that waits. E9.
  The reply to an answer may come when the Run has asked again, and sets the view to
  Home (`overtaken`).

**Tools, files, context.**

* T1. Work that was given up runs on without a permit, so that more may load the data
  source than `max_concurrency`: SQLite has no statement timeout. T2. A stream of rows that
  is given up before its end, because the connection breaks or because a cell does not
  decode (`postgres.rs:241-262`), is reported as Failed, not as Indeterminate, while the
  statement may still run (`unread`).
* A1. A put that finds its file returns without syncing the directory
  (`local_artifacts.rs:83`): a power loss after its row may take the bytes (`saw`). A2.
  `remove_if_expired` deletes bytes that other rows share (not called in production).
  A3. An export is written in place (`bootstrap.rs:447-459`): a crash, or a write or sync
  that fails, while it is written again leaves a recorded export torn (`torn`).
  A4. `create_owner_only_directory` (`local_artifacts.rs:241-246`) makes a shard and never
  syncs the directory above it; line 96 syncs the shard only. A power loss after the row
  may take the shard with all its bytes (`fresh`). A5. No directory of an export is ever
  synced: a power loss may take a recorded export, though it tears none (`onDisk`).
* C1. The schema and the freshness count as present when they were found
  (`context_assembler.rs:147-175`), also when they are then left out for the budget, or as
  the double of evidence of the same source and version (lines 203-211): the phase does
  not ask for what its prompt does not have. `PromptPacked` says exactly this.

## 9. Not modelled

`PROJECT.json` lists every component with what of it is modelled. Left out:

* reading commands of `AgentService` (sessions, tasks, display), which change no
  state a property speaks of; the coordinator, whose routing is a choice left open
  in `CommitStart`;
* in the TUI: drawing, the Artifact view, display context, scrolling of the
  transcript, preferences, themes;
* in the adapters: the text protocols of remote models, the built-in catalog of
  models, the file format of the vaults, SQL parsing and the policy over syntax
  trees (a domain TLC cannot enumerate), the filtering of schemas and results;
* telemetry, the doctor and the provider evidence gate: reports nothing reads back;
* argument parsing and assembly of the program.
