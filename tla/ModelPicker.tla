----------------------------- MODULE ModelPicker -----------------------------
(***************************************************************************)
(* The model picker of the TUI.  Its lists come from reads that run in the *)
(* background, of which the guard of the Catalog lane admits the latest,   *)
(* and only on the visit of the screen that asked; switching the model is  *)
(* a mutation in a lane of its own, one at a time, admitted the same way.  *)
(* Each Provider or plan offers one model here, named like it.             *)
(***************************************************************************)
EXTENDS Integers

CONSTANTS
    Targets,   \* what the Catalog offers
    NoTarget,  \* not one of them
    MaxTasks   \* bound on the reads under way, stale ones included

VARIABLES
    where,     \* the route on top
    picker,    \* ModelSelectionState
    catalog,   \* model_catalog_tasks and the Catalog lane of the guard
    switch,    \* model_switch_tasks, at most one
    header,    \* the model the header shows
    activeModel \* what the service has active

pickerVars == <<where, picker, catalog, switch, header, activeModel>>

Routes == {"Timeline", "Picker", "Provider"}

\* lost: no request is under way that would end this Loading.  answered: the
\* target whose request set the load state; seen: the model its list marks.
\* An empty list is a Failed one: the keys do not tell them apart.
Pickers == [level : {"Targets", "Models"}, load : {"Loading", "Ready", "Failed"},
            target : Targets \cup {NoTarget}, answered : Targets \cup {NoTarget},
            seen : Targets \cup {NoTarget}, lost : BOOLEAN]

\* ModelSelectionState::default
Fresh == [level |-> "Targets", load |-> "Loading", target |-> NoTarget,
          answered |-> NoTarget, seen |-> NoTarget, lost |-> FALSE]

AtTargets(p, load) == [Fresh EXCEPT !.load = load]
Answered(p, load, of, seen) ==
    [p EXCEPT !.load = load, !.answered = of, !.seen = seen, !.lost = FALSE]

-----------------------------------------------------------------------------
(* The Catalog lane.                                                       *)

\* Of the reads under way those of this visit matter: what another visit
\* has asked for is dropped whenever it comes.
TaskIds   == 1 .. MaxTasks
NoTask    == 0
TaskKinds == {"none", "Initial", "Refresh", "Candidates"}
Unread    == "unread"
IdleTask  == [kind |-> "none", of |-> NoTarget, saw |-> Unread]
Tasks     == [kind : TaskKinds, of : Targets \cup {NoTarget}, saw : Targets \cup {Unread}]
NoTasks   == [tasks |-> [i \in TaskIds |-> IdleTask], lane |-> NoTask]

Idle(c)     == {i \in TaskIds : c.tasks[i] = IdleTask}
CanStart(c) == Idle(c) # {}

\* AsyncResultGuard::start on a read lane: the latest replaces the others.
Start(c, kind, of) ==
    LET i == CHOOSE j \in Idle(c) : \A k \in Idle(c) : j <= k
    IN  [tasks |-> [c.tasks EXCEPT ![i] = [kind |-> kind, of |-> of, saw |-> Unread]],
         lane  |-> i]

(* Mutant of Admits: any result of this visit is applied.                  *)
AdmitsAny(c, i) == TRUE

\* accept_completion: the latest of its lane, on the visit that started it.
Admits(c, i) == c.lane = i

Taken(c, i) == [tasks |-> [c.tasks EXCEPT ![i] = IdleTask],
                lane  |-> IF c.lane = i THEN NoTask ELSE c.lane]

-----------------------------------------------------------------------------
NoSwitch == [state |-> "none", to |-> NoTarget, expects |-> NoTarget, here |-> FALSE]
Switches == [state : {"none", "running", "committed", "done", "failed", "unread"},
             to : Targets \cup {NoTarget}, expects : Targets \cup {NoTarget},
             here : BOOLEAN]

Init ==
    /\ where = "Timeline"
    /\ picker = Fresh
    /\ catalog = NoTasks
    /\ switch = NoSwitch
    /\ activeModel \in Targets
    /\ header = [model |-> activeModel, stale |-> FALSE]

(* Mutant of OpenedCatalog: the request is made before the route is pushed.*)
RequestBeforePush == NoTasks

\* open_model_selection: the route first, so that the ticket is of this visit.
OpenedCatalog == Start(NoTasks, "Initial", NoTarget)

OpenPicker ==
    /\ where = "Timeline"
    /\ where' = "Picker"
    /\ picker' = Fresh
    /\ catalog' = OpenedCatalog
    /\ switch' = [switch EXCEPT !.here = FALSE]
    /\ UNCHANGED <<header, activeModel>>

(* The service reads the active model at some point of a request ...       *)
TaskReads(i) ==
    /\ catalog.tasks[i] # IdleTask /\ catalog.tasks[i].saw = Unread
    /\ catalog' = [catalog EXCEPT !.tasks[i].saw = activeModel]
    /\ UNCHANGED <<where, picker, switch, header, activeModel>>

\* SnapshotLoaded, refresh_snapshot, CandidatesLoaded and their failures.
Applied(p, task, ok) ==
    CASE task.kind = "Initial" -> AtTargets(p, IF ok THEN "Ready" ELSE "Failed")
      [] task.kind = "Refresh" ->
            IF ok THEN [p EXCEPT !.load = "Ready", !.lost = FALSE] ELSE p
      [] task.kind = "Candidates" ->
            IF p.level # "Models" \/ (ok /\ p.target # task.of) THEN p
            ELSE IF ok THEN Answered(p, "Ready", task.of, task.saw)
            ELSE Answered(p, "Failed", task.of, NoTarget)

(* ... and its answer is applied if the guard admits it.                   *)
TaskEnds(i, ok) ==
    LET task == catalog.tasks[i]
    IN  /\ task # IdleTask /\ task.saw # Unread
        /\ picker' = IF Admits(catalog, i) THEN Applied(picker, task, ok) ELSE picker
        /\ catalog' = Taken(catalog, i)
        /\ UNCHANGED <<where, switch, header, activeModel>>

-----------------------------------------------------------------------------
(* Keys of the picker.                                                     *)

AtPicker == where = "Picker"
Choosing == AtPicker /\ picker.load = "Ready"

\* open_provider_setup
ToProvider ==
    /\ where' = "Provider"
    /\ catalog' = NoTasks
    /\ switch' = [switch EXCEPT !.here = FALSE]
    /\ UNCHANGED <<picker, header, activeModel>>

(* Enter on a target that is set up, or else its setup; "e".               *)
PressEnterOnTarget(t) ==
    /\ Choosing /\ picker.level = "Targets"
    /\ \/ /\ CanStart(catalog)
          /\ picker' = [Fresh EXCEPT !.level = "Models", !.target = t]
          /\ catalog' = Start(catalog, "Candidates", t)
          /\ UNCHANGED <<where, switch, header, activeModel>>
       \/ ToProvider

(* Enter on a model that is not the current one; one whose validation has  *)
(* expired is validated on the Provider screen.                            *)
PressEnterOnModel ==
    /\ Choosing /\ picker.level = "Models" /\ picker.seen # picker.target
    /\ \/ /\ switch = NoSwitch
          /\ switch' = [state |-> "running", to |-> picker.target,
                        expects |-> picker.seen, here |-> TRUE]
          /\ UNCHANGED <<where, picker, catalog, header, activeModel>>
       \/ ToProvider

(* Tab leaves the models of a target, but the load state as it was.        *)
PressTab ==
    /\ AtPicker /\ picker.level = "Models"
    /\ picker' = [AtTargets(picker, picker.load) EXCEPT !.lost = picker.load = "Loading"]
    /\ UNCHANGED <<where, catalog, switch, header, activeModel>>

PressRetry ==
    /\ AtPicker /\ picker.load = "Failed" /\ CanStart(catalog)
    /\ picker' = [picker EXCEPT !.load = "Loading"]
    /\ catalog' = IF picker.level = "Models" THEN Start(catalog, "Candidates", picker.target)
                  ELSE Start(catalog, "Initial", NoTarget)
    /\ UNCHANGED <<where, switch, header, activeModel>>

(* Esc cancels a switch in flight, else goes back.                         *)
PressEsc ==
    /\ AtPicker /\ switch = NoSwitch
    /\ \/ /\ picker.level = "Models"
          /\ picker' = AtTargets(picker, "Ready")
          /\ UNCHANGED <<where, catalog>>
       \/ /\ picker.level = "Targets"
          /\ where' = "Timeline"
          /\ catalog' = NoTasks
          /\ UNCHANGED picker
    /\ UNCHANGED <<switch, header, activeModel>>

-----------------------------------------------------------------------------
(* The switch.                                                             *)

\* ensure_fresh compares activation revisions.
SwitchCommits ==
    /\ switch.state = "running" /\ switch.expects = activeModel
    /\ activeModel' = switch.to
    /\ switch' = [switch EXCEPT !.state = "committed"]
    /\ UNCHANGED <<where, picker, catalog, header>>

\* The service fails before the commit, is cancelled, or fails to read back
\* what it has committed.
SwitchReturns ==
    /\ \/ /\ switch.state = "running"
          /\ switch' = [switch EXCEPT !.state = "failed"]
       \/ /\ switch.state = "committed"
          /\ \E s \in {"done", "unread"} : switch' = [switch EXCEPT !.state = s]
    /\ UNCHANGED <<where, picker, catalog, header, activeModel>>

(* Mutant of Refreshed: the list on show is left as it is.                 *)
RefreshNothing(p, c) == [p |-> p, c |-> c]

\* refresh_candidates_after_model_mutation; a snapshot that is loading is
\* not asked for again as one, and its failure would not be shown.
Refreshed(p, c) ==
    IF p.level = "Models"
      THEN [p |-> [p EXCEPT !.load = "Loading", !.lost = FALSE],
            c |-> Start(c, "Candidates", p.target)]
      ELSE [p |-> [p EXCEPT !.lost = p.load = "Loading"],
            c |-> Start(c, "Refresh", NoTarget)]

\* apply_active_provider
Marked(p, m) == [p EXCEPT !.seen = IF p.answered = NoTarget THEN @ ELSE m]

(* Mutant of Outcome: the result is read after the task was cleared.       *)
OutcomeCleared(s) == NoSwitch.to

\* The model that a switch has made active.
Outcome(s) == s.to

(* apply_ready_model_switch: on another route the result is dropped.       *)
SwitchEnds ==
    LET ok == switch.state = "done"
        r  == Refreshed(IF ok THEN Marked(picker, Outcome(switch)) ELSE picker, catalog)
    IN  /\ switch.state \in {"done", "failed", "unread"}
        /\ IF switch.here
             THEN /\ CanStart(catalog)
                  /\ picker' = r.p /\ catalog' = r.c
             ELSE UNCHANGED <<picker, catalog>>
        /\ header' = IF switch.here /\ ok THEN [model |-> Outcome(switch), stale |-> FALSE]
                     ELSE [header EXCEPT !.stale = @ \/ switch.state # "failed"]
        /\ switch' = NoSwitch
        /\ UNCHANGED <<where, activeModel>>

-----------------------------------------------------------------------------
(* The Provider screen, opened from the picker.                            *)

(* close_provider_management, the targets read again or not.               *)
CloseProvider ==
    /\ where = "Provider"
    /\ where' = "Picker"
    /\ catalog' = NoTasks
    /\ \/ picker' = [picker EXCEPT !.load = "Ready"]
       \/ UNCHANGED picker
    /\ UNCHANGED <<switch, header, activeModel>>

(* finish_provider_setup_after_activation                                  *)
ActivateOnProvider(m) ==
    /\ where = "Provider"
    /\ activeModel' = m
    /\ header' = [model |-> m, stale |-> FALSE]
    /\ where' = "Picker"
    /\ picker' = Marked(picker, m)
    /\ catalog' = Start(NoTasks, "Refresh", NoTarget)
    /\ UNCHANGED switch

-----------------------------------------------------------------------------
Next ==
    \/ OpenPicker
    \/ \E i \in TaskIds : TaskReads(i) \/ \E ok \in BOOLEAN : TaskEnds(i, ok)
    \/ \E t \in Targets : PressEnterOnTarget(t) \/ ActivateOnProvider(t)
    \/ PressEnterOnModel \/ PressTab \/ PressRetry \/ PressEsc
    \/ SwitchCommits \/ SwitchReturns \/ SwitchEnds
    \/ CloseProvider

Spec == Init /\ [][Next]_pickerVars

-----------------------------------------------------------------------------
(* Every variable has the values the code can give it.                     *)
TypeOK ==
    /\ where \in Routes
    /\ picker \in Pickers
    /\ catalog.tasks \in [TaskIds -> Tasks] /\ catalog.lane \in TaskIds \cup {NoTask}
    /\ switch \in Switches
    /\ header \in [model : Targets, stale : BOOLEAN]
    /\ activeModel \in Targets

(* A picker that says it is loading waits for a request that will be       *)
(* admitted and is for what it shows, unless Tab left the models while     *)
(* they loaded or a refresh took the lane of a snapshot.                   *)
LoadingIsAsked ==
    AtPicker /\ picker.load = "Loading" /\ ~picker.lost =>
        \E i \in TaskIds :
            /\ catalog.lane = i
            /\ IF picker.level = "Models"
                 THEN catalog.tasks[i].kind = "Candidates" /\ catalog.tasks[i].of = picker.target
                 ELSE catalog.tasks[i].kind = "Initial"

(* The models, or the failure, shown for a target answer a request for it. *)
ShownIsAnswer ==
    picker.level = "Models" /\ picker.load # "Loading" => picker.answered = picker.target

(* At rest the header shows the active model, and so does a list of models,*)
(* unless the result of a switch was dropped with the visit it began on,   *)
(* or the service could not read back what it had committed.               *)
ShowsActive ==
    switch = NoSwitch /\ ~header.stale =>
        /\ header.model = activeModel
        /\ (Choosing /\ picker.level = "Models" /\ catalog.lane = NoTask)
             => picker.seen = activeModel

=============================================================================
