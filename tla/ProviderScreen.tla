--------------------------- MODULE ProviderScreen ---------------------------
(***************************************************************************)
(* The Provider setup screen of the TUI: the reducer (ui), the registry of *)
(* background operations (ops), navigation, and the store behind them.     *)
(* Keys, completions and the operations interleave; the screen may be      *)
(* hidden by the answer to a message sent before it was opened.  Typed     *)
(* text is abstracted to whether it is there, a model list to its members. *)
(***************************************************************************)
EXTENDS Integers, Sequences

CONSTANTS
    Models,      \* models a discovery may list
    MaxOps,      \* bound on operations in the registry
    MaxRevision, \* bound on revisions of the Profile
    MaxVisits,   \* bound on routes entered
    MaxRetries   \* ProviderOperationPolicy.max_retries

VARIABLES
    ui,       \* ProviderManagementScreen and the Provider fields of TuiController
    ops,      \* AsyncOperationRegistry: operations with their tasks
    nav,      \* NavigationState; the transient view; a submission in flight
    store     \* the Profile behind the service, and the active snapshot

screenVars == <<ui, ops, nav, store>>

NoModel  == "none"
NoOp     == 0
OpIds    == 1 .. MaxOps
Kinds    == {"discover", "validate", "save", "activate", "oauth"}
Steps    == <<"Provider", "Authentication", "Model", "Parameters", "Validate",
              "SaveActivate">>
StepSet  == {Steps[i] : i \in DOMAIN Steps}
\* ProviderManagementStep::next
NextStep == [s \in StepSet \ {"SaveActivate"} |->
                Steps[(CHOOSE i \in DOMAIN Steps : Steps[i] = s) + 1]]
Auths    == {"none", "key", "oauth"}   \* a Provider, by its credential kind
Revs     == 0 .. MaxRevision
NoKey    == -1
Visits   == 0 .. 2 * MaxVisits

\* ModelCandidateKey
Candidates  == [rev : Revs, model : Models \cup {NoModel}, seen : Revs]
NoCandidate == [rev |-> 0, model |-> NoModel, seen |-> 0]

Screens == {"Closed", "Browse", "Edit", "Confirm", "Busy", "Result"}
Outcomes == {"ok", "partial", "retry", "credential", "final"}
Uis == [state : Screens, step : StepSet, op : 0 .. MaxOps, kind : Kinds,
        outcome : Outcomes,
        profile : BOOLEAN, auth : Auths, model : Models \cup {NoModel},
        listed : SUBSET Models, secret : BOOLEAN, saved : BOOLEAN,
        candidate : Candidates, pending : 0 .. MaxOps, revalidating : BOOLEAN,
        expected : Revs, key : Visits \cup {NoKey}, checkpoint : BOOLEAN]
Closed == [state |-> "Closed", step |-> "Provider", op |-> NoOp,
           kind |-> "discover", outcome |-> "ok", profile |-> FALSE,
           auth |-> "none", model |-> NoModel, listed |-> {}, secret |-> FALSE,
           saved |-> FALSE, candidate |-> NoCandidate, pending |-> NoOp,
           revalidating |-> FALSE, expected |-> 0, key |-> NoKey,
           checkpoint |-> FALSE]

Inside == {"running", "midway", "checking"}
OpPC == {"none", "waiting", "running", "midway", "checking", "ended"}
Ops  == [pc : OpPC, kind : Kinds, key : Visits \cup {NoKey}, cancelled : BOOLEAN,
         attempts : 0 .. MaxRetries + 1, profile : BOOLEAN,
         model : Models \cup {NoModel}, secret : BOOLEAN, resume : StepSet,
         completes : BOOLEAN, candidate : Candidates, rev : Revs,
         outcome : Outcomes, listed : SUBSET Models]
NoOperation == [pc |-> "none", kind |-> "discover", key |-> NoKey,
                cancelled |-> FALSE, attempts |-> 0, profile |-> FALSE,
                model |-> NoModel, secret |-> FALSE, resume |-> "Provider",
                completes |-> FALSE, candidate |-> NoCandidate, rev |-> 0,
                outcome |-> "ok", listed |-> {}]

Routes == {"Timeline", "ModelSelection", "ProviderManagement"}
Navs == [routes : Seq(Routes), generation : Visits, shown : BOOLEAN,
         submitting : BOOLEAN, reused : BOOLEAN, alive : BOOLEAN]

\* The stored Profile; ready is the revision that was proved, 0 if none.
Stores == [rev : Revs, model : Models \cup {NoModel}, auth : Auths,
           cred : BOOLEAN, ready : Revs, number : 0 .. 1,
           active : Models \cup {NoModel}, other : BOOLEAN]

Init ==
    \E m \in Models, had \in BOOLEAN, kind \in {"key", "oauth"} :
        /\ store = [rev |-> IF had THEN 1 ELSE 0,
                    model |-> IF had THEN m ELSE NoModel,
                    auth |-> IF had THEN kind ELSE "none",
                    cred |-> had, ready |-> 0, number |-> 0,
                    active |-> NoModel, other |-> FALSE]
        /\ ui = Closed
        /\ ops = [o \in OpIds |-> NoOperation]
        /\ nav = [routes |-> <<"Timeline">>, generation |-> 0, shown |-> FALSE,
                  submitting |-> TRUE, reused |-> FALSE, alive |-> TRUE]

-----------------------------------------------------------------------------
(* AsyncOperationRegistry.                                                 *)

InRegistry(r, o) == r[o].pc # "none"
ActiveIn(r)  == {o \in OpIds : InRegistry(r, o) /\ ~r[o].cancelled}
\* An id is used again once nothing can name the operation that had it.
FreeIds(u, r) ==
    {o \in OpIds : ~InRegistry(r, o) /\ o # u.pending /\ (u.state = "Busy" => o # u.op)}

(* cancel: nothing is undone.  A task inside the service learns of it at   *)
(* its next await; any other has nothing left to do, and try_next_completion *)
(* drops the result of a cancelled operation unread.                       *)
CancelIn(r, o) ==
    [r EXCEPT ![o] = IF r[o].pc \in Inside
                       THEN [r[o] EXCEPT !.cancelled = TRUE, !.attempts = 0, !.key = NoKey]
                       ELSE NoOperation]

(* Mutant of Acquire: a cancelled operation has left the gate already.     *)
AcquireAtOnce(o) ==
    /\ ops[o].pc = "waiting"
    /\ ops' = [ops EXCEPT ![o].pc = "running", ![o].attempts = 1]
    /\ UNCHANGED <<ui, nav, store>>

(* The permit of the gate.                                                 *)
Acquire(o) ==
    /\ ops[o].pc = "waiting"
    /\ \A q \in OpIds : ops[q].pc \notin Inside
    /\ ops' = [ops EXCEPT ![o].pc = "running", ![o].attempts = 1]
    /\ UNCHANGED <<ui, nav, store>>

(* A cancelled future is dropped, but not one that saves or activates.     *)
DropOperation(o) ==
    /\ ops[o].cancelled /\ ops[o].kind \notin {"activate", "save"}
    /\ ops' = [ops EXCEPT ![o] = NoOperation]
    /\ UNCHANGED <<ui, nav, store>>

-----------------------------------------------------------------------------
(* start_provider_operation, as a function of the screen and the registry: *)
(* it may fail at any of its checks, after it has changed something.       *)

\* ProviderManagementScreen::start_operation
Allowed(u, kind) ==
    \/ u.state = "Edit"
       /\ u.step \in CASE kind = "discover" -> {"Model"}
                       [] kind = "validate" -> {"Validate"}
                       [] kind = "oauth"    -> {"Authentication"}
                       [] kind = "save"     -> {"Authentication", "Model",
                                                "Validate", "SaveActivate"}
                       [] kind = "activate" -> {}
    \/ u.state = "Confirm" /\ kind = "activate"

\* The checks that come before anything is scheduled.
Complete(u, kind) ==
    /\ u.state \in {"Edit", "Confirm"} /\ u.auth # "none"
    /\ kind = "activate" => u.candidate # NoCandidate
    /\ kind = "save" /\ u.auth = "key" => u.secret \/ (u.profile /\ u.saved)
    /\ kind # "save" => u.profile

StartOp(u, r, kind) ==
    LET fresh == IF kind = "activate" THEN u ELSE [u EXCEPT !.candidate = NoCandidate]
        takes == kind = "save" /\ u.state = "Edit"
        taken == [fresh EXCEPT !.secret = @ /\ ~takes]
        again == kind = "oauth" /\ u.pending # NoOp
        o     == IF again THEN u.pending
                 ELSE CHOOSE q \in FreeIds(u, r) : \A x \in FreeIds(u, r) : q <= x
    IN  IF ~Complete(u, kind)
          THEN [ui |-> fresh, ops |-> r]
        ELSE IF ActiveIn(r) # {} \/ (again /\ InRegistry(r, u.pending))
                \/ (~again /\ FreeIds(u, r) = {})
          THEN [ui |-> taken, ops |-> r]
        ELSE IF ~Allowed(u, kind)     \* scheduled, and cancelled at once
          THEN [ui |-> taken, ops |-> r]
        ELSE [ui |-> [taken EXCEPT !.state = "Busy", !.op = o, !.kind = kind,
                                   !.secret = FALSE],
              ops |-> [r EXCEPT ![o] =
                 [NoOperation EXCEPT
                    !.pc = "waiting", !.kind = kind, !.key = u.key,
                    !.profile = kind = "save" /\ u.profile,
                    !.model = IF kind \in {"save", "validate"} THEN u.model ELSE @,
                    !.secret = takes /\ u.secret,
                    !.resume = IF kind = "save" THEN u.step ELSE @,
                    !.completes = again,
                    !.candidate = CASE kind = "activate" -> u.candidate
                                    [] kind = "validate" -> [@ EXCEPT !.seen = u.expected]
                                    [] OTHER -> @]]]

Start(u, r, kind) ==
    LET s == StartOp(u, r, kind)
    IN  FreeIds(u, r) # {} /\ ui' = s.ui /\ ops' = s.ops

-----------------------------------------------------------------------------
(* The operations, on the service.  A failure is retried by the user, asks *)
(* for a credential, or is final.                                          *)

Failures == {"retry", "credential", "final"}
\* Of an operation that has ended, what apply_provider_operation reads.
Ended(o) == [ops[o] EXCEPT !.pc = "ended", !.attempts = 0, !.rev = 0,
                           !.profile = FALSE, !.model = NoModel, !.secret = FALSE]
EndWith(o, op) ==
    ops' = [ops EXCEPT ![o] = IF @.cancelled THEN NoOperation ELSE op]
End(o, outcome) == EndWith(o, [Ended(o) EXCEPT !.outcome = outcome])

(* Mutant of Attempt: attempts are not counted.                            *)
AttemptForever(o) ==
    /\ ops[o].pc \in Inside /\ ops[o].kind \in {"discover", "validate"}
    /\ ~ops[o].cancelled
    /\ ops' = [ops EXCEPT ![o].pc = "running"]
    /\ UNCHANGED <<ui, nav, store>>

(* Mutant of Attempt: one attempt too many.                                *)
AttemptOnceMore(o) ==
    /\ ops[o].pc \in Inside /\ ops[o].kind \in {"discover", "validate"}
    /\ ~ops[o].cancelled
    /\ IF ops[o].attempts <= MaxRetries + 1
         THEN ops' = [ops EXCEPT ![o].attempts = @ + 1, ![o].pc = "running"]
         ELSE End(o, "retry")
    /\ UNCHANGED <<ui, nav, store>>

(* Timeouts and bounded errors of reads are retried by the registry.       *)
Attempt(o) ==
    /\ ops[o].pc \in Inside /\ ops[o].kind \in {"discover", "validate"}
    /\ ~ops[o].cancelled
    /\ IF ops[o].attempts <= MaxRetries
         THEN ops' = [ops EXCEPT ![o].attempts = @ + 1, ![o].pc = "running"]
         ELSE End(o, "retry")
    /\ UNCHANGED <<ui, nav, store>>

Discover(o) ==
    /\ ops[o].pc = "running" /\ ops[o].kind = "discover"
    /\ \/ /\ store.cred
          /\ \E found \in {{}, Models} :
                EndWith(o, [Ended(o) EXCEPT !.listed = found])
       \/ End(o, "credential")
    /\ UNCHANGED <<ui, nav, store>>

LoadForValidation(o) ==
    /\ ops[o].pc = "running" /\ ops[o].kind = "validate"
    /\ IF store.model = ops[o].model
         THEN ops' = [ops EXCEPT ![o].pc = "midway", ![o].rev = store.rev]
         ELSE End(o, "final")
    /\ UNCHANGED <<ui, nav, store>>

(* provider_validate takes a Draft; evidence is committed to its revision. *)
ValidateRevision(o) ==
    /\ ops[o].pc = "midway" /\ ops[o].kind = "validate"
    /\ \/ /\ store.rev = ops[o].rev /\ store.ready # store.rev /\ store.cred
          /\ store' = [store EXCEPT !.ready = store.rev]
          /\ ops' = [ops EXCEPT ![o].pc = "checking"]
       \/ End(o, "final") /\ UNCHANGED store
    /\ UNCHANGED <<ui, nav>>

(* Mutant of RecheckRevision: what is current now becomes the candidate.   *)
RecheckNothing(o) ==
    /\ ops[o].pc = "checking" /\ ops[o].kind = "validate"
    /\ EndWith(o, [Ended(o) EXCEPT !.candidate =
                 [rev |-> store.rev, model |-> store.model,
                  seen |-> ops[o].candidate.seen]])
    /\ UNCHANGED <<ui, nav, store>>

(* ensure_validated_revision_is_current.                                   *)
RecheckRevision(o) ==
    /\ ops[o].pc = "checking" /\ ops[o].kind = "validate"
    /\ IF store.rev = ops[o].rev /\ store.model = ops[o].model
         THEN EndWith(o, [Ended(o) EXCEPT !.candidate =
                        [rev |-> store.rev, model |-> store.model,
                         seen |-> ops[o].candidate.seen]])
         ELSE End(o, "final")
    /\ UNCHANGED <<ui, nav, store>>

(* provider_switch_model of a candidate that is Ready.                     *)
ActivateCandidate(o) ==
    LET c == ops[o].candidate
    IN  /\ ops[o].pc = "running" /\ ops[o].kind = "activate"
        /\ \/ /\ c.rev = store.rev /\ c.seen = store.number /\ store.ready = c.rev
              /\ store.number = 0
              /\ store' = [store EXCEPT !.number = @ + 1, !.active = c.model]
              /\ End(o, "ok")
           \/ \E bad \in {"retry", "final"} : End(o, bad) /\ UNCHANGED store
        /\ UNCHANGED <<ui, nav>>

(* save_provider_draft: an acknowledgement, or a new Draft revision ...    *)
SaveDraft(o) ==
    LET c == ops[o]
    IN  /\ c.pc = "running" /\ c.kind = "save"
        /\ \/ /\ c.resume = "SaveActivate" /\ ~c.secret /\ c.profile
              /\ End(o, "ok")
              /\ UNCHANGED store
           \/ /\ ~(c.resume = "SaveActivate" /\ ~c.secret /\ c.profile)
              /\ store.rev < MaxRevision /\ c.profile = (store.rev > 0)
              /\ store' = [store EXCEPT !.rev = @ + 1, !.model = c.model,
                                        !.auth = IF c.profile THEN @ ELSE ui.auth]
              /\ IF c.secret THEN ops' = [ops EXCEPT ![o].pc = "midway"]
                 ELSE End(o, "ok")
           \/ \E bad \in Failures : End(o, bad) /\ UNCHANGED store
        /\ UNCHANGED <<ui, nav>>

(* ... then the API key, whose pointer is another revision.                *)
SaveCredential(o) ==
    /\ ops[o].pc = "midway" /\ ops[o].kind = "save"
    /\ \/ /\ store.rev < MaxRevision
          /\ store' = [store EXCEPT !.rev = @ + 1, !.cred = TRUE]
          /\ End(o, "ok")
       \/ End(o, "partial") /\ UNCHANGED store
    /\ UNCHANGED <<ui, nav>>

OAuthCall(o) ==
    /\ ops[o].pc = "running" /\ ops[o].kind = "oauth"
    /\ \/ /\ ops[o].completes /\ store.rev < MaxRevision
          /\ store' = [store EXCEPT !.rev = @ + 1, !.cred = TRUE]
          /\ End(o, "ok")
       \/ /\ ~ops[o].completes
          /\ End(o, "ok")
          /\ UNCHANGED store
       \/ \E bad \in {"retry", "credential"} : End(o, bad) /\ UNCHANGED store
    /\ UNCHANGED <<ui, nav>>

(* Another process saves the Profile and validates it, once, while an      *)
(* operation is in flight here.                                            *)
Elsewhere ==
    /\ store.rev \in 1 .. MaxRevision - 1 /\ ~store.other /\ ActiveIn(ops) # {}
    /\ \E m \in Models :
          store' = [store EXCEPT !.rev = @ + 1, !.model = m, !.other = TRUE,
                                 !.ready = store.rev + 1]
    /\ UNCHANGED <<ui, ops, nav>>

-----------------------------------------------------------------------------
(* apply_provider_operation.                                               *)

RouteKey == nav.generation

\* next_step: a step that is not complete is not left.
Advance(u) ==
    IF u.state = "Edit" /\ u.step # "SaveActivate"
       /\ (u.step = "Provider" \/ u.step = "Authentication" => u.auth # "none")
       /\ (u.step = "Model" => u.model # NoModel)
      THEN [u EXCEPT !.step = NextStep[@]] ELSE u

IsBusyOn(u, o) == u.state = "Busy" /\ u.op = o

\* Back to Edit; kind and outcome are those of Busy and Result.
Editing(u) == [u EXCEPT !.state = "Edit", !.op = NoOp, !.kind = Closed.kind,
                        !.outcome = Closed.outcome]

\* complete_operation: a failure about credentials resumes at their step.
Finish(u, o, outcome) ==
    IF ~IsBusyOn(u, o) THEN u
    ELSE IF u.kind = "validate" /\ outcome = "ok"
      THEN [Editing(u) EXCEPT !.step = "SaveActivate"]
    ELSE [u EXCEPT !.state = "Result", !.outcome = outcome, !.op = NoOp,
                   !.step = IF outcome = "credential" THEN "Authentication" ELSE @]

ToEdit(u) == IF u.state = "Result" THEN Editing(u) ELSE u
Confirm(u) ==
    IF u.state = "Edit" /\ u.step = "SaveActivate"
      THEN [u EXCEPT !.state = "Confirm"] ELSE u

\* replace_discovered_models keeps the model, or highlights the first one.
Picks(u, found) ==
    IF u.model \in found THEN {u.model}
    ELSE IF found = {} THEN {NoModel} ELSE found

\* Each result is [ui, next]: the screen, and the operation that follows.
Then(u, next) == [ui |-> u, next |-> next]
Stop(u) == Then(u, "none")

AfterDiscovery(u, o, pick) ==
    IF ~IsBusyOn(u, o) THEN Stop(u)
    ELSE LET found == [Editing(u) EXCEPT !.step = "Model", !.listed = ops[o].listed, !.model = pick,
                          !.revalidating = FALSE]
         IN  IF u.revalidating /\ pick = u.model /\ pick \in ops[o].listed
               THEN Then(Advance(Advance(found)), "validate") ELSE Stop(found)

\* seen: whether the views loaded after the operation show a credential.
AfterSave(u, o, seen) ==
    LET resume == ops[o].resume
        done == IF IsBusyOn(u, o)
                  THEN [Editing(u) EXCEPT !.profile = TRUE]
                  ELSE u
        view == [done EXCEPT !.saved = seen]
    IN  CASE resume = "Authentication" /\ u.auth = "key" /\ view.state # "Browse"
                 -> Then(Advance(view), "discover")
          [] resume = "Authentication" /\ u.auth = "oauth" /\ view.state # "Browse"
                 -> Then(view, "oauth")
          [] resume = "Validate" -> Then(view, "validate")
          [] resume = "Model"    -> Then(Advance(Advance(view)), "validate")
          [] OTHER               -> Stop(view)

AfterOAuth(u, o, seen) ==
    LET back == ToEdit(Finish(u, o, "ok"))
    IN  IF ops[o].completes
          THEN Then(Advance([back EXCEPT !.pending = NoOp, !.saved = seen]),
                    "discover")
          ELSE Then([back EXCEPT !.pending = o], "oauth")

AfterFailure(u, o) ==
    Stop(Finish(IF ops[o].kind = "oauth" THEN [u EXCEPT !.pending = NoOp] ELSE u,
                o, ops[o].outcome))

AfterPartialSave(u, o, seen) ==
    Stop([Finish(u, o, "partial") EXCEPT
            !.profile = @ \/ IsBusyOn(u, o), !.saved = seen])

AfterValidation(u, o) ==
    Then(Confirm([Finish(u, o, "ok") EXCEPT !.candidate = ops[o].candidate]),
         "activate")

Applied(u, o, pick, seen) ==
    CASE ops[o].outcome = "partial"          -> AfterPartialSave(u, o, seen)
      [] ops[o].outcome \in Failures         -> AfterFailure(u, o)
      [] ops[o].outcome = "ok" ->
           CASE ops[o].kind = "discover" -> AfterDiscovery(u, o, pick)
             [] ops[o].kind = "save"     -> AfterSave(u, o, seen)
             [] ops[o].kind = "validate" -> AfterValidation(u, o)
             [] ops[o].kind = "oauth"    -> AfterOAuth(u, o, seen)
             [] ops[o].kind = "activate" ->
                  Stop([Finish(u, o, "ok") EXCEPT !.candidate = NoCandidate])

\* The saved model is expected to be still there: it is unwrapped.
Unwraps(o) == /\ ops[o].kind = "discover" /\ ops[o].outcome = "ok"
              /\ ui.revalidating /\ ui.state \in {"Edit", "Confirm", "Busy", "Result"}
              /\ ui.model = NoModel

ThisScreen(o) == ui.key = ops[o].key /\ RouteKey = ops[o].key /\ ui.state # "Closed"

(* The last activation of a setup that came from the model list closes it. *)
ReturnsToList(u, o) ==
    ops[o].kind = "activate" /\ ops[o].outcome = "ok" /\ u.checkpoint

Pop(n) == IF Len(n.routes) > 1
            THEN [n EXCEPT !.routes = SubSeq(@, 1, Len(@) - 1), !.generation = @ + 1]
            ELSE n

TakeCompletion(o) ==
    LET r == [ops EXCEPT ![o] = NoOperation]
    IN  /\ ops[o].pc = "ended" /\ nav.alive
        /\ \/ /\ ~ThisScreen(o)
              /\ ops' = r
              /\ UNCHANGED <<ui, nav>>
           \/ /\ ThisScreen(o) /\ Unwraps(o)
              /\ ops' = r
              /\ nav' = [nav EXCEPT !.alive = FALSE]
              /\ UNCHANGED ui
           \/ /\ ThisScreen(o) /\ ReturnsToList(ui, o)
              /\ ui' = [Closed EXCEPT !.pending = ui.pending]
              /\ ops' = r
              /\ nav' = Pop([nav EXCEPT !.shown = FALSE])
           \/ /\ ThisScreen(o) /\ ~Unwraps(o) /\ ~ReturnsToList(ui, o)
              /\ nav' = [nav EXCEPT !.shown = TRUE]
              /\ \E pick \in Picks(ui, ops[o].listed), seen \in {store.cred} :
                    LET a == Applied(ui, o, pick, seen)
                    IN  IF a.next = "none" THEN ui' = a.ui /\ ops' = r
                        ELSE Start(a.ui, r, a.next)
        /\ UNCHANGED store

-----------------------------------------------------------------------------
(* Keys.                                                                   *)

Shown == nav.shown /\ ui.state # "Closed" /\ nav.alive

(* refresh_provider_detail.                                                *)
Push(n, route) ==
    IF n.routes[Len(n.routes)] = route THEN n
    ELSE [n EXCEPT !.routes = Append(@, route), !.generation = @ + 1]

OnRoute(route) ==
    /\ nav.routes[Len(nav.routes)] = route
    /\ nav.alive /\ ~nav.shown
\* A push within the bound, or one that changes nothing.
MayPush(route) == nav.generation < MaxVisits \/ nav.routes[Len(nav.routes)] = route

\* The composer has the keys, and with it the slash commands.
Free == OnRoute("Timeline") \/ OnRoute("ProviderManagement")

OpenModelSelection ==
    /\ Free /\ MayPush("ModelSelection")
    /\ nav' = Push(nav, "ModelSelection")
    /\ UNCHANGED <<ui, ops, store>>

LeaveModelSelection ==
    /\ OnRoute("ModelSelection")
    /\ nav' = Pop(nav)
    /\ UNCHANGED <<ui, ops, store>>

\* A screen opened over the route key of another whose operation still runs.
Reuses(n) == n.generation = ui.key /\ \E o \in ActiveIn(ops) : ops[o].key = ui.key

(* open_provider_management: what an earlier screen pended is kept.        *)
OpenProviders ==
    LET n == Push(nav, "ProviderManagement")
    IN  /\ Free /\ MayPush("ProviderManagement")
        /\ nav' = [n EXCEPT !.shown = TRUE, !.reused = @ \/ Reuses(n)]
        /\ ui' = [Closed EXCEPT !.state = "Browse", !.key = n.generation,
                    !.expected = store.number, !.saved = store.cred,
                    !.candidate = ui.candidate, !.pending = ui.pending,
                    !.revalidating = ui.revalidating, !.checkpoint = ui.checkpoint]
        /\ UNCHANGED <<ops, store>>

(* open_provider_setup, from the model list: a new Draft at its second     *)
(* step, the stored Profile, or the Profile to validate again.             *)
OpenSetup ==
    LET n == Push(nav, "ProviderManagement")
        u == [Closed EXCEPT !.state = "Edit", !.step = "Authentication",
                !.key = n.generation, !.expected = store.number,
                !.saved = store.cred, !.candidate = ui.candidate,
                !.pending = ui.pending, !.checkpoint = TRUE]
    IN  /\ OnRoute("ModelSelection") /\ MayPush("ProviderManagement")
        /\ nav' = [n EXCEPT !.shown = TRUE, !.reused = @ \/ Reuses(n)]
        /\ \/ /\ store.rev = 0
              /\ \E a \in {"key", "oauth"} : ui' = [u EXCEPT !.auth = a]
              /\ UNCHANGED ops
           \/ /\ store.rev > 0
              /\ ui' = [u EXCEPT !.auth = store.auth, !.profile = TRUE,
                                 !.model = store.model]
              /\ UNCHANGED ops
           \/ /\ store.rev > 0 /\ store.model # NoModel
              /\ Start([u EXCEPT !.auth = store.auth, !.profile = TRUE,
                          !.model = store.model, !.step = "Model",
                          !.revalidating = TRUE], ops, "discover")
        /\ UNCHANGED store

StartDraft ==
    /\ Shown /\ ui.state = "Browse" /\ store.rev = 0
    /\ ui' = [ui EXCEPT !.state = "Edit", !.step = "Provider", !.profile = FALSE,
                        !.auth = "none", !.model = NoModel, !.listed = {}]
    /\ UNCHANGED <<ops, nav, store>>

SelectProvider ==
    /\ Shown /\ ui.state = "Edit" /\ ui.step = "Provider"
    /\ \E a \in {"key", "oauth"} :
          ui' = Advance([ui EXCEPT !.auth = a, !.model = NoModel, !.listed = {}])
    /\ UNCHANGED <<ops, nav, store>>

TypeSecret ==
    /\ Shown /\ ui.state = "Edit" /\ ui.step = "Authentication" /\ ui.auth = "key"
    /\ ~ui.secret
    /\ ui' = [ui EXCEPT !.secret = TRUE]
    /\ UNCHANGED <<ops, nav, store>>

(* Typing in the filter, or moving the highlight, chooses a listed model   *)
(* that may be used, or none.                                              *)
ChooseModel ==
    /\ Shown /\ ui.state = "Edit" /\ ui.step = "Model"
    /\ \E m \in ui.listed \cup {NoModel} : ui' = [ui EXCEPT !.model = m]
    /\ UNCHANGED <<ops, nav, store>>

\* What Enter, or a letter, starts at a step.
KeyKinds(u) ==
    CASE u.step = "Authentication" -> {IF u.auth = "oauth" /\ u.profile
                                         THEN "oauth" ELSE "save"}
      [] u.step = "Model"          -> {"discover"} \cup
                                      (IF u.model \in u.listed THEN {"save"} ELSE {})
      [] u.step = "Validate"       -> {"validate", "save"}
      [] u.step = "SaveActivate"   -> {"save"}
      [] OTHER                     -> {}

PressStart ==
    /\ Shown /\ ui.state = "Edit"
    /\ \E kind \in KeyKinds(ui) : Start(ui, ops, kind)
    /\ UNCHANGED <<nav, store>>

(* request_provider_activation asks the screen first.                      *)
PressActivate ==
    /\ Shown /\ ui.state = "Edit" /\ ui.step = "SaveActivate"
    /\ Start(Confirm(ui), ops, "activate")
    /\ UNCHANGED <<nav, store>>

PressEnterOnResult ==
    /\ Shown /\ ui.state = "Result"
    /\ ui' = ToEdit(ui)
    /\ UNCHANGED <<ops, nav, store>>

\* retry_is_safe: an API key that was consumed has to be typed again.
PressRetry ==
    /\ Shown /\ ui.state = "Result" /\ ui.outcome = "retry"
    /\ ~(ui.kind = "save" /\ ui.step = "Authentication" /\ ui.auth = "key")
    /\ Start(ToEdit(ui), ops, ui.kind)
    /\ UNCHANGED <<nav, store>>

(* Mutant of PressCancel: the registry is not told.                        *)
CancelScreenOnly ==
    /\ Shown /\ ActiveIn(ops) # {}
    /\ ui.state = "Busy" /\ ui.kind \notin {"activate", "save"}
    /\ ui' = Editing(ui)
    /\ UNCHANGED <<ops, nav, store>>

(* Mutant of PressCancel: the screen is left as it is.                     *)
CancelOperationOnly ==
    /\ Shown /\ ActiveIn(ops) # {}
    /\ ui.state = "Busy" /\ ui.kind \notin {"activate", "save"}
    /\ ops' = CancelIn(ops, ui.op)
    /\ UNCHANGED <<ui, nav, store>>

(* Esc: cancel_provider_operation, if one is in flight.                    *)
PressCancel ==
    /\ Shown /\ ActiveIn(ops) # {}
    /\ ui.state = "Busy" /\ ui.kind \notin {"activate", "save"}
    /\ ui' = [Editing(ui) EXCEPT !.pending = IF @ = ui.op THEN NoOp ELSE @]
    /\ ops' = CancelIn(ops, ui.op)
    /\ UNCHANGED <<nav, store>>

(* ... close_provider_management otherwise: what it leaves is not read.    *)
PressClose ==
    /\ Shown /\ ActiveIn(ops) = {} /\ ui.state # "Result"
    /\ ui' = Closed
    /\ nav' = Pop([nav EXCEPT !.shown = FALSE])
    /\ UNCHANGED <<ops, store>>

(* complete_submission closes whatever view is over the timeline.          *)
SubmissionCompletes ==
    /\ nav.submitting /\ nav.shown /\ nav.alive
    /\ nav' = [nav EXCEPT !.submitting = FALSE, !.shown = FALSE]
    /\ UNCHANGED <<ui, ops, store>>

-----------------------------------------------------------------------------
Keys ==
    \/ OpenModelSelection
    \/ LeaveModelSelection
    \/ OpenProviders
    \/ OpenSetup
    \/ StartDraft
    \/ SelectProvider
    \/ TypeSecret
    \/ ChooseModel
    \/ PressStart
    \/ PressActivate
    \/ PressEnterOnResult
    \/ PressRetry
    \/ PressCancel
    \/ PressClose

Working(o) ==
    \/ Attempt(o)
    \/ Discover(o)
    \/ LoadForValidation(o)
    \/ ValidateRevision(o)
    \/ RecheckRevision(o)
    \/ ActivateCandidate(o)
    \/ SaveDraft(o)
    \/ SaveCredential(o)
    \/ OAuthCall(o)

Registry(o) ==
    \/ Acquire(o)
    \/ DropOperation(o)
    \/ TakeCompletion(o)

Next ==
    \/ Keys
    \/ \E o \in OpIds : Working(o) \/ Registry(o)
    \/ Elsewhere
    \/ SubmissionCompletes

Spec == Init /\ [][Next]_screenVars

-----------------------------------------------------------------------------
(* Every variable has the values the code can give it.                     *)
TypeOK ==
    /\ ui \in Uis
    /\ ops \in [OpIds -> Ops]
    /\ nav \in Navs
    /\ store \in Stores

(* A screen that waits for an operation will get its result: nothing the   *)
(* user or another completion did meanwhile makes the result undeliverable.*)
BusyIsActive ==
    Shown /\ ui.state = "Busy" => ui.op \in ActiveIn(ops) /\ ops[ui.op].key = RouteKey

(* Whatever still runs is what the screen waits for, so that Esc reaches   *)
(* it, unless the screen was hidden by a submission and opened again.      *)
ActiveIsBusy ==
    Shown /\ ~nav.reused => \A o \in ActiveIn(ops) :
        ops[o].key = RouteKey => ui.state = "Busy" /\ ui.op = o

(* One operation at a time is inside the service, a cancelled one included.*)
OneInside ==
    \A o, q \in OpIds : ops[o].pc \in Inside /\ ops[q].pc \in Inside => o = q

(* What an activation of this screen makes active is the model the user    *)
(* looks at, but for a screen that was hidden and opened again.            *)
ActivatesWhatIsShown ==
    [][store'.number # store.number /\ Shown /\ ~nav.reused
         /\ (\E o \in OpIds : ops[o].kind = "activate" /\ ops[o].pc = "running"
                              /\ ops[o].key = RouteKey)
         => store'.active = ui.model]_screenVars

Fairness ==
    \A o \in OpIds : WF_screenVars(Working(o)) /\ WF_screenVars(Registry(o))
FairSpec == Spec /\ Fairness

(* A screen is not busy forever.                                           *)
Busy == Shown /\ ui.state = "Busy"
BusyEnds == Busy ~> ~Busy

=============================================================================
