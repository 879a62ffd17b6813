------------------------------ MODULE EventFeed ------------------------------
(***************************************************************************)
(* How the TUI follows a Run: the driver appends Events to the store, the  *)
(* publisher rings when a command commits or a driver lets its Run go, the *)
(* subscription reloads what it has not seen, and the TUI applies one      *)
(* Event at a time to its timeline and then reloads the Run's row.  The    *)
(* future that waits for the next Event is dropped whenever another branch *)
(* of the event loop is ready first.                                       *)
(***************************************************************************)
EXTENDS Integers, Sequences, FiniteSets

CONSTANTS
    MaxRuns,   \* bound on Runs
    MaxLog     \* bound on the Events, of all Runs, that move a status

VARIABLES
    logs,      \* run_events: of each Run, the Events that may move its status
    drivers,   \* Runs a driver holds
    tui,       \* the Run in focus, its subscription, the base view
    timeline,  \* TimelineState
    request,   \* pending_submission
    marks      \* history: what the next properties do not hold after

feedVars == <<logs, drivers, tui, timeline, request, marks>>

RunIds == 1 .. MaxRuns
NoRun  == 0

\* missed: a reload was dropped after its notification was taken.  mixed: a
\* Run was applied to the timeline of a later question.  overtaken: the
\* reply to an answer came when the Run had already asked again.
Marks == {"missed", "mixed", "overtaken"}

-----------------------------------------------------------------------------
(* Runs and their Events.                                                  *)

Progress == {"Started", "Resumed", "Answered", "Denied"}
Pauses   == {"Asked", "Waiting"}
Ends     == {"Completed", "Failed", "Cancelled"}
Events   == Progress \cup Pauses \cup Ends
RunStatus == {"None", "Running", "WaitingForInput", "Succeeded", "Failed", "Cancelled"}

\* The status of a Run after its Events.
StatusAfter(log) ==
    IF log = <<>> THEN "None"
    ELSE LET e == log[Len(log)]
         IN  CASE e \in Progress   -> "Running"
               [] e \in Pauses     -> "WaitingForInput"
               [] e = "Completed"  -> "Succeeded"
               [] e = "Failed"     -> "Failed"
               [] e = "Cancelled"  -> "Cancelled"
Row(r)   == StatusAfter(logs[r])
Ended(r) == Row(r) \in {"Succeeded", "Failed", "Cancelled"}

-----------------------------------------------------------------------------
(* The timeline.                                                           *)

TimelineStatus == {"Idle", "Scheduled", "Running", "WaitingForInput", "Denied",
                   "Failed", "Cancelled", "Succeeded"}
IsTerminal(s) == s \in {"Denied", "Failed", "Cancelled", "Succeeded"}
ReplyRank           == 1
EventRank           == 2
RunningSnapshotRank == 3
TerminalSnapshotRank == 4
ArtifactRank        == 5
Timelines == [status : TimelineStatus, rank : 0 .. ArtifactRank,
              seq : 0 .. MaxLog, version : 0 .. MaxLog]
Default == [status |-> "Idle", rank |-> 0, seq |-> 0, version |-> 0]

SetStatus(t, status, rank) ==
    IF rank < t.rank \/ (IsTerminal(t.status) /\ ~IsTerminal(status)) THEN t
    ELSE [t EXCEPT !.status = status, !.rank = rank]

EventStatus == [e \in Events |->
    CASE e = "Denied"    -> "Denied"
      [] e = "Completed" -> "Succeeded"
      [] OTHER           -> StatusAfter(<<e>>)]

ApplyEvent(t, n, e) ==
    IF n <= t.seq THEN t
    ELSE LET s == [t EXCEPT !.seq = n]
         IN  IF IsTerminal(t.status) /\ e \notin Ends THEN s
             ELSE SetStatus(s, EventStatus[e], EventRank)

\* The row of Run r, with the Artifact of a Run that succeeded.
ApplyRow(t, r) ==
    LET s == SetStatus([t EXCEPT !.version = Len(logs[r])], Row(r),
                       IF Ended(r) THEN TerminalSnapshotRank ELSE RunningSnapshotRank)
        u == IF Len(logs[r]) <= t.version THEN t ELSE s
    IN  IF Row(r) = "Succeeded" /\ u.status = "Succeeded"
          THEN [u EXCEPT !.rank = ArtifactRank] ELSE u

-----------------------------------------------------------------------------
(* The controller.                                                         *)

\* opening: subscribed, and the first load under way; reloading: a
\* notification was received.  opened, reloaded: the store was read.  When
\* idle, the Events cursor + 1 .. loaded are pending.
SubStates == {"none", "opening", "opened", "idle", "reloading", "reloaded"}
MaxInbox  == 2   \* two notifications, or more than the channel holds
Tuis == [focused : RunIds \cup {NoRun}, cursor : 0 .. MaxLog,
         sub : SubStates, loaded : 0 .. MaxLog, inbox : 0 .. MaxInbox,
         base : {"Home", "Clarification"}]

NoFocus(t) == [t EXCEPT !.focused = NoRun, !.cursor = 0, !.sub = "none",
                        !.loaded = 0, !.inbox = 0]
FocusOn(t, r) == [NoFocus(t) EXCEPT !.focused = r]

(* Mutant of Notified: what rings during a load is not heard.              *)
NotifiedIfIdle(t, r) ==
    IF t.focused = r /\ t.sub = "idle"
      THEN [t EXCEPT !.inbox = IF @ < MaxInbox THEN @ + 1 ELSE @] ELSE t

\* ServiceEventPublisher::notify, to the subscription of Run r if there is one.
Notified(t, r) ==
    IF t.focused = r /\ t.sub # "none"
      THEN [t EXCEPT !.inbox = IF @ < MaxInbox THEN @ + 1 ELSE @] ELSE t

Requests == [kind : {"none", "message", "answer"}, done : BOOLEAN,
             run : RunIds \cup {NoRun}]
NoRequest == [kind |-> "none", done |-> FALSE, run |-> NoRun]

-----------------------------------------------------------------------------
(* The last session of the program left a Run that was interrupted after   *)
(* an answer, or none.                                                     *)
Init ==
    /\ \E left \in {<<>>, <<"Asked", "Answered">>} :
          logs = [r \in RunIds |-> IF r = 1 THEN left ELSE <<>>]
    /\ drivers = {}
    /\ tui = [focused |-> NoRun, cursor |-> 0, sub |-> "none", loaded |-> 0,
              inbox |-> 0, base |-> "Home"]
    /\ timeline = Default
    /\ request = NoRequest
    /\ marks = {}

More == Cardinality(UNION {{r} \X DOMAIN logs[r] : r \in RunIds}) < MaxLog

NewRuns == {r \in RunIds : More /\ logs[r] = <<>> /\ \A q \in 1 .. r - 1 : logs[q] # <<>>}

(* The driver appends without a word to the subscribers.                   *)
DriverAppends(r) ==
    /\ r \in drivers /\ Row(r) = "Running" /\ More
    /\ \E e \in {"Denied", "Asked", "Waiting", "Completed", "Failed"} :
          logs' = [logs EXCEPT ![r] = Append(@, e)]
    /\ UNCHANGED <<drivers, tui, timeline, request, marks>>

(* BackgroundScheduler: the driver has returned.                           *)
DriverReturns(r) ==
    /\ r \in drivers /\ Row(r) # "Running"
    /\ drivers' = drivers \ {r}
    /\ tui' = Notified(tui, r)
    /\ UNCHANGED <<logs, timeline, request, marks>>

-----------------------------------------------------------------------------
(* EventSubscription.                                                      *)

(* subscribe_events: the receiver exists before the Events are read.       *)
Subscribe ==
    /\ tui.focused # NoRun /\ tui.sub = "none"
    /\ tui' = [tui EXCEPT !.sub = "opening", !.inbox = 0]
    /\ UNCHANGED <<logs, drivers, timeline, request, marks>>

Receive ==
    /\ tui.sub = "idle" /\ tui.loaded = tui.cursor /\ tui.inbox > 0
    /\ tui' = [tui EXCEPT !.sub = "reloading", !.inbox = @ - 1]
    /\ UNCHANGED <<logs, drivers, timeline, request, marks>>

\* load_events reads the store on another thread ...
Read(before, after) ==
    /\ tui.sub = before
    /\ tui' = [tui EXCEPT !.sub = after, !.loaded = Len(logs[tui.focused])]
    /\ UNCHANGED <<logs, drivers, timeline, request, marks>>
FirstRead == Read("opening", "opened")
ReadAgain == Read("reloading", "reloaded")

(* ... and the TUI gets what was read.                                     *)
Loaded ==
    /\ tui.sub \in {"opened", "reloaded"}
    /\ tui' = [tui EXCEPT !.sub = "idle"]
    /\ marks' = marks \ {"missed"}
    /\ UNCHANGED <<logs, drivers, timeline, request>>

(* A key, or the tick, comes first: the future is dropped where it waits.  *)
DropNext ==
    \/ /\ tui.sub \in {"opening", "opened"}
       /\ tui' = [tui EXCEPT !.sub = "none", !.inbox = 0, !.loaded = tui.cursor]
       /\ UNCHANGED <<logs, drivers, timeline, request, marks>>
    \/ /\ tui.sub \in {"reloading", "reloaded"}
       /\ tui' = [tui EXCEPT !.sub = "idle", !.loaded = tui.cursor]
       /\ marks' = marks \cup {"missed"}
       /\ UNCHANGED <<logs, drivers, timeline, request>>

\* apply_service_event.
BaseAfter(e, base) ==
    CASE e = "Asked"     -> "Clarification"
      [] e = "Completed" -> "Home"
      [] OTHER           -> base

(* Mutant of BaseOfRow: only the Event of a question opens the view.       *)
BaseOfEnd(r, base) == IF Row(r) = "Succeeded" THEN "Home" ELSE base

\* reload_durable_state; a Run that ended is let go.
BaseOfRow(r, base) ==
    CASE Row(r) = "WaitingForInput" -> "Clarification"
      [] Row(r) = "Succeeded"       -> "Home"
      [] OTHER                      -> base

\* The row of r is applied, and an ended Run let go.
Settled(t, r) == IF Ended(r) THEN NoFocus(t) ELSE t

\* What is applied now belongs to no question that is still unanswered.
Applying == (marks \ {"overtaken"}) \cup
            (IF request.kind = "message" THEN {"mixed"} ELSE {})

TakeEvent ==
    LET r == tui.focused
        n == tui.cursor + 1
        e == logs[r][n]
    IN  /\ tui.sub = "idle" /\ tui.cursor < tui.loaded
        /\ timeline' = ApplyRow(ApplyEvent(timeline, n, e), r)
        /\ tui' = Settled([tui EXCEPT !.cursor = n,
                             !.base = BaseOfRow(r, BaseAfter(e, @))], r)
        /\ marks' = Applying
        /\ UNCHANGED <<logs, drivers, request>>

(* The store fails the subscription: it is opened again, and the row read. *)
NextFails ==
    LET r == tui.focused
    IN  /\ tui.sub \in {"opening", "reloading"}
        /\ timeline' = ApplyRow(timeline, r)
        /\ tui' = Settled([tui EXCEPT !.sub = "none", !.inbox = 0, !.loaded = tui.cursor,
                                      !.base = BaseOfRow(r, @)], r)
        /\ marks' = Applying
        /\ UNCHANGED <<logs, drivers, request>>

-----------------------------------------------------------------------------
(* What the user submits, when no request is in flight; a load under way   *)
(* has been dropped by the key (DropNext).                                 *)

BetweenEvents == tui.sub \in {"none", "idle"}
AtPrompt == BetweenEvents /\ request = NoRequest

(* Mutant of BeginQuery: the timeline of the last question goes on.        *)
BeginOver == timeline

\* TimelineState::begin_query
BeginQuery == Default

SendMessage ==
    /\ AtPrompt /\ tui.base = "Home"
    /\ timeline' = BeginQuery
    /\ request' = [NoRequest EXCEPT !.kind = "message"]
    /\ marks' = marks \ {"mixed"}
    /\ UNCHANGED <<logs, drivers, tui>>

(* send_message starts a Run that is scheduled, or that asks first ...     *)
StartRun ==
    /\ request.kind = "message" /\ request.run = NoRun
    /\ \E r \in NewRuns, first \in {"Started", "Asked"} :
          /\ logs' = [logs EXCEPT ![r] = <<first>>]
          /\ drivers' = IF first = "Started" THEN drivers \cup {r} ELSE drivers
          /\ request' = [request EXCEPT !.done = TRUE, !.run = r]
    /\ UNCHANGED <<tui, timeline, marks>>

(* ... or answers in a conversation, or has no such workflow, or fails.    *)
ReplyWithoutRun ==
    /\ request.kind = "message" /\ request.run = NoRun /\ BetweenEvents
    /\ \/ timeline' = Default /\ marks' = marks \ {"mixed"}
       \/ timeline' = SetStatus(timeline, "Denied", ReplyRank) /\ UNCHANGED marks
       \/ UNCHANGED <<timeline, marks>>
    /\ request' = NoRequest
    /\ UNCHANGED <<logs, drivers, tui>>

(* The answer to the question of the Run in focus.                         *)
SendAnswer ==
    /\ AtPrompt /\ tui.base = "Clarification" /\ tui.focused # NoRun
    /\ request' = [kind |-> "answer", done |-> FALSE, run |-> tui.focused]
    /\ UNCHANGED <<logs, drivers, tui, timeline, marks>>

(* answer_clarification, once the driver that asked has returned.          *)
AnswerAccepted ==
    LET r == request.run
    IN  /\ request.kind = "answer" /\ ~request.done
        /\ Row(r) = "WaitingForInput" /\ More /\ r \notin drivers
        /\ logs' = [logs EXCEPT ![r] = Append(@, "Answered")]
        /\ drivers' = drivers \cup {r}
        /\ tui' = Notified(tui, r)
        /\ request' = [request EXCEPT !.done = TRUE]
        /\ UNCHANGED <<timeline, marks>>

AnswerRefused ==
    /\ request.kind = "answer" /\ ~request.done
    /\ Row(request.run) # "WaitingForInput"
    /\ request' = NoRequest
    /\ UNCHANGED <<logs, drivers, tui, timeline, marks>>

(* take_ready_submission and complete_submission: focus_run keeps the      *)
(* timeline as the Events of the former Run have left it.                  *)
CompleteMessage ==
    LET r == request.run
    IN  /\ request.kind = "message" /\ request.done /\ BetweenEvents
        /\ IF logs[r][1] = "Started"
             THEN /\ timeline' = SetStatus(timeline, "Running", ReplyRank)
                  /\ tui' = FocusOn(tui, r)
             ELSE /\ timeline' = SetStatus(timeline, "WaitingForInput", ReplyRank)
                  /\ tui' = [FocusOn(tui, r) EXCEPT !.base = "Clarification"]
        /\ request' = NoRequest
        /\ marks' = marks \ {"missed", "overtaken"}
        /\ UNCHANGED <<logs, drivers>>

CompleteAnswer ==
    /\ request.kind = "answer" /\ request.done /\ BetweenEvents
    /\ tui' = [tui EXCEPT !.base = "Home"]
    /\ request' = NoRequest
    /\ marks' = IF Row(request.run) = "Running" THEN marks ELSE marks \cup {"overtaken"}
    /\ UNCHANGED <<logs, drivers, timeline>>

(* resume_task: the Run that was interrupted goes on, a failed one is      *)
(* tried again as another; the TUI replays its Events from the first.      *)
ResumeTask ==
    /\ AtPrompt /\ More
    /\ \E r \in RunIds :
          /\ \/ /\ r = 1 /\ Row(1) = "Running" /\ 1 \notin drivers
                /\ logs' = [logs EXCEPT ![r] = Append(@, "Resumed")]
             \/ /\ Row(1) = "Failed" /\ r \in NewRuns
                /\ logs' = [logs EXCEPT ![r] = <<"Started">>]
          /\ drivers' = drivers \cup {r}
          /\ tui' = FocusOn(tui, r)
    /\ timeline' = Default
    /\ marks' = {}
    /\ UNCHANGED request

(* cancel_run; of the Runs the user may name, the one in focus.            *)
CancelRun ==
    /\ AtPrompt
    /\ \E r \in {tui.focused} \ {NoRun} :
          /\ Row(r) \in {"Running", "WaitingForInput"} /\ More
          /\ logs' = [logs EXCEPT ![r] = Append(@, "Cancelled")]
          /\ tui' = Notified(tui, r)
    /\ UNCHANGED <<drivers, timeline, request, marks>>

NewSession ==
    /\ AtPrompt /\ tui.focused # NoRun
    /\ tui' = NoFocus(tui)
    /\ timeline' = Default
    /\ marks' = {}
    /\ UNCHANGED <<logs, drivers, request>>

-----------------------------------------------------------------------------
Driver    == \E r \in RunIds : DriverAppends(r) \/ DriverReturns(r)
Following == Subscribe \/ Receive \/ ReadAgain \/ TakeEvent
Loading   == FirstRead \/ Loaded
User      == SendMessage \/ SendAnswer \/ ResumeTask \/ CancelRun \/ NewSession
Service   == StartRun \/ ReplyWithoutRun \/ AnswerAccepted \/ AnswerRefused
Complete  == CompleteMessage \/ CompleteAnswer

Next == Driver \/ Following \/ Loading \/ DropNext \/ NextFails \/ User \/ Service \/ Complete

Spec == Init /\ [][Next]_feedVars

\* A read that can be dropped again and again is done in the end: it takes
\* less than a tick.
Fairness == WF_feedVars(Following) /\ SF_feedVars(FirstRead) /\ SF_feedVars(Loaded)
FairSpec == Spec /\ Fairness

-----------------------------------------------------------------------------
(* Every variable has the values the code can give it.                     *)
TypeOK ==
    /\ logs \in [RunIds -> Seq(Events)]
    /\ drivers \subseteq RunIds
    /\ tui \in Tuis
    /\ timeline \in Timelines
    /\ request \in Requests
    /\ marks \subseteq Marks

(* When the TUI lets a Run go because it ended, the timeline shows how,    *)
(* whatever Events and rows it had applied in which order, unless it was   *)
(* shown another Run under the same question.                              *)
Conclusion ==
    [][\A r \in RunIds :
         tui.focused = r /\ tui'.focused = NoRun /\ timeline' # Default /\ "mixed" \notin marks'
         => timeline'.status = Row(r)]_feedVars

(* The TUI has seen all there is of the Run in focus, and none of its      *)
(* requests is under way.                                                  *)
CaughtUp == /\ tui.sub = "idle" /\ tui.cursor = Len(logs[tui.focused])
            /\ request = NoRequest

(* While the Run in focus waits, what the user types is its answer.        *)
AnswerReachesRun ==
    CaughtUp /\ Row(tui.focused) = "WaitingForInput" /\ "overtaken" \notin marks
        => tui.base = "Clarification"

(* The TUI learns that its Run ended, unless it dropped a reload.          *)
Behind == /\ tui.focused # NoRun /\ "missed" \notin marks
          /\ Ended(tui.focused) /\ tui.focused \notin drivers
CatchesUp == Behind ~> ~Behind

=============================================================================
