------------------------------- MODULE MCHost -------------------------------
(***************************************************************************)
(* The parts of the program around a Run, each an instance of its module   *)
(* over its own variables.  A behaviour stays in the part it starts in;    *)
(* the variables of the other parts keep an idle value.                    *)
(***************************************************************************)
EXTENDS Integers, FiniteSets

CONSTANTS
    Models, MaxOps, MaxRevision, MaxVisits, MaxRetries,     \* screen
    Profiles, NoProfile, MaxCalls, MaxFaults, MaxStarts,    \* recovery
    MaxRuns, MaxLog,                                        \* feed
    ToolCalls, MaxPermits                                   \* tools

ASSUME ScreenAssumption == /\ MaxOps \in Nat /\ MaxRevision \in Nat \ {0}
                           /\ MaxVisits \in Nat /\ MaxRetries \in Nat
ASSUME FeedAssumption   == MaxRuns \in Nat /\ MaxLog \in Nat /\ 2 <= MaxLog
ASSUME ToolsAssumption  == IsFiniteSet(ToolCalls) /\ MaxPermits \in Nat /\ MaxRetries \in Nat

VARIABLES
    part,
    ui, ops, nav, store,                                    \* screen
    profiles, active, gens, journal, vault, bindings,       \* recovery
    calls, boot, started, faults, starts, torn, late,
    logs, drivers, tui, timeline, request, marks,           \* feed
    tasks, permits, sent, remote, unread                    \* tools

Screen   == INSTANCE ProviderScreen
Recovery == INSTANCE ProviderProperties WITH
                Runs <- {}, Ops <- 1 .. 2, NoOp <- 0, Kinds <- {"replace", "delete"},
                MaxGeneration <- MaxCalls + 1, MaxActivation <- 1
Feed     == INSTANCE EventFeed
Tools    == INSTANCE ToolRuntime WITH Calls <- ToolCalls

screenVars   == <<ui, ops, nav, store>>
recoveryVars == <<profiles, active, gens, journal, vault, bindings, calls, boot,
                  started, faults, starts, torn, late>>
feedVars     == <<logs, drivers, tui, timeline, request, marks>>
toolVars     == <<tasks, permits, sent, remote, unread>>
allVars      == <<part, screenVars, recoveryVars, feedVars, toolVars>>

IdleScreen ==
    /\ ui = Screen!Closed
    /\ ops = [o \in Screen!OpIds |-> Screen!NoOperation]
    /\ nav = [routes |-> <<>>, generation |-> 0, shown |-> FALSE,
              submitting |-> FALSE, reused |-> FALSE, alive |-> FALSE]
    /\ store = [number |-> 0, active |-> "none"]

IdleRecovery ==
    /\ profiles = <<>> /\ active = <<>> /\ gens = <<>> /\ vault = {}
    /\ journal = [p \in Profiles |-> Recovery!NoRecord]
    /\ bindings = <<>>
    /\ calls = [o \in 1 .. 2 |-> Recovery!IdleCall]
    /\ boot = Recovery!BootUp
    /\ started = 0 /\ faults = 0 /\ starts = 0 /\ torn = {} /\ late = {}

IdleFeed ==
    /\ logs = [r \in Feed!RunIds |-> <<>>] /\ drivers = {} /\ marks = {}
    /\ tui = [focused |-> 0, cursor |-> 0, sub |-> "none", loaded |-> 0,
              inbox |-> 0, base |-> "Home"]
    /\ timeline = Feed!Default /\ request = Feed!NoRequest

IdleTools ==
    /\ tasks = [c \in ToolCalls |-> Tools!IdleTask]
    /\ permits = 0 /\ sent = <<>> /\ remote = {} /\ unread = {}

Init ==
    \/ part = "screen"   /\ Screen!Init   /\ IdleRecovery /\ IdleFeed /\ IdleTools
    \/ part = "recovery" /\ Recovery!Init /\ IdleScreen   /\ IdleFeed /\ IdleTools
    \/ part = "feed"     /\ Feed!Init     /\ IdleScreen   /\ IdleRecovery /\ IdleTools
    \/ part = "tools"    /\ Tools!Init    /\ IdleScreen   /\ IdleRecovery /\ IdleFeed

OnlyScreen   == UNCHANGED <<part, recoveryVars, feedVars, toolVars>>
OnlyRecovery == UNCHANGED <<part, screenVars, feedVars, toolVars>>
OnlyFeed     == UNCHANGED <<part, screenVars, recoveryVars, toolVars>>
OnlyTools    == UNCHANGED <<part, screenVars, recoveryVars, feedVars>>

Next ==
    \/ part = "screen"   /\ Screen!Next   /\ OnlyScreen
    \/ part = "recovery" /\ Recovery!Next /\ OnlyRecovery
    \/ part = "feed"     /\ Feed!Next     /\ OnlyFeed
    \/ part = "tools"    /\ Tools!Next    /\ OnlyTools

(* Fairness.  As part never changes, fairness of the k-th fair action of n *)
(* in whatever part this is, is the fairness of each part.                 *)
Fair(k, n) ==
    \/ /\ part = "screen"
       /\ \/ k = 1 /\ Screen!Working(n)
          \/ k = 2 /\ Screen!Registry(n)
       /\ OnlyScreen
    \/ /\ part = "recovery"
       /\ \/ k = 1 /\ (Recovery!Mutation(n) \/ Recovery!Deletion(n))
          \/ k = 2 /\ n = 1 /\ Recovery!Recovery
       /\ OnlyRecovery
    \/ part = "feed"  /\ k = 1 /\ n = 1 /\ Feed!Following /\ OnlyFeed
    \/ part = "tools" /\ k = 1 /\ n = 1 /\ Tools!Timeout /\ OnlyTools

\* A read that can be dropped again and again is done in the end.
Persistent(n) ==
    /\ part = "feed"
    /\ \/ n = 1 /\ Feed!FirstRead
       \/ n = 2 /\ Feed!Loaded
    /\ OnlyFeed

Spec == /\ Init /\ [][Next]_allVars
        /\ \A k, n \in 1 .. 2 : WF_allVars(Fair(k, n))
        /\ \A n \in 1 .. 2 : SF_allVars(Persistent(n))

-----------------------------------------------------------------------------
(* Every variable of each part has the values the code can give it.        *)
TypeOK ==
    /\ part = "screen" => Screen!TypeOK
    /\ part = "feed" => Feed!TypeOK
    /\ part = "tools" => Tools!TypeOK

(* The screen waits for exactly what still runs: it will get a result, and *)
(* Esc reaches whatever it started.                                        *)
BusyIffActive == part = "screen" => Screen!BusyIsActive /\ Screen!ActiveIsBusy

(* One operation at a time is inside the service, a cancelled one included.*)
OneInside == part = "screen" => Screen!OneInside

(* An activation makes active what the screen shows.                       *)
ActivatesWhatIsShown == Screen!ActivatesWhatIsShown

(* While the Run in focus waits, what the user types is its answer.        *)
AnswerReachesRun == part = "feed" => Feed!AnswerReachesRun

(* A Run let go because it ended leaves its conclusion on the timeline.    *)
Conclusion == Feed!Conclusion

(* Retries included, a tool call asks the data source at most once; one    *)
(* that is said to have failed has left nothing running, unless it gave up *)
(* in the middle of its rows; whoever works holds a permit, and every      *)
(* permit comes back.                                                      *)
ToolCallsAccounted == part = "tools" => Tools!ToolCallsAccounted

(* What someone waits for ends: a screen is not busy forever, a credential *)
(* intent whose process died is rolled back by the next, the TUI learns    *)
(* that its Run ended, a tool call returns.                                *)
Waiting ==
    \/ part = "screen" /\ Screen!Busy
    \/ part = "recovery" /\ Recovery!Intended
    \/ part = "feed" /\ Feed!Behind
    \/ part = "tools" /\ Tools!InProgress
WaitEnds == Waiting ~> ~Waiting

=============================================================================
