----------------------------- MODULE MCHost_proofs -----------------------------
(***************************************************************************)
(* What is proved of the parts around a Run.                               *)
(*                                                                         *)
(* The tool calls, any number of them under any number of permits and      *)
(* retries: a call is retried only before it was sent, so that it asks     *)
(* once; what it has left at the data source when it gave up is known from *)
(* how it ended; and a permit is out exactly while its call works.         *)
(*                                                                         *)
(* The feed, for any Runs and Events: what the cursor of the subscription  *)
(* and the timeline know of the log of the Run in focus, whichever futures *)
(* are dropped, so that an answer reaches the Run that asked and a Run     *)
(* that was let go has left its end on the timeline.                       *)
(***************************************************************************)
EXTENDS MCHost, Sequences, FiniteSetTheorems, WellFoundedInduction, TLAPS

(* The part stays, and a step of the specification is one of the part.     *)
LEMMA PartStep ==
    [Next]_allVars =>
        /\ part' = part
        /\ part = "tools" => [Tools!Next]_toolVars
        /\ part = "feed" => [Feed!Next]_feedVars
        /\ part # "feed" => UNCHANGED feedVars
        /\ part = "screen" => [Screen!Next]_screenVars
        /\ part # "screen" => UNCHANGED screenVars
<1> SUFFICES ASSUME [Next]_allVars
             PROVE  /\ part' = part
                    /\ part = "tools" => [Tools!Next]_toolVars
                    /\ part = "feed" => [Feed!Next]_feedVars
                    /\ part # "feed" => UNCHANGED feedVars
                    /\ part = "screen" => [Screen!Next]_screenVars
                    /\ part # "screen" => UNCHANGED screenVars
  OBVIOUS
<1>1. CASE Next
  BY <1>1 DEF Next, OnlyScreen, OnlyRecovery, OnlyFeed, OnlyTools
<1>2. CASE UNCHANGED allVars
  BY <1>2 DEF allVars
<1>3. QED
  BY <1>1, <1>2

-----------------------------------------------------------------------------
(* Tool calls.                                                             *)
(* The calls of a Run are finitely many, its budgets are numbers.          *)

(* Before it is sent, a call has asked nothing; once it was answered, or   *)
(* has failed otherwise than among its rows, nothing of it runs any more.  *)
CallInOrder(c) ==
    /\ sent[c] <= 1
    /\ tasks[c].pc \in {"idle", "gate", "tool"} => sent[c] = 0 /\ c \notin remote
    /\ tasks[c].pc = "answered" => c \notin remote
    /\ tasks[c].pc # "done" => tasks[c].outcome = "none"
    /\ tasks[c].outcome \in {"Failed", "Rejected"} => c \notin remote \ unread

Workers == {c \in ToolCalls : Tools!Working(c)}

ToolIInv == Tools!TypeOK /\ (\A c \in ToolCalls : CallInOrder(c)) /\ Tools!PermitsHeld

-----------------------------------------------------------------------------
(* What becomes of a task at the end of an attempt.                        *)

LEMMA FinishedFacts ==
    ASSUME MaxRetries \in Nat, NEW t \in Tools!Tasks, NEW o \in Tools!Outcomes,
           NEW retryable \in BOOLEAN
    PROVE  LET n == Tools!Finished(t, o, retryable) IN
           /\ n \in Tools!Tasks
           /\ \/ n.pc = "gate" /\ n.outcome = t.outcome /\ o = "Failed" /\ retryable
              \/ n.pc = "done" /\ n.outcome = o
<1>1. CASE Tools!RetryAllowed(t, o, retryable)
  <2>1. t.retries + 1 \in 0 .. MaxRetries /\ o = "Failed" /\ retryable
    BY <1>1 DEF Tools!RetryAllowed, Tools!Tasks
  <2>2. Tools!Finished(t, o, retryable) = [t EXCEPT !.pc = "gate", !.retries = @ + 1]
    BY <1>1 DEF Tools!Finished
  <2>3. QED
    BY <2>1, <2>2 DEF Tools!Tasks, Tools!PC
<1>2. CASE ~Tools!RetryAllowed(t, o, retryable)
  <2>1. Tools!Finished(t, o, retryable) = [t EXCEPT !.pc = "done", !.outcome = o]
    BY <1>2 DEF Tools!Finished
  <2>2. QED
    BY <2>1 DEF Tools!Tasks, Tools!PC
<1>3. QED
  BY <1>1, <1>2

(* The other calls stay as they are, and so does who of them works.        *)
LEMMA OneTask ==
    ASSUME Tools!TypeOK, NEW c \in ToolCalls, NEW t \in Tools!Tasks,
           tasks' = [tasks EXCEPT ![c] = t]
    PROVE  /\ tasks' \in [ToolCalls -> Tools!Tasks] /\ tasks'[c] = t
           /\ \A d \in ToolCalls \ {c} : tasks'[d] = tasks[d]
           /\ Workers \ {c} = Workers' \ {c}
           /\ c \in Workers <=> tasks[c].pc \in {"tool", "source", "answered"}
           /\ c \in Workers' <=> t.pc \in {"tool", "source", "answered"}
<1>1. /\ tasks' \in [ToolCalls -> Tools!Tasks] /\ tasks'[c] = t
      /\ \A d \in ToolCalls \ {c} : tasks'[d] = tasks[d]
  BY DEF Tools!TypeOK
<1>2. QED
  BY <1>1 DEF Workers, Tools!Working

(* The cardinality the module speaks of is the usual one.                  *)
LEMMA SameCardinality == \A S : Tools!Cardinality(S) = Cardinality(S)
BY DEF Tools!Cardinality, Cardinality

(* The permits that are out are as many as the calls that work.            *)
LEMMA PermitsStay ==
    ASSUME Tools!TypeOK, Tools!PermitsHeld, NEW c \in ToolCalls,
           Workers \ {c} = Workers' \ {c},
           \/ permits' = permits /\ (c \in Workers <=> c \in Workers')
           \/ permits' = permits - 1 /\ c \notin Workers /\ c \in Workers'
           \/ permits' = permits + 1 /\ c \in Workers /\ c \notin Workers'
    PROVE  Tools!PermitsHeld' /\ (permits' >= 0 => permits' \in 0 .. MaxPermits)
<1>1. /\ IsFiniteSet(Workers) /\ IsFiniteSet(Workers')
      /\ Cardinality(Workers) \in Nat /\ Cardinality(Workers') \in Nat
  BY FS_Subset, FS_CardinalityType, ToolsAssumption DEF Workers
<1>2. permits + Cardinality(Workers) = MaxPermits /\ permits \in Nat /\ MaxPermits \in Nat
  BY SameCardinality, ToolsAssumption DEF Tools!PermitsHeld, Workers, Tools!TypeOK
<1>3. permits' + Cardinality(Workers') = MaxPermits
  <2>1. CASE permits' = permits /\ (c \in Workers <=> c \in Workers')
    <3>1. Workers' = Workers
      BY <2>1
    <3>2. QED
      BY <1>2, <2>1, <3>1
  <2>2. CASE permits' = permits - 1 /\ c \notin Workers /\ c \in Workers'
    <3>1. Workers' = Workers \cup {c}
      BY <2>2
    <3>2. Cardinality(Workers') = Cardinality(Workers) + 1
      BY <1>1, <2>2, <3>1, FS_AddElement
    <3>3. QED
      BY <1>1, <1>2, <2>2, <3>2
  <2>3. CASE permits' = permits + 1 /\ c \in Workers /\ c \notin Workers'
    <3>1. Workers' = Workers \ {c}
      BY <2>3
    <3>2. Cardinality(Workers') = Cardinality(Workers) - 1
      BY <1>1, <2>3, <3>1, FS_RemoveElement
    <3>3. QED
      BY <1>1, <1>2, <2>3, <3>2
  <2>4. QED
    BY <2>1, <2>2, <2>3
<1>4. Tools!PermitsHeld'
  BY <1>3, SameCardinality DEF Tools!PermitsHeld, Workers
<1>5. QED
  BY <1>1, <1>2, <1>3, <1>4

LEMMA ToolInit == Tools!Init => ToolIInv
<1> SUFFICES ASSUME Tools!Init PROVE ToolIInv
  OBVIOUS
<1>1. /\ \A c \in ToolCalls : tasks[c] = Tools!IdleTask /\ sent[c] = 0
      /\ permits = MaxPermits /\ MaxPermits \in Nat /\ MaxRetries \in Nat
  BY ToolsAssumption DEF Tools!Init
<1>2. /\ Tools!IdleTask \in Tools!Tasks
      /\ Tools!IdleTask.pc = "idle" /\ Tools!IdleTask.outcome = "none"
  BY <1>1 DEF Tools!IdleTask, Tools!Tasks, Tools!PC, Tools!Outcomes
<1>3. Tools!TypeOK
  BY <1>1, <1>2 DEF Tools!Init, Tools!TypeOK
<1>4. \A c \in ToolCalls : CallInOrder(c)
  BY <1>1, <1>2 DEF CallInOrder, Tools!Init
<1>5. Tools!PermitsHeld
  <2> DEFINE working == {c \in ToolCalls : Tools!Working(c)}
  <2>1. working = {}
    BY <1>1, <1>2 DEF Tools!Working
  <2> HIDE DEF working
  <2>2. Tools!Cardinality(working) = 0
    BY <2>1, FS_EmptySet, SameCardinality
  <2>3. permits + Tools!Cardinality(working) = MaxPermits
    BY <1>1, <2>2
  <2>4. QED
    BY <2>3 DEF Tools!PermitsHeld, working
<1>6. QED
  BY <1>3, <1>4, <1>5 DEF ToolIInv

(* A step of the call c, whose new state keeps what was said of it.        *)
LEMMA ToolStep ==
    ASSUME ToolIInv, NEW c \in ToolCalls, NEW t \in Tools!Tasks,
           tasks' = [tasks EXCEPT ![c] = t],
           sent' \in [ToolCalls -> Nat], remote' \subseteq ToolCalls, unread' \subseteq ToolCalls,
           \A d \in ToolCalls \ {c} : /\ sent'[d] = sent[d]
                                      /\ d \in remote' <=> d \in remote
                                      /\ d \in unread' <=> d \in unread,
           CallInOrder(c)', permits' >= 0,
           LET before == tasks[c].pc \in {"tool", "source", "answered"}
               after  == t.pc \in {"tool", "source", "answered"}
           IN  \/ permits' = permits /\ (before <=> after)
               \/ permits' = permits - 1 /\ ~before /\ after
               \/ permits' = permits + 1 /\ before /\ ~after
    PROVE  ToolIInv'
<1>1. Tools!TypeOK /\ Tools!PermitsHeld /\ \A d \in ToolCalls : CallInOrder(d)
  BY DEF ToolIInv
<1>2. /\ tasks' \in [ToolCalls -> Tools!Tasks] /\ tasks'[c] = t
      /\ \A d \in ToolCalls \ {c} : tasks'[d] = tasks[d]
      /\ Workers \ {c} = Workers' \ {c}
      /\ c \in Workers <=> tasks[c].pc \in {"tool", "source", "answered"}
      /\ c \in Workers' <=> t.pc \in {"tool", "source", "answered"}
  BY <1>1, OneTask
<1>3. Tools!PermitsHeld' /\ permits' \in 0 .. MaxPermits
  BY <1>1, <1>2, PermitsStay
<1>4. ASSUME NEW d \in ToolCalls
      PROVE  CallInOrder(d)'
  <2>1. CASE d = c
    BY <2>1
  <2>2. CASE d # c
    BY <1>1, <1>2, <2>2 DEF CallInOrder
  <2>3. QED
    BY <2>1, <2>2
<1>5. Tools!TypeOK'
  <2>1. \A d \in ToolCalls : sent'[d] \in 0 .. MaxRetries + 1
    BY <1>4, ToolsAssumption DEF CallInOrder
  <2>2. QED
    BY <1>2, <1>3, <2>1 DEF Tools!TypeOK
<1>6. QED
  BY <1>3, <1>4, <1>5 DEF ToolIInv

(* What every step needs of the state it leaves.                           *)
LEMMA ToolState ==
    ASSUME ToolIInv, NEW c \in ToolCalls
    PROVE  /\ tasks[c] \in Tools!Tasks /\ CallInOrder(c) /\ permits \in Nat
           /\ tasks \in [ToolCalls -> Tools!Tasks] /\ sent \in [ToolCalls -> Nat]
           /\ remote \subseteq ToolCalls /\ unread \subseteq ToolCalls
BY ToolsAssumption DEF ToolIInv, Tools!TypeOK

(* An attempt that ends with its permit: the call is not tried again.      *)
LEMMA ToolEnds ==
    ASSUME ToolIInv, NEW c \in ToolCalls, NEW o \in Tools!Outcomes,
           Tools!Working(c), Tools!Ends(c, o), sent' = sent, remote' = remote,
           \/ unread' = unread /\ (o \in {"Failed", "Rejected"} => c \notin remote \ unread)
           \/ unread' = unread \cup {c}
    PROVE  ToolIInv'
<1> DEFINE t == Tools!Finished(tasks[c], o, FALSE)
<1>1. /\ tasks[c] \in Tools!Tasks /\ CallInOrder(c) /\ permits \in Nat
      /\ tasks \in [ToolCalls -> Tools!Tasks] /\ sent \in [ToolCalls -> Nat]
      /\ remote \subseteq ToolCalls /\ unread \subseteq ToolCalls
  BY ToolState
<1>2. t \in Tools!Tasks /\ t.pc = "done" /\ t.outcome = o
  BY <1>1, FinishedFacts, ToolsAssumption
<1>3. tasks' = [tasks EXCEPT ![c] = t] /\ permits' = permits + 1
  BY <1>1 DEF Tools!Ends
<1> HIDE DEF t
<1>4. tasks'[c] = t
  BY <1>1, <1>3
<1>5. CallInOrder(c)'
  BY <1>1, <1>2, <1>4 DEF CallInOrder
<1>6. permits' >= 0
  BY <1>1, <1>3
<1>7. QED
  BY <1>1, <1>2, <1>3, <1>5, <1>6, ToolStep DEF Tools!Working

LEMMA ToolNext == ToolIInv /\ [Tools!Next]_toolVars => ToolIInv'
<1> SUFFICES ASSUME ToolIInv, [Tools!Next]_toolVars PROVE ToolIInv'
  OBVIOUS
<1>1. ASSUME NEW c \in ToolCalls, Tools!Prepare(c) PROVE ToolIInv'
  <2>1. /\ tasks[c] \in Tools!Tasks /\ CallInOrder(c) /\ permits \in Nat
        /\ tasks \in [ToolCalls -> Tools!Tasks] /\ sent \in [ToolCalls -> Nat]
        /\ remote \subseteq ToolCalls /\ unread \subseteq ToolCalls
    BY ToolState
  <2>2. /\ Tools!IdleTask \in Tools!Tasks
        /\ Tools!IdleTask.pc = "idle" /\ Tools!IdleTask.outcome = "none"
    BY ToolsAssumption DEF Tools!IdleTask, Tools!Tasks, Tools!PC, Tools!Outcomes
  <2>3. PICK phase \in Tools!Phases, tool \in Tools!Tools, sound \in BOOLEAN, low \in BOOLEAN :
          tasks' = [tasks EXCEPT ![c] =
              IF Tools!Admitted(phase, tool, sound)
                THEN [Tools!IdleTask EXCEPT !.pc = "gate", !.low = low,
                                            !.asks = tool \in Tools!AsksSource]
                ELSE [Tools!IdleTask EXCEPT !.pc = "done", !.outcome = "Rejected"]]
    BY <1>1 DEF Tools!Prepare
  <2> DEFINE gate == [Tools!IdleTask EXCEPT !.pc = "gate", !.low = low,
                                            !.asks = tool \in Tools!AsksSource]
             over == [Tools!IdleTask EXCEPT !.pc = "done", !.outcome = "Rejected"]
  <2>4. gate \in Tools!Tasks /\ gate.pc = "gate" /\ gate.outcome = "none"
    <3>1. ASSUME NEW asks \in BOOLEAN
          PROVE  LET g == [Tools!IdleTask EXCEPT !.pc = "gate", !.low = low, !.asks = asks]
                 IN  g \in Tools!Tasks /\ g.pc = "gate" /\ g.outcome = "none"
      BY <2>2 DEF Tools!Tasks, Tools!PC
    <3>2. (tool \in Tools!AsksSource) \in BOOLEAN
      OBVIOUS
    <3>3. QED
      BY <3>1, <3>2
  <2>5. over \in Tools!Tasks /\ over.pc = "done" /\ over.outcome = "Rejected"
    BY <2>2 DEF Tools!Tasks, Tools!PC, Tools!Outcomes
  <2>6. \/ tasks' = [tasks EXCEPT ![c] = gate]
        \/ tasks' = [tasks EXCEPT ![c] = over]
    BY <2>3
  <2> HIDE DEF gate, over
  <2>7. /\ tasks[c].pc = "idle" /\ permits' = permits /\ sent' = sent
        /\ remote' = remote /\ unread' = unread /\ permits' >= 0
    BY <1>1, <2>1, <2>2 DEF Tools!Prepare
  <2>8. CASE tasks' = [tasks EXCEPT ![c] = gate]
    <3>1. CallInOrder(c)'
      BY <2>1, <2>4, <2>7, <2>8 DEF CallInOrder
    <3>2. QED
      BY <2>1, <2>4, <2>7, <2>8, <3>1, ToolStep
  <2>9. CASE tasks' = [tasks EXCEPT ![c] = over]
    <3>1. CallInOrder(c)'
      BY <2>1, <2>5, <2>7, <2>9 DEF CallInOrder
    <3>2. QED
      BY <2>1, <2>5, <2>7, <2>9, <3>1, ToolStep
  <2>10. QED
    BY <2>6, <2>8, <2>9
<1>2. ASSUME NEW c \in ToolCalls, Tools!TakePermit(c) PROVE ToolIInv'
  <2>1. /\ tasks[c] \in Tools!Tasks /\ CallInOrder(c) /\ permits \in Nat
        /\ tasks \in [ToolCalls -> Tools!Tasks] /\ sent \in [ToolCalls -> Nat]
        /\ remote \subseteq ToolCalls /\ unread \subseteq ToolCalls
    BY ToolState
  <2> DEFINE t == [tasks[c] EXCEPT !.pc = "tool"]
  <2>2. t \in Tools!Tasks /\ t.pc = "tool" /\ t.outcome = tasks[c].outcome
    BY <2>1 DEF Tools!Tasks, Tools!PC
  <2>3. /\ tasks' = [tasks EXCEPT ![c] = t] /\ tasks[c].pc = "gate"
        /\ permits' = permits - 1 /\ permits > 0
        /\ sent' = sent /\ remote' = remote /\ unread' = unread
    BY <1>2, <2>1 DEF Tools!TakePermit, Tools!PermitsAfter
  <2> HIDE DEF t
  <2>4. tasks'[c] = t
    BY <2>1, <2>3
  <2>5. CallInOrder(c)'
    BY <2>1, <2>2, <2>3, <2>4 DEF CallInOrder
  <2>6. permits' >= 0
    BY <2>1, <2>3
  <2>7. QED
    BY <2>1, <2>2, <2>3, <2>5, <2>6, ToolStep
<1>3. ASSUME NEW c \in ToolCalls, Tools!GateTimeout(c) PROVE ToolIInv'
  <2>1. /\ tasks[c] \in Tools!Tasks /\ CallInOrder(c) /\ permits \in Nat
        /\ tasks \in [ToolCalls -> Tools!Tasks] /\ sent \in [ToolCalls -> Nat]
        /\ remote \subseteq ToolCalls /\ unread \subseteq ToolCalls
    BY ToolState
  <2> DEFINE t == Tools!Finished(tasks[c], "Failed", tasks[c].low)
  <2>2. "Failed" \in Tools!Outcomes /\ tasks[c].low \in BOOLEAN
    BY <2>1 DEF Tools!Outcomes, Tools!Tasks
  <2>3. t \in Tools!Tasks /\ (\/ t.pc = "gate" /\ t.outcome = tasks[c].outcome
                              \/ t.pc = "done" /\ t.outcome = "Failed")
    BY <2>1, <2>2, FinishedFacts, ToolsAssumption
  <2>4. /\ tasks' = [tasks EXCEPT ![c] = t] /\ tasks[c].pc = "gate"
        /\ permits' = permits /\ sent' = sent /\ remote' = remote /\ unread' = unread
        /\ permits' >= 0
    BY <1>3, <2>1 DEF Tools!GateTimeout
  <2> HIDE DEF t
  <2>5. tasks'[c] = t
    BY <2>1, <2>4
  <2>6. CallInOrder(c)'
    BY <2>1, <2>3, <2>4, <2>5 DEF CallInOrder
  <2>7. QED
    BY <2>1, <2>3, <2>4, <2>6, ToolStep
<1>4. ASSUME NEW c \in ToolCalls, Tools!Ask(c) PROVE ToolIInv'
  <2>1. /\ tasks[c] \in Tools!Tasks /\ CallInOrder(c) /\ permits \in Nat
        /\ tasks \in [ToolCalls -> Tools!Tasks] /\ sent \in [ToolCalls -> Nat]
        /\ remote \subseteq ToolCalls /\ unread \subseteq ToolCalls
    BY ToolState
  <2> DEFINE t == [tasks[c] EXCEPT !.pc = "source"]
  <2>2. t \in Tools!Tasks /\ t.pc = "source" /\ t.outcome = tasks[c].outcome
    BY <2>1 DEF Tools!Tasks, Tools!PC
  <2>3. /\ tasks' = [tasks EXCEPT ![c] = t] /\ tasks[c].pc = "tool"
        /\ permits' = permits /\ sent' = [sent EXCEPT ![c] = @ + 1]
        /\ remote' = remote \cup {c} /\ unread' = unread /\ permits' >= 0
    BY <1>4, <2>1 DEF Tools!Ask
  <2> HIDE DEF t
  <2>4. /\ tasks'[c] = t /\ sent' \in [ToolCalls -> Nat] /\ sent'[c] = sent[c] + 1
        /\ \A d \in ToolCalls \ {c} : sent'[d] = sent[d]
    BY <2>1, <2>3
  <2>5. CallInOrder(c)'
    BY <2>1, <2>2, <2>3, <2>4 DEF CallInOrder
  <2>6. QED
    BY <2>1, <2>2, <2>3, <2>4, <2>5, ToolStep
<1>5. ASSUME NEW c \in ToolCalls, Tools!SourceAnswers(c) PROVE ToolIInv'
  <2>1. /\ tasks[c] \in Tools!Tasks /\ CallInOrder(c) /\ permits \in Nat
        /\ tasks \in [ToolCalls -> Tools!Tasks] /\ sent \in [ToolCalls -> Nat]
        /\ remote \subseteq ToolCalls /\ unread \subseteq ToolCalls
    BY ToolState
  <2> DEFINE t == IF tasks[c].pc = "source" THEN [tasks[c] EXCEPT !.pc = "answered"]
                                            ELSE tasks[c]
  <2>2. /\ t \in Tools!Tasks /\ t.outcome = tasks[c].outcome
        /\ t.pc = IF tasks[c].pc = "source" THEN "answered" ELSE tasks[c].pc
    BY <2>1 DEF Tools!Tasks, Tools!PC
  <2>3. /\ permits' = permits /\ sent' = sent /\ unread' = unread
        /\ c \in remote /\ remote' = remote \ {c} /\ permits' >= 0
    BY <1>5, <2>1 DEF Tools!SourceAnswers
  <2>4. tasks' = [tasks EXCEPT ![c] = t]
    BY <1>5, <2>1 DEF Tools!SourceAnswers
  <2> HIDE DEF t
  <2>5. tasks'[c] = t
    BY <2>1, <2>4
  <2>6. CallInOrder(c)'
    BY <2>1, <2>2, <2>3, <2>5 DEF CallInOrder
  <2>7. QED
    BY <2>1, <2>2, <2>3, <2>4, <2>6, ToolStep
<1>6. ASSUME NEW c \in ToolCalls, Tools!ToolReturns(c) PROVE ToolIInv'
  <2>1. CallInOrder(c) /\ sent' = sent /\ remote' = remote /\ unread' = unread
    BY <1>6, ToolState DEF Tools!ToolReturns
  <2>2. Tools!Working(c) /\ tasks[c].pc \in {"tool", "answered"}
    BY <1>6 DEF Tools!ToolReturns, Tools!Working
  <2>3. PICK o \in Tools!Outcomes : Tools!Ends(c, o)
    BY <1>6 DEF Tools!ToolReturns, Tools!Outcomes
  <2>4. c \notin remote
    BY <2>1, <2>2 DEF CallInOrder
  <2>5. QED
    BY <2>1, <2>2, <2>3, <2>4, ToolEnds
<1>7. ASSUME NEW c \in ToolCalls, Tools!StreamBreaks(c) PROVE ToolIInv'
  <2>1. "Failed" \in Tools!Outcomes
    BY DEF Tools!Outcomes
  <2>2. QED
    BY <1>7, <2>1, ToolEnds DEF Tools!StreamBreaks, Tools!Working
<1>8. ASSUME NEW c \in ToolCalls, Tools!ToolTimeout(c) PROVE ToolIInv'
  <2>1. Tools!TimedOut \in Tools!Outcomes /\ Tools!TimedOut \notin {"Failed", "Rejected"}
    BY DEF Tools!Outcomes, Tools!TimedOut
  <2>2. QED
    BY <1>8, <2>1, ToolEnds DEF Tools!ToolTimeout
<1>9. CASE UNCHANGED toolVars
  BY <1>9 DEF toolVars, ToolIInv, Tools!TypeOK, CallInOrder, Tools!PermitsHeld, Tools!Working
<1>10. QED
  BY <1>1, <1>2, <1>3, <1>4, <1>5, <1>6, <1>7, <1>8, <1>9 DEF Tools!Next, Tools!Timeout

ToolsInv == part = "tools" => ToolIInv

(* What the tool runtime keeps, for any calls, permits and retries.        *)
LEMMA ToolInvariant == Spec => []ToolsInv
<1>1. Init => ToolsInv
  BY ToolInit DEF Init, ToolsInv
<1>2. ToolsInv /\ [Next]_allVars => ToolsInv'
  BY PartStep, ToolNext DEF ToolsInv
<1>3. QED
  BY <1>1, <1>2, PTL DEF Spec

(* Retries included, a call asks the data source at most once; one that is *)
(* said to have failed has left nothing running there, unless its rows were*)
(* given up before their end, by a connection that broke or a cell that did*)
(* not decode (postgres.rs); and every permit is held by a call that works,*)
(* or is back (execute_prepared, RunToolGate).                             *)
THEOREM ToolCallsAreAccounted == Spec => []ToolCallsAccounted
<1>1. ToolsInv => ToolCallsAccounted
  BY DEF ToolsInv, ToolIInv, CallInOrder, ToolCallsAccounted, Tools!ToolCallsAccounted,
         Tools!AsksOnce, Tools!FailedHasStopped
<1>2. QED
  BY <1>1, ToolInvariant, PTL

-----------------------------------------------------------------------------
(* The event feed.  The facts about it, of the state alone:                *)
(* the TUI has read no further than the log of the Run in focus, whose log *)
(* is not empty; a question that has no reply yet has a timeline of its    *)
(* own; the timeline has applied the row of the Run in focus only while    *)
(* that had not ended; and when it has seen all of the Run, the base view  *)
(* is that of the Run's row.                                               *)

FeedTuis == [focused : Feed!RunIds \cup {Feed!NoRun}, cursor : Nat, sub : Feed!SubStates,
             loaded : Nat, inbox : 0 .. Feed!MaxInbox, base : {"Home", "Clarification"}]
FeedTimelines == [status : Feed!TimelineStatus \cup Feed!RunStatus,
                  rank : 0 .. Feed!ArtifactRank, seq : Nat, version : Nat]

FeedTypes ==
    /\ logs \in [Feed!RunIds -> Seq(Feed!Events)]
    /\ tui \in FeedTuis
    /\ timeline \in FeedTimelines
    /\ request \in Feed!Requests

FocusInv ==
    /\ tui.sub # "none" => tui.focused # Feed!NoRun
    /\ tui.cursor <= tui.loaded
    /\ tui.focused # Feed!NoRun =>
           /\ 0 < Len(logs[tui.focused])
           /\ tui.loaded <= Len(logs[tui.focused])
    /\ request.kind = "message" /\ request.done =>
           request.run # Feed!NoRun /\ 0 < Len(logs[request.run])
    /\ request.kind = "answer" =>
           /\ request.run # Feed!NoRun
           /\ tui.focused # Feed!NoRun => request.run = tui.focused

\* What the timeline t has applied of the Run r.
Shows(t, r) ==
    /\ t.rank <= Feed!TerminalSnapshotRank
    /\ t.version <= Len(logs[r])
    /\ Feed!Ended(r) => t.version < Len(logs[r])

TimelineInv ==
    "mixed" \notin marks =>
        /\ request.kind = "message" => timeline = Feed!Default
        /\ request.kind # "message" /\ tui.focused # Feed!NoRun =>
               Shows(timeline, tui.focused)

AnswerInv ==
    /\ tui.focused # Feed!NoRun
    /\ tui.cursor = Len(logs[tui.focused])
    /\ Feed!Row(tui.focused) = "WaitingForInput"
    /\ "overtaken" \notin marks
    => tui.base = "Clarification"

FeedIInv == FeedTypes /\ FocusInv /\ TimelineInv /\ AnswerInv

LEMMA FeedInit == Feed!Init => FeedIInv
<1> SUFFICES ASSUME Feed!Init PROVE FeedIInv
  OBVIOUS
<1>1. /\ tui \in FeedTuis /\ tui.focused = Feed!NoRun /\ tui.sub = "none"
      /\ tui.cursor = 0 /\ tui.loaded = 0
  BY DEF Feed!Init, FeedTuis, Feed!NoRun, Feed!SubStates, Feed!MaxInbox
<1>2. timeline \in FeedTimelines
  BY DEF Feed!Init, FeedTimelines, Feed!Default, Feed!TimelineStatus, Feed!ArtifactRank
<1>3. /\ request \in Feed!Requests /\ request.kind = "none"
  BY DEF Feed!Init, Feed!Requests, Feed!NoRequest, Feed!NoRun
<1>4. logs \in [Feed!RunIds -> Seq(Feed!Events)]
  <2>1. <<>> \in Seq(Feed!Events) /\ <<"Asked", "Answered">> \in Seq(Feed!Events)
    BY DEF Feed!Events, Feed!Pauses, Feed!Progress
  <2>2. QED
    BY <2>1 DEF Feed!Init
<1>5. QED
  BY <1>1, <1>2, <1>3, <1>4 DEF FeedIInv, FeedTypes, FocusInv, TimelineInv, AnswerInv

(* The status of a Run is one a timeline may show; only a status that is   *)
(* terminal says that a Run ended.                                         *)
LEMMA RowFacts ==
    ASSUME FeedTypes, NEW r \in Feed!RunIds
    PROVE  /\ Feed!Row(r) \in Feed!RunStatus
           /\ Feed!Ended(r) => Feed!IsTerminal(Feed!Row(r))
<1>1. logs[r] \in Seq(Feed!Events)
  BY DEF FeedTypes
<1>2. CASE logs[r] = <<>>
  BY <1>2 DEF Feed!Row, Feed!StatusAfter, Feed!RunStatus, Feed!Ended
<1>3. CASE logs[r] # <<>>
  <2> DEFINE e == logs[r][Len(logs[r])]
  <2>1. e \in Feed!Events
    BY <1>1, <1>3
  <2> HIDE DEF e
  <2>2. Feed!Row(r) = CASE e \in Feed!Progress -> "Running"
                        [] e \in Feed!Pauses -> "WaitingForInput"
                        [] e = "Completed" -> "Succeeded"
                        [] e = "Failed" -> "Failed"
                        [] e = "Cancelled" -> "Cancelled"
    BY <1>3 DEF Feed!Row, Feed!StatusAfter, e
  <2>3. Feed!Row(r) \in Feed!RunStatus
    BY <2>1, <2>2
       DEF Feed!Events, Feed!Progress, Feed!Pauses, Feed!Ends, Feed!RunStatus
  <2>4. QED
    BY <2>3 DEF Feed!Ended, Feed!IsTerminal
<1>4. QED
  BY <1>2, <1>3

(* Of the functions on the timeline: they keep its type, and a row that    *)
(* was not applied yet and says that its Run ended is what it then shows.  *)
LEMMA StatusFacts ==
    ASSUME NEW t \in FeedTimelines, NEW k \in 0 .. Feed!ArtifactRank,
           NEW s \in Feed!TimelineStatus \cup Feed!RunStatus
    PROVE  LET u == Feed!SetStatus(t, s, k) IN
           /\ u \in FeedTimelines
           /\ u.seq = t.seq /\ u.version = t.version
           /\ u.rank = t.rank \/ u.rank = k
           /\ t.rank <= k /\ Feed!IsTerminal(s) => u.status = s
<1> DEFINE v == [t EXCEPT !.status = s, !.rank = k]
<1>1. /\ v \in FeedTimelines /\ v.seq = t.seq /\ v.version = t.version
      /\ v.rank = k /\ v.status = s
  BY DEF FeedTimelines
<1>2. t.rank \in Int /\ k \in Int
  BY DEF FeedTimelines, Feed!ArtifactRank
<1>3. Feed!SetStatus(t, s, k) =
        IF k < t.rank \/ (Feed!IsTerminal(t.status) /\ ~Feed!IsTerminal(s)) THEN t ELSE v
  BY DEF Feed!SetStatus
<1> HIDE DEF v
<1>4. QED
  BY <1>1, <1>2, <1>3

LEMMA EventFacts ==
    ASSUME NEW t \in FeedTimelines, NEW n \in Nat, NEW e \in Feed!Events
    PROVE  LET u == Feed!ApplyEvent(t, n, e) IN
           /\ u \in FeedTimelines
           /\ u.version = t.version
           /\ u.rank = t.rank \/ u.rank = Feed!EventRank
<1> DEFINE s == [t EXCEPT !.seq = n]
<1>1. s \in FeedTimelines /\ s.version = t.version /\ s.rank = t.rank
  BY DEF FeedTimelines
<1>2. Feed!EventStatus[e] \in Feed!TimelineStatus \cup Feed!RunStatus
  <2>1. /\ <<e>> \in Seq(Feed!Events) /\ <<e>> # <<>> /\ Len(<<e>>) = 1
        /\ <<e>>[Len(<<e>>)] = e
    OBVIOUS
  <2>2. Feed!EventStatus[e] = CASE e = "Denied" -> "Denied"
                                [] e = "Completed" -> "Succeeded"
                                [] OTHER -> Feed!StatusAfter(<<e>>)
    BY DEF Feed!EventStatus
  <2>3. CASE e \in {"Denied", "Completed"}
    BY <2>2, <2>3 DEF Feed!TimelineStatus
  <2>4. CASE e \notin {"Denied", "Completed"}
    <3>1. Feed!StatusAfter(<<e>>) = CASE e \in Feed!Progress -> "Running"
                                      [] e \in Feed!Pauses -> "WaitingForInput"
                                      [] e = "Completed" -> "Succeeded"
                                      [] e = "Failed" -> "Failed"
                                      [] e = "Cancelled" -> "Cancelled"
      BY <2>1 DEF Feed!StatusAfter
    <3>2. Feed!StatusAfter(<<e>>) \in Feed!RunStatus
      BY <3>1 DEF Feed!Events, Feed!Progress, Feed!Pauses, Feed!Ends, Feed!RunStatus
    <3>3. QED
      BY <2>2, <2>4, <3>2
  <2>5. QED
    BY <2>3, <2>4
<1> HIDE DEF s
<1>3. Feed!EventRank \in 0 .. Feed!ArtifactRank
  BY DEF Feed!EventRank, Feed!ArtifactRank
<1>4. \/ Feed!ApplyEvent(t, n, e) = t
      \/ Feed!ApplyEvent(t, n, e) = s
      \/ Feed!ApplyEvent(t, n, e) = Feed!SetStatus(s, Feed!EventStatus[e], Feed!EventRank)
  BY DEF Feed!ApplyEvent, s
<1>5. CASE Feed!ApplyEvent(t, n, e) = Feed!SetStatus(s, Feed!EventStatus[e], Feed!EventRank)
  BY <1>1, <1>2, <1>3, <1>5, StatusFacts
<1>6. QED
  BY <1>1, <1>4, <1>5

LEMMA ApplyRowFacts ==
    ASSUME FeedTypes, NEW r \in Feed!RunIds, NEW t \in FeedTimelines
    PROVE  LET u == Feed!ApplyRow(t, r) IN
           /\ u \in FeedTimelines
           /\ Shows(t, r) /\ Feed!Ended(r) => u.status = Feed!Row(r)
           /\ Shows(t, r) /\ ~Feed!Ended(r) => Shows(u, r)
<1> DEFINE n == Len(logs[r])
           rank == IF Feed!Ended(r) THEN Feed!TerminalSnapshotRank
                                    ELSE Feed!RunningSnapshotRank
           v == [t EXCEPT !.version = n]
           s == Feed!SetStatus(v, Feed!Row(r), rank)
           u == IF n <= t.version THEN t ELSE s
<1>1. n \in Nat /\ Feed!Row(r) \in Feed!RunStatus
      /\ (Feed!Ended(r) => Feed!IsTerminal(Feed!Row(r)))
  BY RowFacts DEF FeedTypes
<1>2. rank \in 0 .. Feed!ArtifactRank /\ rank <= Feed!TerminalSnapshotRank
      /\ (Feed!Ended(r) => rank = Feed!TerminalSnapshotRank)
  BY DEF Feed!TerminalSnapshotRank, Feed!RunningSnapshotRank, Feed!ArtifactRank
<1>3. Feed!ApplyRow(t, r) = IF Feed!Row(r) = "Succeeded" /\ u.status = "Succeeded"
                              THEN [u EXCEPT !.rank = Feed!ArtifactRank] ELSE u
  BY DEF Feed!ApplyRow
<1>4. v \in FeedTimelines /\ v.version = n /\ v.rank = t.rank
  BY <1>1 DEF FeedTimelines
<1> HIDE DEF n, rank, v
<1>5. /\ s \in FeedTimelines /\ s.version = n
      /\ s.rank = t.rank \/ s.rank = rank
      /\ t.rank <= rank /\ Feed!IsTerminal(Feed!Row(r)) => s.status = Feed!Row(r)
  BY <1>1, <1>2, <1>4, StatusFacts
<1> HIDE DEF s
<1>6. u \in FeedTimelines
  BY <1>5
<1>7. Feed!Row(r) = "Succeeded" => Feed!Ended(r)
  BY DEF Feed!Ended
<1>8. Feed!ApplyRow(t, r) \in FeedTimelines
      /\ Feed!ApplyRow(t, r).status = u.status
      /\ (~Feed!Ended(r) => Feed!ApplyRow(t, r) = u)
  <2>1. Feed!ArtifactRank \in 0 .. Feed!ArtifactRank
    BY DEF Feed!ArtifactRank
  <2>2. [u EXCEPT !.rank = Feed!ArtifactRank] \in FeedTimelines
        /\ [u EXCEPT !.rank = Feed!ArtifactRank].status = u.status
    BY <1>6, <2>1 DEF FeedTimelines
  <2> HIDE DEF u
  <2>3. QED
    BY <1>3, <1>6, <1>7, <2>2
<1>9. ASSUME Shows(t, r), Feed!Ended(r)
      PROVE  u.status = Feed!Row(r)
  BY <1>1, <1>2, <1>5, <1>9 DEF Shows, n, FeedTimelines
<1>10. ASSUME Shows(t, r), ~Feed!Ended(r)
       PROVE  Shows(u, r)
  BY <1>1, <1>2, <1>5, <1>10 DEF Shows, n
<1>11. QED
  BY <1>8, <1>9, <1>10

(* A log that grows, and a notification, disturb nothing the TUI knows.    *)
LEMMA LogsGrow ==
    ASSUME FeedIInv,
           logs' \in [Feed!RunIds -> Seq(Feed!Events)],
           \A q \in Feed!RunIds : logs'[q] = logs[q] \/ Len(logs[q]) < Len(logs'[q]),
           tui' \in FeedTuis, tui'.focused = tui.focused, tui'.cursor = tui.cursor,
           tui'.sub = tui.sub, tui'.loaded = tui.loaded, tui'.base = tui.base,
           timeline' = timeline, marks' = marks,
           request' \in Feed!Requests, request'.kind = request.kind,
           request'.kind = "answer" => request'.run = request.run,
           \/ request' = request
           \/ request'.kind = "answer"
           \/ request'.run \in Feed!RunIds /\ 0 < Len(logs'[request'.run])
    PROVE  FeedIInv'
<1>1. FeedTypes /\ FocusInv /\ TimelineInv /\ AnswerInv
  BY DEF FeedIInv
<1>2. FeedTypes'
  BY <1>1 DEF FeedTypes
<1>3. /\ tui.focused \in Feed!RunIds \cup {Feed!NoRun} /\ request.run \in Feed!RunIds \cup {Feed!NoRun}
      /\ Feed!NoRun \notin Feed!RunIds
      /\ tui.cursor \in Nat /\ tui.loaded \in Nat /\ timeline.version \in Nat
      /\ \A q \in Feed!RunIds : Len(logs[q]) \in Nat /\ Len(logs'[q]) \in Nat
  BY <1>1 DEF FeedTypes, FeedTuis, FeedTimelines, Feed!Requests, Feed!RunIds, Feed!NoRun
<1>4. FocusInv'
  <2>1. ASSUME NEW q \in Feed!RunIds
        PROVE  Len(logs[q]) <= Len(logs'[q])
    <3>1. CASE logs'[q] = logs[q]
      BY <1>3, <3>1
    <3>2. CASE Len(logs[q]) < Len(logs'[q])
      BY <1>3, <3>2
    <3>3. QED
      BY <3>1, <3>2
  <2>2. tui.focused # Feed!NoRun =>
          0 < Len(logs'[tui.focused]) /\ tui.loaded <= Len(logs'[tui.focused])
    BY <1>1, <1>3, <2>1 DEF FocusInv
  <2>3. request'.kind = "message" /\ request'.done =>
          request'.run # Feed!NoRun /\ 0 < Len(logs'[request'.run])
    <3>1. CASE request' = request
      <4>1. SUFFICES ASSUME request.kind = "message" /\ request.done
                     PROVE  request.run # Feed!NoRun /\ 0 < Len(logs'[request.run])
        BY <3>1
      <4>2. request.run \in Feed!RunIds /\ 0 < Len(logs[request.run])
        BY <1>1, <1>3, <4>1 DEF FocusInv
      <4>3. QED
        BY <1>3, <2>1, <4>2
    <3>2. CASE request'.kind = "answer"
      BY <3>2
    <3>3. CASE request'.run \in Feed!RunIds /\ 0 < Len(logs'[request'.run])
      BY <1>3, <3>3
    <3>4. QED
      BY <3>1, <3>2, <3>3
  <2>4. request'.kind = "answer" =>
          /\ request'.run # Feed!NoRun
          /\ tui'.focused # Feed!NoRun => request'.run = tui'.focused
    BY <1>1 DEF FocusInv
  <2>5. QED
    BY <1>1, <2>2, <2>3, <2>4 DEF FocusInv
<1>5. ASSUME NEW q \in Feed!RunIds, logs'[q] = logs[q]
      PROVE  Feed!Row(q)' = Feed!Row(q) /\ (Feed!Ended(q)' <=> Feed!Ended(q))
  BY <1>5 DEF Feed!Row, Feed!Ended
<1>6. TimelineInv'
  <2>1. ASSUME NEW q \in Feed!RunIds, Shows(timeline, q)
        PROVE  Shows(timeline, q)'
    <3>1. CASE logs'[q] = logs[q]
      BY <1>5, <2>1, <3>1 DEF Shows
    <3>2. CASE Len(logs[q]) < Len(logs'[q])
      BY <1>3, <2>1, <3>2 DEF Shows
    <3>3. QED
      BY <3>1, <3>2
  <2>2. QED
    BY <1>1, <1>3, <2>1 DEF TimelineInv
<1>7. AnswerInv'
  <2>1. SUFFICES ASSUME tui.focused \in Feed!RunIds
                 PROVE  AnswerInv'
    BY <1>3 DEF AnswerInv
  <2>2. CASE logs'[tui.focused] = logs[tui.focused]
    BY <1>1, <1>5, <2>1, <2>2 DEF AnswerInv
  <2>3. CASE Len(logs[tui.focused]) < Len(logs'[tui.focused])
    BY <1>1, <1>3, <2>1, <2>3 DEF AnswerInv, FocusInv
  <2>4. QED
    BY <2>1, <2>2, <2>3
<1>8. QED
  BY <1>2, <1>4, <1>6, <1>7 DEF FeedIInv

(* What every step needs of the state it leaves.                           *)
LEMMA FeedState ==
    ASSUME FeedIInv
    PROVE  /\ FeedTypes /\ FocusInv /\ TimelineInv /\ AnswerInv
           /\ logs \in [Feed!RunIds -> Seq(Feed!Events)]
           /\ tui \in FeedTuis /\ timeline \in FeedTimelines /\ request \in Feed!Requests
           /\ tui.focused \in Feed!RunIds \cup {Feed!NoRun}
           /\ request.run \in Feed!RunIds \cup {Feed!NoRun}
           /\ Feed!NoRun \notin Feed!RunIds
           /\ tui.cursor \in Nat /\ tui.loaded \in Nat
           /\ timeline.version \in Nat /\ timeline.rank \in Nat
           /\ \A q \in Feed!RunIds : Len(logs[q]) \in Nat
BY DEF FeedIInv, FeedTypes, FeedTuis, FeedTimelines, Feed!Requests, Feed!RunIds, Feed!NoRun,
       Feed!ArtifactRank

\* One more Event.
LEMMA Appends ==
    ASSUME FeedIInv, NEW r \in Feed!RunIds, NEW e \in Feed!Events,
           logs' = [logs EXCEPT ![r] = Append(@, e)]
    PROVE  /\ logs' \in [Feed!RunIds -> Seq(Feed!Events)]
           /\ Len(logs'[r]) = Len(logs[r]) + 1
           /\ \A q \in Feed!RunIds : logs'[q] = logs[q] \/ Len(logs[q]) < Len(logs'[q])
<1>1. /\ logs \in [Feed!RunIds -> Seq(Feed!Events)] /\ logs[r] \in Seq(Feed!Events)
      /\ Len(logs[r]) \in Nat
  BY FeedState
<1>2. Append(logs[r], e) \in Seq(Feed!Events) /\ Len(Append(logs[r], e)) = Len(logs[r]) + 1
  BY <1>1
<1>3. QED
  BY <1>1, <1>2

LEMMA RingFacts ==
    ASSUME tui \in FeedTuis, NEW r
    PROVE  LET t == Feed!Notified(tui, r) IN
           /\ t \in FeedTuis /\ t.focused = tui.focused /\ t.cursor = tui.cursor
           /\ t.sub = tui.sub /\ t.loaded = tui.loaded /\ t.base = tui.base
<1> DEFINE n == IF tui.inbox < Feed!MaxInbox THEN tui.inbox + 1 ELSE tui.inbox
           u == [tui EXCEPT !.inbox = n]
<1>1. n \in 0 .. Feed!MaxInbox
  BY DEF FeedTuis, Feed!MaxInbox
<1>2. Feed!Notified(tui, r) \in {tui, u}
  BY DEF Feed!Notified
<1> HIDE DEF n
<1>3. /\ u \in FeedTuis /\ u.focused = tui.focused /\ u.cursor = tui.cursor
      /\ u.sub = tui.sub /\ u.loaded = tui.loaded /\ u.base = tui.base
  BY <1>1 DEF FeedTuis
<1> HIDE DEF u
<1>4. QED
  BY <1>2, <1>3

\* A new log of one Event.
LEMMA Begins ==
    ASSUME FeedIInv, NEW r \in Feed!NewRuns, NEW e \in Feed!Events,
           logs' = [logs EXCEPT ![r] = <<e>>]
    PROVE  /\ logs' \in [Feed!RunIds -> Seq(Feed!Events)]
           /\ r \in Feed!RunIds /\ Len(logs'[r]) = 1
           /\ \A q \in Feed!RunIds : logs'[q] = logs[q] \/ Len(logs[q]) < Len(logs'[q])
<1>1. logs \in [Feed!RunIds -> Seq(Feed!Events)]
  BY FeedState
<1>2. r \in Feed!RunIds /\ logs[r] = <<>>
  BY DEF Feed!NewRuns
<1>3. <<e>> \in Seq(Feed!Events) /\ Len(<<e>>) = 1 /\ Len(<<>>) = 0
  OBVIOUS
<1>4. QED
  BY <1>1, <1>2, <1>3

\* What the step does when it lets the Run in focus go.
Concludes ==
    \A r \in Feed!RunIds :
        tui.focused = r /\ tui'.focused = Feed!NoRun /\ timeline' # Feed!Default
            /\ "mixed" \notin marks'
        => timeline'.status = Feed!Row(r)

LEMMA FocusTypes ==
    ASSUME NEW t \in FeedTuis
    PROVE  /\ Feed!NoFocus(t) \in FeedTuis
           /\ Feed!NoFocus(t).focused = Feed!NoRun /\ Feed!NoFocus(t).sub = "none"
           /\ Feed!NoFocus(t).cursor = 0 /\ Feed!NoFocus(t).loaded = 0
           /\ \A r \in Feed!RunIds :
                 /\ Feed!FocusOn(t, r) \in FeedTuis
                 /\ Feed!FocusOn(t, r).focused = r /\ Feed!FocusOn(t, r).sub = "none"
                 /\ Feed!FocusOn(t, r).cursor = 0 /\ Feed!FocusOn(t, r).loaded = 0
<1> DEFINE n == Feed!NoFocus(t)
<1>1. /\ n \in FeedTuis /\ n.focused = Feed!NoRun /\ n.sub = "none"
      /\ n.cursor = 0 /\ n.loaded = 0
  <2>1. /\ "none" \in Feed!SubStates /\ 0 \in 0 .. Feed!MaxInbox
        /\ Feed!NoRun \in Feed!RunIds \cup {Feed!NoRun}
    BY DEF Feed!SubStates, Feed!MaxInbox
  <2>2. n = [t EXCEPT !.focused = Feed!NoRun, !.cursor = 0, !.sub = "none",
                      !.loaded = 0, !.inbox = 0]
    BY DEF Feed!NoFocus
  <2> HIDE DEF n
  <2>3. QED
    BY <2>1, <2>2 DEF FeedTuis
<1>2. \A r \in Feed!RunIds : Feed!FocusOn(t, r) = [n EXCEPT !.focused = r]
  BY DEF Feed!FocusOn
<1> HIDE DEF n
<1>3. ASSUME NEW r \in Feed!RunIds
      PROVE  LET f == [n EXCEPT !.focused = r] IN
             /\ f \in FeedTuis /\ f.focused = r /\ f.sub = n.sub
             /\ f.cursor = n.cursor /\ f.loaded = n.loaded
  BY <1>1 DEF FeedTuis
<1>4. QED
  BY <1>1, <1>2, <1>3 DEF n

(* The row of the Run in focus is applied, after at most one Event.        *)
LEMMA RowApplied ==
    ASSUME FeedIInv, NEW r \in Feed!RunIds, tui.focused = r,
           NEW t \in FeedTimelines, Shows(timeline, r) => Shows(t, r),
           NEW u \in FeedTuis, u.focused = r, u.cursor <= u.loaded, u.loaded <= Len(logs[r]),
           Feed!Row(r) = "WaitingForInput" => u.base = "Clarification",
           timeline' = Feed!ApplyRow(t, r), tui' = Feed!Settled(u, r),
           marks' = Feed!Applying, UNCHANGED <<logs, drivers, request>>
    PROVE  FeedIInv' /\ Concludes
<1>1. /\ FeedTypes /\ FocusInv /\ TimelineInv /\ AnswerInv
      /\ Feed!NoRun \notin Feed!RunIds /\ \A q \in Feed!RunIds : Len(logs[q]) \in Nat
      /\ logs' = logs /\ request' = request
  BY FeedState
<1>2. /\ timeline' \in FeedTimelines
      /\ Shows(t, r) /\ Feed!Ended(r) => timeline'.status = Feed!Row(r)
      /\ Shows(t, r) /\ ~Feed!Ended(r) => Shows(timeline', r)
  BY <1>1, ApplyRowFacts
<1>3. \/ Feed!Ended(r) /\ tui' = Feed!NoFocus(u)
      \/ ~Feed!Ended(r) /\ tui' = u
  BY DEF Feed!Settled
<1>4. /\ tui' \in FeedTuis
      /\ \/ /\ Feed!Ended(r) /\ tui'.focused = Feed!NoRun /\ tui'.sub = "none"
            /\ tui'.cursor = 0 /\ tui'.loaded = 0
         \/ ~Feed!Ended(r) /\ tui' = u
  BY <1>3, FocusTypes
<1>5. FeedTypes'
  BY <1>1, <1>2, <1>4 DEF FeedTypes
<1>6. FocusInv'
  BY <1>1, <1>4 DEF FocusInv
<1>7. "mixed" \notin marks' => Shows(t, r) /\ request.kind # "message"
  <2>1. SUFFICES ASSUME "mixed" \notin marks' PROVE Shows(t, r) /\ request.kind # "message"
    OBVIOUS
  <2>2. "mixed" \notin marks /\ request.kind # "message"
    BY <2>1 DEF Feed!Applying
  <2>3. QED
    BY <1>1, <2>2 DEF TimelineInv
<1>8. TimelineInv'
  <2>1. Shows(timeline', r) => Shows(timeline, r)'
    BY <1>1 DEF Shows, Feed!Ended, Feed!Row
  <2>2. QED
    BY <1>1, <1>2, <1>4, <1>7, <2>1 DEF TimelineInv
<1>9. AnswerInv'
  <2>1. Feed!Row(r)' = Feed!Row(r)
    BY <1>1 DEF Feed!Row
  <2>2. QED
    BY <1>4, <2>1 DEF AnswerInv
<1>10. Concludes
  BY <1>1, <1>2, <1>4, <1>7 DEF Concludes
<1>11. QED
  BY <1>5, <1>6, <1>8, <1>9, <1>10 DEF FeedIInv

\* A step of the subscription that applies nothing.
LEMMA Listening ==
    ASSUME FeedIInv, tui.focused # Feed!NoRun,
           tui' \in FeedTuis, tui'.focused = tui.focused, tui'.base = tui.base,
           tui'.cursor = tui.cursor,
           tui'.loaded \in {tui.loaded, tui.cursor, Len(logs[tui.focused])},
           marks' \ {"missed"} = marks \ {"missed"},
           UNCHANGED <<logs, timeline, request>>
    PROVE  FeedIInv'
<1>1. /\ FeedTypes /\ FocusInv /\ TimelineInv /\ AnswerInv
      /\ tui.focused \in Feed!RunIds
      /\ tui.cursor \in Nat /\ tui.loaded \in Nat /\ \A q \in Feed!RunIds : Len(logs[q]) \in Nat
  BY FeedState
<1>2. ("mixed" \in marks' <=> "mixed" \in marks) /\ ("overtaken" \in marks' <=> "overtaken" \in marks)
  OBVIOUS
<1>3. FeedTypes'
  BY <1>1 DEF FeedTypes
<1>4. FocusInv'
  BY <1>1 DEF FocusInv
<1>5. TimelineInv'
  BY <1>1, <1>2 DEF TimelineInv, Shows, Feed!Ended, Feed!Row
<1>6. AnswerInv'
  BY <1>1, <1>2 DEF AnswerInv, Feed!Row
<1>7. QED
  BY <1>3, <1>4, <1>5, <1>6 DEF FeedIInv

\* While no Run is let go, the step concludes nothing.
LEMMA HoldsOn ==
    ASSUME \/ tui.focused = Feed!NoRun
           \/ tui'.focused # Feed!NoRun
           \/ timeline' = Feed!Default
    PROVE  (Feed!NoRun \notin Feed!RunIds => Concludes)
BY DEF Concludes

LEMMA DriverStep ==
    ASSUME FeedIInv, Feed!Driver
    PROVE  FeedIInv' /\ Concludes
<1>1. /\ tui \in FeedTuis /\ logs \in [Feed!RunIds -> Seq(Feed!Events)]
      /\ request \in Feed!Requests /\ Feed!NoRun \notin Feed!RunIds
  BY FeedState
<1>2. ASSUME NEW r \in Feed!RunIds, Feed!DriverAppends(r)
      PROVE  FeedIInv' /\ Concludes
  <2>1. PICK e \in Feed!Events : logs' = [logs EXCEPT ![r] = Append(@, e)]
    BY <1>2 DEF Feed!DriverAppends, Feed!Events, Feed!Progress, Feed!Pauses, Feed!Ends
  <2>2. tui' = tui /\ timeline' = timeline /\ request' = request /\ marks' = marks
    BY <1>2 DEF Feed!DriverAppends
  <2>3. FeedIInv'
    BY <1>1, <2>1, <2>2, Appends, LogsGrow, FeedState DEF FocusInv
  <2>4. QED
    BY <1>1, <2>2, <2>3, HoldsOn
<1>3. ASSUME NEW r \in Feed!RunIds, Feed!DriverReturns(r)
      PROVE  FeedIInv' /\ Concludes
  <2>1. /\ tui' = Feed!Notified(tui, r) /\ logs' = logs
        /\ timeline' = timeline /\ request' = request /\ marks' = marks
    BY <1>3 DEF Feed!DriverReturns
  <2>2. /\ tui' \in FeedTuis /\ tui'.focused = tui.focused /\ tui'.cursor = tui.cursor
        /\ tui'.sub = tui.sub /\ tui'.loaded = tui.loaded /\ tui'.base = tui.base
    BY <1>1, <2>1, RingFacts
  <2>3. FeedIInv'
    BY <1>1, <2>1, <2>2, LogsGrow, FeedState DEF FocusInv
  <2>4. QED
    BY <1>1, <2>2, <2>3, HoldsOn
<1>4. QED
  BY <1>2, <1>3 DEF Feed!Driver

LEMMA BaseFacts ==
    ASSUME NEW r, NEW b \in {"Home", "Clarification"}
    PROVE  /\ Feed!BaseOfRow(r, b) \in {"Home", "Clarification"}
           /\ Feed!Row(r) = "WaitingForInput" => Feed!BaseOfRow(r, b) = "Clarification"
           /\ \A e : Feed!BaseAfter(e, b) \in {"Home", "Clarification"}
<1>1. \A e : Feed!BaseAfter(e, b) \in {"Home", "Clarification"}
  BY DEF Feed!BaseAfter
<1>2. /\ Feed!BaseOfRow(r, b) \in {"Home", "Clarification"}
      /\ Feed!Row(r) = "WaitingForInput" => Feed!BaseOfRow(r, b) = "Clarification"
  <2> DEFINE row == Feed!Row(r)
  <2>1. Feed!BaseOfRow(r, b) = CASE row = "WaitingForInput" -> "Clarification"
                                 [] row = "Succeeded" -> "Home"
                                 [] OTHER -> b
    BY DEF Feed!BaseOfRow
  <2> HIDE DEF row
  <2>2. CASE row = "WaitingForInput"
    BY <2>1, <2>2 DEF row
  <2>3. CASE row # "WaitingForInput"
    BY <2>1, <2>3 DEF row
  <2>4. QED
    BY <2>2, <2>3
<1>3. QED
  BY <1>1, <1>2

LEMMA TakeEventStep ==
    ASSUME FeedIInv, Feed!TakeEvent
    PROVE  FeedIInv' /\ Concludes
<1> DEFINE r == tui.focused
           n == tui.cursor + 1
           e == logs[r][n]
           t == Feed!ApplyEvent(timeline, n, e)
           b == Feed!BaseOfRow(r, Feed!BaseAfter(e, tui.base))
           u == [tui EXCEPT !.cursor = n, !.base = b]
<1>1. /\ tui.sub = "idle" /\ tui.cursor < tui.loaded
      /\ timeline' = Feed!ApplyRow(t, r) /\ tui' = Feed!Settled(u, r)
      /\ marks' = Feed!Applying /\ UNCHANGED <<logs, drivers, request>>
  BY DEF Feed!TakeEvent
<1>2. /\ FeedTypes /\ FocusInv /\ logs \in [Feed!RunIds -> Seq(Feed!Events)]
      /\ tui \in FeedTuis /\ timeline \in FeedTimelines
      /\ r \in Feed!RunIds \cup {Feed!NoRun}
      /\ tui.cursor \in Nat /\ tui.loaded \in Nat
      /\ timeline.rank \in Nat /\ timeline.version \in Nat
      /\ \A q \in Feed!RunIds : Len(logs[q]) \in Nat
  BY FeedState
<1>3. r \in Feed!RunIds /\ tui.loaded <= Len(logs[r])
  BY <1>1, <1>2 DEF FocusInv
<1>4. n \in 1 .. Len(logs[r]) /\ n \in Nat /\ n <= tui.loaded
  BY <1>1, <1>2, <1>3
<1>5. e \in Feed!Events
  BY <1>2, <1>3, <1>4
<1>6. /\ t \in FeedTimelines /\ t.version = timeline.version
      /\ t.rank = timeline.rank \/ t.rank = Feed!EventRank
  BY <1>2, <1>4, <1>5, EventFacts
<1>7. Shows(timeline, r) => Shows(t, r)
  BY <1>2, <1>6 DEF Shows, Feed!EventRank, Feed!TerminalSnapshotRank
<1>8. /\ b \in {"Home", "Clarification"}
      /\ Feed!Row(r) = "WaitingForInput" => b = "Clarification"
  <2>1. tui.base \in {"Home", "Clarification"}
    BY <1>2 DEF FeedTuis
  <2>2. Feed!BaseAfter(e, tui.base) \in {"Home", "Clarification"}
    BY <2>1, BaseFacts
  <2>3. QED
    BY <2>2, BaseFacts
<1> HIDE DEF n, e, t, b
<1>9. /\ u \in FeedTuis /\ u.focused = r /\ u.cursor = n /\ u.loaded = tui.loaded
      /\ u.base = b
  BY <1>2, <1>4, <1>8 DEF FeedTuis
<1> HIDE DEF u, r
<1>10. r = tui.focused
  BY DEF r
<1>11. QED
  BY <1>1, <1>3, <1>4, <1>6, <1>7, <1>8, <1>9, <1>10, RowApplied

LEMMA NextFailsStep ==
    ASSUME FeedIInv, Feed!NextFails
    PROVE  FeedIInv' /\ Concludes
<1> DEFINE r == tui.focused
           b == Feed!BaseOfRow(r, tui.base)
           u == [tui EXCEPT !.sub = "none", !.inbox = 0, !.loaded = tui.cursor,
                            !.base = b]
<1>1. /\ tui.sub \in {"opening", "reloading"}
      /\ timeline' = Feed!ApplyRow(timeline, r) /\ tui' = Feed!Settled(u, r)
      /\ marks' = Feed!Applying /\ UNCHANGED <<logs, drivers, request>>
  BY DEF Feed!NextFails
<1>2. /\ FeedTypes /\ FocusInv /\ tui \in FeedTuis /\ timeline \in FeedTimelines
      /\ r \in Feed!RunIds \cup {Feed!NoRun}
      /\ tui.cursor \in Nat /\ tui.loaded \in Nat
      /\ \A q \in Feed!RunIds : Len(logs[q]) \in Nat
  BY FeedState
<1>3. /\ r \in Feed!RunIds /\ tui.cursor <= tui.loaded /\ tui.loaded <= Len(logs[r])
  BY <1>1, <1>2 DEF FocusInv
<1>4. /\ b \in {"Home", "Clarification"}
      /\ Feed!Row(r) = "WaitingForInput" => b = "Clarification"
  <2>1. tui.base \in {"Home", "Clarification"}
    BY <1>2 DEF FeedTuis
  <2>2. QED
    BY <2>1, BaseFacts
<1> HIDE DEF b
<1>5. /\ u \in FeedTuis /\ u.focused = r /\ u.cursor = tui.cursor /\ u.loaded = tui.cursor
      /\ u.base = b
  <2>1. "none" \in Feed!SubStates /\ 0 \in 0 .. Feed!MaxInbox
    BY DEF Feed!SubStates, Feed!MaxInbox
  <2>2. QED
    BY <1>2, <1>4, <2>1 DEF FeedTuis
<1> HIDE DEF u, r
<1>6. r = tui.focused /\ (Shows(timeline, r) => Shows(timeline, r))
  BY DEF r
<1>7. u.cursor <= u.loaded /\ u.loaded <= Len(logs[r])
  BY <1>2, <1>3, <1>5
<1>8. QED
  BY <1>1, <1>2, <1>3, <1>4, <1>5, <1>6, <1>7, RowApplied

LEMMA ListeningStep ==
    ASSUME FeedIInv,
           Feed!Subscribe \/ Feed!Receive \/ Feed!ReadAgain \/ Feed!FirstRead \/ Feed!Loaded
             \/ Feed!DropNext
    PROVE  FeedIInv' /\ Concludes
<1>1. /\ FocusInv /\ tui \in FeedTuis /\ Feed!NoRun \notin Feed!RunIds
      /\ tui.focused \in Feed!RunIds \cup {Feed!NoRun}
      /\ tui.cursor \in Nat /\ tui.loaded \in Nat /\ tui.inbox \in 0 .. Feed!MaxInbox
      /\ \A q \in Feed!RunIds : Len(logs[q]) \in Nat
  BY FeedState DEF FeedTuis
<1>2. tui.focused # Feed!NoRun
  BY <1>1 DEF Feed!Subscribe, Feed!Receive, Feed!ReadAgain, Feed!FirstRead, Feed!Read,
              Feed!Loaded, Feed!DropNext, FocusInv
<1>3. /\ "none" \in Feed!SubStates /\ "opening" \in Feed!SubStates
      /\ "opened" \in Feed!SubStates /\ "idle" \in Feed!SubStates
      /\ "reloading" \in Feed!SubStates /\ "reloaded" \in Feed!SubStates
      /\ 0 \in 0 .. Feed!MaxInbox
      /\ tui.inbox > 0 => tui.inbox - 1 \in 0 .. Feed!MaxInbox
      /\ Len(logs[tui.focused]) \in Nat
  BY <1>1, <1>2 DEF Feed!SubStates, Feed!MaxInbox
<1>4. /\ UNCHANGED <<logs, timeline, request>>
      /\ marks' \ {"missed"} = marks \ {"missed"}
  BY DEF Feed!Subscribe, Feed!Receive, Feed!ReadAgain, Feed!FirstRead, Feed!Read,
         Feed!Loaded, Feed!DropNext
<1>5. /\ tui' \in FeedTuis /\ tui'.focused = tui.focused /\ tui'.base = tui.base
      /\ tui'.cursor = tui.cursor
      /\ tui'.loaded \in {tui.loaded, tui.cursor, Len(logs[tui.focused])}
  <2>1. CASE Feed!Subscribe
    BY <1>1, <1>3, <2>1 DEF Feed!Subscribe, FeedTuis
  <2>2. CASE Feed!Receive
    BY <1>1, <1>3, <2>2 DEF Feed!Receive, FeedTuis
  <2>3. CASE Feed!ReadAgain
    BY <1>1, <1>3, <2>3 DEF Feed!ReadAgain, Feed!Read, FeedTuis
  <2>4. CASE Feed!FirstRead
    BY <1>1, <1>3, <2>4 DEF Feed!FirstRead, Feed!Read, FeedTuis
  <2>5. CASE Feed!Loaded
    BY <1>1, <1>3, <2>5 DEF Feed!Loaded, FeedTuis
  <2>6. CASE Feed!DropNext
    BY <1>1, <1>3, <2>6 DEF Feed!DropNext, FeedTuis
  <2>7. QED
    BY <2>1, <2>2, <2>3, <2>4, <2>5, <2>6
<1>6. FeedIInv'
  BY <1>2, <1>4, <1>5, Listening
<1>7. QED
  BY <1>1, <1>2, <1>5, <1>6, HoldsOn

\* Run and timeline when nothing of the Run was applied yet.
LEMMA FreshShows ==
    ASSUME NEW t, NEW r, t.version = 0, t.rank <= Feed!TerminalSnapshotRank,
           Len(logs[r]) \in Nat, 0 < Len(logs[r])
    PROVE  Shows(t, r)
BY DEF Shows

LEMMA DefaultFacts ==
    /\ Feed!Default \in FeedTimelines
    /\ Feed!Default.version = 0 /\ Feed!Default.rank = 0
    /\ \A s \in Feed!TimelineStatus :
          LET t == Feed!SetStatus(Feed!Default, s, Feed!ReplyRank) IN
          /\ t \in FeedTimelines /\ t.version = 0 /\ t.rank <= Feed!TerminalSnapshotRank
    /\ \A t \in FeedTimelines, s \in Feed!TimelineStatus :
          Feed!SetStatus(t, s, Feed!ReplyRank) \in FeedTimelines
<1>1. /\ Feed!Default \in FeedTimelines
      /\ Feed!Default.version = 0 /\ Feed!Default.rank = 0
  BY DEF Feed!Default, FeedTimelines, Feed!TimelineStatus, Feed!ArtifactRank
<1>2. /\ Feed!ReplyRank \in 0 .. Feed!ArtifactRank
      /\ Feed!ReplyRank <= Feed!TerminalSnapshotRank /\ 0 <= Feed!TerminalSnapshotRank
  BY DEF Feed!ReplyRank, Feed!ArtifactRank, Feed!TerminalSnapshotRank
<1>3. ASSUME NEW t \in FeedTimelines, NEW s \in Feed!TimelineStatus
      PROVE  LET u == Feed!SetStatus(t, s, Feed!ReplyRank) IN
             /\ u \in FeedTimelines /\ u.version = t.version
             /\ u.rank = t.rank \/ u.rank = Feed!ReplyRank
  BY <1>2, StatusFacts
<1>4. QED
  BY <1>1, <1>2, <1>3

LEMMA UserStep ==
    ASSUME FeedIInv, Feed!User
    PROVE  FeedIInv' /\ Concludes
<1>1. /\ FeedTypes /\ FocusInv /\ TimelineInv /\ AnswerInv
      /\ logs \in [Feed!RunIds -> Seq(Feed!Events)]
      /\ tui \in FeedTuis /\ timeline \in FeedTimelines /\ request \in Feed!Requests
      /\ tui.focused \in Feed!RunIds \cup {Feed!NoRun}
      /\ Feed!NoRun \notin Feed!RunIds
      /\ tui.cursor \in Nat /\ tui.loaded \in Nat
      /\ \A q \in Feed!RunIds : Len(logs[q]) \in Nat
  BY FeedState
<1>2. /\ Feed!NoRequest.kind = "none" /\ Feed!NoRequest.run = Feed!NoRun
      /\ ~Feed!NoRequest.done
      /\ [Feed!NoRequest EXCEPT !.kind = "message"] \in Feed!Requests
      /\ [Feed!NoRequest EXCEPT !.kind = "message"].kind = "message"
      /\ ~[Feed!NoRequest EXCEPT !.kind = "message"].done
  BY DEF Feed!NoRequest, Feed!Requests
<1>3. CASE Feed!SendMessage
  <2>1. /\ request' = [Feed!NoRequest EXCEPT !.kind = "message"]
        /\ timeline' = Feed!Default /\ tui' = tui /\ logs' = logs
        /\ "overtaken" \in marks' <=> "overtaken" \in marks
    BY <1>3 DEF Feed!SendMessage, Feed!BeginQuery
  <2>2. FeedTypes'
    BY <1>1, <1>2, <2>1, DefaultFacts DEF FeedTypes
  <2>3. FocusInv'
    BY <1>1, <1>2, <2>1 DEF FocusInv
  <2>4. TimelineInv'
    BY <1>2, <2>1 DEF TimelineInv
  <2>5. AnswerInv'
    BY <1>1, <2>1 DEF AnswerInv, Feed!Row
  <2>6. QED
    BY <1>1, <2>1, <2>2, <2>3, <2>4, <2>5, HoldsOn DEF FeedIInv
<1>4. CASE Feed!SendAnswer
  <2> DEFINE q == [kind |-> "answer", done |-> FALSE, run |-> tui.focused]
  <2>1. /\ request' = q /\ request.kind = "none" /\ tui.focused # Feed!NoRun
        /\ timeline' = timeline /\ tui' = tui /\ logs' = logs /\ marks' = marks
    BY <1>2, <1>4 DEF Feed!SendAnswer, Feed!AtPrompt
  <2>2. q \in Feed!Requests /\ q.kind = "answer" /\ q.run = tui.focused
    BY <1>1 DEF Feed!Requests
  <2> HIDE DEF q
  <2>3. FeedTypes'
    BY <1>1, <2>1, <2>2 DEF FeedTypes
  <2>4. FocusInv'
    BY <1>1, <2>1, <2>2 DEF FocusInv
  <2>5. TimelineInv'
    BY <1>1, <2>1, <2>2 DEF TimelineInv, Shows, Feed!Ended, Feed!Row
  <2>6. AnswerInv'
    BY <1>1, <2>1 DEF AnswerInv, Feed!Row
  <2>7. QED
    BY <1>1, <2>1, <2>3, <2>4, <2>5, <2>6, HoldsOn DEF FeedIInv
<1>5. CASE Feed!ResumeTask
  <2>1. PICK r \in Feed!RunIds :
          /\ \/ logs' = [logs EXCEPT ![r] = Append(@, "Resumed")]
             \/ r \in Feed!NewRuns /\ logs' = [logs EXCEPT ![r] = <<"Started">>]
          /\ tui' = Feed!FocusOn(tui, r)
    BY <1>5 DEF Feed!ResumeTask
  <2>2. /\ timeline' = Feed!Default /\ request' = request
        /\ request.kind = "none"
    BY <1>2, <1>5 DEF Feed!ResumeTask, Feed!AtPrompt
  <2>3. "Resumed" \in Feed!Events /\ "Started" \in Feed!Events
    BY DEF Feed!Events, Feed!Progress
  <2>4. /\ logs' \in [Feed!RunIds -> Seq(Feed!Events)]
        /\ Len(logs'[r]) \in Nat /\ 0 < Len(logs'[r])
    <3>1. CASE logs' = [logs EXCEPT ![r] = Append(@, "Resumed")]
      BY <1>1, <2>3, <3>1, Appends
    <3>2. CASE r \in Feed!NewRuns /\ logs' = [logs EXCEPT ![r] = <<"Started">>]
      BY <1>1, <2>3, <3>2, Begins
    <3>3. QED
      BY <2>1, <3>1, <3>2
  <2>5. /\ tui' \in FeedTuis /\ tui'.focused = r /\ tui'.sub = "none"
        /\ tui'.cursor = 0 /\ tui'.loaded = 0
    BY <1>1, <2>1, FocusTypes
  <2>6. FeedTypes'
    BY <1>1, <2>2, <2>4, <2>5, DefaultFacts DEF FeedTypes
  <2>7. FocusInv'
    BY <2>2, <2>4, <2>5 DEF FocusInv
  <2>8. TimelineInv'
    <3>1. 0 <= Feed!TerminalSnapshotRank
      BY DEF Feed!TerminalSnapshotRank
    <3>2. Shows(timeline, r)'
      BY <2>2, <2>4, <3>1, DefaultFacts DEF Shows
    <3>3. QED
      BY <2>2, <2>5, <3>2 DEF TimelineInv
  <2>9. AnswerInv'
    BY <2>4, <2>5 DEF AnswerInv
  <2>10. QED
    BY <1>1, <2>2, <2>6, <2>7, <2>8, <2>9, HoldsOn DEF FeedIInv
<1>6. CASE Feed!CancelRun
  <2>1. PICK r \in {tui.focused} \ {Feed!NoRun} :
          /\ logs' = [logs EXCEPT ![r] = Append(@, "Cancelled")]
          /\ tui' = Feed!Notified(tui, r)
    BY <1>6 DEF Feed!CancelRun
  <2>2. timeline' = timeline /\ request' = request /\ marks' = marks
    BY <1>6 DEF Feed!CancelRun
  <2>3. r \in Feed!RunIds /\ "Cancelled" \in Feed!Events
    BY <1>1, <2>1 DEF Feed!Events, Feed!Ends
  <2>4. /\ tui' \in FeedTuis /\ tui'.focused = tui.focused /\ tui'.cursor = tui.cursor
        /\ tui'.sub = tui.sub /\ tui'.loaded = tui.loaded /\ tui'.base = tui.base
    BY <1>1, <2>1, RingFacts
  <2>5. FeedIInv'
    BY <1>1, <2>1, <2>2, <2>3, <2>4, Appends, LogsGrow
  <2>6. QED
    BY <1>1, <2>4, <2>5, HoldsOn
<1>7. CASE Feed!NewSession
  <2>1. /\ tui' = Feed!NoFocus(tui) /\ timeline' = Feed!Default
        /\ logs' = logs /\ request' = request /\ request.kind = "none"
    BY <1>2, <1>7 DEF Feed!NewSession, Feed!AtPrompt
  <2>2. /\ tui' \in FeedTuis /\ tui'.focused = Feed!NoRun /\ tui'.sub = "none"
        /\ tui'.cursor = 0 /\ tui'.loaded = 0
    BY <1>1, <2>1, FocusTypes
  <2>3. FeedTypes'
    BY <1>1, <2>1, <2>2, DefaultFacts DEF FeedTypes
  <2>4. FocusInv' /\ TimelineInv' /\ AnswerInv'
    BY <2>1, <2>2 DEF FocusInv, TimelineInv, AnswerInv
  <2>5. QED
    BY <1>1, <2>1, <2>3, <2>4, HoldsOn DEF FeedIInv
<1>8. QED
  BY <1>3, <1>4, <1>5, <1>6, <1>7 DEF Feed!User

LEMMA ServiceStep ==
    ASSUME FeedIInv, Feed!Service
    PROVE  FeedIInv' /\ Concludes
<1>1. /\ FeedTypes /\ FocusInv /\ TimelineInv /\ AnswerInv
      /\ logs \in [Feed!RunIds -> Seq(Feed!Events)]
      /\ tui \in FeedTuis /\ timeline \in FeedTimelines /\ request \in Feed!Requests
      /\ tui.focused \in Feed!RunIds \cup {Feed!NoRun}
      /\ request.run \in Feed!RunIds \cup {Feed!NoRun}
      /\ Feed!NoRun \notin Feed!RunIds
      /\ \A q \in Feed!RunIds : Len(logs[q]) \in Nat
  BY FeedState
<1>2. /\ Feed!NoRequest \in Feed!Requests /\ Feed!NoRequest.kind = "none"
      /\ ~Feed!NoRequest.done
  BY DEF Feed!NoRequest, Feed!Requests
<1>3. ASSUME NEW q \in Feed!RunIds
      PROVE  /\ [request EXCEPT !.done = TRUE, !.run = q] \in Feed!Requests
             /\ [request EXCEPT !.done = TRUE, !.run = q].kind = request.kind
             /\ [request EXCEPT !.done = TRUE, !.run = q].run = q
  BY <1>1 DEF Feed!Requests
<1>4. /\ [request EXCEPT !.done = TRUE] \in Feed!Requests
      /\ [request EXCEPT !.done = TRUE].kind = request.kind
      /\ [request EXCEPT !.done = TRUE].run = request.run
  BY <1>1 DEF Feed!Requests
<1>5. CASE Feed!StartRun
  <2>1. PICK r \in Feed!NewRuns, first \in {"Started", "Asked"} :
          /\ logs' = [logs EXCEPT ![r] = <<first>>]
          /\ request' = [request EXCEPT !.done = TRUE, !.run = r]
    BY <1>5 DEF Feed!StartRun
  <2>2. /\ request.kind = "message"
        /\ tui' = tui /\ timeline' = timeline /\ marks' = marks
    BY <1>5 DEF Feed!StartRun
  <2>3. first \in Feed!Events
    BY DEF Feed!Events, Feed!Progress, Feed!Pauses
  <2>4. /\ logs' \in [Feed!RunIds -> Seq(Feed!Events)]
        /\ r \in Feed!RunIds /\ Len(logs'[r]) = 1
        /\ \A q \in Feed!RunIds : logs'[q] = logs[q] \/ Len(logs[q]) < Len(logs'[q])
    BY <2>1, <2>3, Begins
  <2>5. /\ request' \in Feed!Requests /\ request'.kind = request.kind /\ request'.run = r
    BY <1>3, <2>1, <2>4
  <2>6. FeedIInv'
    <3>1. request'.kind # "answer" /\ request'.run \in Feed!RunIds /\ 0 < Len(logs'[request'.run])
      <4>1. request'.kind # "answer"
        BY <2>2, <2>5
      <4>2. request'.run \in Feed!RunIds
        BY <2>4, <2>5
      <4>3. Len(logs'[request'.run]) = 1
        BY <2>4, <2>5
      <4>4. QED
        BY <4>1, <4>2, <4>3
    <3>2. /\ tui' \in FeedTuis /\ tui'.focused = tui.focused /\ tui'.cursor = tui.cursor
          /\ tui'.sub = tui.sub /\ tui'.loaded = tui.loaded /\ tui'.base = tui.base
      BY <1>1, <2>2
    <3>3. QED
      BY <2>2, <2>4, <2>5, <3>1, <3>2, LogsGrow
  <2>7. QED
    BY <1>1, <2>2, <2>6, HoldsOn
<1>6. CASE Feed!ReplyWithoutRun
  <2>1. /\ request' = Feed!NoRequest /\ request.kind = "message"
        /\ tui' = tui /\ logs' = logs
        /\ "overtaken" \in marks' <=> "overtaken" \in marks
    BY <1>6 DEF Feed!ReplyWithoutRun
  <2>2. \/ timeline' = Feed!Default
        \/ /\ marks' = marks
           /\ \/ timeline' = Feed!SetStatus(timeline, "Denied", Feed!ReplyRank)
              \/ timeline' = timeline
    BY <1>6 DEF Feed!ReplyWithoutRun
  <2>3. "Denied" \in Feed!TimelineStatus
    BY DEF Feed!TimelineStatus
  <2>4. timeline' \in FeedTimelines
    BY <1>1, <2>2, <2>3, DefaultFacts
  <2>5. "mixed" \notin marks' =>
          timeline'.version = 0 /\ timeline'.rank <= Feed!TerminalSnapshotRank
    <3>1. 0 <= Feed!TerminalSnapshotRank
      BY DEF Feed!TerminalSnapshotRank
    <3>2. CASE timeline' = Feed!Default
      BY <3>1, <3>2, DefaultFacts
    <3>3. CASE /\ marks' = marks
               /\ \/ timeline' = Feed!SetStatus(timeline, "Denied", Feed!ReplyRank)
                  \/ timeline' = timeline
      <4>1. "mixed" \notin marks' => timeline = Feed!Default
        BY <1>1, <2>1, <3>3 DEF TimelineInv
      <4>2. QED
        BY <2>3, <3>1, <3>3, <4>1, DefaultFacts
    <3>4. QED
      BY <2>2, <3>2, <3>3
  <2>6. FeedTypes'
    BY <1>1, <1>2, <2>1, <2>4 DEF FeedTypes
  <2>7. FocusInv'
    BY <1>1, <1>2, <2>1 DEF FocusInv
  <2>8. TimelineInv'
    <3>1. SUFFICES ASSUME "mixed" \notin marks', tui.focused # Feed!NoRun
                   PROVE  Shows(timeline, tui.focused)'
      BY <1>2, <2>1 DEF TimelineInv
    <3>2. tui.focused \in Feed!RunIds /\ 0 < Len(logs[tui.focused])
          /\ Len(logs[tui.focused]) \in Nat
      BY <1>1, <3>1 DEF FocusInv
    <3>3. QED
      BY <2>1, <2>5, <3>1, <3>2 DEF Shows
  <2>9. AnswerInv'
    BY <1>1, <2>1 DEF AnswerInv, Feed!Row
  <2>10. QED
    BY <1>1, <2>1, <2>6, <2>7, <2>8, <2>9, HoldsOn DEF FeedIInv
<1>7. CASE Feed!AnswerAccepted
  <2> DEFINE r == request.run
  <2>1. /\ request.kind = "answer"
        /\ logs' = [logs EXCEPT ![r] = Append(@, "Answered")]
        /\ tui' = Feed!Notified(tui, r)
        /\ request' = [request EXCEPT !.done = TRUE]
        /\ timeline' = timeline /\ marks' = marks
    BY <1>7 DEF Feed!AnswerAccepted
  <2>2. r \in Feed!RunIds /\ "Answered" \in Feed!Events
    BY <1>1, <2>1 DEF FocusInv, Feed!Events, Feed!Progress
  <2>3. /\ tui' \in FeedTuis /\ tui'.focused = tui.focused /\ tui'.cursor = tui.cursor
        /\ tui'.sub = tui.sub /\ tui'.loaded = tui.loaded /\ tui'.base = tui.base
    BY <1>1, <2>1, RingFacts
  <2>4. /\ logs' \in [Feed!RunIds -> Seq(Feed!Events)]
        /\ \A q \in Feed!RunIds : logs'[q] = logs[q] \/ Len(logs[q]) < Len(logs'[q])
    BY <2>1, <2>2, Appends
  <2>5. FeedIInv'
    BY <1>1, <1>4, <2>1, <2>3, <2>4, LogsGrow
  <2>6. QED
    BY <1>1, <2>3, <2>5, HoldsOn
<1>8. CASE Feed!AnswerRefused
  <2>1. /\ request' = Feed!NoRequest /\ request.kind = "answer"
        /\ logs' = logs /\ tui' = tui /\ timeline' = timeline /\ marks' = marks
    BY <1>8 DEF Feed!AnswerRefused
  <2>2. FeedTypes'
    BY <1>1, <1>2, <2>1 DEF FeedTypes
  <2>3. FocusInv'
    BY <1>1, <1>2, <2>1 DEF FocusInv
  <2>4. TimelineInv'
    BY <1>1, <1>2, <2>1 DEF TimelineInv, Shows, Feed!Ended, Feed!Row
  <2>5. AnswerInv'
    BY <1>1, <2>1 DEF AnswerInv, Feed!Row
  <2>6. QED
    BY <1>1, <2>1, <2>2, <2>3, <2>4, <2>5, HoldsOn DEF FeedIInv
<1>9. QED
  BY <1>5, <1>6, <1>7, <1>8 DEF Feed!Service

LEMMA CompleteStep ==
    ASSUME FeedIInv, Feed!Complete
    PROVE  FeedIInv' /\ Concludes
<1>1. /\ FeedTypes /\ FocusInv /\ TimelineInv /\ AnswerInv
      /\ logs \in [Feed!RunIds -> Seq(Feed!Events)]
      /\ tui \in FeedTuis /\ timeline \in FeedTimelines /\ request \in Feed!Requests
      /\ tui.focused \in Feed!RunIds \cup {Feed!NoRun}
      /\ request.run \in Feed!RunIds \cup {Feed!NoRun}
      /\ Feed!NoRun \notin Feed!RunIds
      /\ \A q \in Feed!RunIds : Len(logs[q]) \in Nat
  BY FeedState
<1>2. /\ Feed!NoRequest \in Feed!Requests /\ Feed!NoRequest.kind = "none"
      /\ ~Feed!NoRequest.done
  BY DEF Feed!NoRequest, Feed!Requests
<1>3. CASE Feed!CompleteMessage
  <2> DEFINE r == request.run
             f == Feed!FocusOn(tui, r)
             c == [f EXCEPT !.base = "Clarification"]
  <2>1. /\ request.kind = "message" /\ request.done /\ request' = Feed!NoRequest
        /\ logs' = logs /\ marks' = marks \ {"missed", "overtaken"}
        /\ \E s \in {"Running", "WaitingForInput"} :
              timeline' = Feed!SetStatus(timeline, s, Feed!ReplyRank)
        /\ tui' = f \/ tui' = c
    BY <1>3 DEF Feed!CompleteMessage
  <2>2. r \in Feed!RunIds /\ 0 < Len(logs[r])
    BY <1>1, <2>1 DEF FocusInv
  <2>3. /\ f \in FeedTuis /\ f.focused = r /\ f.sub = "none"
        /\ f.cursor = 0 /\ f.loaded = 0
    BY <1>1, <2>2, FocusTypes
  <2> HIDE DEF f
  <2>4. /\ c \in FeedTuis /\ c.focused = r /\ c.sub = "none"
        /\ c.cursor = 0 /\ c.loaded = 0
    BY <2>3 DEF FeedTuis
  <2>5. /\ tui' \in FeedTuis /\ tui'.focused = r /\ tui'.sub = "none"
        /\ tui'.cursor = 0 /\ tui'.loaded = 0
    BY <2>1, <2>3, <2>4
  <2>6. PICK s \in {"Running", "WaitingForInput"} :
          timeline' = Feed!SetStatus(timeline, s, Feed!ReplyRank)
    BY <2>1
  <2>7. s \in Feed!TimelineStatus
    BY DEF Feed!TimelineStatus
  <2>8. timeline' \in FeedTimelines
    BY <1>1, <2>6, <2>7, DefaultFacts
  <2>9. "mixed" \notin marks' =>
          timeline'.version = 0 /\ timeline'.rank <= Feed!TerminalSnapshotRank
    <3>1. "mixed" \notin marks' => timeline = Feed!Default
      BY <1>1, <2>1 DEF TimelineInv
    <3>2. QED
      BY <2>6, <2>7, <3>1, DefaultFacts
  <2>10. FeedTypes'
    BY <1>1, <1>2, <2>1, <2>5, <2>8 DEF FeedTypes
  <2>11. FocusInv'
    BY <1>1, <1>2, <2>1, <2>2, <2>5 DEF FocusInv
  <2>12. TimelineInv'
    <3>1. Len(logs[r]) \in Nat /\ tui'.focused = r /\ logs' = logs
      BY <1>1, <2>1, <2>2, <2>5
    <3>2. "mixed" \notin marks' => Shows(timeline, tui.focused)'
      BY <2>2, <2>9, <3>1 DEF Shows
    <3>3. QED
      BY <1>2, <2>1, <3>2 DEF TimelineInv
  <2>13. AnswerInv'
    BY <2>1, <2>2, <2>5 DEF AnswerInv
  <2>14. QED
    BY <1>1, <2>2, <2>5, <2>10, <2>11, <2>12, <2>13, HoldsOn DEF FeedIInv
<1>4. CASE Feed!CompleteAnswer
  <2>1. /\ request.kind = "answer" /\ request' = Feed!NoRequest
        /\ tui' = [tui EXCEPT !.base = "Home"] /\ timeline' = timeline /\ logs' = logs
        /\ "mixed" \in marks' <=> "mixed" \in marks
        /\ Feed!Row(request.run) # "Running" => "overtaken" \in marks'
    BY <1>4 DEF Feed!CompleteAnswer
  <2>2. /\ tui' \in FeedTuis /\ tui'.focused = tui.focused /\ tui'.sub = tui.sub
        /\ tui'.cursor = tui.cursor /\ tui'.loaded = tui.loaded
    BY <1>1, <2>1 DEF FeedTuis
  <2>3. FeedTypes'
    BY <1>1, <1>2, <2>1, <2>2 DEF FeedTypes
  <2>4. FocusInv'
    BY <1>1, <1>2, <2>1, <2>2 DEF FocusInv
  <2>5. TimelineInv'
    BY <1>1, <1>2, <2>1, <2>2 DEF TimelineInv, Shows, Feed!Ended, Feed!Row
  <2>6. AnswerInv'
    <3>1. tui.focused # Feed!NoRun => request.run = tui.focused
      BY <1>1, <2>1 DEF FocusInv
    <3>2. Feed!Row(tui.focused)' = Feed!Row(tui.focused)
      BY <2>1, <2>2 DEF Feed!Row
    <3>3. QED
      BY <2>1, <2>2, <3>1, <3>2 DEF AnswerInv
  <2>7. QED
    BY <1>1, <2>2, <2>3, <2>4, <2>5, <2>6, HoldsOn DEF FeedIInv
<1>5. QED
  BY <1>3, <1>4 DEF Feed!Complete

LEMMA FeedStep == FeedIInv /\ [Feed!Next]_feedVars => FeedIInv' /\ Concludes
<1> SUFFICES ASSUME FeedIInv, [Feed!Next]_feedVars PROVE FeedIInv' /\ Concludes
  OBVIOUS
<1>1. CASE UNCHANGED feedVars
  <2>1. /\ Feed!NoRun \notin Feed!RunIds /\ tui' = tui
    BY <1>1, FeedState DEF feedVars
  <2>2. FeedIInv'
    BY <1>1 DEF feedVars, FeedIInv, FeedTypes, FocusInv, TimelineInv, AnswerInv,
                Shows, Feed!Ended, Feed!Row
  <2>3. QED
    BY <2>1, <2>2, HoldsOn
<1>2. CASE Feed!Next
  BY <1>2, DriverStep, TakeEventStep, NextFailsStep, ListeningStep, UserStep, ServiceStep,
     CompleteStep DEF Feed!Next, Feed!Following, Feed!Loading
<1>3. QED
  BY <1>1, <1>2

FeedInv == part = "feed" => FeedIInv

LEMMA FeedInvariant == Spec => []FeedInv
<1>1. Init => FeedInv
  BY FeedInit DEF Init, FeedInv
<1>2. FeedInv /\ [Next]_allVars => FeedInv'
  BY PartStep, FeedStep DEF FeedInv
<1>3. QED
  BY <1>1, <1>2, PTL DEF Spec

(* While the Run in focus waits and the TUI has seen all there is of it,   *)
(* the view is that of its question, so that what the user types is its    *)
(* answer; not after the reply to an answer that the Run has overtaken     *)
(* (apply_service_event, reload_durable_state, complete_submission).       *)
THEOREM AnswersReachTheirRun == Spec => []AnswerReachesRun
<1>1. FeedInv => AnswerReachesRun
  <2>1. SUFFICES ASSUME FeedIInv, Feed!CaughtUp, Feed!Row(tui.focused) = "WaitingForInput",
                        "overtaken" \notin marks
                 PROVE  tui.base = "Clarification"
    BY DEF FeedInv, AnswerReachesRun, Feed!AnswerReachesRun
  <2>2. FocusInv /\ AnswerInv
    BY <2>1 DEF FeedIInv
  <2>3. QED
    BY <2>1, <2>2 DEF Feed!CaughtUp, FocusInv, AnswerInv
<1>2. QED
  BY <1>1, FeedInvariant, PTL

(* When the TUI lets a Run go because it ended, the timeline shows how: no *)
(* Event, row or Artifact applied before can outrank that row (set_status, *)
(* apply_run_snapshot).                                                    *)
THEOREM TimelineConcludes == Spec => Conclusion
<1> DEFINE Step == \A r \in Feed!RunIds :
        tui.focused = r /\ tui'.focused = Feed!NoRun /\ timeline' # Feed!Default
            /\ "mixed" \notin marks'
        => timeline'.status = Feed!Row(r)
<1>1. FeedInv /\ [Next]_allVars => [Step]_feedVars
  <2>1. SUFFICES ASSUME FeedInv, [Next]_allVars PROVE [Step]_feedVars
    OBVIOUS
  <2>2. CASE part = "feed"
    BY <2>1, <2>2, PartStep, FeedStep DEF FeedInv, Concludes
  <2>3. CASE part # "feed"
    BY <2>1, <2>3, PartStep
  <2>4. QED
    BY <2>2, <2>3
<1>2. FeedInv /\ [Next]_allVars => [Step]_Feed!feedVars
  BY <1>1 DEF feedVars, Feed!feedVars
<1>3. Spec => []FeedInv
  BY FeedInvariant
<1>4. Spec => [][Step]_Feed!feedVars
  BY <1>2, <1>3, PTL DEF Spec
<1>5. QED
  BY <1>4 DEF Conclusion, Feed!Conclusion

-----------------------------------------------------------------------------
(* The Provider screen.                                                    *)

ScrModels == Models \cup {Screen!NoModel}
ScrIds    == Screen!OpIds \cup {Screen!NoOp}
ScrAttempts == 0 .. MaxRetries + 1
ScrKeys   == Screen!Visits \cup {Screen!NoKey}
ScrCandidates == [rev : Screen!Revs, model : ScrModels, seen : Screen!Revs]
ScrUis ==
    [state : Screen!Screens, step : Screen!StepSet, op : ScrIds, kind : Screen!Kinds,
     outcome : Screen!Outcomes, profile : BOOLEAN, auth : Screen!Auths,
     model : ScrModels, listed : SUBSET Models, secret : BOOLEAN, saved : BOOLEAN,
     candidate : ScrCandidates, pending : ScrIds, revalidating : BOOLEAN,
     expected : Screen!Revs, key : ScrKeys, checkpoint : BOOLEAN]
ScrOps ==
    [pc : Screen!OpPC, kind : Screen!Kinds, key : ScrKeys, cancelled : BOOLEAN,
     attempts : ScrAttempts, profile : BOOLEAN, model : ScrModels, secret : BOOLEAN,
     resume : Screen!StepSet, completes : BOOLEAN, candidate : ScrCandidates,
     rev : Screen!Revs, outcome : Screen!Outcomes, listed : SUBSET Models]
ScrNavs ==
    [routes : Seq(Screen!Routes), generation : Screen!Visits, shown : BOOLEAN,
     submitting : BOOLEAN, reused : BOOLEAN, alive : BOOLEAN]
ScrStores ==
    [rev : Screen!Revs, model : ScrModels, auth : Screen!Auths, cred : BOOLEAN,
     ready : Screen!Revs, number : 0 .. 1, active : ScrModels, other : BOOLEAN]

ScrTypes ==
    /\ ui \in ScrUis
    /\ ops \in [Screen!OpIds -> ScrOps]
    /\ nav \in ScrNavs
    /\ store \in ScrStores

(* A cancelled operation is on its way out and of no screen any more; one  *)
(* at a time is inside the service.                                        *)
RegistryInOrder(r) ==
    /\ \A o \in Screen!OpIds :
          r[o].cancelled => r[o].pc \in Screen!Inside /\ r[o].key = Screen!NoKey
    /\ \A o, q \in Screen!OpIds :
          r[o].pc \in Screen!Inside /\ r[q].pc \in Screen!Inside => o = q

(* What is left of the routes was pushed, and each push can be undone      *)
(* within the bound on visits.                                             *)
RoutesWithin(routes, generation) ==
    /\ 1 <= Len(routes) /\ Len(routes) - 1 <= generation
    /\ generation + Len(routes) - 1 <= 2 * MaxVisits

(* A screen is of this visit, or of an earlier one and hidden.             *)
VisitInOrder(u, n) ==
    /\ RoutesWithin(n.routes, n.generation)
    /\ 0 <= n.generation /\ u.key <= n.generation
    /\ n.shown /\ u.state # "Closed" /\ n.alive => u.key = n.generation

(* A screen of this visit that waits, waits for an operation that runs.    *)
WaitInOrder(u, r, n) ==
    n.alive /\ u.key = n.generation /\ u.state = "Busy" =>
        u.op \in Screen!ActiveIn(r) /\ r[u.op].key = u.key

(* What runs for this visit is what its screen waits for.                  *)
OwnsInOrder(u, r, n) ==
    \A o \in Screen!ActiveIn(r) :
        /\ r[o].key <= n.generation
        /\ r[o].key = n.generation =>
              u.key = n.generation /\ u.state = "Busy" /\ u.op = o

(* A candidate kept to the last step is of the model on the screen.        *)
ModelInOrder(u) ==
    /\ u.state = "Confirm" => u.step = "SaveActivate"
    /\ u.step = "SaveActivate" /\ u.candidate # Screen!NoCandidate =>
          u.candidate.model = u.model
    /\ u.state = "Busy" /\ u.kind # "activate" => u.candidate = Screen!NoCandidate

(* So is the operation the screen waits for, and what it found.            *)
AboutModel(t, kind, model) ==
    /\ t.kind = kind
    /\ kind = "activate" => t.candidate.model = model
    /\ kind = "validate" /\ t.pc # "ended" => t.model = model
    /\ kind = "validate" /\ t.pc = "ended" /\ t.outcome = "ok" => t.candidate.model = model

TaskInOrder(u, r, n) ==
    u.state = "Busy" /\ u.key = n.generation => AboutModel(r[u.op], u.kind, u.model)

ScreenInOrder(u, r, n) ==
    /\ RegistryInOrder(r) /\ VisitInOrder(u, n) /\ WaitInOrder(u, r, n)
    /\ n.alive /\ ~n.reused =>
          OwnsInOrder(u, r, n) /\ ModelInOrder(u) /\ TaskInOrder(u, r, n)

ScreenIInv == ScrTypes /\ ScreenInOrder(ui, ops, nav)

-----------------------------------------------------------------------------
(* What the pieces of a handler do to the screen.                          *)
LEMMA SmallNumbers ==
    /\ Screen!Revs \in SUBSET Int /\ Screen!Visits \in SUBSET Nat
    /\ ScrKeys \in SUBSET Int /\ Screen!Visits \in SUBSET ScrKeys
    /\ 0 \in Screen!Revs /\ 1 \in Screen!Revs /\ 0 .. 1 \in SUBSET Screen!Revs
    /\ 0 \in Screen!Visits /\ -1 \in ScrKeys
    /\ 0 \in ScrAttempts /\ 1 \in ScrAttempts
BY ScreenAssumption DEF ScrAttempts, Screen!Revs, Screen!Visits, ScrKeys, Screen!NoKey

LEMMA StepsFollow ==
    /\ \A s \in Screen!StepSet : s # "SaveActivate" => Screen!NextStep[s] \in Screen!StepSet
    /\ Screen!NextStep["Provider"] = "Authentication"
    /\ {"Provider", "Authentication", "Model", "SaveActivate"} \subseteq Screen!StepSet
<1> DEFINE st == Screen!Steps
<1>1. /\ DOMAIN st = 1 .. 6
      /\ st[1] = "Provider" /\ st[2] = "Authentication" /\ st[3] = "Model"
      /\ st[4] = "Parameters" /\ st[5] = "Validate" /\ st[6] = "SaveActivate"
  BY DEF Screen!Steps
<1> HIDE DEF st
<1>2. ASSUME NEW s \in Screen!StepSet, s # "SaveActivate"
      PROVE  \E i \in 1 .. 5 : st[i] = s /\ Screen!NextStep[s] = st[i + 1]
  <2> DEFINE i == CHOOSE j \in DOMAIN st : st[j] = s
  <2>1. \E j \in DOMAIN st : st[j] = s
    BY DEF Screen!StepSet, st
  <2>2. i \in DOMAIN st /\ st[i] = s
    BY <2>1
  <2>3. Screen!NextStep[s] = st[i + 1]
    BY <1>2 DEF Screen!NextStep, st
  <2> HIDE DEF i
  <2>4. i \in 1 .. 5
    BY <1>1, <1>2, <2>2
  <2>5. QED
    BY <2>2, <2>3, <2>4
<1>3. \A i \in 1 .. 6 : st[i] \in Screen!StepSet
  BY <1>1 DEF Screen!StepSet, st
<1>4. "Provider" \in Screen!StepSet
  BY <1>1, <1>3
<1>5. Screen!NextStep["Provider"] = "Authentication"
  <2>1. PICK i \in 1 .. 5 : st[i] = "Provider" /\ Screen!NextStep["Provider"] = st[i + 1]
    BY <1>2, <1>4
  <2>2. i = 1
    BY <1>1, <2>1
  <2>3. QED
    BY <1>1, <2>1, <2>2
<1>6. ASSUME NEW s \in Screen!StepSet, s # "SaveActivate"
      PROVE  Screen!NextStep[s] \in Screen!StepSet
  <2>1. PICK i \in 1 .. 5 : Screen!NextStep[s] = st[i + 1]
    BY <1>2, <1>6
  <2>2. i + 1 \in 1 .. 6
    OBVIOUS
  <2>3. QED
    BY <1>3, <2>1, <2>2
<1>7. {"Provider", "Authentication", "Model", "SaveActivate"} \subseteq Screen!StepSet
  BY <1>1, <1>3
<1>8. QED
  BY <1>5, <1>6, <1>7

(* A piece of a handler leaves the visit, the model and the candidate.     *)
SameSubject(v, u) ==
    v.key = u.key /\ v.model = u.model /\ v.candidate = u.candidate

LEMMA NextRevision == \A n \in Screen!Revs : n < MaxRevision => n + 1 \in Screen!Revs
BY ScreenAssumption DEF Screen!Revs

LEMMA ClosedScreen ==
    /\ Screen!Closed \in ScrUis
    /\ Screen!Closed.state = "Closed" /\ Screen!Closed.step = "Provider"
    /\ Screen!Closed.key = -1 /\ Screen!Closed.candidate = Screen!NoCandidate
    /\ Screen!NoCandidate \in ScrCandidates
    /\ Screen!Closed.kind \in Screen!Kinds /\ Screen!Closed.outcome \in Screen!Outcomes
<1>1. Screen!NoCandidate \in ScrCandidates
  BY SmallNumbers DEF Screen!NoCandidate, ScrCandidates, ScrModels
<1>2. "Provider" \in Screen!StepSet
  BY StepsFollow
<1>3. Screen!Closed \in ScrUis
  BY <1>1, <1>2, SmallNumbers DEF Screen!Closed, ScrUis, Screen!Screens, ScrIds, Screen!Kinds, Screen!Outcomes,
     Screen!Auths, ScrModels, Screen!NoKey
<1>4. QED
  BY <1>1, <1>3 DEF Screen!Closed, Screen!NoKey, Screen!Kinds, Screen!Outcomes

LEMMA EditingScreen ==
    ASSUME NEW u \in ScrUis
    PROVE  /\ Screen!Editing(u) \in ScrUis /\ Screen!Editing(u).state = "Edit"
           /\ SameSubject(Screen!Editing(u), u)
           /\ Screen!Editing(u).step = u.step /\ Screen!Editing(u).pending = u.pending
<1>1. "Edit" \in Screen!Screens /\ Screen!NoOp \in ScrIds
  BY DEF Screen!Screens, ScrIds
<1>2. QED
  BY <1>1, ClosedScreen DEF Screen!Editing, ScrUis, SameSubject

LEMMA AdvanceScreen ==
    ASSUME NEW u \in ScrUis
    PROVE  /\ Screen!Advance(u) \in ScrUis /\ Screen!Advance(u).state = u.state
           /\ Screen!Advance(u).kind = u.kind /\ Screen!Advance(u).op = u.op
           /\ SameSubject(Screen!Advance(u), u)
           /\ u.state # "Edit" => Screen!Advance(u) = u
           /\ u.step = "Provider" => Screen!Advance(u).step # "SaveActivate"
<1>1. CASE Screen!Advance(u) = u
  <2>1. "Provider" # "SaveActivate"
    OBVIOUS
  <2>2. QED
    BY <1>1, <2>1 DEF SameSubject
<1>2. CASE /\ Screen!Advance(u) = [u EXCEPT !.step = Screen!NextStep[u.step]]
           /\ u.step # "SaveActivate" /\ u.state = "Edit"
  <2> DEFINE s == Screen!NextStep[u.step]
  <2>1. s \in Screen!StepSet /\ (u.step = "Provider" => s = "Authentication")
    BY <1>2, StepsFollow DEF ScrUis
  <2>2. Screen!Advance(u) = [u EXCEPT !.step = s]
    BY <1>2
  <2> HIDE DEF s
  <2>3. QED
    BY <1>2, <2>1, <2>2 DEF ScrUis, SameSubject
<1>3. QED
  BY <1>1, <1>2 DEF Screen!Advance

LEMMA FinishScreen ==
    ASSUME NEW u \in ScrUis, NEW o, NEW outcome \in Screen!Outcomes
    PROVE  /\ Screen!Finish(u, o, outcome) \in ScrUis
           /\ SameSubject(Screen!Finish(u, o, outcome), u)
           /\ Screen!Finish(u, o, outcome).state = "Confirm" => Screen!Finish(u, o, outcome) = u
           /\ Screen!Finish(u, o, outcome).state = "Busy" => Screen!Finish(u, o, outcome) = u
           /\ Screen!IsBusyOn(u, o) => Screen!Finish(u, o, outcome).state # "Busy"
           /\ Screen!Finish(u, o, outcome).pending = u.pending
           /\ Screen!Finish(u, o, outcome).step = "SaveActivate" =>
                 \/ u.step = "SaveActivate"
                 \/ Screen!IsBusyOn(u, o) /\ u.kind = "validate" /\ outcome = "ok"
<1> DEFINE v == Screen!Finish(u, o, outcome)
<1>0. "SaveActivate" \in Screen!StepSet /\ "Authentication" \in Screen!StepSet
  BY StepsFollow
<1>1. CASE ~Screen!IsBusyOn(u, o)
  <2>1. v = u
    BY <1>1 DEF Screen!Finish
  <2>2. QED
    BY <1>1, <2>1 DEF SameSubject
<1>2. CASE Screen!IsBusyOn(u, o) /\ u.kind = "validate" /\ outcome = "ok"
  <2>1. v = [Screen!Editing(u) EXCEPT !.step = "SaveActivate"]
    BY <1>2 DEF Screen!Finish
  <2> DEFINE e == Screen!Editing(u)
  <2>2. e \in ScrUis /\ e.state = "Edit" /\ SameSubject(e, u) /\ e.pending = u.pending
    BY EditingScreen
  <2>3. v = [e EXCEPT !.step = "SaveActivate"]
    BY <2>1
  <2> HIDE DEF e, v
  <2>4. v \in ScrUis /\ v.state = "Edit" /\ SameSubject(v, u) /\ v.pending = u.pending
    BY <1>0, <2>2, <2>3 DEF ScrUis, SameSubject
  <2>5. QED
    BY <1>2, <2>4 DEF v
<1>3. CASE Screen!IsBusyOn(u, o) /\ ~(u.kind = "validate" /\ outcome = "ok")
  <2> DEFINE s == IF outcome = "credential" THEN "Authentication" ELSE u.step
  <2>1. v = [u EXCEPT !.state = "Result", !.outcome = outcome, !.op = Screen!NoOp, !.step = s]
    BY <1>3 DEF Screen!Finish
  <2>2. s \in Screen!StepSet /\ (s = "SaveActivate" => u.step = "SaveActivate")
    BY <1>0 DEF ScrUis
  <2>3. "Result" \in Screen!Screens /\ Screen!NoOp \in ScrIds
    BY DEF Screen!Screens, ScrIds
  <2> HIDE DEF s, v
  <2>4. v \in ScrUis /\ v.state = "Result" /\ SameSubject(v, u) /\ v.pending = u.pending /\ v.step = s
    BY <2>1, <2>2, <2>3 DEF ScrUis, SameSubject
  <2>5. QED
    BY <1>3, <2>2, <2>4 DEF v
<1>4. QED
  BY <1>1, <1>2, <1>3

LEMMA ToEditScreen ==
    ASSUME NEW u \in ScrUis
    PROVE  /\ Screen!ToEdit(u) \in ScrUis /\ SameSubject(Screen!ToEdit(u), u)
           /\ Screen!ToEdit(u).step = u.step /\ Screen!ToEdit(u).pending = u.pending
           /\ Screen!ToEdit(u).state \in {"Busy", "Confirm"} => Screen!ToEdit(u) = u
           /\ Screen!ToEdit(u).state = "Closed" => Screen!ToEdit(u) = u
BY EditingScreen DEF Screen!ToEdit, SameSubject

LEMMA ConfirmScreen ==
    ASSUME NEW u \in ScrUis
    PROVE  /\ Screen!Confirm(u) \in ScrUis /\ SameSubject(Screen!Confirm(u), u)
           /\ Screen!Confirm(u).step = u.step /\ Screen!Confirm(u).pending = u.pending
           /\ Screen!Confirm(u).state = "Busy" => Screen!Confirm(u) = u
           /\ \/ Screen!Confirm(u) = u
              \/ /\ Screen!Confirm(u).state = "Confirm"
                 /\ u.step = "SaveActivate" /\ u.state = "Edit"
<1>1. "Confirm" \in Screen!Screens
  BY DEF Screen!Screens
<1>2. CASE u.state = "Edit" /\ u.step = "SaveActivate"
  <2>1. Screen!Confirm(u) = [u EXCEPT !.state = "Confirm"]
    BY <1>2 DEF Screen!Confirm
  <2>2. QED
    BY <1>1, <1>2, <2>1 DEF ScrUis, SameSubject
<1>3. CASE ~(u.state = "Edit" /\ u.step = "SaveActivate")
  BY <1>3 DEF Screen!Confirm, SameSubject
<1>4. QED
  BY <1>2, <1>3

-----------------------------------------------------------------------------
(* What a completion makes of the screen: it is of the same visit, waits   *)
(* for another operation if it waits at all, and its candidate is of its   *)
(* model.                                                                  *)
Applies(v, o) ==
    /\ v.key = ui.key
    /\ v.state = "Busy" => ui.state = "Busy" /\ v.op = ui.op /\ ui.op # o
    /\ /\ Screen!IsBusyOn(ui, o)
       /\ ModelInOrder(ui) /\ AboutModel(ops[o], ui.kind, ui.model)
       => ModelInOrder(v)

Result(a, o) ==
    /\ a.ui \in ScrUis /\ Applies(a.ui, o)
    /\ a.next \in Screen!Kinds \cup {"none"}

LEMMA ResultOf ==
    ASSUME NEW v \in ScrUis, NEW k \in Screen!Kinds \cup {"none"}, NEW o, Applies(v, o)
    PROVE  Result(Screen!Then(v, k), o) /\ (k = "none" => Result(Screen!Stop(v), o))
BY DEF Result, Screen!Then, Screen!Stop

(* A screen that waits for something else is left alone; one from which    *)
(* the candidate was taken is in order wherever it stands.                 *)
LEMMA LeftAlone ==
    ASSUME NEW o, ~Screen!IsBusyOn(ui, o) PROVE Applies(ui, o)
BY DEF Applies, Screen!IsBusyOn

LEMMA WithoutCandidate ==
    ASSUME NEW v, NEW o, v.key = ui.key, v.state \notin {"Busy", "Confirm"},
           \/ v.candidate = Screen!NoCandidate
           \/ v.candidate = ui.candidate /\ ops[o].kind # "activate"
    PROVE  Applies(v, o)
<1> SUFFICES ASSUME Screen!IsBusyOn(ui, o), ModelInOrder(ui),
                    AboutModel(ops[o], ui.kind, ui.model)
             PROVE  ModelInOrder(v)
  BY DEF Applies
<1>1. v.candidate = Screen!NoCandidate
  BY DEF ModelInOrder, Screen!IsBusyOn, AboutModel
<1>2. QED
  BY <1>1 DEF ModelInOrder

LEMMA AfterDiscoveryApplies ==
    ASSUME ScrTypes, NEW o \in Screen!OpIds, NEW pick \in ScrModels,
           ops[o].kind = "discover"
    PROVE  Result(Screen!AfterDiscovery(ui, o, pick), o)
<1>0. /\ ui \in ScrUis /\ ops[o] \in ScrOps
      /\ "none" \in Screen!Kinds \cup {"none"} /\ "validate" \in Screen!Kinds \cup {"none"}
  BY DEF ScrTypes, Screen!Kinds
<1>1. CASE ~Screen!IsBusyOn(ui, o)
  <2>1. Screen!AfterDiscovery(ui, o, pick) = Screen!Stop(ui)
    BY <1>1 DEF Screen!AfterDiscovery
  <2>2. Applies(ui, o)
    BY <1>1, LeftAlone
  <2>3. QED
    BY <1>0, <2>1, <2>2, ResultOf
<1>2. CASE Screen!IsBusyOn(ui, o)
  <2> DEFINE e == Screen!Editing(ui)
             found == [e EXCEPT !.step = "Model", !.listed = ops[o].listed,
                                !.model = pick, !.revalidating = FALSE]
             ahead == Screen!Advance(Screen!Advance(found))
  <2>1. \/ Screen!AfterDiscovery(ui, o, pick) = Screen!Stop(found)
        \/ Screen!AfterDiscovery(ui, o, pick) = Screen!Then(ahead, "validate")
    BY <1>2 DEF Screen!AfterDiscovery
  <2>2. e \in ScrUis /\ e.state = "Edit" /\ SameSubject(e, ui)
    BY <1>0, EditingScreen
  <2>3. "Model" \in Screen!StepSet /\ ops[o].listed \in SUBSET Models
    BY <1>0, StepsFollow DEF ScrOps
  <2> HIDE DEF e
  <2>4. /\ found \in ScrUis /\ found.state = "Edit" /\ found.key = ui.key
        /\ found.candidate = ui.candidate
    BY <2>2, <2>3 DEF ScrUis, SameSubject
  <2> HIDE DEF found
  <2>5. Screen!Advance(found) \in ScrUis /\ SameSubject(Screen!Advance(found), found)
        /\ Screen!Advance(found).state = "Edit"
    BY <2>4, AdvanceScreen
  <2>6. ahead \in ScrUis /\ SameSubject(ahead, Screen!Advance(found)) /\ ahead.state = "Edit"
    BY <2>5, AdvanceScreen
  <2> HIDE DEF ahead
  <2>7. ahead.key = ui.key /\ ahead.candidate = ui.candidate
    BY <2>4, <2>5, <2>6 DEF SameSubject
  <2>8. ASSUME NEW v \in {found, ahead} PROVE Applies(v, o)
    <3>1. v.key = ui.key /\ v.candidate = ui.candidate /\ v.state = "Edit"
      BY <2>4, <2>6, <2>7
    <3>2. QED
      BY <3>1, WithoutCandidate
  <2>9. QED
    BY <1>0, <2>1, <2>4, <2>6, <2>8, ResultOf
<1>3. QED
  BY <1>1, <1>2

LEMMA AfterSaveApplies ==
    ASSUME ScrTypes, NEW o \in Screen!OpIds, NEW seen \in BOOLEAN, ops[o].kind = "save"
    PROVE  Result(Screen!AfterSave(ui, o, seen), o)
<1> DEFINE done == IF Screen!IsBusyOn(ui, o)
                     THEN [Screen!Editing(ui) EXCEPT !.profile = TRUE] ELSE ui
           view == [done EXCEPT !.saved = seen]
           once == Screen!Advance(view)
           twice == Screen!Advance(once)
<1>0. /\ ui \in ScrUis /\ ops[o] \in ScrOps
      /\ {"none", "validate", "discover", "oauth"} \subseteq Screen!Kinds \cup {"none"}
  BY DEF ScrTypes, Screen!Kinds
<1>1. /\ done \in ScrUis /\ SameSubject(done, ui)
      /\ Screen!IsBusyOn(ui, o) => done.state = "Edit"
      /\ ~Screen!IsBusyOn(ui, o) => done = ui
  <2> DEFINE e == Screen!Editing(ui)
  <2>1. e \in ScrUis /\ e.state = "Edit" /\ SameSubject(e, ui)
    BY <1>0, EditingScreen
  <2>2. CASE Screen!IsBusyOn(ui, o)
    <3>1. done = [e EXCEPT !.profile = TRUE]
      BY <2>2
    <3> HIDE DEF e, done
    <3>2. QED
      BY <2>1, <2>2, <3>1 DEF ScrUis, SameSubject
  <2>3. CASE ~Screen!IsBusyOn(ui, o)
    BY <1>0, <2>3 DEF SameSubject
  <2>4. QED
    BY <2>2, <2>3
<1> HIDE DEF done
<1>2. /\ view \in ScrUis /\ SameSubject(view, done) /\ view.state = done.state
      /\ view.op = done.op /\ view.step = done.step
  BY <1>1 DEF ScrUis, SameSubject
<1> HIDE DEF view
<1>3. /\ once \in ScrUis /\ SameSubject(once, view) /\ once.state = view.state
      /\ once.op = view.op /\ (view.state # "Edit" => once = view)
  BY <1>2, AdvanceScreen
<1> HIDE DEF once
<1>4. /\ twice \in ScrUis /\ SameSubject(twice, once) /\ twice.state = once.state
      /\ twice.op = once.op
  BY <1>3, AdvanceScreen
<1> HIDE DEF twice
<1>5. ASSUME NEW v \in {view, once, twice} PROVE Applies(v, o)
  <2>1. /\ v.key = ui.key /\ v.candidate = ui.candidate /\ v.state = done.state
        /\ v.op = done.op
    BY <1>1, <1>2, <1>3, <1>4 DEF SameSubject
  <2>2. CASE Screen!IsBusyOn(ui, o)
    BY <1>1, <2>1, <2>2, WithoutCandidate
  <2>3. CASE ~Screen!IsBusyOn(ui, o)
    BY <1>1, <2>1, <2>3 DEF Applies, Screen!IsBusyOn
  <2>4. QED
    BY <2>2, <2>3
<1>6. \/ Screen!AfterSave(ui, o, seen) = Screen!Stop(view)
      \/ \E k \in {"validate", "discover", "oauth"} : \E v \in {view, once, twice} :
            Screen!AfterSave(ui, o, seen) = Screen!Then(v, k)
  BY DEF Screen!AfterSave, done, view, once, twice
<1>7. CASE Screen!AfterSave(ui, o, seen) = Screen!Stop(view)
  BY <1>0, <1>2, <1>5, <1>7, ResultOf
<1>8. ASSUME NEW k \in {"validate", "discover", "oauth"}, NEW v \in {view, once, twice},
             Screen!AfterSave(ui, o, seen) = Screen!Then(v, k)
      PROVE  Result(Screen!AfterSave(ui, o, seen), o)
  <2>1. v \in ScrUis /\ Applies(v, o) /\ k \in Screen!Kinds \cup {"none"}
    BY <1>0, <1>2, <1>3, <1>4, <1>5
  <2>2. QED
    BY <1>8, <2>1, ResultOf
<1>9. QED
  BY <1>6, <1>7, <1>8

LEMMA AfterOAuthApplies ==
    ASSUME ScrTypes, NEW o \in Screen!OpIds, NEW seen \in BOOLEAN, ops[o].kind = "oauth"
    PROVE  Result(Screen!AfterOAuth(ui, o, seen), o)
<1> DEFINE done == Screen!Finish(ui, o, "ok")
           back == Screen!ToEdit(done)
           first == [back EXCEPT !.pending = Screen!NoOp, !.saved = seen]
           then == Screen!Advance(first)
           last == [back EXCEPT !.pending = o]
<1>0. /\ ui \in ScrUis /\ ops[o] \in ScrOps /\ "ok" \in Screen!Outcomes
      /\ o \in ScrIds /\ Screen!NoOp \in ScrIds
      /\ {"discover", "oauth"} \subseteq Screen!Kinds \cup {"none"}
  BY DEF ScrTypes, Screen!Kinds, Screen!Outcomes, ScrIds
<1>1. /\ done \in ScrUis /\ SameSubject(done, ui)
      /\ done.state \in {"Busy", "Confirm"} => done = ui
      /\ Screen!IsBusyOn(ui, o) => done.state # "Busy"
  BY <1>0, FinishScreen
<1> HIDE DEF done
<1>2. /\ back \in ScrUis /\ SameSubject(back, done)
      /\ back.state \in {"Busy", "Confirm"} => back = done
  BY <1>1, ToEditScreen
<1> HIDE DEF back
<1>3. /\ back.key = ui.key /\ back.candidate = ui.candidate
      /\ back.state \in {"Busy", "Confirm"} => ~Screen!IsBusyOn(ui, o) /\ back = ui
  BY <1>1, <1>2 DEF SameSubject, Screen!IsBusyOn
<1>4. /\ first \in ScrUis /\ first.key = back.key /\ first.candidate = back.candidate
      /\ first.state = back.state /\ first.op = back.op
  BY <1>0, <1>2 DEF ScrUis
<1>5. /\ last \in ScrUis /\ last.key = back.key /\ last.candidate = back.candidate
      /\ last.state = back.state /\ last.op = back.op
  BY <1>0, <1>2 DEF ScrUis
<1> HIDE DEF first, last
<1>6. /\ then \in ScrUis /\ then.key = first.key /\ then.candidate = first.candidate
      /\ then.state = first.state /\ then.op = first.op
  BY <1>4, AdvanceScreen DEF SameSubject
<1> HIDE DEF then
<1>7. ASSUME NEW v \in {then, last} PROVE Applies(v, o)
  <2>1. /\ v.key = ui.key /\ v.candidate = ui.candidate /\ v.state = back.state
        /\ v.op = back.op
    BY <1>3, <1>4, <1>5, <1>6
  <2>2. CASE back.state \in {"Busy", "Confirm"}
    BY <1>3, <2>1, <2>2 DEF Applies, Screen!IsBusyOn
  <2>3. CASE back.state \notin {"Busy", "Confirm"}
    BY <2>1, <2>3, WithoutCandidate
  <2>4. QED
    BY <2>2, <2>3
<1>8. Screen!AfterOAuth(ui, o, seen)
         \in {Screen!Then(then, "discover"), Screen!Then(last, "oauth")}
  BY DEF Screen!AfterOAuth, then, last, first, back, done
<1>9. QED
  BY <1>0, <1>5, <1>6, <1>7, <1>8, ResultOf

(* A failure leaves the candidate where it stands.                         *)
LEMMA FailureApplies ==
    ASSUME NEW u \in ScrUis, NEW o, NEW outcome \in Screen!Outcomes, outcome # "ok",
           ui \in ScrUis, u.state = ui.state, u.op = ui.op, u.step = ui.step,
           SameSubject(u, ui)
    PROVE  Applies(Screen!Finish(u, o, outcome), o)
<1> DEFINE v == Screen!Finish(u, o, outcome)
<1>1. /\ v \in ScrUis /\ SameSubject(v, u)
      /\ v.state \in {"Busy", "Confirm"} => v = u
      /\ Screen!IsBusyOn(u, o) => v.state # "Busy"
      /\ v.step = "SaveActivate" => u.step = "SaveActivate"
  BY FinishScreen
<1> HIDE DEF v
<1>2. v.key = ui.key /\ v.candidate = ui.candidate /\ v.model = ui.model
  BY <1>1 DEF SameSubject
<1>3. v.state = "Busy" => ui.state = "Busy" /\ v.op = ui.op /\ ui.op # o
  BY <1>1 DEF Screen!IsBusyOn
<1>4. ASSUME Screen!IsBusyOn(ui, o), ModelInOrder(ui) PROVE ModelInOrder(v)
  <2>1. v.state \notin {"Busy", "Confirm"}
    BY <1>1, <1>4 DEF Screen!IsBusyOn
  <2>2. QED
    BY <1>1, <1>2, <1>4, <2>1 DEF ModelInOrder
<1>5. QED
  BY <1>2, <1>3, <1>4 DEF Applies, v

LEMMA AfterFailureApplies ==
    ASSUME ScrTypes, NEW o \in Screen!OpIds, ops[o].outcome # "ok"
    PROVE  Result(Screen!AfterFailure(ui, o), o)
<1> DEFINE u == IF ops[o].kind = "oauth" THEN [ui EXCEPT !.pending = Screen!NoOp] ELSE ui
           v == Screen!Finish(u, o, ops[o].outcome)
<1>0. /\ ui \in ScrUis /\ ops[o].outcome \in Screen!Outcomes /\ Screen!NoOp \in ScrIds
  BY DEF ScrTypes, ScrOps, ScrIds
<1>1. /\ u \in ScrUis /\ u.state = ui.state /\ u.op = ui.op /\ u.step = ui.step
      /\ SameSubject(u, ui)
  BY <1>0 DEF ScrUis, SameSubject
<1>2. Screen!AfterFailure(ui, o) = Screen!Stop(v)
  BY DEF Screen!AfterFailure
<1> HIDE DEF u
<1>3. v \in ScrUis /\ Applies(v, o)
  BY <1>0, <1>1, FailureApplies, FinishScreen
<1> HIDE DEF v
<1>4. QED
  BY <1>2, <1>3, ResultOf

LEMMA AfterPartialSaveApplies ==
    ASSUME ScrTypes, NEW o \in Screen!OpIds, NEW seen \in BOOLEAN
    PROVE  Result(Screen!AfterPartialSave(ui, o, seen), o)
<1> DEFINE done == Screen!Finish(ui, o, "partial")
           v == [done EXCEPT !.profile = @ \/ Screen!IsBusyOn(ui, o), !.saved = seen]
<1>0. ui \in ScrUis /\ "partial" \in Screen!Outcomes
  BY DEF ScrTypes, Screen!Outcomes
<1>1. done \in ScrUis /\ Applies(done, o)
  BY <1>0, FinishScreen, FailureApplies DEF SameSubject
<1>2. Screen!AfterPartialSave(ui, o, seen) = Screen!Stop(v)
  BY DEF Screen!AfterPartialSave
<1> HIDE DEF done
<1> DEFINE b == done.profile \/ Screen!IsBusyOn(ui, o)
<1>3. b \in BOOLEAN
  BY DEF b
<1>4. v = [done EXCEPT !.profile = b, !.saved = seen]
  OBVIOUS
<1> HIDE DEF b, v
<1>5. /\ v \in ScrUis /\ v.key = done.key /\ v.state = done.state /\ v.op = done.op
      /\ v.step = done.step /\ v.candidate = done.candidate /\ v.model = done.model
      /\ v.kind = done.kind
  BY <1>1, <1>3, <1>4 DEF ScrUis
<1>6. Applies(v, o)
  BY <1>1, <1>5 DEF Applies, ModelInOrder
<1>7. QED
  BY <1>2, <1>5, <1>6, ResultOf

LEMMA AfterValidationApplies ==
    ASSUME ScrTypes, NEW o \in Screen!OpIds,
           ops[o].kind = "validate", ops[o].pc = "ended", ops[o].outcome = "ok"
    PROVE  Result(Screen!AfterValidation(ui, o), o)
<1> DEFINE done == Screen!Finish(ui, o, "ok")
           u == [done EXCEPT !.candidate = ops[o].candidate]
           v == Screen!Confirm(u)
<1>0. /\ ui \in ScrUis /\ "ok" \in Screen!Outcomes /\ ops[o].candidate \in ScrCandidates
      /\ "activate" \in Screen!Kinds \cup {"none"}
  BY DEF ScrTypes, ScrOps, Screen!Outcomes, Screen!Kinds
<1>1. /\ done \in ScrUis /\ SameSubject(done, ui)
      /\ done.state \in {"Busy", "Confirm"} => done = ui
      /\ Screen!IsBusyOn(ui, o) => done.state # "Busy"
  BY <1>0, FinishScreen
<1> HIDE DEF done
<1>2. /\ u \in ScrUis /\ u.key = ui.key /\ u.model = ui.model /\ u.state = done.state
      /\ u.op = done.op /\ u.candidate = ops[o].candidate
  BY <1>0, <1>1 DEF ScrUis, SameSubject
<1> HIDE DEF u
<1>3. /\ v \in ScrUis /\ SameSubject(v, u) /\ v.step = u.step
      /\ v.state = "Busy" => v = u
      /\ \/ v = u
         \/ v.state = "Confirm" /\ u.step = "SaveActivate" /\ u.state = "Edit"
  BY <1>2, ConfirmScreen
<1> HIDE DEF v
<1>4. v.state = "Busy" => ui.state = "Busy" /\ v.op = ui.op /\ ui.op # o
  BY <1>1, <1>2, <1>3 DEF Screen!IsBusyOn
<1>5. ASSUME Screen!IsBusyOn(ui, o), ModelInOrder(ui),
             AboutModel(ops[o], ui.kind, ui.model)
      PROVE  ModelInOrder(v)
  <2>1. v.candidate.model = v.model
    BY <1>2, <1>3, <1>5 DEF SameSubject, AboutModel
  <2>2. v.state # "Busy"
    BY <1>4, <1>5 DEF Screen!IsBusyOn
  <2>3. v.state = "Confirm" => v.step = "SaveActivate"
    <3>1. u.state # "Confirm"
      BY <1>1, <1>2, <1>5 DEF Screen!IsBusyOn
    <3>2. QED
      BY <1>3, <3>1
  <2>4. QED
    BY <2>1, <2>2, <2>3 DEF ModelInOrder
<1>6. Applies(v, o)
  BY <1>2, <1>3, <1>4, <1>5 DEF Applies, SameSubject
<1>7. Screen!AfterValidation(ui, o) = Screen!Then(v, "activate")
  BY DEF Screen!AfterValidation, v, u, done
<1>8. QED
  BY <1>0, <1>3, <1>6, <1>7, ResultOf

LEMMA AfterActivationApplies ==
    ASSUME ScrTypes, NEW o
    PROVE  Result(Screen!Stop([Screen!Finish(ui, o, "ok")
                                 EXCEPT !.candidate = Screen!NoCandidate]), o)
<1> DEFINE done == Screen!Finish(ui, o, "ok")
           v == [done EXCEPT !.candidate = Screen!NoCandidate]
<1>0. ui \in ScrUis /\ "ok" \in Screen!Outcomes
  BY DEF ScrTypes, Screen!Outcomes
<1>1. /\ done \in ScrUis /\ SameSubject(done, ui)
      /\ done.state \in {"Busy", "Confirm"} => done = ui
      /\ Screen!IsBusyOn(ui, o) => done.state # "Busy"
  BY <1>0, FinishScreen
<1> HIDE DEF done
<1>2. /\ v \in ScrUis /\ v.key = done.key /\ v.state = done.state /\ v.op = done.op
      /\ v.candidate = Screen!NoCandidate
  BY <1>1, ClosedScreen DEF ScrUis
<1> HIDE DEF v
<1>3. Applies(v, o)
  <2>1. CASE v.state \in {"Busy", "Confirm"}
    BY <1>1, <1>2, <2>1 DEF Applies, Screen!IsBusyOn, SameSubject
  <2>2. CASE v.state \notin {"Busy", "Confirm"}
    BY <1>1, <1>2, <2>2, WithoutCandidate DEF SameSubject
  <2>3. QED
    BY <2>1, <2>2
<1>4. QED
  BY <1>2, <1>3, ResultOf DEF v, done

LEMMA AppliedResult ==
    ASSUME ScrTypes, NEW o \in Screen!OpIds, ops[o].pc = "ended",
           NEW pick \in ScrModels, NEW seen \in BOOLEAN
    PROVE  Result(Screen!Applied(ui, o, pick, seen), o)
<1>1. ops[o].outcome \in Screen!Outcomes /\ ops[o].kind \in Screen!Kinds
  BY DEF ScrTypes, ScrOps
<1>2. CASE ops[o].outcome = "partial"
  <2>1. Screen!Applied(ui, o, pick, seen) = Screen!AfterPartialSave(ui, o, seen)
    BY <1>2 DEF Screen!Applied, Screen!Failures
  <2>2. QED
    BY <2>1, AfterPartialSaveApplies
<1>3. CASE ops[o].outcome \in Screen!Failures
  <2>1. Screen!Applied(ui, o, pick, seen) = Screen!AfterFailure(ui, o)
    BY <1>3 DEF Screen!Applied, Screen!Failures
  <2>2. QED
    BY <1>3, <2>1, AfterFailureApplies DEF Screen!Failures
<1>4. CASE ops[o].outcome = "ok"
  <2>1. CASE ops[o].kind = "discover"
    <3>1. Screen!Applied(ui, o, pick, seen) = Screen!AfterDiscovery(ui, o, pick)
      BY <1>4, <2>1 DEF Screen!Applied, Screen!Failures
    <3>2. QED
      BY <2>1, <3>1, AfterDiscoveryApplies
  <2>2. CASE ops[o].kind = "save"
    <3>1. Screen!Applied(ui, o, pick, seen) = Screen!AfterSave(ui, o, seen)
      BY <1>4, <2>2 DEF Screen!Applied, Screen!Failures
    <3>2. QED
      BY <2>2, <3>1, AfterSaveApplies
  <2>3. CASE ops[o].kind = "validate"
    <3>1. Screen!Applied(ui, o, pick, seen) = Screen!AfterValidation(ui, o)
      BY <1>4, <2>3 DEF Screen!Applied, Screen!Failures
    <3>2. QED
      BY <1>4, <2>3, <3>1, AfterValidationApplies
  <2>4. CASE ops[o].kind = "oauth"
    <3>1. Screen!Applied(ui, o, pick, seen) = Screen!AfterOAuth(ui, o, seen)
      BY <1>4, <2>4 DEF Screen!Applied, Screen!Failures
    <3>2. QED
      BY <2>4, <3>1, AfterOAuthApplies
  <2>5. CASE ops[o].kind = "activate"
    <3>1. Screen!Applied(ui, o, pick, seen)
             = Screen!Stop([Screen!Finish(ui, o, "ok") EXCEPT !.candidate = Screen!NoCandidate])
      BY <1>4, <2>5 DEF Screen!Applied, Screen!Failures
    <3>2. QED
      BY <3>1, AfterActivationApplies
  <2>6. QED
    BY <1>1, <2>1, <2>2, <2>3, <2>4, <2>5 DEF Screen!Kinds
<1>5. QED
  BY <1>1, <1>2, <1>3, <1>4 DEF Screen!Outcomes, Screen!Failures

-----------------------------------------------------------------------------
(* Starting an operation: the screen loses at most its candidate, or it    *)
(* waits for the one operation that runs.                                  *)
SameStand(v, u) ==
    /\ v.key = u.key /\ v.model = u.model /\ v.state = u.state /\ v.step = u.step
    /\ v.op = u.op /\ v.kind = u.kind

Waits(v, t, u, kind, o) ==
    /\ v.state = "Busy" /\ v.op = o /\ v.kind = kind
    /\ v.key = u.key /\ v.model = u.model /\ v.step = u.step
    /\ v.candidate = (IF kind = "activate" THEN u.candidate ELSE Screen!NoCandidate)
    /\ t.pc = "waiting" /\ t.kind = kind /\ t.key = u.key /\ ~t.cancelled
    /\ kind = "validate" => t.model = u.model
    /\ kind = "activate" => t.candidate = u.candidate

LEMMA IdleOperation ==
    /\ Screen!NoOperation \in ScrOps
    /\ Screen!NoOperation.pc = "none" /\ ~Screen!NoOperation.cancelled
    /\ Screen!NoOperation.candidate = Screen!NoCandidate
    /\ Screen!NoOperation.model = Screen!NoModel
    /\ Screen!NoOperation.resume \in Screen!StepSet
<1>1. "Provider" \in Screen!StepSet /\ Screen!NoCandidate \in ScrCandidates
  BY StepsFollow, ClosedScreen
<1>2. Screen!NoOperation \in ScrOps
  BY <1>1, SmallNumbers DEF Screen!NoOperation, ScrOps, Screen!OpPC, Screen!Kinds, Screen!NoKey,
     Screen!Outcomes, ScrModels
<1>3. QED
  BY <1>1, <1>2 DEF Screen!NoOperation

(* The least of some ids.                                                  *)
LEMMA LeastId ==
    ASSUME NEW S \in SUBSET Screen!OpIds, S # {}
    PROVE  (CHOOSE q \in S : \A x \in S : q <= x) \in S
<1>1. S \in SUBSET Nat
  BY ScreenAssumption DEF Screen!OpIds
<1>2. \E q \in S : \A x \in S : q <= x
  <2> DEFINE less == OpToRel(<, Nat)
  <2>1. IsWellFoundedOn(less, Nat)
    BY NatLessThanWellFounded
  <2>2. ASSUME NEW a \in Nat, NEW b \in Nat, a < b PROVE <<a, b>> \in less
    <3> DEFINE p == <<a, b>>
    <3>1. p \in Nat \X Nat /\ p[1] = a /\ p[2] = b
      OBVIOUS
    <3> HIDE DEF p
    <3>2. p \in less
      BY <2>2, <3>1 DEF OpToRel
    <3>3. QED
      BY <3>2 DEF p
  <2> HIDE DEF less
  <2>3. PICK q \in S : \A x \in S : ~(<<x, q>> \in less)
    BY <1>1, <2>1, WFMin
  <2>4. ASSUME NEW x \in S PROVE q <= x
    <3>1. x \in Nat /\ q \in Nat
      BY <1>1
    <3>2. CASE x < q
      <4>1. <<x, q>> \in less
        BY <2>2, <3>1, <3>2
      <4>2. QED
        BY <2>3, <4>1
    <3>3. QED
      BY <3>1, <3>2
  <2>5. QED
    BY <2>4
<1>3. QED
  BY <1>2

Started(s, u, r, kind) ==
    \/ /\ s.ops = r /\ s.ui \in ScrUis /\ SameStand(s.ui, u)
       /\ s.ui.candidate = u.candidate \/ s.ui.candidate = Screen!NoCandidate
    \/ /\ Screen!ActiveIn(r) = {}
       /\ Screen!Complete(u, kind) /\ Screen!Allowed(u, kind)
       /\ \E o \in Screen!OpIds : \E t \in ScrOps :
             /\ r[o].pc = "none"
             /\ s.ui \in ScrUis /\ s.ops = [r EXCEPT ![o] = t]
             /\ Waits(s.ui, t, u, kind, o)

LEMMA StartOutcome ==
    ASSUME NEW u \in ScrUis, NEW r \in [Screen!OpIds -> ScrOps],
           NEW kind \in Screen!Kinds, NEW s, s = Screen!StartOp(u, r, kind)
    PROVE  Started(s, u, r, kind)
<1> DEFINE fresh == IF kind = "activate" THEN u ELSE [u EXCEPT !.candidate = Screen!NoCandidate]
           takes == kind = "save" /\ u.state = "Edit"
           hides == fresh.secret /\ ~takes
           taken == [fresh EXCEPT !.secret = hides]
           again == kind = "oauth" /\ u.pending # Screen!NoOp
           free == Screen!FreeIds(u, r)
           o == IF again THEN u.pending ELSE CHOOSE q \in free : \A x \in free : q <= x
           v == [taken EXCEPT !.state = "Busy", !.op = o, !.kind = kind, !.secret = FALSE]
           cand == CASE kind = "activate" -> u.candidate
                     [] kind = "validate" -> [Screen!NoOperation.candidate EXCEPT !.seen = u.expected]
                     [] OTHER -> Screen!NoOperation.candidate
           model == IF kind \in {"save", "validate"} THEN u.model ELSE Screen!NoOperation.model
           prof == kind = "save" /\ u.profile
           sec == takes /\ u.secret
           res == IF kind = "save" THEN u.step ELSE Screen!NoOperation.resume
           t == [Screen!NoOperation EXCEPT
                   !.pc = "waiting", !.kind = kind, !.key = u.key,
                   !.profile = prof, !.model = model, !.secret = sec,
                   !.resume = res, !.completes = again, !.candidate = cand]
<1>1. /\ fresh \in ScrUis /\ SameStand(fresh, u) /\ fresh.pending = u.pending
      /\ fresh.candidate = (IF kind = "activate" THEN u.candidate ELSE Screen!NoCandidate)
  BY ClosedScreen DEF ScrUis, SameStand
<1>2. s \in { [ui |-> fresh, ops |-> r], [ui |-> taken, ops |-> r] }
      \/ /\ Screen!Complete(u, kind) /\ Screen!Allowed(u, kind)
         /\ Screen!ActiveIn(r) = {}
         /\ again => ~Screen!InRegistry(r, u.pending)
         /\ ~again => free # {}
         /\ s = [ui |-> v, ops |-> [r EXCEPT ![o] = t]]
  BY DEF Screen!StartOp
<1> HIDE DEF fresh
<1>3. hides \in BOOLEAN
  BY DEF hides
<1> HIDE DEF hides
<1>4. /\ taken \in ScrUis /\ SameStand(taken, u)
      /\ taken.candidate = fresh.candidate
  BY <1>1, <1>3 DEF ScrUis, SameStand
<1> HIDE DEF taken
<1>5. CASE s \in { [ui |-> fresh, ops |-> r], [ui |-> taken, ops |-> r] }
  BY <1>1, <1>4, <1>5 DEF Started
<1>6. CASE /\ Screen!Complete(u, kind) /\ Screen!Allowed(u, kind)
           /\ Screen!ActiveIn(r) = {}
           /\ again => ~Screen!InRegistry(r, u.pending)
           /\ ~again => free # {}
           /\ s = [ui |-> v, ops |-> [r EXCEPT ![o] = t]]
  <2>1. o \in Screen!OpIds /\ r[o].pc = "none"
    <3>1. CASE again
      BY <1>6, <3>1 DEF ScrUis, ScrIds, Screen!InRegistry
    <3>2. CASE ~again
      <4>1. free \in SUBSET Screen!OpIds /\ free # {}
        BY <1>6, <3>2 DEF Screen!FreeIds
      <4> HIDE DEF free
      <4>2. o \in free
        BY <3>2, <4>1, LeastId
      <4>3. QED
        BY <4>2 DEF free, Screen!FreeIds, Screen!InRegistry
    <3>3. QED
      BY <3>1, <3>2
  <2> HIDE DEF o
  <2>2. /\ v \in ScrUis /\ v.state = "Busy" /\ v.op = o /\ v.kind = kind
        /\ v.key = u.key /\ v.model = u.model /\ v.step = u.step
        /\ v.candidate = fresh.candidate
    BY <1>4, <2>1 DEF ScrUis, SameStand, Screen!Screens, ScrIds
  <2>3. cand \in ScrCandidates /\ (kind = "activate" => cand = u.candidate)
    BY ClosedScreen, IdleOperation DEF ScrUis, ScrCandidates
  <2>4. model \in ScrModels /\ (kind = "validate" => model = u.model)
    BY IdleOperation DEF ScrUis, ScrModels
  <2>5. res \in Screen!StepSet /\ prof \in BOOLEAN /\ sec \in BOOLEAN /\ again \in BOOLEAN
        /\ u.key \in ScrKeys
    BY IdleOperation DEF ScrUis
  <2> HIDE DEF cand, model, res, prof, sec, again
  <2>6. /\ t \in ScrOps /\ t.pc = "waiting" /\ t.kind = kind /\ t.key = u.key
        /\ ~t.cancelled /\ t.model = model /\ t.candidate = cand
    BY <2>3, <2>4, <2>5, IdleOperation DEF ScrOps, Screen!OpPC
  <2> HIDE DEF v, t
  <2>7. Waits(v, t, u, kind, o)
    BY <1>1, <2>2, <2>3, <2>4, <2>6 DEF Waits
  <2>8. s.ui = v /\ s.ops = [r EXCEPT ![o] = t]
    BY <1>6
  <2>9. \E p \in Screen!OpIds : \E x \in ScrOps :
           /\ r[p].pc = "none"
           /\ s.ui \in ScrUis /\ s.ops = [r EXCEPT ![p] = x]
           /\ Waits(s.ui, x, u, kind, p)
    BY <2>1, <2>2, <2>6, <2>7, <2>8
  <2>10. QED
    BY <1>6, <2>9 DEF Started
<1>7. QED
  BY <1>2, <1>5, <1>6

LEMMA OnlyWaiting ==
    ASSUME NEW r \in [Screen!OpIds -> ScrOps], NEW o \in Screen!OpIds, NEW t \in ScrOps,
           Screen!ActiveIn(r) = {}, r[o].pc = "none", t.pc = "waiting", ~t.cancelled
    PROVE  Screen!ActiveIn([r EXCEPT ![o] = t]) = {o}
<1> DEFINE rr == [r EXCEPT ![o] = t]
<1>1. rr[o] = t /\ \A q \in Screen!OpIds : q # o => rr[q] = r[q]
  OBVIOUS
<1> HIDE DEF rr
<1>2. \A q \in Screen!OpIds : q \in Screen!ActiveIn(rr) <=> q = o
  BY <1>1 DEF Screen!ActiveIn, Screen!InRegistry
<1>3. QED
  BY <1>2 DEF Screen!ActiveIn, rr

LEMMA StartKeeps ==
    ASSUME NEW u \in ScrUis, NEW r \in [Screen!OpIds -> ScrOps],
           NEW n \in ScrNavs, NEW kind \in Screen!Kinds, ScreenInOrder(u, r, n),
           NEW v, v = Screen!StartOp(u, r, kind).ui,
           NEW rr, rr = Screen!StartOp(u, r, kind).ops
    PROVE  /\ v \in ScrUis /\ rr \in [Screen!OpIds -> ScrOps]
           /\ ScreenInOrder(v, rr, n)
<1>1. CASE /\ rr = r /\ v \in ScrUis /\ SameStand(v, u)
           /\ v.candidate = u.candidate \/ v.candidate = Screen!NoCandidate
  BY <1>1 DEF SameStand, ScreenInOrder, VisitInOrder, WaitInOrder, OwnsInOrder, ModelInOrder,
              TaskInOrder
<1>2. ASSUME Screen!ActiveIn(r) = {}, Screen!Complete(u, kind), Screen!Allowed(u, kind),
             NEW o \in Screen!OpIds, NEW t \in ScrOps,
             r[o].pc = "none", v \in ScrUis, rr = [r EXCEPT ![o] = t],
             Waits(v, t, u, kind, o)
      PROVE  /\ v \in ScrUis /\ rr \in [Screen!OpIds -> ScrOps]
             /\ ScreenInOrder(v, rr, n)
  <2>1. /\ rr \in [Screen!OpIds -> ScrOps] /\ rr[o] = t
        /\ \A q \in Screen!OpIds : q # o => rr[q] = r[q]
    BY <1>2
  <2>2. Screen!ActiveIn(rr) = {o}
    <3>1. Screen!ActiveIn(r) = {} /\ r[o].pc = "none" /\ t.pc = "waiting" /\ ~t.cancelled
      BY <1>2 DEF Waits
    <3>2. Screen!ActiveIn([r EXCEPT ![o] = t]) = {o}
      BY <3>1, OnlyWaiting
    <3>3. QED
      BY <1>2, <3>2, Zenon
  <2>3. u.state \in {"Edit", "Confirm"} /\ (kind = "activate" => u.state = "Confirm")
    BY <1>2 DEF Screen!Allowed
  <2>4. RegistryInOrder(rr)
    BY <1>2, <2>1 DEF Waits, ScreenInOrder, RegistryInOrder, Screen!Inside
  <2>5. VisitInOrder(v, n)
    BY <1>2, <2>3 DEF Waits, ScreenInOrder, VisitInOrder
  <2>6. WaitInOrder(v, rr, n)
    BY <1>2, <2>1, <2>2 DEF Waits, WaitInOrder
  <2>7. OwnsInOrder(v, rr, n)
    BY <1>2, <2>1, <2>2, <2>5 DEF Waits, OwnsInOrder, VisitInOrder
  <2>8. ASSUME ModelInOrder(u) PROVE ModelInOrder(v)
    BY <1>2, <2>8 DEF Waits, ModelInOrder
  <2>9. ASSUME ModelInOrder(u) PROVE TaskInOrder(v, rr, n)
    <3>1. kind = "activate" => t.candidate.model = v.model
      BY <1>2, <2>3, <2>9 DEF Waits, ModelInOrder, Screen!Complete
    <3>2. QED
      BY <1>2, <2>1, <3>1 DEF Waits, TaskInOrder, AboutModel
  <2>10. QED
    BY <1>2, <2>1, <2>4, <2>5, <2>6, <2>7, <2>8, <2>9 DEF ScreenInOrder
<1>3. \/ /\ rr = r /\ v \in ScrUis /\ SameStand(v, u)
         /\ v.candidate = u.candidate \/ v.candidate = Screen!NoCandidate
      \/ /\ Screen!ActiveIn(r) = {} /\ Screen!Complete(u, kind) /\ Screen!Allowed(u, kind)
         /\ \E o \in Screen!OpIds : \E t \in ScrOps :
               /\ r[o].pc = "none" /\ v \in ScrUis /\ rr = [r EXCEPT ![o] = t]
               /\ Waits(v, t, u, kind, o)
  <2> DEFINE s == Screen!StartOp(u, r, kind)
  <2>1. s = Screen!StartOp(u, r, kind) /\ s.ui = v /\ s.ops = rr
    OBVIOUS
  <2> HIDE DEF s
  <2>2. Started(s, u, r, kind)
    BY <2>1, StartOutcome
  <2>3. QED
    BY <2>1, <2>2 DEF Started
<1>4. QED
  BY <1>1, <1>2, <1>3

-----------------------------------------------------------------------------
(* The operations on the service.                                          *)
Follows(a, t) ==
    /\ a.pc # "none" /\ t.pc # "none"
    /\ t.key = a.key /\ t.kind = a.kind /\ (t.cancelled <=> a.cancelled)
    /\ t.cancelled => t.pc \in Screen!Inside
    /\ t.pc \in Screen!Inside =>
          \/ a.pc \in Screen!Inside
          \/ \A q \in Screen!OpIds : ops[q].pc \notin Screen!Inside
    /\ \A kind, model : AboutModel(a, kind, model) => AboutModel(t, kind, model)

LEMMA OperationMoves ==
    ASSUME ScreenIInv, NEW o \in Screen!OpIds, NEW t \in ScrOps,
           ops' = [ops EXCEPT ![o] = t], Follows(ops[o], t),
           ui' = ui, nav' = nav, store' \in ScrStores
    PROVE  ScreenIInv'
<1>1. /\ ui \in ScrUis /\ ops \in [Screen!OpIds -> ScrOps] /\ nav \in ScrNavs
      /\ ScreenInOrder(ui, ops, nav)
  BY DEF ScreenIInv, ScrTypes
<1>2. /\ ops' \in [Screen!OpIds -> ScrOps] /\ ops'[o] = t
      /\ \A q \in Screen!OpIds : q # o => ops'[q] = ops[q]
  BY <1>1
<1>3. ScrTypes'
  BY <1>1, <1>2 DEF ScrTypes
<1>4. Screen!ActiveIn(ops') = Screen!ActiveIn(ops)
  <2>1. \A q \in Screen!OpIds : q \in Screen!ActiveIn(ops') <=> q \in Screen!ActiveIn(ops)
    BY <1>2 DEF Screen!ActiveIn, Screen!InRegistry, Follows
  <2>2. QED
    BY <2>1 DEF Screen!ActiveIn
<1>5. RegistryInOrder(ops')
  <2>1. RegistryInOrder(ops)
    BY <1>1 DEF ScreenInOrder
  <2>2. QED
    BY <1>2, <2>1 DEF RegistryInOrder, Follows
<1>6. VisitInOrder(ui', nav')
  BY <1>1 DEF ScreenInOrder, VisitInOrder
<1>7. \A q \in Screen!OpIds : ops'[q].key = ops[q].key
  BY <1>2 DEF Follows
<1>8. WaitInOrder(ui', ops', nav')
  <2>1. WaitInOrder(ui, ops, nav)
    BY <1>1 DEF ScreenInOrder
  <2>2. \A q \in Screen!ActiveIn(ops) : q \in Screen!OpIds
    BY DEF Screen!ActiveIn
  <2>3. QED
    BY <1>4, <1>7, <2>1, <2>2 DEF WaitInOrder
<1>9. ASSUME OwnsInOrder(ui, ops, nav) PROVE OwnsInOrder(ui', ops', nav')
  <2>1. \A q \in Screen!ActiveIn(ops) : q \in Screen!OpIds
    BY DEF Screen!ActiveIn
  <2>2. QED
    BY <1>4, <1>7, <1>9, <2>1 DEF OwnsInOrder
<1>10. ASSUME TaskInOrder(ui, ops, nav), nav.alive PROVE TaskInOrder(ui', ops', nav')
  <2> SUFFICES ASSUME ui.state = "Busy", ui.key = nav.generation
               PROVE  AboutModel(ops'[ui.op], ui.kind, ui.model)
    BY DEF TaskInOrder
  <2>1. AboutModel(ops[ui.op], ui.kind, ui.model)
    BY <1>10 DEF TaskInOrder
  <2>2. ui.op \in Screen!OpIds
    BY <1>1, <1>10 DEF ScreenInOrder, WaitInOrder, Screen!ActiveIn
  <2>3. CASE ui.op = o
    BY <1>2, <2>1, <2>3 DEF Follows
  <2>4. CASE ui.op # o
    BY <1>2, <2>1, <2>2, <2>4
  <2>5. QED
    BY <2>3, <2>4
<1>11. ScreenInOrder(ui', ops', nav')
  BY <1>1, <1>5, <1>6, <1>8, <1>9, <1>10 DEF ScreenInOrder
<1>12. QED
  BY <1>3, <1>11 DEF ScreenIInv

(* A cancelled operation leaves the registry unnoticed.                    *)
LEMMA OperationGone ==
    ASSUME ScreenIInv, NEW o \in Screen!OpIds, ops[o].cancelled,
           ops' = [ops EXCEPT ![o] = Screen!NoOperation],
           ui' = ui, nav' = nav, store' \in ScrStores
    PROVE  ScreenIInv'
<1> DEFINE t == Screen!NoOperation
<1>0. t \in ScrOps /\ t.pc = "none" /\ ~t.cancelled
  BY IdleOperation
<1>00. ops' = [ops EXCEPT ![o] = t]
  OBVIOUS
<1> HIDE DEF t
<1>1. /\ ui \in ScrUis /\ ops \in [Screen!OpIds -> ScrOps] /\ nav \in ScrNavs
      /\ ScreenInOrder(ui, ops, nav)
  BY DEF ScreenIInv, ScrTypes
<1>2. /\ ops' \in [Screen!OpIds -> ScrOps] /\ ops'[o] = t
      /\ \A q \in Screen!OpIds : q # o => ops'[q] = ops[q]
  BY <1>0, <1>00, <1>1
<1>3. ScrTypes'
  BY <1>1, <1>2 DEF ScrTypes
<1>4. Screen!ActiveIn(ops') = Screen!ActiveIn(ops) /\ o \notin Screen!ActiveIn(ops)
  <2>1. o \notin Screen!ActiveIn(ops) /\ o \notin Screen!ActiveIn(ops')
    BY <1>0, <1>2 DEF Screen!ActiveIn, Screen!InRegistry
  <2>2. \A q \in Screen!OpIds : q \in Screen!ActiveIn(ops') <=> q \in Screen!ActiveIn(ops)
    BY <1>2, <2>1 DEF Screen!ActiveIn, Screen!InRegistry
  <2>3. QED
    BY <2>1, <2>2 DEF Screen!ActiveIn
<1>5. RegistryInOrder(ops')
  <2>1. RegistryInOrder(ops)
    BY <1>1 DEF ScreenInOrder
  <2>2. QED
    BY <1>0, <1>2, <2>1 DEF RegistryInOrder, Screen!Inside
<1>6. VisitInOrder(ui', nav')
  BY <1>1 DEF ScreenInOrder, VisitInOrder
<1>7. \A q \in Screen!ActiveIn(ops) : q \in Screen!OpIds /\ ops'[q] = ops[q]
  <2>1. \A q \in Screen!ActiveIn(ops) : q \in Screen!OpIds /\ q # o
    BY <1>4 DEF Screen!ActiveIn
  <2>2. QED
    BY <1>2, <2>1
<1>8. WaitInOrder(ui', ops', nav')
  BY <1>1, <1>4, <1>7 DEF WaitInOrder, ScreenInOrder
<1>9. ASSUME OwnsInOrder(ui, ops, nav) PROVE OwnsInOrder(ui', ops', nav')
  BY <1>4, <1>7, <1>9 DEF OwnsInOrder
<1>10. ASSUME TaskInOrder(ui, ops, nav), nav.alive PROVE TaskInOrder(ui', ops', nav')
  <2> SUFFICES ASSUME ui.state = "Busy", ui.key = nav.generation
               PROVE  AboutModel(ops'[ui.op], ui.kind, ui.model)
    BY DEF TaskInOrder
  <2>1. AboutModel(ops[ui.op], ui.kind, ui.model)
    BY <1>10 DEF TaskInOrder
  <2>2. ui.op \in Screen!ActiveIn(ops)
    BY <1>1, <1>10 DEF ScreenInOrder, WaitInOrder
  <2>3. QED
    BY <1>7, <2>1, <2>2
<1>11. ScreenInOrder(ui', ops', nav')
  BY <1>1, <1>5, <1>6, <1>8, <1>9, <1>10 DEF ScreenInOrder
<1>12. QED
  BY <1>3, <1>11 DEF ScreenIInv

LEMMA OperationEnds ==
    ASSUME ScreenIInv, NEW o \in Screen!OpIds, NEW t \in ScrOps,
           Screen!EndWith(o, t), ~ops[o].cancelled => Follows(ops[o], t),
           ui' = ui, nav' = nav, store' \in ScrStores
    PROVE  ScreenIInv'
<1>1. CASE ops[o].cancelled
  <2>1. ops' = [ops EXCEPT ![o] = Screen!NoOperation]
    BY <1>1 DEF Screen!EndWith, ScreenIInv, ScrTypes
  <2>2. QED
    BY <1>1, <2>1, OperationGone
<1>2. CASE ~ops[o].cancelled
  <2>1. ops' = [ops EXCEPT ![o] = t]
    BY <1>2 DEF Screen!EndWith, ScreenIInv, ScrTypes
  <2>2. QED
    BY <1>2, <2>1, OperationMoves
<1>3. QED
  BY <1>1, <1>2

(* An operation that ends as failed has found nothing about its model.     *)
LEMMA EndedOperation ==
    ASSUME ScreenIInv, NEW o \in Screen!OpIds, ops[o].pc \in Screen!Inside,
           NEW t, t = Screen!Ended(o)
    PROVE  /\ t \in ScrOps /\ t.pc = "ended" /\ t.kind = ops[o].kind /\ t.key = ops[o].key
           /\ t.cancelled = ops[o].cancelled /\ t.candidate = ops[o].candidate
           /\ t.outcome = ops[o].outcome
<1>1. ops[o] \in ScrOps
  BY DEF ScreenIInv, ScrTypes
<1> DEFINE a == ops[o]
           b == [a EXCEPT !.pc = "ended", !.attempts = 0, !.rev = 0]
<1>2. t = [b EXCEPT !.profile = FALSE, !.model = Screen!NoModel, !.secret = FALSE]
  BY DEF Screen!Ended
<1>3. a \in ScrOps /\ "ended" \in Screen!OpPC /\ Screen!NoModel \in ScrModels
  BY <1>1 DEF Screen!OpPC, ScrModels
<1> HIDE DEF a
<1>4. /\ b \in ScrOps /\ b.pc = "ended" /\ b.kind = a.kind /\ b.key = a.key
      /\ b.cancelled = a.cancelled /\ b.candidate = a.candidate
      /\ b.outcome = a.outcome
  <2> DEFINE d == [a EXCEPT !.pc = "ended"]
             e == [d EXCEPT !.attempts = 0]
  <2>1. b = [e EXCEPT !.rev = 0]
    BY <1>3 DEF ScrOps
  <2>2. /\ d \in ScrOps /\ d.pc = "ended" /\ d.kind = a.kind /\ d.key = a.key
        /\ d.cancelled = a.cancelled /\ d.candidate = a.candidate
        /\ d.outcome = a.outcome
    BY <1>3 DEF ScrOps
  <2> HIDE DEF d
  <2>3. /\ e \in ScrOps /\ e.pc = d.pc /\ e.kind = d.kind /\ e.key = d.key
        /\ e.cancelled = d.cancelled /\ e.candidate = d.candidate
        /\ e.outcome = d.outcome
    BY <2>2, SmallNumbers DEF ScrOps
  <2> HIDE DEF e, b
  <2>4. /\ b \in ScrOps /\ b.pc = e.pc /\ b.kind = e.kind /\ b.key = e.key
        /\ b.cancelled = e.cancelled /\ b.candidate = e.candidate
        /\ b.outcome = e.outcome
    BY <2>1, <2>3, SmallNumbers DEF ScrOps
  <2>5. QED
    BY <2>2, <2>3, <2>4
<1> HIDE DEF b
<1>5. /\ t \in ScrOps /\ t.pc = b.pc /\ t.kind = b.kind /\ t.key = b.key
      /\ t.cancelled = b.cancelled /\ t.candidate = b.candidate
      /\ t.outcome = b.outcome
  BY <1>2, <1>3, <1>4 DEF ScrOps
<1>6. QED
  BY <1>4, <1>5 DEF a

LEMMA EndKeeps ==
    ASSUME ScreenIInv, NEW o \in Screen!OpIds, ops[o].pc \in Screen!Inside,
           NEW outcome \in Screen!Outcomes,
           outcome = "ok" => ops[o].kind # "validate",
           Screen!End(o, outcome), ui' = ui, nav' = nav, store' \in ScrStores
    PROVE  ScreenIInv'
<1> DEFINE e == Screen!Ended(o)
           t == [e EXCEPT !.outcome = outcome]
<1>1. /\ e \in ScrOps /\ e.pc = "ended" /\ e.kind = ops[o].kind /\ e.key = ops[o].key
      /\ e.cancelled = ops[o].cancelled /\ e.candidate = ops[o].candidate
  BY EndedOperation
<1>2. Screen!EndWith(o, t)
  BY DEF Screen!End
<1> HIDE DEF e
<1>3. /\ t \in ScrOps /\ t.pc = "ended" /\ t.kind = e.kind /\ t.key = e.key
      /\ t.cancelled = e.cancelled /\ t.candidate = e.candidate /\ t.outcome = outcome
  BY <1>1 DEF ScrOps
<1> HIDE DEF t
<1>4. ASSUME ~ops[o].cancelled PROVE Follows(ops[o], t)
  <2>1. ops[o].pc # "none" /\ t.pc # "none" /\ t.pc \notin Screen!Inside
    BY <1>1, <1>3 DEF Screen!Inside
  <2>2. ASSUME NEW kind, NEW model, AboutModel(ops[o], kind, model)
        PROVE  AboutModel(t, kind, model)
    BY <1>1, <1>3, <2>2 DEF AboutModel
  <2>3. QED
    BY <1>1, <1>3, <1>4, <2>1, <2>2 DEF Follows
<1>5. QED
  BY <1>2, <1>3, <1>4, OperationEnds

LEMMA AttemptKeeps ==
    ASSUME ScreenIInv, NEW o \in Screen!OpIds, Screen!Attempt(o)
    PROVE  ScreenIInv'
<1>1. /\ ops[o] \in ScrOps /\ store' \in ScrStores /\ ops[o].pc \in Screen!Inside
      /\ ui' = ui /\ nav' = nav
  BY DEF ScreenIInv, ScrTypes, Screen!Attempt
<1>2. CASE /\ ops[o].attempts <= MaxRetries
           /\ ops' = [ops EXCEPT ![o].attempts = @ + 1, ![o].pc = "running"]
  <2> DEFINE a == ops[o]
             n == a.attempts + 1
             t == [a EXCEPT !.attempts = n, !.pc = "running"]
  <2>1. ops' = [ops EXCEPT ![o] = t]
    BY <1>2 DEF ScreenIInv, ScrTypes
  <2>2. /\ a \in ScrOps /\ a.pc \in Screen!Inside /\ n \in ScrAttempts
        /\ "running" \in Screen!OpPC
    BY <1>1, <1>2, ScreenAssumption DEF ScrOps, ScrAttempts, Screen!OpPC
  <2> HIDE DEF a, n
  <2>3. /\ t \in ScrOps /\ t.pc = "running" /\ t.key = a.key /\ t.kind = a.kind
        /\ t.cancelled = a.cancelled /\ t.candidate = a.candidate /\ t.model = a.model
    BY <2>2 DEF ScrOps
  <2> HIDE DEF t
  <2>4. Follows(a, t)
    BY <2>2, <2>3 DEF Follows, Screen!Inside, AboutModel
  <2>5. QED
    BY <1>1, <2>1, <2>3, <2>4, OperationMoves DEF a
<1>3. CASE Screen!End(o, "retry")
  BY <1>1, <1>3, EndKeeps DEF Screen!Outcomes
<1>4. QED
  BY <1>2, <1>3 DEF Screen!Attempt

LEMMA DiscoverKeeps ==
    ASSUME ScreenIInv, NEW o \in Screen!OpIds, Screen!Discover(o)
    PROVE  ScreenIInv'
<1>1. /\ ops[o] \in ScrOps /\ store' \in ScrStores /\ ops[o].pc \in Screen!Inside
      /\ ui' = ui /\ nav' = nav /\ ops[o].kind = "discover"
  BY DEF ScreenIInv, ScrTypes, Screen!Discover, Screen!Inside
<1>2. ASSUME NEW found \in SUBSET Models,
             Screen!EndWith(o, [Screen!Ended(o) EXCEPT !.listed = found])
      PROVE  ScreenIInv'
  <2> DEFINE e == Screen!Ended(o)
             t == [e EXCEPT !.listed = found]
  <2>1. /\ e \in ScrOps /\ e.pc = "ended" /\ e.kind = ops[o].kind /\ e.key = ops[o].key
        /\ e.cancelled = ops[o].cancelled
    BY <1>1, EndedOperation
  <2>2. Screen!EndWith(o, t)
    BY <1>2
  <2> HIDE DEF e
  <2>3. /\ t \in ScrOps /\ t.pc = "ended" /\ t.kind = e.kind /\ t.key = e.key
        /\ t.cancelled = e.cancelled
    BY <2>1 DEF ScrOps
  <2> HIDE DEF t
  <2>4. ASSUME ~ops[o].cancelled PROVE Follows(ops[o], t)
    BY <1>1, <2>1, <2>3, <2>4 DEF Follows, AboutModel, Screen!Inside
  <2>5. QED
    BY <1>1, <2>2, <2>3, <2>4, OperationEnds
<1>3. CASE Screen!End(o, "credential")
  BY <1>1, <1>3, EndKeeps DEF Screen!Outcomes
<1>4. QED
  BY <1>2, <1>3 DEF Screen!Discover

LEMMA LoadForValidationKeeps ==
    ASSUME ScreenIInv, NEW o \in Screen!OpIds, Screen!LoadForValidation(o)
    PROVE  ScreenIInv'
<1>1. /\ ops[o] \in ScrOps /\ store \in ScrStores /\ store' = store
      /\ ops[o].pc \in Screen!Inside /\ ui' = ui /\ nav' = nav
  BY DEF ScreenIInv, ScrTypes, Screen!LoadForValidation, Screen!Inside
<1>2. CASE ops' = [ops EXCEPT ![o].pc = "midway", ![o].rev = store.rev]
  <2> DEFINE a == ops[o]
             t == [a EXCEPT !.pc = "midway", !.rev = store.rev]
  <2>1. ops' = [ops EXCEPT ![o] = t]
    BY <1>2 DEF ScreenIInv, ScrTypes
  <2>2. a \in ScrOps /\ a.pc \in Screen!Inside /\ store.rev \in Screen!Revs
    BY <1>1 DEF ScrStores
  <2> HIDE DEF a
  <2>3. /\ t \in ScrOps /\ t.pc = "midway" /\ t.key = a.key /\ t.kind = a.kind
        /\ t.cancelled = a.cancelled /\ t.candidate = a.candidate /\ t.model = a.model
    BY <2>2 DEF ScrOps, Screen!OpPC
  <2> HIDE DEF t
  <2>4. Follows(a, t)
    BY <2>2, <2>3 DEF Follows, Screen!Inside, AboutModel
  <2>5. QED
    BY <1>1, <2>1, <2>3, <2>4, OperationMoves DEF a
<1>3. CASE Screen!End(o, "final")
  BY <1>1, <1>3, EndKeeps DEF Screen!Outcomes
<1>4. QED
  BY <1>2, <1>3 DEF Screen!LoadForValidation

(* Within the service, an operation goes on to its next call.              *)
LEMMA PhaseKeeps ==
    ASSUME ScreenIInv, NEW o \in Screen!OpIds, ops[o].pc \in Screen!Inside,
           NEW pc \in Screen!Inside, ops' = [ops EXCEPT ![o].pc = pc],
           ui' = ui, nav' = nav, store' \in ScrStores
    PROVE  ScreenIInv'
<1> DEFINE a == ops[o]
           t == [a EXCEPT !.pc = pc]
<1>1. ops' = [ops EXCEPT ![o] = t]
  BY DEF ScreenIInv, ScrTypes
<1>2. a \in ScrOps /\ a.pc \in Screen!Inside /\ pc \in Screen!OpPC
  BY DEF ScreenIInv, ScrTypes, Screen!Inside, Screen!OpPC
<1> HIDE DEF a
<1>3. /\ t \in ScrOps /\ t.pc = pc /\ t.key = a.key /\ t.kind = a.kind
      /\ t.cancelled = a.cancelled /\ t.candidate = a.candidate /\ t.model = a.model
  BY <1>2 DEF ScrOps
<1> HIDE DEF t
<1>4. Follows(a, t)
  BY <1>2, <1>3 DEF Follows, Screen!Inside, AboutModel
<1>5. QED
  BY <1>1, <1>3, <1>4, OperationMoves DEF a

LEMMA ValidateRevisionKeeps ==
    ASSUME ScreenIInv, NEW o \in Screen!OpIds, Screen!ValidateRevision(o)
    PROVE  ScreenIInv'
<1>1. /\ store \in ScrStores /\ ops[o].pc \in Screen!Inside /\ ui' = ui /\ nav' = nav
      /\ "checking" \in Screen!Inside
  BY DEF ScreenIInv, ScrTypes, Screen!ValidateRevision, Screen!Inside
<1>2. CASE /\ store' = [store EXCEPT !.ready = store.rev]
           /\ ops' = [ops EXCEPT ![o].pc = "checking"]
  <2>1. store' \in ScrStores
    BY <1>1, <1>2 DEF ScrStores
  <2>2. QED
    BY <1>1, <1>2, <2>1, PhaseKeeps
<1>3. CASE Screen!End(o, "final") /\ UNCHANGED store
  BY <1>1, <1>3, EndKeeps DEF Screen!Outcomes
<1>4. QED
  BY <1>2, <1>3 DEF Screen!ValidateRevision

LEMMA RecheckRevisionKeeps ==
    ASSUME ScreenIInv, NEW o \in Screen!OpIds, Screen!RecheckRevision(o)
    PROVE  ScreenIInv'
<1> DEFINE c == [rev |-> store.rev, model |-> store.model, seen |-> ops[o].candidate.seen]
<1>1. /\ ops[o] \in ScrOps /\ store \in ScrStores /\ store' = store
      /\ ops[o].pc = "checking" /\ ops[o].pc \in Screen!Inside /\ ui' = ui /\ nav' = nav
      /\ ops[o].kind = "validate"
  BY DEF ScreenIInv, ScrTypes, Screen!RecheckRevision, Screen!Inside
<1>2. ASSUME store.model = ops[o].model,
             Screen!EndWith(o, [Screen!Ended(o) EXCEPT !.candidate = c])
      PROVE  ScreenIInv'
  <2> DEFINE e == Screen!Ended(o)
             t == [e EXCEPT !.candidate = c]
  <2>1. /\ e \in ScrOps /\ e.pc = "ended" /\ e.kind = ops[o].kind /\ e.key = ops[o].key
        /\ e.cancelled = ops[o].cancelled
    BY <1>1, EndedOperation
  <2>2. c \in ScrCandidates /\ c.model = ops[o].model
    BY <1>1, <1>2 DEF ScrStores, ScrOps, ScrCandidates
  <2>3. Screen!EndWith(o, t)
    BY <1>2
  <2> HIDE DEF e, c
  <2>4. /\ t \in ScrOps /\ t.pc = "ended" /\ t.kind = e.kind /\ t.key = e.key
        /\ t.cancelled = e.cancelled /\ t.candidate = c
    BY <2>1, <2>2 DEF ScrOps
  <2> HIDE DEF t
  <2>5. ASSUME ~ops[o].cancelled PROVE Follows(ops[o], t)
    <3>1. ASSUME NEW kind, NEW model, AboutModel(ops[o], kind, model)
          PROVE  AboutModel(t, kind, model)
      BY <1>1, <2>1, <2>2, <2>4, <3>1 DEF AboutModel
    <3>2. QED
      BY <1>1, <2>1, <2>4, <2>5, <3>1 DEF Follows, Screen!Inside
  <2>6. QED
    BY <1>1, <2>3, <2>4, <2>5, OperationEnds
<1>3. CASE Screen!End(o, "final")
  BY <1>1, <1>3, EndKeeps DEF Screen!Outcomes
<1>4. QED
  BY <1>2, <1>3 DEF Screen!RecheckRevision

LEMMA ActivateCandidateKeeps ==
    ASSUME ScreenIInv, NEW o \in Screen!OpIds, Screen!ActivateCandidate(o)
    PROVE  ScreenIInv'
<1> DEFINE c == ops[o].candidate
           next == store.number + 1
<1>1. /\ ops[o] \in ScrOps /\ store \in ScrStores /\ ui' = ui /\ nav' = nav
      /\ ops[o].pc \in Screen!Inside /\ ops[o].kind = "activate"
      /\ {"ok", "retry", "final"} \subseteq Screen!Outcomes
  BY DEF ScreenIInv, ScrTypes, Screen!ActivateCandidate, Screen!Inside, Screen!Outcomes
<1>2. CASE /\ store.number = 0 /\ store' = [store EXCEPT !.number = next, !.active = c.model]
           /\ Screen!End(o, "ok")
  <2>1. c.model \in ScrModels /\ next \in 0 .. 1
    BY <1>1, <1>2 DEF ScrOps, ScrCandidates, ScrStores
  <2> HIDE DEF c, next
  <2>2. store' \in ScrStores
    BY <1>1, <1>2, <2>1 DEF ScrStores
  <2>3. QED
    BY <1>1, <1>2, <2>2, EndKeeps
<1>3. CASE \E bad \in {"retry", "final"} : Screen!End(o, bad) /\ UNCHANGED store
  BY <1>1, <1>3, EndKeeps
<1>4. QED
  BY <1>1, <1>2, <1>3 DEF Screen!ActivateCandidate

LEMMA SaveDraftKeeps ==
    ASSUME ScreenIInv, NEW o \in Screen!OpIds, Screen!SaveDraft(o)
    PROVE  ScreenIInv'
<1> DEFINE c == ops[o]
           auth == IF c.profile THEN store.auth ELSE ui.auth
           next == store.rev + 1
<1>1. /\ ops[o] \in ScrOps /\ store \in ScrStores /\ ui \in ScrUis /\ ui' = ui /\ nav' = nav
      /\ ops[o].pc \in Screen!Inside /\ ops[o].kind = "save" /\ "midway" \in Screen!Inside
      /\ "ok" \in Screen!Outcomes /\ Screen!Failures \subseteq Screen!Outcomes
      /\ "ok" \notin Screen!Failures
  BY DEF ScreenIInv, ScrTypes, Screen!SaveDraft, Screen!Inside, Screen!Outcomes,
         Screen!Failures
<1>2. CASE /\ store.rev < MaxRevision
           /\ store' = [store EXCEPT !.rev = next, !.model = c.model, !.auth = auth]
           /\ \/ ops' = [ops EXCEPT ![o].pc = "midway"]
              \/ Screen!End(o, "ok")
  <2>1. c.model \in ScrModels /\ auth \in Screen!Auths /\ next \in Screen!Revs
    BY <1>1, <1>2, NextRevision DEF ScrOps, ScrStores, ScrUis
  <2> HIDE DEF c, auth, next
  <2>2. store' \in ScrStores
    BY <1>1, <1>2, <2>1 DEF ScrStores
  <2>3. QED
    BY <1>1, <1>2, <2>2, EndKeeps, PhaseKeeps
<1>3. ASSUME NEW outcome \in {"ok"} \cup Screen!Failures,
             Screen!End(o, outcome), UNCHANGED store
      PROVE  ScreenIInv'
  BY <1>1, <1>3, EndKeeps
<1>4. QED
  BY <1>1, <1>2, <1>3 DEF Screen!SaveDraft

(* A new revision with the credential.                                     *)
LEMMA CredentialStored ==
    ASSUME ScreenIInv, store.rev < MaxRevision,
           store' = [store EXCEPT !.rev = @ + 1, !.cred = TRUE]
    PROVE  store' \in ScrStores /\ store'.number = store.number
<1> DEFINE n == store.rev + 1
<1>1. store' = [store EXCEPT !.rev = n, !.cred = TRUE] /\ store \in ScrStores
  BY DEF ScreenIInv, ScrTypes
<1>2. n \in Screen!Revs
  BY <1>1, NextRevision DEF ScrStores
<1> HIDE DEF n
<1>3. QED
  BY <1>1, <1>2 DEF ScrStores

LEMMA SaveCredentialKeeps ==
    ASSUME ScreenIInv, NEW o \in Screen!OpIds, Screen!SaveCredential(o)
    PROVE  ScreenIInv'
<1>1. /\ store \in ScrStores /\ ui' = ui /\ nav' = nav
      /\ ops[o].pc \in Screen!Inside /\ ops[o].kind = "save"
      /\ {"ok", "partial"} \subseteq Screen!Outcomes
  BY DEF ScreenIInv, ScrTypes, Screen!SaveCredential, Screen!Inside, Screen!Outcomes
<1>2. store' \in ScrStores /\ \E outcome \in {"ok", "partial"} : Screen!End(o, outcome)
  BY <1>1, CredentialStored DEF Screen!SaveCredential
<1>3. QED
  BY <1>1, <1>2, EndKeeps

LEMMA OAuthCallKeeps ==
    ASSUME ScreenIInv, NEW o \in Screen!OpIds, Screen!OAuthCall(o)
    PROVE  ScreenIInv'
<1>1. /\ store \in ScrStores /\ ui' = ui /\ nav' = nav
      /\ ops[o].pc \in Screen!Inside /\ ops[o].kind = "oauth"
      /\ {"ok", "retry", "credential"} \subseteq Screen!Outcomes
  BY DEF ScreenIInv, ScrTypes, Screen!OAuthCall, Screen!Inside, Screen!Outcomes
<1>2. /\ store' \in ScrStores
      /\ \E outcome \in {"ok", "retry", "credential"} : Screen!End(o, outcome)
  BY <1>1, CredentialStored DEF Screen!OAuthCall
<1>3. QED
  BY <1>1, <1>2, EndKeeps

-----------------------------------------------------------------------------
(* The registry, and another process.                                      *)
LEMMA AcquireKeeps ==
    ASSUME ScreenIInv, NEW o \in Screen!OpIds, Screen!Acquire(o)
    PROVE  ScreenIInv'
<1>1. /\ ops[o] \in ScrOps /\ store' \in ScrStores /\ ui' = ui /\ nav' = nav
      /\ ops[o].pc = "waiting" /\ ~ops[o].cancelled
      /\ \A q \in Screen!OpIds : ops[q].pc \notin Screen!Inside
  BY DEF ScreenIInv, ScrTypes, Screen!Acquire, ScreenInOrder, RegistryInOrder, Screen!Inside
<1> DEFINE a == ops[o]
           t == [a EXCEPT !.pc = "running", !.attempts = 1]
<1>2. ops' = [ops EXCEPT ![o] = t]
  BY DEF ScreenIInv, ScrTypes, Screen!Acquire
<1>3. a \in ScrOps /\ a.pc = "waiting" /\ ~a.cancelled /\ "running" \in Screen!OpPC
  BY <1>1 DEF Screen!OpPC
<1> HIDE DEF a
<1>4. /\ t \in ScrOps /\ t.pc = "running" /\ t.key = a.key /\ t.kind = a.kind
      /\ t.cancelled = a.cancelled /\ t.candidate = a.candidate /\ t.model = a.model
  <2> DEFINE b == [a EXCEPT !.pc = "running"]
  <2>1. /\ b \in ScrOps /\ b.pc = "running" /\ b.key = a.key /\ b.kind = a.kind
        /\ b.cancelled = a.cancelled /\ b.candidate = a.candidate /\ b.model = a.model
    BY <1>3 DEF ScrOps
  <2>2. t = [b EXCEPT !.attempts = 1]
    OBVIOUS
  <2> HIDE DEF b, t
  <2>3. QED
    BY <2>1, <2>2, SmallNumbers DEF ScrOps
<1> HIDE DEF t
<1>5. Follows(a, t)
  BY <1>1, <1>3, <1>4 DEF Follows, AboutModel
<1>6. QED
  BY <1>1, <1>2, <1>4, <1>5, OperationMoves DEF a

LEMMA DropOperationKeeps ==
    ASSUME ScreenIInv, NEW o \in Screen!OpIds, Screen!DropOperation(o)
    PROVE  ScreenIInv'
<1>1. /\ ops[o].cancelled /\ ops' = [ops EXCEPT ![o] = Screen!NoOperation]
      /\ ui' = ui /\ nav' = nav /\ store' \in ScrStores
  BY DEF ScreenIInv, ScrTypes, Screen!DropOperation
<1>2. QED
  BY <1>1, OperationGone

LEMMA ElsewhereKeeps ==
    ASSUME ScreenIInv, Screen!Elsewhere
    PROVE  ScreenIInv' /\ store'.number = store.number
<1> DEFINE n == store.rev + 1
<1>1. PICK m \in Models :
         store' = [[[[store EXCEPT !.rev = n] EXCEPT !.model = m] EXCEPT !.other = TRUE]
                      EXCEPT !.ready = n]
  BY Zenon DEF Screen!Elsewhere
<1>2. store \in ScrStores /\ m \in ScrModels
  BY DEF ScreenIInv, ScrTypes, ScrModels
<1>3. n \in Screen!Revs
  <2>1. store.rev \in Screen!Revs /\ store.rev < MaxRevision
    BY <1>2, ScreenAssumption DEF ScrStores, Screen!Elsewhere
  <2>2. QED
    BY <2>1, NextRevision
<1> HIDE DEF n
<1> DEFINE a == [store EXCEPT !.rev = n]
           b == [a EXCEPT !.model = m]
           c == [b EXCEPT !.other = TRUE]
<1>4. store' = [c EXCEPT !.ready = n]
  BY <1>1
<1>5. a \in ScrStores /\ a.number = store.number
  BY <1>2, <1>3 DEF ScrStores
<1> HIDE DEF a
<1>6. b \in ScrStores /\ b.number = a.number
  BY <1>2, <1>5 DEF ScrStores
<1> HIDE DEF b
<1>7. c \in ScrStores /\ c.number = b.number
  BY <1>6 DEF ScrStores
<1> HIDE DEF c
<1>8. store' \in ScrStores /\ store'.number = c.number
  BY <1>3, <1>4, <1>7 DEF ScrStores
<1>9. ui' = ui /\ ops' = ops /\ nav' = nav
  BY DEF Screen!Elsewhere
<1>10. QED
  BY <1>5, <1>6, <1>7, <1>8, <1>9 DEF ScreenIInv, ScrTypes

LEMMA ScreenKept ==
    ASSUME ui' \in ScrUis, ops' \in [Screen!OpIds -> ScrOps], nav' \in ScrNavs,
           store' \in ScrStores, ScreenInOrder(ui', ops', nav')
    PROVE  ScreenIInv'
BY DEF ScreenIInv, ScrTypes

-----------------------------------------------------------------------------
(* The routes.                                                             *)
SameView(n, m) ==
    /\ n \in ScrNavs /\ n.alive = m.alive /\ n.reused = m.reused /\ n.shown = m.shown
    /\ n.generation = m.generation \/ n.generation = m.generation + 1
    /\ RoutesWithin(n.routes, n.generation)

LEMMA PushNav ==
    ASSUME NEW n \in ScrNavs, NEW route \in Screen!Routes,
           RoutesWithin(n.routes, n.generation),
           n.generation < MaxVisits \/ n.routes[Len(n.routes)] = route
    PROVE  SameView(Screen!Push(n, route), n)
<1> DEFINE rs == Append(n.routes, route)
           g  == n.generation + 1
<1>1. CASE n.routes[Len(n.routes)] = route
  BY <1>1 DEF Screen!Push, SameView
<1>2. CASE n.routes[Len(n.routes)] # route
  <2>1. Screen!Push(n, route) = [n EXCEPT !.routes = rs, !.generation = g]
    BY <1>2 DEF Screen!Push
  <2>2. rs \in Seq(Screen!Routes) /\ Len(rs) = Len(n.routes) + 1 /\ n.generation < MaxVisits
    BY <1>2 DEF ScrNavs
  <2> HIDE DEF rs
  <2>3. g \in Screen!Visits /\ RoutesWithin(rs, g)
    BY <2>2, ScreenAssumption DEF ScrNavs, RoutesWithin, Screen!Visits
  <2>4. QED
    BY <2>1, <2>2, <2>3 DEF ScrNavs, SameView
<1>3. QED
  BY <1>1, <1>2

LEMMA PopNav ==
    ASSUME NEW n \in ScrNavs, RoutesWithin(n.routes, n.generation)
    PROVE  SameView(Screen!Pop(n), n)
<1> DEFINE rs == SubSeq(n.routes, 1, Len(n.routes) - 1)
           g  == n.generation + 1
<1>1. CASE Len(n.routes) > 1
  <2>1. Screen!Pop(n) = [n EXCEPT !.routes = rs, !.generation = g]
    BY <1>1 DEF Screen!Pop
  <2>2. rs \in Seq(Screen!Routes) /\ Len(rs) = Len(n.routes) - 1
    BY <1>1 DEF ScrNavs
  <2> HIDE DEF rs
  <2>3. g \in Screen!Visits /\ RoutesWithin(rs, g)
    BY <1>1, <2>2, ScreenAssumption DEF ScrNavs, RoutesWithin, Screen!Visits
  <2>4. QED
    BY <2>1, <2>2, <2>3 DEF ScrNavs, SameView
<1>2. CASE ~(Len(n.routes) > 1)
  BY <1>2 DEF Screen!Pop, SameView
<1>3. QED
  BY <1>1, <1>2

(* A view closes, and with it the route it was opened for.                 *)
LEMMA HiddenNav ==
    ASSUME nav \in ScrNavs, RoutesWithin(nav.routes, nav.generation)
    PROVE  SameView(Screen!Pop([nav EXCEPT !.shown = FALSE]), [nav EXCEPT !.shown = FALSE])
<1> DEFINE n == [nav EXCEPT !.shown = FALSE]
<1>1. n \in ScrNavs /\ RoutesWithin(n.routes, n.generation)
  BY DEF ScrNavs
<1> HIDE DEF n
<1>2. SameView(Screen!Pop(n), n)
  BY <1>1, PopNav
<1>3. QED
  BY <1>2 DEF n

(* Going elsewhere leaves the screen to the visit it is of.                *)
LEMMA Navigates ==
    ASSUME ScreenIInv, ui' = ui, ops' = ops, store' \in ScrStores,
           NEW n \in ScrNavs, n.shown => nav.shown, n.alive = nav.alive,
           n.reused = nav.reused, n.generation = nav.generation,
           SameView(nav', n), n.shown => nav' = n
    PROVE  ScreenIInv'
<1>1. /\ ui \in ScrUis /\ ops \in [Screen!OpIds -> ScrOps] /\ nav \in ScrNavs
      /\ ScreenInOrder(ui, ops, nav)
  BY DEF ScreenIInv, ScrTypes
<1>2. /\ nav' \in ScrNavs /\ nav'.alive = nav.alive /\ nav'.reused = nav.reused
      /\ nav'.generation = nav.generation \/ nav'.generation = nav.generation + 1
      /\ nav'.shown => nav.shown /\ nav'.generation = nav.generation
      /\ RoutesWithin(nav'.routes, nav'.generation)
  BY DEF SameView
<1>3. ui.key \in Int /\ nav.generation \in Int
  BY <1>1, SmallNumbers DEF ScrUis, ScrNavs
<1>4. VisitInOrder(ui, nav')
  BY <1>1, <1>2, <1>3 DEF ScreenInOrder, VisitInOrder
<1>5. ui.key = nav'.generation => nav'.generation = nav.generation
  BY <1>1, <1>2, <1>3 DEF ScreenInOrder, VisitInOrder
<1>6. WaitInOrder(ui, ops, nav') /\ (TaskInOrder(ui, ops, nav) => TaskInOrder(ui, ops, nav'))
  BY <1>1, <1>2, <1>5 DEF ScreenInOrder, WaitInOrder, TaskInOrder
<1>7. ASSUME OwnsInOrder(ui, ops, nav) PROVE OwnsInOrder(ui, ops, nav')
  <2> SUFFICES ASSUME NEW o \in Screen!ActiveIn(ops)
               PROVE  /\ ops[o].key <= nav'.generation
                      /\ ops[o].key = nav'.generation =>
                            ui.key = nav'.generation /\ ui.state = "Busy" /\ ui.op = o
    BY DEF OwnsInOrder
  <2>1. o \in Screen!OpIds /\ ops[o].key \in Int
    BY <1>1, SmallNumbers DEF Screen!ActiveIn, ScrOps
  <2>2. ops[o].key <= nav.generation
    BY <1>7 DEF OwnsInOrder
  <2>3. ops[o].key <= nav'.generation
        /\ (ops[o].key = nav'.generation => nav'.generation = nav.generation)
    BY <1>2, <1>3, <2>1, <2>2
  <2>4. QED
    BY <1>7, <2>3 DEF OwnsInOrder
<1>8. ScreenInOrder(ui, ops, nav')
  BY <1>1, <1>2, <1>4, <1>6, <1>7 DEF ScreenInOrder
<1>9. QED
  BY <1>1, <1>2, <1>8, ScreenKept

(* A screen that opens is of the visit that begins; an operation left from *)
(* the same visit is noticed.                                              *)
LEMMA Opens ==
    ASSUME ScreenIInv, NEW u \in ScrUis, NEW n \in ScrNavs,
           u.key = n.generation, u.state \in {"Browse", "Edit"}, u.step # "SaveActivate",
           n.alive = nav.alive, n.generation \in {nav.generation, nav.generation + 1},
           RoutesWithin(n.routes, n.generation),
           n.reused <=> nav.reused \/ Screen!Reuses(n)
    PROVE  ScreenInOrder(u, ops, n)
<1>1. /\ ui \in ScrUis /\ ops \in [Screen!OpIds -> ScrOps] /\ nav \in ScrNavs
      /\ ScreenInOrder(ui, ops, nav)
  BY DEF ScreenIInv, ScrTypes
<1>2. /\ n.alive = nav.alive /\ nav.generation \in Int
      /\ n.generation = nav.generation \/ n.generation = nav.generation + 1
  BY <1>1, SmallNumbers DEF ScrNavs
<1>3. RegistryInOrder(ops) /\ 0 <= nav.generation
  BY <1>1 DEF ScreenInOrder, VisitInOrder
<1>4. VisitInOrder(u, n)
  BY <1>2, <1>3 DEF VisitInOrder
<1>5. WaitInOrder(u, ops, n) /\ ModelInOrder(u) /\ TaskInOrder(u, ops, n)
  BY DEF WaitInOrder, ModelInOrder, TaskInOrder
<1>6. ASSUME n.alive, ~n.reused PROVE OwnsInOrder(u, ops, n)
  <2> SUFFICES ASSUME NEW o \in Screen!ActiveIn(ops)
               PROVE  ops[o].key <= n.generation /\ ops[o].key # n.generation
    BY DEF OwnsInOrder
  <2>1. o \in Screen!OpIds /\ ops[o].key \in Int
    BY <1>1, SmallNumbers DEF Screen!ActiveIn, ScrOps
  <2>2. OwnsInOrder(ui, ops, nav) /\ ~Screen!Reuses(n)
    BY <1>1, <1>2, <1>6 DEF ScreenInOrder
  <2>3. ops[o].key <= nav.generation
    BY <2>2 DEF OwnsInOrder
  <2>4. ops[o].key <= n.generation
    BY <1>2, <2>1, <2>3
  <2>5. ASSUME ops[o].key = n.generation PROVE FALSE
    <3>1. n.generation = nav.generation
      BY <1>2, <2>1, <2>3, <2>5
    <3>2. ui.key = n.generation
      BY <2>2, <2>5, <3>1 DEF OwnsInOrder
    <3>3. QED
      BY <2>2, <2>5, <3>2 DEF Screen!Reuses
  <2>6. QED
    BY <2>4, <2>5
<1>7. QED
  BY <1>3, <1>4, <1>5, <1>6 DEF ScreenInOrder

(* Working on the screen while it waits for nothing.                       *)
LEMMA Edits ==
    ASSUME ScreenIInv, NEW u \in ScrUis, u.key = ui.key, u.state # "Busy",
           ui.state \notin {"Busy", "Closed"}, ModelInOrder(ui) => ModelInOrder(u)
    PROVE  ScreenInOrder(u, ops, nav)
BY DEF ScreenIInv, ScreenInOrder, VisitInOrder, WaitInOrder, OwnsInOrder, TaskInOrder

(* A screen that closes is of no visit.                                    *)
LEMMA Closes ==
    ASSUME ScreenIInv, NEW u \in ScrUis, u.state = "Closed", u.key = -1,
           u.step = "Provider", NEW r \in [Screen!OpIds -> ScrOps], RegistryInOrder(r),
           nav.alive /\ ~nav.reused =>
              \A q \in Screen!ActiveIn(r) : r[q].key < nav.generation,
           NEW n, SameView(n, [nav EXCEPT !.shown = FALSE])
    PROVE  ScreenInOrder(u, r, n)
<1>1. nav \in ScrNavs /\ VisitInOrder(ui, nav)
  BY DEF ScreenIInv, ScrTypes, ScreenInOrder
<1>2. /\ ~n.shown /\ n.alive = nav.alive /\ n.reused = nav.reused
      /\ n.generation = nav.generation \/ n.generation = nav.generation + 1
      /\ nav.generation \in Int /\ RoutesWithin(n.routes, n.generation)
  BY <1>1, SmallNumbers DEF SameView, ScrNavs
<1>3. VisitInOrder(u, n)
  BY <1>1, <1>2 DEF VisitInOrder
<1>4. WaitInOrder(u, r, n) /\ TaskInOrder(u, r, n) /\ ModelInOrder(u)
  BY DEF WaitInOrder, TaskInOrder, ModelInOrder
<1>5. ASSUME nav.alive /\ ~nav.reused PROVE OwnsInOrder(u, r, n)
  <2>1. \A q \in Screen!ActiveIn(r) : r[q].key \in Int /\ r[q].key < nav.generation
    BY <1>5, SmallNumbers DEF Screen!ActiveIn, ScrOps
  <2>2. QED
    BY <1>2, <2>1 DEF OwnsInOrder
<1>6. QED
  BY <1>2, <1>3, <1>4, <1>5 DEF ScreenInOrder

-----------------------------------------------------------------------------
(* A completion.  What is left in the registry, once o was taken from it:  *)
LEMMA WithoutOne ==
    ASSUME ScreenIInv, NEW o \in Screen!OpIds, ops[o].pc = "ended",
           NEW r, r = [ops EXCEPT ![o] = Screen!NoOperation]
    PROVE  /\ r \in [Screen!OpIds -> ScrOps] /\ RegistryInOrder(r)
           /\ \A q \in Screen!ActiveIn(r) :
                 q \in Screen!ActiveIn(ops) /\ q # o /\ r[q] = ops[q]
           /\ \A q \in Screen!ActiveIn(ops) :
                 q # o => q \in Screen!ActiveIn(r) /\ r[q] = ops[q]
           /\ o \in Screen!ActiveIn(ops)
<1> DEFINE t == Screen!NoOperation
<1>1. ops \in [Screen!OpIds -> ScrOps] /\ RegistryInOrder(ops)
  BY DEF ScreenIInv, ScrTypes, ScreenInOrder
<1>2. t \in ScrOps /\ t.pc = "none" /\ ~t.cancelled /\ r = [ops EXCEPT ![o] = t]
  BY IdleOperation
<1> HIDE DEF t
<1>3. /\ r \in [Screen!OpIds -> ScrOps] /\ r[o] = t
      /\ \A q \in Screen!OpIds : q # o => r[q] = ops[q]
  BY <1>1, <1>2
<1>4. RegistryInOrder(r)
  BY <1>1, <1>2, <1>3 DEF RegistryInOrder, Screen!Inside
<1>5. o \in Screen!ActiveIn(ops) /\ o \notin Screen!ActiveIn(r)
  BY <1>1, <1>2, <1>3 DEF RegistryInOrder, Screen!ActiveIn, Screen!InRegistry, Screen!Inside
<1>6. \A q \in Screen!ActiveIn(r) :
         q \in Screen!ActiveIn(ops) /\ q # o /\ r[q] = ops[q]
  BY <1>3, <1>5 DEF Screen!ActiveIn, Screen!InRegistry
<1>7. \A q \in Screen!ActiveIn(ops) : q # o => q \in Screen!ActiveIn(r) /\ r[q] = ops[q]
  BY <1>3 DEF Screen!ActiveIn, Screen!InRegistry
<1>8. QED
  BY <1>3, <1>4, <1>5, <1>6, <1>7

LEMMA PicksTypes ==
    ASSUME ScreenIInv, NEW o \in Screen!OpIds,
           NEW pick \in Screen!Picks(ui, ops[o].listed)
    PROVE  pick \in ScrModels
<1>1. ops[o].listed \in SUBSET Models /\ ui.model \in ScrModels
  BY DEF ScreenIInv, ScrTypes, ScrOps, ScrUis
<1>2. QED
  BY <1>1 DEF Screen!Picks, ScrModels

LEMMA TakeCompletionKeeps ==
    ASSUME ScreenIInv, NEW o \in Screen!OpIds, Screen!TakeCompletion(o)
    PROVE  ScreenIInv'
<1> DEFINE r == [ops EXCEPT ![o] = Screen!NoOperation]
<1>1. /\ ui \in ScrUis /\ nav \in ScrNavs /\ store \in ScrStores /\ store' = store
      /\ ops[o].pc = "ended" /\ nav.alive /\ ScreenInOrder(ui, ops, nav) /\ ScrTypes
  BY DEF ScreenIInv, ScrTypes, Screen!TakeCompletion
<1>2. /\ r \in [Screen!OpIds -> ScrOps] /\ RegistryInOrder(r)
      /\ \A q \in Screen!ActiveIn(r) : q \in Screen!ActiveIn(ops) /\ q # o /\ r[q] = ops[q]
      /\ \A q \in Screen!ActiveIn(ops) : q # o => q \in Screen!ActiveIn(r) /\ r[q] = ops[q]
      /\ o \in Screen!ActiveIn(ops)
  BY <1>1, WithoutOne
<1>3. ASSUME Screen!ThisScreen(o)
      PROVE  /\ ui.key = ops[o].key /\ nav.generation = ops[o].key /\ ui.state # "Closed"
             /\ ~nav.reused => Screen!IsBusyOn(ui, o)
  BY <1>1, <1>2, <1>3 DEF Screen!ThisScreen, Screen!RouteKey, ScreenInOrder, OwnsInOrder,
                          Screen!IsBusyOn
<1>4. CASE ~Screen!ThisScreen(o) /\ ops' = r /\ ui' = ui /\ nav' = nav
  <2>1. ui.state = "Busy" /\ ui.key = nav.generation => ui.op # o
    BY <1>1, <1>4 DEF ScreenInOrder, WaitInOrder, Screen!ThisScreen, Screen!RouteKey
  <2> HIDE DEF r
  <2>2. VisitInOrder(ui, nav) /\ WaitInOrder(ui, r, nav)
    BY <1>1, <1>2, <2>1 DEF ScreenInOrder, WaitInOrder
  <2>3. ASSUME ~nav.reused
        PROVE  OwnsInOrder(ui, r, nav) /\ ModelInOrder(ui) /\ TaskInOrder(ui, r, nav)
    <3>1. OwnsInOrder(ui, ops, nav) /\ ModelInOrder(ui) /\ TaskInOrder(ui, ops, nav)
      BY <1>1, <2>3 DEF ScreenInOrder
    <3>2. OwnsInOrder(ui, r, nav)
      BY <1>2, <3>1 DEF OwnsInOrder
    <3>3. ui.state = "Busy" /\ ui.key = nav.generation => r[ui.op] = ops[ui.op]
      BY <1>1, <1>2, <2>1 DEF ScreenInOrder, WaitInOrder
    <3>4. TaskInOrder(ui, r, nav)
      BY <3>1, <3>3 DEF TaskInOrder
    <3>5. QED
      BY <3>1, <3>2, <3>4
  <2>4. ScreenInOrder(ui, r, nav)
    BY <1>2, <2>2, <2>3 DEF ScreenInOrder
  <2>5. QED
    BY <1>1, <1>2, <1>4, <2>4, ScreenKept
<1>5. CASE ops' = r /\ nav' = [nav EXCEPT !.alive = FALSE] /\ ui' = ui
  <2> HIDE DEF r
  <2>1. /\ nav' \in ScrNavs /\ ~nav'.alive /\ nav'.generation = nav.generation
        /\ nav'.routes = nav.routes
    BY <1>1, <1>5 DEF ScrNavs
  <2>2. ScreenInOrder(ui, r, nav')
    BY <1>1, <1>2, <2>1 DEF ScreenInOrder, VisitInOrder, WaitInOrder
  <2>3. QED
    BY <1>1, <1>2, <1>5, <2>1, <2>2, ScreenKept
<1>6. CASE /\ Screen!ThisScreen(o) /\ ops' = r
           /\ ui' = [Screen!Closed EXCEPT !.pending = ui.pending]
           /\ nav' = Screen!Pop([nav EXCEPT !.shown = FALSE])
  <2> HIDE DEF r
  <2>1. /\ ui' \in ScrUis /\ ui'.state = "Closed" /\ ui'.key = -1 /\ ui'.step = "Provider"
    BY <1>1, <1>6, ClosedScreen DEF ScrUis
  <2>2. SameView(nav', [nav EXCEPT !.shown = FALSE])
    BY <1>1, <1>6, HiddenNav DEF ScreenInOrder, VisitInOrder
  <2>3. ASSUME ~nav.reused PROVE \A q \in Screen!ActiveIn(r) : r[q].key < nav.generation
    <3>1. OwnsInOrder(ui, ops, nav) /\ Screen!IsBusyOn(ui, o)
      BY <1>1, <1>3, <1>6, <2>3 DEF ScreenInOrder
    <3>2. \A q \in Screen!ActiveIn(r) :
             r[q].key <= nav.generation /\ r[q].key # nav.generation
      BY <1>2, <3>1 DEF OwnsInOrder, Screen!IsBusyOn
    <3>3. \A q \in Screen!ActiveIn(r) : r[q].key \in Int
      BY <1>2, SmallNumbers DEF Screen!ActiveIn, ScrOps
    <3>4. nav.generation \in Int
      BY <1>1, SmallNumbers DEF ScrNavs
    <3>5. QED
      BY <3>2, <3>3, <3>4
  <2>4. ScreenInOrder(ui', r, nav')
    BY <1>2, <2>1, <2>2, <2>3, Closes
  <2>5. nav' \in ScrNavs
    BY <2>2 DEF SameView
  <2>6. QED
    BY <1>1, <1>2, <1>6, <2>1, <2>4, <2>5, ScreenKept
<1>7. ASSUME Screen!ThisScreen(o), nav' = [nav EXCEPT !.shown = TRUE],
             NEW pick \in ScrModels, NEW seen \in BOOLEAN,
             NEW a, a = Screen!Applied(ui, o, pick, seen),
             IF a.next = "none" THEN ui' = a.ui /\ ops' = r
             ELSE Screen!Start(a.ui, r, a.next)
      PROVE  ScreenIInv'
  <2> HIDE DEF r
  <2>1. a.ui \in ScrUis /\ Applies(a.ui, o) /\ a.next \in Screen!Kinds \cup {"none"}
    BY <1>1, <1>7, AppliedResult DEF Result
  <2>2. /\ nav' \in ScrNavs /\ nav'.generation = nav.generation /\ nav'.alive = nav.alive
        /\ nav'.reused = nav.reused /\ nav'.routes = nav.routes
    BY <1>1, <1>7 DEF ScrNavs
  <2>3. a.ui.key = nav.generation
    BY <1>3, <1>7, <2>1 DEF Applies
  <2>4. VisitInOrder(a.ui, nav')
    <3>1. /\ nav.generation \in Int /\ 0 <= nav.generation
          /\ RoutesWithin(nav.routes, nav.generation)
      BY <1>1, SmallNumbers DEF ScrNavs, ScreenInOrder, VisitInOrder
    <3>2. QED
      BY <2>2, <2>3, <3>1 DEF VisitInOrder
  <2>5. a.ui.state = "Busy" => ui.state = "Busy" /\ a.ui.op = ui.op /\ ui.op # o
    BY <2>1 DEF Applies
  <2>6. WaitInOrder(a.ui, r, nav')
    BY <1>1, <1>2, <1>3, <1>7, <2>2, <2>3, <2>5 DEF ScreenInOrder, WaitInOrder
  <2>7. ASSUME ~nav.reused
        PROVE  /\ OwnsInOrder(a.ui, r, nav') /\ ModelInOrder(a.ui)
               /\ TaskInOrder(a.ui, r, nav')
    <3>1. /\ OwnsInOrder(ui, ops, nav) /\ ModelInOrder(ui) /\ TaskInOrder(ui, ops, nav)
          /\ Screen!IsBusyOn(ui, o)
      BY <1>1, <1>3, <1>7, <2>7 DEF ScreenInOrder
    <3>2. OwnsInOrder(a.ui, r, nav')
      BY <1>2, <2>2, <3>1 DEF OwnsInOrder, Screen!IsBusyOn
    <3>3. AboutModel(ops[o], ui.kind, ui.model)
      BY <1>3, <1>7, <3>1 DEF TaskInOrder, Screen!IsBusyOn
    <3>4. ModelInOrder(a.ui)
      BY <2>1, <3>1, <3>3 DEF Applies
    <3>5. TaskInOrder(a.ui, r, nav')
      BY <2>5, <3>1 DEF TaskInOrder, Screen!IsBusyOn
    <3>6. QED
      BY <3>2, <3>4, <3>5
  <2>8. ScreenInOrder(a.ui, r, nav')
    BY <1>2, <2>2, <2>4, <2>6, <2>7 DEF ScreenInOrder
  <2>9. CASE a.next = "none"
    BY <1>1, <1>2, <1>7, <2>1, <2>2, <2>8, <2>9, ScreenKept
  <2>10. CASE a.next # "none"
    <3>1. /\ ui' = Screen!StartOp(a.ui, r, a.next).ui
          /\ ops' = Screen!StartOp(a.ui, r, a.next).ops
      BY <1>7, <2>10 DEF Screen!Start
    <3>2. /\ ui' \in ScrUis /\ ops' \in [Screen!OpIds -> ScrOps]
          /\ ScreenInOrder(ui', ops', nav')
      BY <1>2, <2>1, <2>2, <2>8, <2>10, <3>1, StartKeeps
    <3>3. QED
      BY <1>1, <2>2, <3>2, ScreenKept
  <2>11. QED
    BY <2>9, <2>10
<1>8. CASE /\ Screen!ThisScreen(o) /\ nav' = [nav EXCEPT !.shown = TRUE]
           /\ \E pick \in Screen!Picks(ui, ops[o].listed), seen \in {store.cred} :
                 LET a == Screen!Applied(ui, o, pick, seen)
                 IN  IF a.next = "none" THEN ui' = a.ui /\ ops' = r
                     ELSE Screen!Start(a.ui, r, a.next)
  <2>1. store.cred \in BOOLEAN
    BY <1>1 DEF ScrStores
  <2> HIDE DEF r
  <2>2. PICK pick \in Screen!Picks(ui, ops[o].listed), seen \in {store.cred} :
           LET a == Screen!Applied(ui, o, pick, seen)
           IN  IF a.next = "none" THEN ui' = a.ui /\ ops' = r
               ELSE Screen!Start(a.ui, r, a.next)
    BY <1>8
  <2>3. pick \in ScrModels /\ seen \in BOOLEAN
    BY <2>1, <2>2, PicksTypes
  <2>4. QED
    BY <1>7, <1>8, <2>2, <2>3
<1>9. QED
  BY <1>4, <1>5, <1>6, <1>8, Zenon DEF Screen!TakeCompletion

-----------------------------------------------------------------------------
(* The keys.                                                               *)
LEMMA RouteNames == {"ModelSelection", "ProviderManagement"} \subseteq Screen!Routes
BY DEF Screen!Routes

LEMMA OpenModelSelectionKeeps ==
    ASSUME ScreenIInv, Screen!OpenModelSelection
    PROVE  ScreenIInv'
<1>1. /\ nav \in ScrNavs /\ store' \in ScrStores /\ ~nav.shown
      /\ nav' = Screen!Push(nav, "ModelSelection") /\ ui' = ui /\ ops' = ops
      /\ RoutesWithin(nav.routes, nav.generation) /\ Screen!MayPush("ModelSelection")
  BY DEF ScreenIInv, ScrTypes, ScreenInOrder, VisitInOrder, Screen!OpenModelSelection,
         Screen!Free, Screen!OnRoute
<1>2. SameView(nav', nav)
  BY <1>1, PushNav, RouteNames DEF Screen!MayPush
<1>3. QED
  BY <1>1, <1>2, Navigates

LEMMA LeaveModelSelectionKeeps ==
    ASSUME ScreenIInv, Screen!LeaveModelSelection
    PROVE  ScreenIInv'
<1>1. /\ nav \in ScrNavs /\ store' \in ScrStores /\ ~nav.shown
      /\ nav' = Screen!Pop(nav) /\ ui' = ui /\ ops' = ops
      /\ RoutesWithin(nav.routes, nav.generation)
  BY DEF ScreenIInv, ScrTypes, ScreenInOrder, VisitInOrder, Screen!LeaveModelSelection, Screen!OnRoute
<1>2. SameView(nav', nav)
  BY <1>1, PopNav
<1>3. QED
  BY <1>1, <1>2, Navigates

LEMMA SubmissionCompletesKeeps ==
    ASSUME ScreenIInv, Screen!SubmissionCompletes
    PROVE  ScreenIInv'
<1>1. /\ nav \in ScrNavs /\ store' \in ScrStores /\ ui' = ui /\ ops' = ops
      /\ nav' = [nav EXCEPT !.submitting = FALSE, !.shown = FALSE]
  BY DEF ScreenIInv, ScrTypes, Screen!SubmissionCompletes
<1>2. /\ nav' \in ScrNavs /\ ~nav'.shown /\ nav'.alive = nav.alive
      /\ nav'.reused = nav.reused /\ nav'.generation = nav.generation
      /\ nav'.routes = nav.routes
  BY <1>1 DEF ScrNavs
<1>3. ScreenInOrder(ui, ops, nav')
  BY <1>2 DEF ScreenIInv, ScreenInOrder, VisitInOrder, WaitInOrder, OwnsInOrder,
              TaskInOrder
<1>4. QED
  BY <1>1, <1>2, <1>3, ScreenKept DEF ScreenIInv, ScrTypes

(* The route and the visit of a screen that opens.                         *)
LEMMA OpenedNav ==
    ASSUME ScreenIInv, Screen!MayPush("ProviderManagement"),
           NEW n, n = Screen!Push(nav, "ProviderManagement"),
           nav' = [n EXCEPT !.shown = TRUE, !.reused = @ \/ Screen!Reuses(n)]
    PROVE  /\ n.generation \in ScrKeys /\ RoutesWithin(nav'.routes, nav'.generation)
           /\ nav' \in ScrNavs /\ nav'.generation = n.generation
           /\ nav'.alive = nav.alive
           /\ n.generation \in {nav.generation, nav.generation + 1}
           /\ nav'.reused <=> nav.reused \/ Screen!Reuses(nav')
<1> DEFINE b == n.reused \/ Screen!Reuses(n)
<1>1. SameView(n, nav)
  BY PushNav, RouteNames DEF ScreenIInv, ScrTypes, ScreenInOrder, VisitInOrder, Screen!MayPush
<1>2. b \in BOOLEAN /\ nav' = [n EXCEPT !.shown = TRUE, !.reused = b]
  BY DEF b
<1>3. n \in ScrNavs
  BY <1>1 DEF SameView
<1> HIDE DEF b
<1>4. /\ nav' \in ScrNavs /\ nav'.generation = n.generation /\ nav'.alive = n.alive
      /\ nav'.reused = b /\ nav'.routes = n.routes
  BY <1>2, <1>3 DEF ScrNavs
<1>5. Screen!Reuses(nav') <=> Screen!Reuses(n)
  BY <1>4 DEF Screen!Reuses
<1>6. b <=> nav.reused \/ Screen!Reuses(n)
  BY <1>1 DEF b, SameView
<1>7. n.generation \in ScrKeys
  BY <1>3, SmallNumbers DEF ScrNavs, ScreenIInv, ScrTypes
<1>8. QED
  BY <1>1, <1>4, <1>5, <1>6, <1>7 DEF SameView

LEMMA OpenProvidersKeeps ==
    ASSUME ScreenIInv, Screen!OpenProviders
    PROVE  ScreenIInv'
<1> DEFINE n == Screen!Push(nav, "ProviderManagement")
           g == n.generation
<1>1. /\ ui \in ScrUis /\ store \in ScrStores /\ store' = store /\ ops' = ops
      /\ ops \in [Screen!OpIds -> ScrOps]
      /\ nav' = [n EXCEPT !.shown = TRUE, !.reused = @ \/ Screen!Reuses(n)]
      /\ Screen!MayPush("ProviderManagement")
      /\ ui' = [Screen!Closed EXCEPT !.state = "Browse", !.key = g,
                    !.expected = store.number, !.saved = store.cred,
                    !.candidate = ui.candidate, !.pending = ui.pending,
                    !.revalidating = ui.revalidating, !.checkpoint = ui.checkpoint]
  BY DEF ScreenIInv, ScrTypes, Screen!OpenProviders
<1>0. n = Screen!Push(nav, "ProviderManagement") /\ g = n.generation
  OBVIOUS
<1> HIDE DEF n, g
<1>2. /\ g \in ScrKeys /\ nav' \in ScrNavs /\ nav'.generation = g
      /\ RoutesWithin(nav'.routes, nav'.generation)
      /\ nav'.alive = nav.alive /\ g \in {nav.generation, nav.generation + 1}
      /\ nav'.reused <=> nav.reused \/ Screen!Reuses(nav')
  BY <1>0, <1>1, OpenedNav, Zenon
<1> DEFINE a == [Screen!Closed EXCEPT !.state = "Browse", !.key = g]
           b == [a EXCEPT !.expected = store.number, !.saved = store.cred]
           c == [b EXCEPT !.candidate = ui.candidate, !.pending = ui.pending]
<1>3. ui' = [c EXCEPT !.revalidating = ui.revalidating, !.checkpoint = ui.checkpoint]
  BY <1>1
<1>4. a \in ScrUis /\ a.state = "Browse" /\ a.key = g /\ a.step = "Provider"
  BY <1>2, ClosedScreen DEF ScrUis, Screen!Screens
<1> HIDE DEF a
<1>5. b \in ScrUis /\ b.state = "Browse" /\ b.key = g /\ b.step = "Provider"
  BY <1>1, <1>4, SmallNumbers DEF ScrUis, ScrStores
<1> HIDE DEF b
<1>6. c \in ScrUis /\ c.state = "Browse" /\ c.key = g /\ c.step = "Provider"
  BY <1>1, <1>5 DEF ScrUis
<1> HIDE DEF c
<1>7. ui' \in ScrUis /\ ui'.state = "Browse" /\ ui'.key = g /\ ui'.step = "Provider"
  BY <1>1, <1>3, <1>6 DEF ScrUis
<1>8. ScreenInOrder(ui', ops, nav')
  BY <1>2, <1>7, Opens
<1>9. QED
  BY <1>1, <1>2, <1>7, <1>8, ScreenKept

LEMMA OpenSetupKeeps ==
    ASSUME ScreenIInv, Screen!OpenSetup
    PROVE  ScreenIInv'
<1> DEFINE n == Screen!Push(nav, "ProviderManagement")
           g == n.generation
           u == [Screen!Closed EXCEPT !.state = "Edit", !.step = "Authentication",
                    !.key = g, !.expected = store.number,
                    !.saved = store.cred, !.candidate = ui.candidate,
                    !.pending = ui.pending, !.checkpoint = TRUE]
<1>1. /\ ui \in ScrUis /\ store \in ScrStores /\ store' = store
      /\ ops \in [Screen!OpIds -> ScrOps]
      /\ nav' = [n EXCEPT !.shown = TRUE, !.reused = @ \/ Screen!Reuses(n)]
      /\ Screen!MayPush("ProviderManagement")
      /\ \/ (\E x \in {"key", "oauth"} : ui' = [u EXCEPT !.auth = x]) /\ ops' = ops
         \/ /\ ui' = [u EXCEPT !.auth = store.auth, !.profile = TRUE, !.model = store.model]
            /\ ops' = ops
         \/ Screen!Start([u EXCEPT !.auth = store.auth, !.profile = TRUE,
                             !.model = store.model, !.step = "Model",
                             !.revalidating = TRUE], ops, "discover")
  BY DEF ScreenIInv, ScrTypes, Screen!OpenSetup
<1>0. n = Screen!Push(nav, "ProviderManagement") /\ g = n.generation
  OBVIOUS
<1> HIDE DEF n, g
<1>2. /\ g \in ScrKeys /\ nav' \in ScrNavs /\ nav'.generation = g
      /\ RoutesWithin(nav'.routes, nav'.generation)
      /\ nav'.alive = nav.alive /\ g \in {nav.generation, nav.generation + 1}
      /\ nav'.reused <=> nav.reused \/ Screen!Reuses(nav')
  BY <1>0, <1>1, OpenedNav, Zenon
<1>3. /\ u \in ScrUis /\ u.state = "Edit" /\ u.key = g /\ u.step = "Authentication"
  <2> DEFINE a == [Screen!Closed EXCEPT !.state = "Edit", !.step = "Authentication"]
             b == [a EXCEPT !.key = g, !.expected = store.number]
             c == [b EXCEPT !.saved = store.cred, !.candidate = ui.candidate]
  <2>1. u = [c EXCEPT !.pending = ui.pending, !.checkpoint = TRUE]
    OBVIOUS
  <2>2. a \in ScrUis /\ a.state = "Edit" /\ a.step = "Authentication"
    BY ClosedScreen, StepsFollow DEF ScrUis, Screen!Screens
  <2> HIDE DEF a
  <2>3. b \in ScrUis /\ b.state = "Edit" /\ b.step = "Authentication" /\ b.key = g
    BY <1>1, <1>2, <2>2, SmallNumbers DEF ScrUis, ScrStores
  <2> HIDE DEF b
  <2>4. c \in ScrUis /\ c.state = "Edit" /\ c.step = "Authentication" /\ c.key = g
    BY <1>1, <2>3 DEF ScrUis, ScrStores
  <2> HIDE DEF c, u
  <2>5. QED
    BY <1>1, <2>1, <2>4 DEF ScrUis
<1> HIDE DEF u
<1>4. ASSUME NEW v \in ScrUis, v.state = "Edit", v.key = g, v.step # "SaveActivate"
      PROVE  ScreenInOrder(v, ops, nav')
  BY <1>2, <1>4, Opens
<1>5. ASSUME NEW x \in {"key", "oauth"}, ui' = [u EXCEPT !.auth = x], ops' = ops
      PROVE  ScreenIInv'
  <2>1. ui' \in ScrUis /\ ui'.state = "Edit" /\ ui'.key = g /\ ui'.step = "Authentication"
    BY <1>3, <1>5 DEF ScrUis, Screen!Auths
  <2>2. QED
    BY <1>1, <1>2, <1>4, <1>5, <2>1, ScreenKept
<1> DEFINE w == [u EXCEPT !.auth = store.auth, !.profile = TRUE, !.model = store.model]
<1>6. w \in ScrUis /\ w.state = "Edit" /\ w.key = g /\ w.step = "Authentication"
  BY <1>1, <1>3 DEF ScrUis, ScrStores
<1>7. CASE ui' = w /\ ops' = ops
  BY <1>1, <1>2, <1>4, <1>6, <1>7, ScreenKept
<1>8. CASE Screen!Start([u EXCEPT !.auth = store.auth, !.profile = TRUE,
                           !.model = store.model, !.step = "Model",
                           !.revalidating = TRUE], ops, "discover")
  <2> DEFINE v == [w EXCEPT !.step = "Model", !.revalidating = TRUE]
  <2>1. /\ ui' = Screen!StartOp(v, ops, "discover").ui
        /\ ops' = Screen!StartOp(v, ops, "discover").ops
    BY <1>8 DEF Screen!Start
  <2> HIDE DEF w
  <2>2. v \in ScrUis /\ v.state = "Edit" /\ v.key = g /\ v.step = "Model"
    BY <1>6, StepsFollow DEF ScrUis
  <2> HIDE DEF v
  <2>3. ScreenInOrder(v, ops, nav') /\ "discover" \in Screen!Kinds
    BY <1>4, <2>2 DEF Screen!Kinds
  <2>4. /\ ui' \in ScrUis /\ ops' \in [Screen!OpIds -> ScrOps]
        /\ ScreenInOrder(ui', ops', nav')
    BY <1>1, <1>2, <2>1, <2>2, <2>3, StartKeeps
  <2>5. QED
    BY <1>1, <1>2, <2>4, ScreenKept
<1>9. QED
  BY <1>1, <1>5, <1>7, <1>8

LEMMA StartDraftKeeps ==
    ASSUME ScreenIInv, Screen!StartDraft
    PROVE  ScreenIInv'
<1> DEFINE a == [ui EXCEPT !.state = "Edit", !.step = "Provider", !.profile = FALSE]
<1>1. /\ ui \in ScrUis /\ ui.state = "Browse" /\ store' \in ScrStores /\ nav' \in ScrNavs
      /\ ops' \in [Screen!OpIds -> ScrOps] /\ ops' = ops /\ nav' = nav
      /\ ui' = [a EXCEPT !.auth = "none", !.model = Screen!NoModel, !.listed = {}]
  BY DEF ScreenIInv, ScrTypes, Screen!StartDraft
<1>2. a \in ScrUis /\ a.state = "Edit" /\ a.step = "Provider" /\ a.key = ui.key
  BY <1>1, StepsFollow DEF ScrUis, Screen!Screens
<1> HIDE DEF a
<1>3. "none" \in Screen!Auths /\ Screen!NoModel \in ScrModels
  BY DEF Screen!Auths, ScrModels
<1>4. ui' \in ScrUis /\ ui'.state = "Edit" /\ ui'.step = "Provider" /\ ui'.key = ui.key
  BY <1>1, <1>2, <1>3 DEF ScrUis
<1>5. ModelInOrder(ui')
  BY <1>4 DEF ModelInOrder
<1>6. ScreenInOrder(ui', ops, nav)
  BY <1>1, <1>4, <1>5, Edits
<1>7. QED
  BY <1>1, <1>4, <1>6, ScreenKept

LEMMA SelectProviderKeeps ==
    ASSUME ScreenIInv, Screen!SelectProvider
    PROVE  ScreenIInv'
<1>1. /\ ui \in ScrUis /\ ui.state = "Edit" /\ ui.step = "Provider"
      /\ store' \in ScrStores /\ nav' \in ScrNavs
      /\ ops' \in [Screen!OpIds -> ScrOps] /\ ops' = ops /\ nav' = nav
      /\ \E x \in {"key", "oauth"} :
            ui' = Screen!Advance([ui EXCEPT !.auth = x, !.model = Screen!NoModel, !.listed = {}])
  BY DEF ScreenIInv, ScrTypes, Screen!SelectProvider
<1>2. PICK x \in {"key", "oauth"} :
         ui' = Screen!Advance([ui EXCEPT !.auth = x, !.model = Screen!NoModel, !.listed = {}])
  BY <1>1
<1> DEFINE u == [ui EXCEPT !.auth = x, !.model = Screen!NoModel, !.listed = {}]
<1>3. ui' = Screen!Advance(u)
  BY <1>2
<1>4. x \in Screen!Auths /\ Screen!NoModel \in ScrModels
  BY DEF Screen!Auths, ScrModels
<1>5. u \in ScrUis /\ u.state = "Edit" /\ u.step = "Provider" /\ u.key = ui.key
  BY <1>1, <1>4 DEF ScrUis
<1> HIDE DEF u
<1>6. ui' \in ScrUis /\ ui'.state = "Edit" /\ ui'.key = ui.key /\ ui'.step # "SaveActivate"
  BY <1>3, <1>5, AdvanceScreen DEF SameSubject
<1>7. ModelInOrder(ui')
  BY <1>6 DEF ModelInOrder
<1>8. ScreenInOrder(ui', ops, nav)
  BY <1>1, <1>6, <1>7, Edits
<1>9. QED
  BY <1>1, <1>6, <1>8, ScreenKept

(* Typing at a step that is not the last.                                  *)
LEMMA TypingKeeps ==
    ASSUME ScreenIInv, Screen!TypeSecret \/ Screen!ChooseModel
    PROVE  ScreenIInv'
<1>1. /\ ui \in ScrUis /\ ui.state = "Edit" /\ ui.step # "SaveActivate"
      /\ store' \in ScrStores /\ nav' \in ScrNavs
      /\ ops' \in [Screen!OpIds -> ScrOps] /\ ops' = ops /\ nav' = nav
      /\ \/ ui' = [ui EXCEPT !.secret = TRUE]
         \/ \E m \in ui.listed \cup {Screen!NoModel} : ui' = [ui EXCEPT !.model = m]
  BY DEF ScreenIInv, ScrTypes, Screen!TypeSecret, Screen!ChooseModel
<1>2. ui.listed \cup {Screen!NoModel} \subseteq ScrModels
  BY <1>1 DEF ScrUis, ScrModels
<1>3. /\ ui' \in ScrUis /\ ui'.state = "Edit" /\ ui'.key = ui.key
      /\ ui'.step # "SaveActivate"
  <2>1. CASE ui' = [ui EXCEPT !.secret = TRUE]
    BY <1>1, <2>1 DEF ScrUis
  <2>2. ASSUME NEW m \in ScrModels, ui' = [ui EXCEPT !.model = m]
        PROVE  /\ ui' \in ScrUis /\ ui'.state = "Edit" /\ ui'.key = ui.key
               /\ ui'.step # "SaveActivate"
    BY <1>1, <2>2 DEF ScrUis
  <2>3. QED
    BY <1>1, <1>2, <2>1, <2>2
<1>4. ModelInOrder(ui')
  BY <1>3 DEF ModelInOrder
<1>5. ScreenInOrder(ui', ops, nav)
  BY <1>1, <1>3, <1>4, Edits
<1>6. QED
  BY <1>1, <1>3, <1>5, ScreenKept

(* A key that starts an operation, on a screen that waits for nothing.     *)
LEMMA PressKeeps ==
    ASSUME ScreenIInv, NEW u \in ScrUis, NEW kind \in Screen!Kinds,
           ScreenInOrder(u, ops, nav), Screen!Start(u, ops, kind), UNCHANGED <<nav, store>>
    PROVE  ScreenIInv'
<1>1. /\ nav' = nav /\ nav \in ScrNavs /\ store' \in ScrStores
      /\ ops \in [Screen!OpIds -> ScrOps]
      /\ ui' = Screen!StartOp(u, ops, kind).ui /\ ops' = Screen!StartOp(u, ops, kind).ops
  BY DEF ScreenIInv, ScrTypes, Screen!Start
<1>2. /\ ui' \in ScrUis /\ ops' \in [Screen!OpIds -> ScrOps]
      /\ ScreenInOrder(ui', ops', nav)
  BY <1>1, StartKeeps
<1>3. QED
  BY <1>1, <1>2, ScreenKept

LEMMA PressStartKeeps ==
    ASSUME ScreenIInv, Screen!PressStart
    PROVE  ScreenIInv'
<1>1. Screen!KeyKinds(ui) \subseteq Screen!Kinds
  BY DEF Screen!KeyKinds, Screen!Kinds
<1>2. PICK kind \in Screen!Kinds : Screen!Start(ui, ops, kind)
  BY <1>1 DEF Screen!PressStart
<1>3. UNCHANGED <<nav, store>> /\ ui \in ScrUis /\ ScreenInOrder(ui, ops, nav)
  BY DEF ScreenIInv, ScrTypes, Screen!PressStart
<1>4. QED
  BY <1>2, <1>3, PressKeeps

LEMMA PressActivateKeeps ==
    ASSUME ScreenIInv, Screen!PressActivate
    PROVE  ScreenIInv'
<1> DEFINE u == Screen!Confirm(ui)
<1>1. /\ UNCHANGED <<nav, store>> /\ ui \in ScrUis /\ ui.state = "Edit"
      /\ ui.step = "SaveActivate" /\ Screen!Start(u, ops, "activate")
      /\ "activate" \in Screen!Kinds
  BY DEF ScreenIInv, ScrTypes, Screen!PressActivate, Screen!Kinds
<1>2. /\ u \in ScrUis /\ SameSubject(u, ui) /\ u.step = ui.step
      /\ u = ui \/ u.state = "Confirm"
  BY <1>1, ConfirmScreen
<1> HIDE DEF u
<1>3. ModelInOrder(ui) => ModelInOrder(u)
  BY <1>1, <1>2 DEF ModelInOrder, SameSubject
<1>4. ScreenInOrder(u, ops, nav)
  BY <1>1, <1>2, <1>3, Edits DEF SameSubject
<1>5. QED
  BY <1>1, <1>2, <1>4, PressKeeps

(* From a result back to the form.                                         *)
LEMMA BackToEdit ==
    ASSUME ScreenIInv, ui.state = "Result"
    PROVE  /\ Screen!ToEdit(ui) \in ScrUis
           /\ ScreenInOrder(Screen!ToEdit(ui), ops, nav)
<1> DEFINE u == Screen!ToEdit(ui)
<1>1. ui \in ScrUis
  BY DEF ScreenIInv, ScrTypes
<1>2. u = Screen!Editing(ui)
  BY DEF Screen!ToEdit
<1>3. u \in ScrUis /\ u.state = "Edit" /\ SameSubject(u, ui) /\ u.step = ui.step
  BY <1>1, <1>2, EditingScreen
<1> HIDE DEF u
<1>4. ModelInOrder(ui) => ModelInOrder(u)
  BY <1>3 DEF ModelInOrder, SameSubject
<1>5. ScreenInOrder(u, ops, nav)
  BY <1>3, <1>4, Edits DEF SameSubject
<1>6. QED
  BY <1>3, <1>5 DEF u

LEMMA PressEnterOnResultKeeps ==
    ASSUME ScreenIInv, Screen!PressEnterOnResult
    PROVE  ScreenIInv'
<1>1. /\ ui.state = "Result" /\ ui' = Screen!ToEdit(ui) /\ ops' = ops /\ nav' = nav
      /\ ops' \in [Screen!OpIds -> ScrOps] /\ nav' \in ScrNavs /\ store' \in ScrStores
  BY DEF ScreenIInv, ScrTypes, Screen!PressEnterOnResult
<1>2. ui' \in ScrUis /\ ScreenInOrder(ui', ops, nav)
  BY <1>1, BackToEdit
<1>3. QED
  BY <1>1, <1>2, ScreenKept

LEMMA PressRetryKeeps ==
    ASSUME ScreenIInv, Screen!PressRetry
    PROVE  ScreenIInv'
<1>1. /\ ui.state = "Result" /\ UNCHANGED <<nav, store>> /\ ui.kind \in Screen!Kinds
      /\ Screen!Start(Screen!ToEdit(ui), ops, ui.kind)
  BY DEF ScreenIInv, ScrTypes, ScrUis, Screen!PressRetry
<1>2. Screen!ToEdit(ui) \in ScrUis /\ ScreenInOrder(Screen!ToEdit(ui), ops, nav)
  BY <1>1, BackToEdit
<1>3. QED
  BY <1>1, <1>2, PressKeeps

LEMMA PressCancelKeeps ==
    ASSUME ScreenIInv, Screen!PressCancel
    PROVE  ScreenIInv'
<1> DEFINE o == ui.op
           e == Screen!Editing(ui)
           p == IF e.pending = o THEN Screen!NoOp ELSE e.pending
           u == [e EXCEPT !.pending = p]
           t == IF ops[o].pc \in Screen!Inside
                  THEN [ops[o] EXCEPT !.cancelled = TRUE, !.attempts = 0, !.key = Screen!NoKey]
                  ELSE Screen!NoOperation
<1>1. /\ ui \in ScrUis /\ ops \in [Screen!OpIds -> ScrOps] /\ nav \in ScrNavs
      /\ store' \in ScrStores /\ nav' = nav /\ ScreenInOrder(ui, ops, nav)
      /\ nav.alive /\ nav.shown /\ ui.state = "Busy" /\ ui.kind \notin {"activate", "save"}
      /\ ui' = u /\ ops' = [ops EXCEPT ![o] = t]
  BY DEF ScreenIInv, ScrTypes, Screen!PressCancel, Screen!Shown, Screen!CancelIn
<1>2. /\ e \in ScrUis /\ e.state = "Edit" /\ e.key = ui.key /\ e.step = ui.step
      /\ e.candidate = ui.candidate
  BY <1>1, EditingScreen DEF SameSubject
<1> HIDE DEF e
<1>3. p \in ScrIds
  BY <1>2 DEF ScrUis, ScrIds
<1> HIDE DEF p
<1>4. /\ u \in ScrUis /\ u.state = "Edit" /\ u.key = ui.key /\ u.candidate = ui.candidate
  BY <1>2, <1>3 DEF ScrUis
<1> HIDE DEF u
<1>5. ui.key = nav.generation /\ o \in Screen!OpIds
  BY <1>1 DEF ScreenInOrder, VisitInOrder, WaitInOrder, Screen!ActiveIn
<1>6. /\ t \in ScrOps
      /\ t.pc \in Screen!Inside => t.cancelled /\ ops[o].pc \in Screen!Inside
      /\ t.cancelled => t.pc \in Screen!Inside /\ t.key = Screen!NoKey
      /\ ~t.cancelled => t.pc = "none"
  <2>1. CASE ops[o].pc \in Screen!Inside
    <3> DEFINE a == ops[o]
               b == [a EXCEPT !.cancelled = TRUE, !.attempts = 0]
    <3>1. t = [b EXCEPT !.key = Screen!NoKey]
      BY <2>1
    <3>2. a \in ScrOps /\ a.pc \in Screen!Inside
      BY <1>1, <1>5, <2>1
    <3> HIDE DEF a
    <3>3. b \in ScrOps /\ b.cancelled /\ b.pc = a.pc
      <4> DEFINE d == [a EXCEPT !.cancelled = TRUE]
      <4>1. d \in ScrOps /\ d.cancelled /\ d.pc = a.pc
        BY <3>2 DEF ScrOps
      <4>2. b = [d EXCEPT !.attempts = 0]
        OBVIOUS
      <4> HIDE DEF d, b
      <4>3. QED
        BY <4>1, <4>2, SmallNumbers DEF ScrOps
    <3> HIDE DEF b, t
    <3>4. t \in ScrOps /\ t.cancelled /\ t.pc = a.pc /\ t.key = Screen!NoKey
      BY <3>1, <3>3, SmallNumbers DEF ScrOps, Screen!NoKey
    <3>5. QED
      BY <3>2, <3>4 DEF a
  <2>2. CASE ops[o].pc \notin Screen!Inside
    BY <2>2, IdleOperation DEF Screen!Inside
  <2>3. QED
    BY <2>1, <2>2
<1> HIDE DEF t
<1>7. /\ ops' \in [Screen!OpIds -> ScrOps] /\ ops'[o] = t
      /\ \A q \in Screen!OpIds : q # o => ops'[q] = ops[q]
  BY <1>1, <1>5, <1>6
<1>8. RegistryInOrder(ops')
  <2>1. RegistryInOrder(ops)
    BY <1>1 DEF ScreenInOrder
  <2>2. QED
    BY <1>5, <1>6, <1>7, <2>1 DEF RegistryInOrder
<1>9. \A q \in Screen!ActiveIn(ops') :
         q \in Screen!ActiveIn(ops) /\ q # o /\ ops'[q] = ops[q]
  BY <1>6, <1>7 DEF Screen!ActiveIn, Screen!InRegistry
<1>10. VisitInOrder(u, nav) /\ WaitInOrder(u, ops', nav) /\ TaskInOrder(u, ops', nav)
  BY <1>1, <1>4, <1>5 DEF ScreenInOrder, VisitInOrder, WaitInOrder, TaskInOrder
<1>11. ASSUME ~nav.reused PROVE OwnsInOrder(u, ops', nav) /\ ModelInOrder(u)
  <2>1. OwnsInOrder(ui, ops, nav) /\ ModelInOrder(ui)
    BY <1>1, <1>11 DEF ScreenInOrder
  <2>2. OwnsInOrder(u, ops', nav)
    BY <1>9, <2>1 DEF OwnsInOrder
  <2>3. ModelInOrder(u)
    BY <1>1, <1>4, <2>1 DEF ModelInOrder
  <2>4. QED
    BY <2>2, <2>3
<1>12. ScreenInOrder(u, ops', nav)
  BY <1>8, <1>10, <1>11 DEF ScreenInOrder
<1>13. QED
  BY <1>1, <1>4, <1>7, <1>12, ScreenKept

LEMMA PressCloseKeeps ==
    ASSUME ScreenIInv, Screen!PressClose
    PROVE  ScreenIInv'
<1>1. /\ ops \in [Screen!OpIds -> ScrOps] /\ nav \in ScrNavs /\ store' \in ScrStores
      /\ ops' = ops /\ Screen!ActiveIn(ops) = {} /\ ui' = Screen!Closed
      /\ nav' = Screen!Pop([nav EXCEPT !.shown = FALSE]) /\ RegistryInOrder(ops)
      /\ RoutesWithin(nav.routes, nav.generation)
  BY DEF ScreenIInv, ScrTypes, ScreenInOrder, VisitInOrder, Screen!PressClose
<1>2. SameView(nav', [nav EXCEPT !.shown = FALSE])
  BY <1>1, HiddenNav
<1>3. /\ ui' \in ScrUis /\ ui'.state = "Closed" /\ ui'.key = -1 /\ ui'.step = "Provider"
  BY <1>1, ClosedScreen
<1>4. ScreenInOrder(ui', ops, nav')
  BY <1>1, <1>2, <1>3, Closes
<1>5. nav' \in ScrNavs
  BY <1>2 DEF SameView
<1>6. QED
  BY <1>1, <1>3, <1>4, <1>5, ScreenKept

LEMMA KeysKeep ==
    ASSUME ScreenIInv, Screen!Keys
    PROVE  ScreenIInv'
BY OpenModelSelectionKeeps, LeaveModelSelectionKeeps, OpenProvidersKeeps, OpenSetupKeeps,
   StartDraftKeeps, SelectProviderKeeps, TypingKeeps, PressStartKeeps, PressActivateKeeps,
   PressEnterOnResultKeeps, PressRetryKeeps, PressCancelKeeps, PressCloseKeeps
   DEF Screen!Keys

LEMMA OperationKeeps ==
    ASSUME ScreenIInv, NEW o \in Screen!OpIds,
           Screen!Working(o) \/ Screen!Registry(o)
    PROVE  ScreenIInv'
<1>1. CASE Screen!Working(o)
  BY <1>1, AttemptKeeps, DiscoverKeeps, LoadForValidationKeeps, ValidateRevisionKeeps,
     RecheckRevisionKeeps, ActivateCandidateKeeps, SaveDraftKeeps, SaveCredentialKeeps,
     OAuthCallKeeps DEF Screen!Working
<1>2. CASE Screen!Registry(o)
  BY <1>2, AcquireKeeps, DropOperationKeeps, TakeCompletionKeeps DEF Screen!Registry
<1>3. QED
  BY <1>1, <1>2

LEMMA ScreenStep == ScreenIInv /\ [Screen!Next]_screenVars => ScreenIInv'
<1> SUFFICES ASSUME ScreenIInv, [Screen!Next]_screenVars
             PROVE  ScreenIInv'
  OBVIOUS
<1>1. CASE UNCHANGED screenVars
  BY <1>1 DEF screenVars, ScreenIInv, ScrTypes
<1>2. CASE Screen!Next
  BY <1>2, KeysKeep, OperationKeeps, ElsewhereKeeps, SubmissionCompletesKeeps
     DEF Screen!Next
<1>3. QED
  BY <1>1, <1>2

LEMMA ScreenInit == Screen!Init => ScreenIInv
<1> SUFFICES ASSUME Screen!Init PROVE ScreenIInv
  OBVIOUS
<1> DEFINE t == Screen!NoOperation
<1>1. t \in ScrOps /\ t.pc = "none" /\ ~t.cancelled
  BY IdleOperation
<1>2. ops = [o \in Screen!OpIds |-> t]
  BY DEF Screen!Init
<1> HIDE DEF t
<1>3. /\ ui = Screen!Closed /\ nav.generation = 0 /\ ~nav.shown
      /\ nav = [routes |-> <<"Timeline">>, generation |-> 0, shown |-> FALSE,
                submitting |-> TRUE, reused |-> FALSE, alive |-> TRUE]
  BY DEF Screen!Init
<1>4. nav \in ScrNavs
  BY <1>3, SmallNumbers DEF ScrNavs, Screen!Routes
<1>5. store \in ScrStores
  <2>1. PICK m \in Models, had \in BOOLEAN, kind \in {"key", "oauth"} :
           store = [rev |-> IF had THEN 1 ELSE 0,
                    model |-> IF had THEN m ELSE Screen!NoModel,
                    auth |-> IF had THEN kind ELSE "none",
                    cred |-> had, ready |-> 0, number |-> 0,
                    active |-> Screen!NoModel, other |-> FALSE]
    BY DEF Screen!Init
  <2>2. QED
    BY <2>1, SmallNumbers DEF ScrStores, ScrModels, Screen!Auths
<1>6. /\ ui \in ScrUis /\ ui.state = "Closed" /\ ui.key = -1 /\ ui.step = "Provider"
  BY <1>3, ClosedScreen
<1>7. /\ ops \in [Screen!OpIds -> ScrOps]
      /\ \A o \in Screen!OpIds : ops[o].pc = "none" /\ ~ops[o].cancelled
  BY <1>1, <1>2
<1>8. RegistryInOrder(ops) /\ OwnsInOrder(ui, ops, nav)
  BY <1>7 DEF RegistryInOrder, OwnsInOrder, Screen!ActiveIn, Screen!InRegistry,
              Screen!Inside
<1>9. /\ VisitInOrder(ui, nav) /\ WaitInOrder(ui, ops, nav) /\ ModelInOrder(ui)
      /\ TaskInOrder(ui, ops, nav)
  BY <1>3, <1>6, ScreenAssumption DEF VisitInOrder, RoutesWithin, WaitInOrder, ModelInOrder,
     TaskInOrder
<1>10. QED
  BY <1>4, <1>5, <1>6, <1>7, <1>8, <1>9 DEF ScreenIInv, ScrTypes, ScreenInOrder

ScreenInv == part = "screen" => ScreenIInv

LEMMA ScreenInvariant == Spec => []ScreenInv
<1>1. Init => ScreenInv
  BY ScreenInit DEF Init, ScreenInv
<1>2. ScreenInv /\ [Next]_allVars => ScreenInv'
  BY PartStep, ScreenStep DEF ScreenInv
<1>3. QED
  BY <1>1, <1>2, PTL DEF Spec

(* The gate lets one operation at a time into the service, and the next    *)
(* when it has come out, also when the one inside was cancelled long ago   *)
(* (AsyncOperationRegistry: the permit is held by the task).               *)
THEOREM OneOperationInside == Spec => []OneInside
<1>1. ScreenInv => OneInside
  BY DEF ScreenInv, ScreenIInv, ScreenInOrder, RegistryInOrder, OneInside, Screen!OneInside
<1>2. QED
  BY <1>1, ScreenInvariant, PTL

(* A screen that is shown waits for an operation exactly as long as it     *)
(* runs: its result will be taken to this screen, and what runs for this   *)
(* screen is what Esc cancels (start_provider_operation,                   *)
(* take_provider_completion, cancel_provider_operation).                   *)
THEOREM ScreenWaitsForWhatRuns == Spec => []BusyIffActive
<1>1. ScreenInv => BusyIffActive
  <2> SUFFICES ASSUME ScreenIInv PROVE Screen!BusyIsActive /\ Screen!ActiveIsBusy
    BY DEF ScreenInv, BusyIffActive
  <2>1. /\ VisitInOrder(ui, nav) /\ WaitInOrder(ui, ops, nav)
        /\ nav.alive /\ ~nav.reused => OwnsInOrder(ui, ops, nav)
    BY DEF ScreenIInv, ScreenInOrder
  <2>2. Screen!BusyIsActive
    BY <2>1 DEF Screen!BusyIsActive, Screen!Shown, Screen!RouteKey, VisitInOrder, WaitInOrder
  <2>3. Screen!ActiveIsBusy
    BY <2>1 DEF Screen!ActiveIsBusy, Screen!Shown, Screen!RouteKey, OwnsInOrder
  <2>4. QED
    BY <2>2, <2>3
<1>2. QED
  BY <1>1, ScreenInvariant, PTL

-----------------------------------------------------------------------------
(* What a step makes active.                                               *)
Activates ==
    /\ store'.number # store.number /\ Screen!Shown /\ ~nav.reused
    /\ \E o \in Screen!OpIds : /\ ops[o].kind = "activate" /\ ops[o].pc = "running"
                               /\ ops[o].key = Screen!RouteKey

LEMMA NumberStays ==
    ASSUME ScreenIInv, [Screen!Next]_screenVars,
           \A o \in Screen!OpIds : ~Screen!ActivateCandidate(o)
    PROVE  store'.number = store.number
<1>0. store \in ScrStores
  BY DEF ScreenIInv, ScrTypes
<1>1. CASE store' = store
  BY <1>1
<1>2. ASSUME NEW o \in Screen!OpIds, Screen!ValidateRevision(o)
      PROVE  store'.number = store.number
  <2>1. store' = store \/ store' = [store EXCEPT !.ready = store.rev]
    BY <1>2 DEF Screen!ValidateRevision
  <2>2. QED
    BY <1>0, <2>1 DEF ScrStores
<1>3. ASSUME NEW o \in Screen!OpIds, Screen!SaveDraft(o)
      PROVE  store'.number = store.number
  <2> DEFINE n == store.rev + 1
             x == IF ops[o].profile THEN store.auth ELSE ui.auth
             m == ops[o].model
  <2>1. store' = store \/ store' = [store EXCEPT !.rev = n, !.model = m, !.auth = x]
    BY <1>3 DEF Screen!SaveDraft
  <2> HIDE DEF n, x, m
  <2>2. QED
    BY <1>0, <2>1 DEF ScrStores
<1>4. ASSUME NEW o \in Screen!OpIds, Screen!SaveCredential(o) \/ Screen!OAuthCall(o)
      PROVE  store'.number = store.number
  <2>1. \/ store' = store
        \/ store.rev < MaxRevision /\ store' = [store EXCEPT !.rev = @ + 1, !.cred = TRUE]
    BY <1>4 DEF Screen!SaveCredential, Screen!OAuthCall
  <2>2. QED
    BY <2>1, CredentialStored
<1>5. CASE Screen!Elsewhere
  BY <1>5, ElsewhereKeeps
<1>6. CASE Screen!Keys
  <2>1. store' = store
    BY <1>6 DEF Screen!Keys, Screen!OpenModelSelection, Screen!LeaveModelSelection,
       Screen!OpenProviders, Screen!OpenSetup, Screen!StartDraft, Screen!SelectProvider,
       Screen!TypeSecret, Screen!ChooseModel, Screen!PressStart, Screen!PressActivate,
       Screen!PressEnterOnResult, Screen!PressRetry, Screen!PressCancel, Screen!PressClose
  <2>2. QED
    BY <2>1
<1>7. ASSUME NEW o \in Screen!OpIds, Screen!Working(o) \/ Screen!Registry(o)
      PROVE  store'.number = store.number
  <2>1. \/ store' = store \/ Screen!ValidateRevision(o) \/ Screen!SaveDraft(o)
        \/ Screen!SaveCredential(o) \/ Screen!OAuthCall(o)
    BY <1>7 DEF Screen!Working, Screen!Registry, Screen!Attempt, Screen!Discover,
       Screen!LoadForValidation, Screen!RecheckRevision, Screen!Acquire,
       Screen!DropOperation, Screen!TakeCompletion
  <2>2. QED
    BY <1>2, <1>3, <1>4, <2>1
<1>8. CASE Screen!SubmissionCompletes \/ UNCHANGED screenVars
  BY <1>8 DEF Screen!SubmissionCompletes, screenVars
<1>9. QED
  BY <1>5, <1>6, <1>7, <1>8 DEF Screen!Next

LEMMA ActivationStep ==
    ASSUME ScreenIInv, [Screen!Next]_screenVars, Activates
    PROVE  store'.active = ui.model
<1>1. PICK o \in Screen!OpIds : Screen!ActivateCandidate(o)
  BY NumberStays DEF Activates
<1>2. /\ RegistryInOrder(ops) /\ VisitInOrder(ui, nav) /\ store \in ScrStores
      /\ OwnsInOrder(ui, ops, nav) /\ TaskInOrder(ui, ops, nav)
      /\ nav.shown /\ nav.alive
  BY DEF ScreenIInv, ScrTypes, ScreenInOrder, Activates, Screen!Shown
<1>3. ops[o].pc = "running" /\ ops[o].key = nav.generation
  <2>1. PICK q \in Screen!OpIds : ops[q].pc = "running" /\ ops[q].key = Screen!RouteKey
    BY DEF Activates
  <2>2. ops[o].pc = "running"
    BY <1>1 DEF Screen!ActivateCandidate
  <2>3. o = q
    BY <1>2, <2>1, <2>2 DEF RegistryInOrder, Screen!Inside
  <2>4. QED
    BY <2>1, <2>3 DEF Screen!RouteKey
<1>4. o \in Screen!ActiveIn(ops)
  BY <1>2, <1>3 DEF RegistryInOrder, VisitInOrder, Screen!NoKey, Screen!ActiveIn,
                    Screen!InRegistry
<1>5. ui.state = "Busy" /\ ui.op = o /\ ui.key = nav.generation
  BY <1>2, <1>3, <1>4 DEF OwnsInOrder
<1>6. ops[o].kind = "activate" /\ ops[o].candidate.model = ui.model
  BY <1>1, <1>2, <1>5 DEF TaskInOrder, AboutModel, Screen!ActivateCandidate
<1> DEFINE n == store.number + 1
           m == ops[o].candidate.model
<1>7. store' = [store EXCEPT !.number = n, !.active = m]
  BY <1>1 DEF Screen!ActivateCandidate, Activates
<1> HIDE DEF n, m
<1>8. store'.active = m
  BY <1>2, <1>7 DEF ScrStores
<1>9. QED
  BY <1>6, <1>8 DEF m

(* What is made active for the screen in front of the user is the model it *)
(* shows: nothing typed, discovered or saved since the validation can have *)
(* put another model there (request_provider_activation,                   *)
(* ensure_validated_revision_is_current).                                  *)
THEOREM ActivationIsOfTheModelShown ==
    Spec => ActivatesWhatIsShown
<1> DEFINE Step ==
        store'.number # store.number /\ Screen!Shown /\ ~nav.reused
          /\ (\E o \in Screen!OpIds : ops[o].kind = "activate" /\ ops[o].pc = "running"
                                       /\ ops[o].key = Screen!RouteKey)
          => store'.active = ui.model
<1>1. ScreenInv /\ [Next]_allVars => [Step]_screenVars
  <2>1. SUFFICES ASSUME ScreenInv, [Next]_allVars PROVE [Step]_screenVars
    OBVIOUS
  <2>2. CASE part = "screen"
    BY <2>1, <2>2, PartStep, ActivationStep DEF ScreenInv, Activates
  <2>3. CASE part # "screen"
    BY <2>1, <2>3, PartStep
  <2>4. QED
    BY <2>2, <2>3
<1>2. ScreenInv /\ [Next]_allVars => [Step]_Screen!screenVars
  BY <1>1 DEF screenVars, Screen!screenVars
<1>3. Spec => []ScreenInv
  BY ScreenInvariant
<1>4. Spec => [][Step]_Screen!screenVars
  BY <1>2, <1>3, PTL DEF Spec
<1>5. QED
  BY <1>4 DEF ActivatesWhatIsShown, Screen!ActivatesWhatIsShown

-----------------------------------------------------------------------------
(* The types with their bounds.  The feed: a log grows only while there is *)
(* room, and cursor and timeline count no further than the logs.           *)

LogsWithin == \A r \in Feed!RunIds : Len(logs[r]) <= MaxLog
Unfocused  == tui.focused = Feed!NoRun => tui.loaded = 0
FeedWithin ==
    /\ drivers \subseteq Feed!RunIds /\ marks \subseteq Feed!Marks
    /\ LogsWithin /\ Unfocused /\ timeline \in Feed!Timelines

LEMMA MoreRoom ==
    ASSUME FeedTypes, LogsWithin, Feed!More, NEW r \in Feed!RunIds
    PROVE  Len(logs[r]) < MaxLog
<1> DEFINE all == UNION {{q} \X DOMAIN logs[q] : q \in Feed!RunIds}
           own == {r} \X (1 .. Len(logs[r]))
<1>1. \A q \in Feed!RunIds : /\ Len(logs[q]) \in Nat /\ Len(logs[q]) <= MaxLog
                            /\ DOMAIN logs[q] = 1 .. Len(logs[q])
  BY DEF FeedTypes, LogsWithin
<1>2. IsFiniteSet(Feed!RunIds \X (1 .. MaxLog))
  <2> DEFINE t == 1 .. MaxLog
  <2>1. IsFiniteSet(Feed!RunIds) /\ IsFiniteSet(t)
    BY FS_Interval, FeedAssumption DEF Feed!RunIds
  <2> HIDE DEF t
  <2>2. IsFiniteSet(Feed!RunIds \X t)
    BY <2>1, FS_Product
  <2>3. QED
    BY <2>2 DEF t
<1>3. all \in SUBSET (Feed!RunIds \X (1 .. MaxLog))
  <2>1. ASSUME NEW q \in Feed!RunIds
        PROVE  {q} \X DOMAIN logs[q] \subseteq Feed!RunIds \X (1 .. MaxLog)
    BY <1>1, FeedAssumption
  <2>2. QED
    BY <2>1
<1>4. IsFiniteSet(all)
  BY <1>2, <1>3, FS_Subset
<1>5. own \in SUBSET all
  BY <1>1
<1>6. Cardinality(own) <= Cardinality(all)
  BY <1>4, <1>5, FS_Subset
<1>7. Cardinality(own) = Len(logs[r])
  <2> DEFINE s == {r}
             t == 1 .. Len(logs[r])
  <2>1. IsFiniteSet(s) /\ Cardinality(s) = 1
    BY FS_Singleton
  <2>2. IsFiniteSet(t) /\ Cardinality(t) = Len(logs[r])
    BY <1>1, FS_Interval
  <2> HIDE DEF s, t
  <2>3. Cardinality(s \X t) = Cardinality(s) * Cardinality(t)
    BY <2>1, <2>2, FS_Product
  <2>4. Cardinality(s \X t) = Len(logs[r])
    BY <1>1, <2>1, <2>2, <2>3
  <2>5. QED
    BY <2>4 DEF s, t
<1>8. Cardinality(all) \in Nat
  BY <1>4, FS_CardinalityType
<1>9. Cardinality(all) < MaxLog
  BY DEF Feed!More, Feed!Cardinality, Cardinality
<1> HIDE DEF all, own
<1>10. QED
  BY <1>1, <1>6, <1>7, <1>8, <1>9, FeedAssumption

\* One Event more, where there was room.
LEMMA AppendsWithin ==
    ASSUME FeedIInv, LogsWithin, Feed!More, NEW r \in Feed!RunIds,
           NEW e \in Feed!Events, logs' = [logs EXCEPT ![r] = Append(@, e)]
    PROVE  LogsWithin'
<1>1. /\ logs \in [Feed!RunIds -> Seq(Feed!Events)]
      /\ Len(logs[r]) \in Nat /\ FeedTypes
  BY FeedState
<1>2. Len(logs'[r]) = Len(logs[r]) + 1 /\ \A q \in Feed!RunIds : q # r => logs'[q] = logs[q]
  BY <1>1, Appends
<1>3. Len(logs[r]) < MaxLog
  BY <1>1, MoreRoom
<1>4. QED
  BY <1>1, <1>2, <1>3, FeedAssumption DEF LogsWithin

LEMMA BeginsWithin ==
    ASSUME FeedIInv, LogsWithin, NEW r \in Feed!NewRuns,
           NEW e \in Feed!Events, logs' = [logs EXCEPT ![r] = <<e>>]
    PROVE  LogsWithin'
<1>1. logs \in [Feed!RunIds -> Seq(Feed!Events)] /\ r \in Feed!RunIds /\ Len(logs'[r]) = 1
  BY FeedState, Begins
<1>2. \A q \in Feed!RunIds : q # r => logs'[q] = logs[q]
  BY <1>1
<1>3. QED
  BY <1>1, <1>2, FeedAssumption DEF LogsWithin

(* The functions on the timeline keep it within the log.                   *)
LEMMA StatusWithin ==
    ASSUME NEW t \in Feed!Timelines, NEW s \in Feed!TimelineStatus,
           NEW k \in 0 .. Feed!ArtifactRank
    PROVE  Feed!SetStatus(t, s, k) \in Feed!Timelines
BY DEF Feed!SetStatus, Feed!Timelines

LEMMA EventWithin ==
    ASSUME NEW t \in Feed!Timelines, NEW n \in 0 .. MaxLog, NEW e \in Feed!Events
    PROVE  Feed!ApplyEvent(t, n, e) \in Feed!Timelines
<1> DEFINE s == [t EXCEPT !.seq = n]
<1>1. s \in Feed!Timelines
  BY DEF Feed!Timelines
<1>2. Feed!EventStatus[e] \in Feed!TimelineStatus
  <2>1. /\ <<e>> # <<>> /\ Len(<<e>>) = 1 /\ <<e>>[Len(<<e>>)] = e
    OBVIOUS
  <2>2. Feed!EventStatus[e] = CASE e = "Denied" -> "Denied"
                                [] e = "Completed" -> "Succeeded"
                                [] OTHER -> Feed!StatusAfter(<<e>>)
    BY DEF Feed!EventStatus
  <2>3. Feed!StatusAfter(<<e>>) = CASE e \in Feed!Progress -> "Running"
                                    [] e \in Feed!Pauses -> "WaitingForInput"
                                    [] e = "Completed" -> "Succeeded"
                                    [] e = "Failed" -> "Failed"
                                    [] e = "Cancelled" -> "Cancelled"
    BY <2>1 DEF Feed!StatusAfter
  <2>4. QED
    BY <2>2, <2>3 DEF Feed!Events, Feed!Progress, Feed!Pauses, Feed!Ends, Feed!TimelineStatus
<1>3. Feed!EventRank \in 0 .. Feed!ArtifactRank
  BY DEF Feed!EventRank, Feed!ArtifactRank
<1> HIDE DEF s
<1>4. \/ Feed!ApplyEvent(t, n, e) = t
      \/ Feed!ApplyEvent(t, n, e) = s
      \/ Feed!ApplyEvent(t, n, e) = Feed!SetStatus(s, Feed!EventStatus[e], Feed!EventRank)
  BY DEF Feed!ApplyEvent, s
<1>5. QED
  BY <1>1, <1>2, <1>3, <1>4, StatusWithin

LEMMA RowWithin ==
    ASSUME FeedTypes, LogsWithin, NEW r \in Feed!RunIds, 0 < Len(logs[r]),
           NEW t \in Feed!Timelines
    PROVE  Feed!ApplyRow(t, r) \in Feed!Timelines
<1> DEFINE n == Len(logs[r])
           rank == IF Feed!Ended(r) THEN Feed!TerminalSnapshotRank
                                    ELSE Feed!RunningSnapshotRank
           v == [t EXCEPT !.version = n]
           s == Feed!SetStatus(v, Feed!Row(r), rank)
           u == IF n <= t.version THEN t ELSE s
<1>1. logs[r] \in Seq(Feed!Events) /\ n \in 0 .. MaxLog
  BY FeedAssumption DEF FeedTypes, LogsWithin
<1>2. Feed!Row(r) \in Feed!TimelineStatus
  <2> DEFINE e == logs[r][Len(logs[r])]
  <2>1. e \in Feed!Events /\ logs[r] # <<>>
    BY <1>1
  <2> HIDE DEF e
  <2>2. Feed!Row(r) = CASE e \in Feed!Progress -> "Running"
                        [] e \in Feed!Pauses -> "WaitingForInput"
                        [] e = "Completed" -> "Succeeded"
                        [] e = "Failed" -> "Failed"
                        [] e = "Cancelled" -> "Cancelled"
    BY <2>1 DEF Feed!Row, Feed!StatusAfter, e
  <2>3. QED
    BY <2>1, <2>2
       DEF Feed!Events, Feed!Progress, Feed!Pauses, Feed!Ends, Feed!TimelineStatus
<1>3. rank \in 0 .. Feed!ArtifactRank /\ Feed!ArtifactRank \in 0 .. Feed!ArtifactRank
  BY DEF Feed!TerminalSnapshotRank, Feed!RunningSnapshotRank, Feed!ArtifactRank
<1>4. v \in Feed!Timelines
  BY <1>1 DEF Feed!Timelines
<1>5. Feed!ApplyRow(t, r) \in {u, [u EXCEPT !.rank = Feed!ArtifactRank]}
  BY DEF Feed!ApplyRow
<1> HIDE DEF v, rank, n
<1>6. s \in Feed!Timelines
  BY <1>2, <1>3, <1>4, StatusWithin
<1> HIDE DEF s
<1>7. u \in Feed!Timelines
  BY <1>6
<1> HIDE DEF u
<1>8. [u EXCEPT !.rank = Feed!ArtifactRank] \in Feed!Timelines
  BY <1>3, <1>7 DEF Feed!Timelines
<1>9. QED
  BY <1>5, <1>7, <1>8

LEMMA FeedTypeOK ==
    ASSUME FeedIInv, FeedWithin
    PROVE  Feed!TypeOK
<1>1. /\ FocusInv /\ logs \in [Feed!RunIds -> Seq(Feed!Events)] /\ tui \in FeedTuis
      /\ request \in Feed!Requests /\ tui.focused \in Feed!RunIds \cup {Feed!NoRun}
      /\ tui.cursor \in Nat /\ tui.loaded \in Nat
      /\ \A q \in Feed!RunIds : Len(logs[q]) \in Nat
  BY FeedState
<1>2. tui.cursor \in 0 .. MaxLog /\ tui.loaded \in 0 .. MaxLog
  BY <1>1, FeedAssumption DEF FocusInv, FeedWithin, LogsWithin, Unfocused
<1>3. tui \in Feed!Tuis
  BY <1>1, <1>2 DEF FeedTuis, Feed!Tuis
<1>4. QED
  BY <1>1, <1>3 DEF Feed!TypeOK, FeedWithin

LEMMA DefaultWithin == Feed!Default \in Feed!Timelines
BY FeedAssumption DEF Feed!Default, Feed!Timelines, Feed!TimelineStatus, Feed!ArtifactRank

LEMMA FeedInitWithin == Feed!Init => FeedWithin
<1> SUFFICES ASSUME Feed!Init PROVE FeedWithin
  OBVIOUS
<1>1. LogsWithin
  <2>1. PICK left \in {<<>>, <<"Asked", "Answered">>} :
          logs = [r \in Feed!RunIds |-> IF r = 1 THEN left ELSE <<>>]
    BY DEF Feed!Init
  <2>2. Len(left) <= 2 /\ Len(left) \in Nat /\ Len(<<>>) = 0
    <3>1. Len(<<>>) = 0 /\ Len(<<"Asked", "Answered">>) = 2
      OBVIOUS
    <3>2. Len(left) = 0 \/ Len(left) = 2
      BY <3>1
    <3>3. \A n : n = 0 \/ n = 2 => n <= 2 /\ n \in Nat
      OBVIOUS
    <3>4. QED
      BY <3>1, <3>2, <3>3, Zenon
  <2>3. \A r \in Feed!RunIds : logs[r] = left \/ logs[r] = <<>>
    BY <2>1
  <2>4. QED
    BY <2>2, <2>3, FeedAssumption DEF LogsWithin
<1>2. timeline \in Feed!Timelines
  BY DefaultWithin DEF Feed!Init
<1>3. QED
  BY <1>1, <1>2 DEF Feed!Init, FeedWithin, Unfocused

LEMMA DriverWithin ==
    ASSUME FeedIInv, FeedWithin, Feed!Driver
    PROVE  FeedWithin'
<1>1. /\ tui \in FeedTuis /\ drivers \subseteq Feed!RunIds /\ marks \subseteq Feed!Marks
      /\ LogsWithin /\ Unfocused /\ timeline \in Feed!Timelines
  BY FeedState DEF FeedWithin
<1>2. ASSUME NEW r \in Feed!RunIds, Feed!DriverAppends(r)
      PROVE  FeedWithin'
  <2>1. PICK e \in Feed!Events : logs' = [logs EXCEPT ![r] = Append(@, e)]
    BY <1>2 DEF Feed!DriverAppends, Feed!Events, Feed!Progress, Feed!Pauses, Feed!Ends
  <2>2. /\ Feed!More /\ tui' = tui /\ timeline' = timeline /\ drivers' = drivers
        /\ marks' = marks
    BY <1>2 DEF Feed!DriverAppends
  <2>3. LogsWithin'
    BY <1>1, <2>1, <2>2, AppendsWithin
  <2>4. QED
    BY <1>1, <2>2, <2>3 DEF FeedWithin, Unfocused
<1>3. ASSUME NEW r \in Feed!RunIds, Feed!DriverReturns(r)
      PROVE  FeedWithin'
  <2>1. /\ tui' = Feed!Notified(tui, r) /\ logs' = logs /\ drivers' = drivers \ {r}
        /\ timeline' = timeline /\ marks' = marks
    BY <1>3 DEF Feed!DriverReturns
  <2>2. tui'.focused = tui.focused /\ tui'.loaded = tui.loaded
    BY <1>1, <2>1, RingFacts
  <2>3. QED
    BY <1>1, <2>1, <2>2 DEF FeedWithin, LogsWithin, Unfocused
<1>4. QED
  BY <1>2, <1>3 DEF Feed!Driver

\* The row is applied to a timeline t that is within the bounds.
LEMMA AppliedWithin ==
    ASSUME FeedIInv, FeedWithin, NEW r \in Feed!RunIds, tui.focused = r,
           NEW t \in Feed!Timelines, NEW u \in FeedTuis, u.focused = r,
           timeline' = Feed!ApplyRow(t, r), tui' = Feed!Settled(u, r),
           marks' = Feed!Applying, UNCHANGED <<logs, drivers, request>>
    PROVE  FeedWithin'
<1>1. /\ FeedTypes /\ FocusInv /\ Feed!NoRun \notin Feed!RunIds
      /\ drivers \subseteq Feed!RunIds /\ marks \subseteq Feed!Marks /\ LogsWithin
  BY FeedState DEF FeedWithin
<1>2. timeline' \in Feed!Timelines
  <2>1. 0 < Len(logs[r])
    BY <1>1 DEF FocusInv
  <2>2. QED
    BY <1>1, <2>1, RowWithin
<1>3. Unfocused'
  <2>1. tui' = Feed!NoFocus(u) \/ tui' = u
    BY DEF Feed!Settled
  <2>2. QED
    BY <1>1, <2>1, FocusTypes DEF Unfocused
<1>4. marks' \subseteq Feed!Marks
  BY <1>1 DEF Feed!Applying, Feed!Marks
<1>5. QED
  BY <1>1, <1>2, <1>3, <1>4 DEF FeedWithin, LogsWithin

LEMMA TakeEventWithin ==
    ASSUME FeedIInv, FeedWithin, Feed!TakeEvent
    PROVE  FeedWithin'
<1> DEFINE r == tui.focused
           n == tui.cursor + 1
           e == logs[r][n]
           t == Feed!ApplyEvent(timeline, n, e)
           b == Feed!BaseOfRow(r, Feed!BaseAfter(e, tui.base))
           u == [tui EXCEPT !.cursor = n, !.base = b]
<1>1. /\ tui.sub = "idle" /\ tui.cursor < tui.loaded
      /\ timeline' = Feed!ApplyRow(t, r) /\ tui' = Feed!Settled(u, r)
      /\ marks' = Feed!Applying /\ UNCHANGED <<logs, drivers, request>>
  BY DEF Feed!TakeEvent
<1>2. /\ FocusInv /\ logs \in [Feed!RunIds -> Seq(Feed!Events)]
      /\ tui \in FeedTuis /\ r \in Feed!RunIds \cup {Feed!NoRun}
      /\ tui.cursor \in Nat /\ tui.loaded \in Nat
      /\ \A q \in Feed!RunIds : Len(logs[q]) \in Nat
      /\ LogsWithin /\ timeline \in Feed!Timelines
  BY FeedState DEF FeedWithin
<1>3. r \in Feed!RunIds /\ tui.loaded <= Len(logs[r])
  BY <1>1, <1>2 DEF FocusInv
<1>4. n \in 1 .. Len(logs[r]) /\ n \in Nat /\ n \in 0 .. MaxLog
  BY <1>1, <1>2, <1>3, FeedAssumption DEF LogsWithin
<1>5. e \in Feed!Events
  BY <1>2, <1>3, <1>4
<1>6. t \in Feed!Timelines
  BY <1>2, <1>4, <1>5, EventWithin
<1>7. b \in {"Home", "Clarification"}
  <2>1. tui.base \in {"Home", "Clarification"}
    BY <1>2 DEF FeedTuis
  <2>2. Feed!BaseAfter(e, tui.base) \in {"Home", "Clarification"}
    BY <2>1, BaseFacts
  <2>3. QED
    BY <2>2, BaseFacts
<1> HIDE DEF n, e, t, b
<1>8. u \in FeedTuis /\ u.focused = r
  BY <1>2, <1>4, <1>7 DEF FeedTuis
<1> HIDE DEF u, r
<1>9. r = tui.focused
  BY DEF r
<1>10. QED
  BY <1>1, <1>3, <1>6, <1>8, <1>9, AppliedWithin

LEMMA NextFailsWithin ==
    ASSUME FeedIInv, FeedWithin, Feed!NextFails
    PROVE  FeedWithin'
<1> DEFINE r == tui.focused
           b == Feed!BaseOfRow(r, tui.base)
           u == [tui EXCEPT !.sub = "none", !.inbox = 0, !.loaded = tui.cursor,
                            !.base = b]
<1>1. /\ tui.sub \in {"opening", "reloading"}
      /\ timeline' = Feed!ApplyRow(timeline, r) /\ tui' = Feed!Settled(u, r)
      /\ marks' = Feed!Applying /\ UNCHANGED <<logs, drivers, request>>
  BY DEF Feed!NextFails
<1>2. /\ FocusInv /\ tui \in FeedTuis /\ r \in Feed!RunIds \cup {Feed!NoRun}
      /\ tui.cursor \in Nat /\ timeline \in Feed!Timelines
  BY FeedState DEF FeedWithin
<1>3. r \in Feed!RunIds
  BY <1>1, <1>2 DEF FocusInv
<1>4. b \in {"Home", "Clarification"}
  <2>1. tui.base \in {"Home", "Clarification"}
    BY <1>2 DEF FeedTuis
  <2>2. QED
    BY <2>1, BaseFacts
<1> HIDE DEF b
<1>5. u \in FeedTuis /\ u.focused = r
  <2>1. "none" \in Feed!SubStates /\ 0 \in 0 .. Feed!MaxInbox
    BY DEF Feed!SubStates, Feed!MaxInbox
  <2>2. QED
    BY <1>2, <1>4, <2>1 DEF FeedTuis
<1> HIDE DEF u, r
<1>6. r = tui.focused
  BY DEF r
<1>7. QED
  BY <1>1, <1>2, <1>3, <1>5, <1>6, AppliedWithin

LEMMA ListeningWithin ==
    ASSUME FeedIInv, FeedWithin,
           Feed!Subscribe \/ Feed!Receive \/ Feed!ReadAgain \/ Feed!FirstRead \/ Feed!Loaded
             \/ Feed!DropNext
    PROVE  FeedWithin'
<1>1. /\ FocusInv /\ tui \in FeedTuis
      /\ drivers \subseteq Feed!RunIds /\ marks \subseteq Feed!Marks
      /\ LogsWithin /\ Unfocused /\ timeline \in Feed!Timelines
  BY FeedState DEF FeedWithin
<1>2. /\ tui.focused # Feed!NoRun
      /\ UNCHANGED <<logs, drivers, timeline, request>>
      /\ marks' \subseteq marks \cup {"missed"}
  BY <1>1 DEF Feed!Subscribe, Feed!Receive, Feed!ReadAgain, Feed!FirstRead, Feed!Read,
              Feed!Loaded, Feed!DropNext, FocusInv
<1>3. tui'.focused = tui.focused
  BY <1>1 DEF Feed!Subscribe, Feed!Receive, Feed!ReadAgain, Feed!FirstRead, Feed!Read,
              Feed!Loaded, Feed!DropNext, FeedTuis
<1>4. marks' \subseteq Feed!Marks
  BY <1>1, <1>2 DEF Feed!Marks
<1>5. QED
  BY <1>1, <1>2, <1>3, <1>4 DEF FeedWithin, LogsWithin, Unfocused

LEMMA UserWithin ==
    ASSUME FeedIInv, FeedWithin, Feed!User
    PROVE  FeedWithin'
<1>1. /\ FocusInv /\ tui \in FeedTuis
      /\ tui.focused \in Feed!RunIds \cup {Feed!NoRun} /\ Feed!NoRun \notin Feed!RunIds
      /\ drivers \subseteq Feed!RunIds /\ marks \subseteq Feed!Marks
      /\ LogsWithin /\ Unfocused /\ timeline \in Feed!Timelines
      /\ Feed!Default \in Feed!Timelines
  BY FeedState, DefaultWithin DEF FeedWithin
<1>2. CASE Feed!SendMessage
  <2>1. /\ timeline' = Feed!Default /\ tui' = tui /\ logs' = logs /\ drivers' = drivers
        /\ marks' \subseteq marks
    BY <1>2 DEF Feed!SendMessage, Feed!BeginQuery
  <2>2. QED
    BY <1>1, <2>1 DEF FeedWithin, LogsWithin, Unfocused
<1>3. CASE Feed!SendAnswer
  BY <1>1, <1>3 DEF Feed!SendAnswer, FeedWithin, LogsWithin, Unfocused
<1>4. CASE Feed!ResumeTask
  <2>1. PICK r \in Feed!RunIds :
          /\ \/ logs' = [logs EXCEPT ![r] = Append(@, "Resumed")]
             \/ r \in Feed!NewRuns /\ logs' = [logs EXCEPT ![r] = <<"Started">>]
          /\ drivers' = drivers \cup {r}
          /\ tui' = Feed!FocusOn(tui, r)
    BY <1>4 DEF Feed!ResumeTask
  <2>2. Feed!More /\ timeline' = Feed!Default /\ marks' = {}
    BY <1>4 DEF Feed!ResumeTask
  <2>3. "Resumed" \in Feed!Events /\ "Started" \in Feed!Events
    BY DEF Feed!Events, Feed!Progress
  <2>4. LogsWithin'
    BY <1>1, <2>1, <2>2, <2>3, AppendsWithin, BeginsWithin
  <2>5. tui'.focused = r
    BY <1>1, <2>1, FocusTypes
  <2>6. QED
    BY <1>1, <2>1, <2>2, <2>4, <2>5 DEF FeedWithin, Unfocused
<1>5. CASE Feed!CancelRun
  <2>1. PICK r \in {tui.focused} \ {Feed!NoRun} :
          /\ logs' = [logs EXCEPT ![r] = Append(@, "Cancelled")]
          /\ tui' = Feed!Notified(tui, r) /\ Feed!More
    BY <1>5 DEF Feed!CancelRun
  <2>2. drivers' = drivers /\ timeline' = timeline /\ marks' = marks
    BY <1>5 DEF Feed!CancelRun
  <2>3. r \in Feed!RunIds /\ "Cancelled" \in Feed!Events
    BY <1>1, <2>1 DEF Feed!Events, Feed!Ends
  <2>4. tui'.focused = tui.focused /\ tui'.loaded = tui.loaded
    BY <1>1, <2>1, RingFacts
  <2>5. LogsWithin'
    BY <1>1, <2>1, <2>3, AppendsWithin
  <2>6. QED
    BY <1>1, <2>2, <2>4, <2>5 DEF FeedWithin, Unfocused
<1>6. CASE Feed!NewSession
  <2>1. /\ tui' = Feed!NoFocus(tui) /\ timeline' = Feed!Default
        /\ logs' = logs /\ drivers' = drivers /\ marks' = {}
    BY <1>6 DEF Feed!NewSession
  <2>2. tui'.loaded = 0
    BY <1>1, <2>1, FocusTypes
  <2>3. QED
    BY <1>1, <2>1, <2>2 DEF FeedWithin, LogsWithin, Unfocused
<1>7. QED
  BY <1>2, <1>3, <1>4, <1>5, <1>6 DEF Feed!User

LEMMA ServiceWithin ==
    ASSUME FeedIInv, FeedWithin, Feed!Service
    PROVE  FeedWithin'
<1>1. /\ FocusInv /\ tui \in FeedTuis
      /\ request.run \in Feed!RunIds \cup {Feed!NoRun}
      /\ drivers \subseteq Feed!RunIds /\ marks \subseteq Feed!Marks
      /\ LogsWithin /\ Unfocused /\ timeline \in Feed!Timelines
      /\ Feed!Default \in Feed!Timelines
  BY FeedState, DefaultWithin DEF FeedWithin
<1>2. CASE Feed!StartRun
  <2>1. PICK r \in Feed!NewRuns, first \in {"Started", "Asked"} :
          /\ logs' = [logs EXCEPT ![r] = <<first>>]
          /\ drivers' \subseteq drivers \cup {r}
    BY <1>2 DEF Feed!StartRun
  <2>2. tui' = tui /\ timeline' = timeline /\ marks' = marks
    BY <1>2 DEF Feed!StartRun
  <2>3. first \in Feed!Events /\ r \in Feed!RunIds
    BY DEF Feed!Events, Feed!Progress, Feed!Pauses, Feed!NewRuns
  <2>4. LogsWithin'
    BY <1>1, <2>1, <2>3, BeginsWithin
  <2>5. QED
    BY <1>1, <2>1, <2>2, <2>3, <2>4 DEF FeedWithin, Unfocused
<1>3. CASE Feed!ReplyWithoutRun
  <2>1. /\ tui' = tui /\ logs' = logs /\ drivers' = drivers /\ marks' \subseteq marks
        /\ \/ timeline' = Feed!Default
           \/ timeline' = Feed!SetStatus(timeline, "Denied", Feed!ReplyRank)
           \/ timeline' = timeline
    BY <1>3 DEF Feed!ReplyWithoutRun
  <2>2. "Denied" \in Feed!TimelineStatus /\ Feed!ReplyRank \in 0 .. Feed!ArtifactRank
    BY DEF Feed!TimelineStatus, Feed!ReplyRank, Feed!ArtifactRank
  <2>3. timeline' \in Feed!Timelines
    BY <1>1, <2>1, <2>2, StatusWithin
  <2>4. QED
    BY <1>1, <2>1, <2>3 DEF FeedWithin, LogsWithin, Unfocused
<1>4. CASE Feed!AnswerAccepted
  <2> DEFINE r == request.run
  <2>1. /\ request.kind = "answer" /\ Feed!More
        /\ logs' = [logs EXCEPT ![r] = Append(@, "Answered")]
        /\ tui' = Feed!Notified(tui, r) /\ drivers' = drivers \cup {r}
        /\ timeline' = timeline /\ marks' = marks
    BY <1>4 DEF Feed!AnswerAccepted
  <2>2. r \in Feed!RunIds /\ "Answered" \in Feed!Events
    BY <1>1, <2>1 DEF FocusInv, Feed!Events, Feed!Progress
  <2>3. tui'.focused = tui.focused /\ tui'.loaded = tui.loaded
    BY <1>1, <2>1, RingFacts
  <2>4. LogsWithin'
    BY <1>1, <2>1, <2>2, AppendsWithin
  <2>5. QED
    BY <1>1, <2>1, <2>2, <2>3, <2>4 DEF FeedWithin, Unfocused
<1>5. CASE Feed!AnswerRefused
  BY <1>1, <1>5 DEF Feed!AnswerRefused, FeedWithin, LogsWithin, Unfocused
<1>6. QED
  BY <1>2, <1>3, <1>4, <1>5 DEF Feed!Service

LEMMA CompleteWithin ==
    ASSUME FeedIInv, FeedWithin, Feed!Complete
    PROVE  FeedWithin'
<1>1. /\ FocusInv /\ tui \in FeedTuis
      /\ request.run \in Feed!RunIds \cup {Feed!NoRun} /\ Feed!NoRun \notin Feed!RunIds
      /\ drivers \subseteq Feed!RunIds /\ marks \subseteq Feed!Marks
      /\ LogsWithin /\ Unfocused /\ timeline \in Feed!Timelines
  BY FeedState DEF FeedWithin
<1>2. CASE Feed!CompleteMessage
  <2> DEFINE r == request.run
             f == Feed!FocusOn(tui, r)
             c == [f EXCEPT !.base = "Clarification"]
  <2>1. /\ request.kind = "message" /\ request.done
        /\ logs' = logs /\ drivers' = drivers /\ marks' = marks \ {"missed", "overtaken"}
        /\ \E s \in {"Running", "WaitingForInput"} :
              timeline' = Feed!SetStatus(timeline, s, Feed!ReplyRank)
        /\ tui' = f \/ tui' = c
    BY <1>2 DEF Feed!CompleteMessage
  <2>2. r \in Feed!RunIds
    BY <1>1, <2>1 DEF FocusInv
  <2>3. f \in FeedTuis /\ f.focused = r
    BY <1>1, <2>2, FocusTypes
  <2> HIDE DEF f
  <2>4. tui'.focused = r
    BY <2>1, <2>3 DEF FeedTuis
  <2>5. PICK s \in {"Running", "WaitingForInput"} :
          timeline' = Feed!SetStatus(timeline, s, Feed!ReplyRank)
    BY <2>1
  <2>6. s \in Feed!TimelineStatus /\ Feed!ReplyRank \in 0 .. Feed!ArtifactRank
    BY DEF Feed!TimelineStatus, Feed!ReplyRank, Feed!ArtifactRank
  <2>7. timeline' \in Feed!Timelines
    BY <1>1, <2>5, <2>6, StatusWithin
  <2>8. QED
    BY <1>1, <2>1, <2>2, <2>4, <2>7 DEF FeedWithin, LogsWithin, Unfocused
<1>3. CASE Feed!CompleteAnswer
  <2>1. /\ tui' = [tui EXCEPT !.base = "Home"] /\ timeline' = timeline /\ logs' = logs
        /\ drivers' = drivers /\ marks' \subseteq marks \cup {"overtaken"}
    BY <1>3 DEF Feed!CompleteAnswer
  <2>2. tui'.focused = tui.focused /\ tui'.loaded = tui.loaded
    BY <1>1, <2>1 DEF FeedTuis
  <2>3. marks' \subseteq Feed!Marks
    BY <1>1, <2>1 DEF Feed!Marks
  <2>4. QED
    BY <1>1, <2>1, <2>2, <2>3 DEF FeedWithin, LogsWithin, Unfocused
<1>4. QED
  BY <1>2, <1>3 DEF Feed!Complete

LEMMA FeedStaysWithin ==
    FeedIInv /\ FeedWithin /\ [Feed!Next]_feedVars => FeedWithin'
<1> SUFFICES ASSUME FeedIInv, FeedWithin, [Feed!Next]_feedVars
             PROVE  FeedWithin'
  OBVIOUS
<1>1. CASE UNCHANGED feedVars
  BY <1>1 DEF feedVars, FeedWithin, LogsWithin, Unfocused
<1>2. CASE Feed!Next
  BY <1>2, DriverWithin, TakeEventWithin, NextFailsWithin, ListeningWithin, UserWithin,
     ServiceWithin, CompleteWithin DEF Feed!Next, Feed!Following, Feed!Loading
<1>3. QED
  BY <1>1, <1>2

-----------------------------------------------------------------------------
(* The screen is typed within its bounds already, the tools as well.       *)
LEMMA ScreenTypeOK ==
    ASSUME ScreenIInv
    PROVE  Screen!TypeOK
<1>1. Screen!OpIds \cup {Screen!NoOp} = 0 .. MaxOps
  BY ScreenAssumption DEF Screen!OpIds, Screen!NoOp
<1>2. ScrUis \subseteq Screen!Uis
  BY <1>1 DEF ScrUis, Screen!Uis, ScrIds, ScrModels, ScrKeys, ScrCandidates, Screen!Candidates
<1>3. ScrOps \subseteq Screen!Ops
  BY DEF ScrOps, Screen!Ops, ScrModels, ScrKeys, ScrAttempts, ScrCandidates, Screen!Candidates
<1>4. ScrNavs \subseteq Screen!Navs
  BY DEF ScrNavs, Screen!Navs
<1>5. ScrStores \subseteq Screen!Stores
  BY DEF ScrStores, Screen!Stores, ScrModels
<1>6. /\ ui \in ScrUis /\ ops \in [Screen!OpIds -> ScrOps] /\ nav \in ScrNavs
      /\ store \in ScrStores
  BY DEF ScreenIInv, ScrTypes
<1>7. QED
  BY <1>2, <1>3, <1>4, <1>5, <1>6 DEF Screen!TypeOK

FeedTyped == part = "feed" => FeedIInv /\ FeedWithin

LEMMA FeedTypedAlways == Spec => []FeedTyped
<1>1. Init => FeedTyped
  BY FeedInit, FeedInitWithin DEF Init, FeedTyped
<1>2. FeedTyped /\ [Next]_allVars => FeedTyped'
  BY PartStep, FeedStep, FeedStaysWithin DEF FeedTyped
<1>3. QED
  BY <1>1, <1>2, PTL DEF Spec

(* The variables of the screen, the feed and the tool runtime have the     *)
(* values the code can give them, within their bounds: the revisions of a  *)
(* Profile, the visits of the routes, the attempts of an operation; what   *)
(* cursor, subscription and timeline count of a log; permits and retries   *)
(* (ProviderManagementScreen, AsyncOperationRegistry, NavigationState,     *)
(* EventSubscription, TimelineState, RunToolGate).                         *)
THEOREM HostTyped == Spec => []TypeOK
<1>1. ScreenInv /\ FeedTyped /\ ToolsInv => TypeOK
  BY ScreenTypeOK, FeedTypeOK DEF ScreenInv, FeedTyped, ToolsInv, ToolIInv, TypeOK
<1>2. QED
  BY <1>1, ScreenInvariant, FeedTypedAlways, ToolInvariant, PTL

=============================================================================
