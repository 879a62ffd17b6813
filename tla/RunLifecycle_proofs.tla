------------------------ MODULE RunLifecycle_proofs ------------------------
(***************************************************************************)
(* Theorems of RunLifecycle, for any number of Runs, commands, deliveries, *)
(* processes, driver steps and crashes: its types; that the row of a Run   *)
(* is the last projection of its journal; that a command takes effect      *)
(* once; that every row is a state its Run was in; that the runtime        *)
(* implements RunContract; that the calls of a Run happen once, with       *)
(* unknown outcomes decided and expensive retries confirmed; and that,     *)
(* where one process serves the store, they are unfinished one by one.     *)
(***************************************************************************)
EXTENDS RunProperties, FiniteSetTheorems, SequenceTheorems, TLAPS

Waits == {"none", "clarification", "confirm"}

(* The snapshots the services build are snapshots.                         *)
LEMMA FirstSnapshots ==
    /\ AbsentRun \in Snapshots
    /\ RunningSnapshot \in Snapshots
    /\ WaitingSnapshot \in Snapshots
BY DEF AbsentRun, RunningSnapshot, WaitingSnapshot, Snapshots, RunStatus,
       CostClasses, NoCall

(* A step's next snapshot is a snapshot, and its version is the next one.  *)
LEMMA NextSnapshotFacts ==
    ASSUME NEW cur \in Snapshots, NEW s \in RunStatus, NEW w \in Waits
    PROVE  /\ NextSnapshot(cur, s, w) \in Snapshots
           /\ NextSnapshot(cur, s, w).version = cur.version + 1
<1>1. s \in RunStatus \cup {"Absent"} /\ cur.version + 1 \in Nat
  BY DEF Snapshots
<1>2. NextSnapshot(cur, s, w) \in Snapshots
  BY <1>1 DEF NextSnapshot, Snapshots, Waits
<1>3. NextSnapshot(cur, s, w).version = cur.version + 1
  BY DEF NextSnapshot, Snapshots
<1>4. QED
  BY <1>2, <1>3

(* What a snapshot says of its pending call can be replaced.               *)
LEMMA PendingFacts ==
    ASSUME NEW s \in Snapshots, NEW call \in Nat, NEW cost \in CostClasses,
           NEW granted \in BOOLEAN
    PROVE  /\ [s EXCEPT !.pend = call, !.cost = cost] \in Snapshots
           /\ [s EXCEPT !.pend = call, !.granted = granted] \in Snapshots
           /\ [s EXCEPT !.pend = call, !.cost = cost, !.granted = granted] \in Snapshots
           /\ [s EXCEPT !.pend = call, !.cost = cost].version = s.version
           /\ [s EXCEPT !.pend = call, !.granted = granted].version = s.version
           /\ [s EXCEPT !.pend = call, !.cost = cost, !.granted = granted].version
                 = s.version
BY DEF Snapshots

(* The two facts a snapshot holds of its pending call, replaced together.  *)
LEMMA PendingCallFacts ==
    ASSUME NEW s \in Snapshots, NEW call \in Nat, NEW cost \in CostClasses
    PROVE  /\ [s EXCEPT !.pend = call, !.cost = cost] \in Snapshots
           /\ [s EXCEPT !.pend = call, !.cost = cost].version = s.version
BY DEF Snapshots

LEMMA RetrySnapshotFacts ==
    ASSUME NEW cur \in Snapshots, NEW r \in Runs \cup {NoRun}
    PROVE  /\ RetrySnapshot(cur, r) \in Snapshots
           /\ RetrySnapshot(cur, r).version = 1
<1>1. "Running" \in RunStatus \cup {"Absent"} /\ cur.attempt + 1 \in Nat
  BY DEF Snapshots, RunStatus
<1>2. RetrySnapshot(cur, r) \in Snapshots
  BY <1>1 DEF RetrySnapshot, Snapshots
<1>3. RetrySnapshot(cur, r).version = 1
  BY DEF RetrySnapshot, Snapshots
<1>4. QED
  BY <1>2, <1>3

LEMMA AnsweredSnapshotFacts ==
    ASSUME NEW cur \in Snapshots, NEW call \in Nat
    PROVE  /\ AnsweredSnapshot(cur, call) \in Snapshots
           /\ AnsweredSnapshot(cur, call).version = cur.version + 1
<1>1. /\ NextSnapshot(cur, "Running", "none") \in Snapshots
      /\ NextSnapshot(cur, "Running", "none").version = cur.version + 1
  BY NextSnapshotFacts DEF RunStatus, Waits
<1>2. QED
  BY <1>1, PendingFacts DEF AnsweredSnapshot, CostClasses

LEMMA TakePendingFacts ==
    ASSUME NEW cur \in Snapshots
    PROVE  /\ TakePending(cur) \in Snapshots
           /\ TakePending(cur).version = cur.version + 1
<1>1. /\ NextSnapshot(cur, "Running", "none") \in Snapshots
      /\ NextSnapshot(cur, "Running", "none").version = cur.version + 1
  BY NextSnapshotFacts DEF RunStatus, Waits
<1>2. QED
  BY <1>1, PendingFacts DEF TakePending, CostClasses, NoCall

LEMMA IndeterminateSnapshotFacts ==
    ASSUME NEW cur \in Snapshots, NEW call \in Nat, NEW cost \in CostClasses,
           NEW newCall \in Nat
    PROVE  /\ IndeterminateSnapshot(cur, call, cost, newCall) \in Snapshots
           /\ IndeterminateSnapshot(cur, call, cost, newCall).version = cur.version + 1
<1>1. /\ NextSnapshot(cur, "Running", "none") \in Snapshots
      /\ NextSnapshot(cur, "Running", "none").version = cur.version + 1
      /\ NextSnapshot(cur, "WaitingForInput", "confirm") \in Snapshots
      /\ NextSnapshot(cur, "WaitingForInput", "confirm").version = cur.version + 1
  BY NextSnapshotFacts DEF RunStatus, Waits
<1> DEFINE resumed == NextSnapshot(cur, "Running", "none")
           asked   == NextSnapshot(cur, "WaitingForInput", "confirm")
<1>2. /\ resumed \in Snapshots /\ resumed.version = cur.version + 1
      /\ asked \in Snapshots /\ asked.version = cur.version + 1
  BY <1>1
<1>3. IndeterminateSnapshot(cur, call, cost, newCall) =
          IF cost = "Low" THEN [resumed EXCEPT !.pend = newCall, !.cost = "Low"]
                          ELSE [asked EXCEPT !.pend = call, !.cost = cost]
  BY DEF IndeterminateSnapshot
<1> HIDE DEF resumed, asked
<1>4. "Low" \in CostClasses
  BY DEF CostClasses
<1>5. /\ [resumed EXCEPT !.pend = newCall, !.cost = "Low"] \in Snapshots
      /\ [resumed EXCEPT !.pend = newCall, !.cost = "Low"].version = cur.version + 1
  BY <1>2, <1>4, PendingCallFacts
<1>6. /\ [asked EXCEPT !.pend = call, !.cost = cost] \in Snapshots
      /\ [asked EXCEPT !.pend = call, !.cost = cost].version = cur.version + 1
  BY <1>2, PendingCallFacts
<1>7. CASE cost = "Low"
  BY <1>3, <1>5, <1>7
<1>8. CASE cost # "Low"
  BY <1>3, <1>6, <1>8
<1>9. QED
  BY <1>7, <1>8

(* Tool Events and the sets of them a batch carries are Events.            *)
LEMMA ToolEventType ==
    ASSUME NEW t \in EventTypes, NEW call \in Nat, NEW cost \in CostClasses
    PROVE  ToolEvent(t, call, cost) \in Events
BY DEF ToolEvent, Events

LEMMA IndeterminateEventsType ==
    ASSUME NEW call \in Nat, NEW cost \in CostClasses
    PROVE  /\ IndeterminateEvents(call, cost) \in SUBSET Events
           /\ {RunResumed} \in SUBSET Events
BY DEF IndeterminateEvents, RunResumed, ToolEvent, Events, EventTypes, NoCall,
       CostClasses

-----------------------------------------------------------------------------
(* Types of the requests and drivers the actions build.                    *)

(* A request that reads or writes what it names, a Run or the receipt of a *)
(* command, names one: beyond TypeOK, this is what the store actions need  *)
(* to be well typed.                                                       *)
WellAddressed(req) ==
    /\ req.pc \notin {"idle", "schedule", "done"} => req.cmd \in Cmds
    /\ req.kind \in {"answer", "cancel"} =>
          req.target \in Runs /\ (req.pc = "commit" => req.run \in Runs)
    /\ req.pc \in {"read", "compare", "replace", "facts", "mark", "receipt", "schedule"} =>
          req.run \in Runs

TypeInv == TypeOK /\ \A q \in Slots : WellAddressed(reqs[q])

(* A call that was not made yet.                                           *)
LEMMA IdleRequestType == IdleRequest \in Requests /\ WellAddressed(IdleRequest)
<1>1. "idle" \in RequestPC /\ NoCall \in Nat /\ "Low" \in CostClasses
      /\ AbsentRun \in Snapshots
  BY FirstSnapshots DEF RequestPC, NoCall, CostClasses
<1>2. IdleRequest \in Requests
  BY <1>1 DEF IdleRequest, Requests
<1>3. WellAddressed(IdleRequest)
  BY DEF IdleRequest, WellAddressed
<1>4. QED
  BY <1>2, <1>3

(* Requests that answered, or are about to schedule, hold no other state.  *)
LEMMA RepliedType ==
    ASSUME NEW run \in Runs \cup {NoRun}, NEW ok \in BOOLEAN
    PROVE  Replied(run, ok) \in Requests /\ WellAddressed(Replied(run, ok))
<1>1. "done" \in RequestPC
  BY DEF RequestPC
<1>2. Replied(run, ok) \in Requests
  BY <1>1, IdleRequestType DEF Replied, Requests
<1>3. WellAddressed(Replied(run, ok))
  BY DEF Replied, IdleRequest, WellAddressed
<1>4. QED
  BY <1>2, <1>3

LEMMA WakingType ==
    ASSUME NEW req \in Requests, NEW run \in Runs
    PROVE  Waking(req, run) \in Requests /\ WellAddressed(Waking(req, run))
<1>1. "schedule" \in RequestPC /\ req.proc \in Procs \cup {NoProc}
  BY DEF RequestPC, Requests
<1>2. Waking(req, run) \in Requests
  BY <1>1, IdleRequestType DEF Waking, Requests
<1>3. WellAddressed(Waking(req, run))
  BY DEF Waking, IdleRequest, WellAddressed
<1>4. QED
  BY <1>2, <1>3

(* The updates of a live request.                                          *)
LEMMA RequestUpdates ==
    ASSUME NEW req \in Requests
    PROVE  /\ \A pc \in RequestPC : [req EXCEPT !.pc = pc] \in Requests
           /\ \A pc \in RequestPC, snap \in Snapshots :
                  [req EXCEPT !.pc = pc, !.seen = snap] \in Requests
           /\ \A pc \in RequestPC, snap \in Snapshots, run \in Runs :
                  /\ [req EXCEPT !.pc = pc, !.cur = snap, !.run = run] \in Requests
                  /\ [req EXCEPT !.pc = pc, !.run = run, !.cur = snap] \in Requests
           /\ \A snap \in Snapshots : AfterReconstruct(req, snap) \in Requests
           /\ \A call \in Nat, cost \in CostClasses, ev \in SUBSET Events :
                  [req EXCEPT !.pc = "mark", !.call = call, !.cost = cost, !.ev = ev,
                              !.seen = AbsentRun] \in Requests
           /\ \A wake \in BOOLEAN : Receipting(req, wake) \in Requests
<1>1. AbsentRun \in Snapshots /\ NoCall \in Nat /\ "Low" \in CostClasses
  BY FirstSnapshots DEF NoCall, CostClasses
<1>2. {"read", "facts", "receipt", "mark"} \subseteq RequestPC /\ 2 \in 1 .. 2
  BY DEF RequestPC
<1>3. ASSUME NEW pc \in RequestPC, NEW snap \in Snapshots, NEW run \in Runs
      PROVE  /\ [req EXCEPT !.pc = pc] \in Requests
             /\ [req EXCEPT !.pc = pc, !.seen = snap] \in Requests
             /\ [req EXCEPT !.pc = pc, !.cur = snap, !.run = run] \in Requests
             /\ [req EXCEPT !.pc = pc, !.run = run, !.cur = snap] \in Requests
  BY DEF Requests
<1>4. ASSUME NEW pc \in RequestPC, NEW snap \in Snapshots
      PROVE  /\ [req EXCEPT !.pc = pc] \in Requests
             /\ [req EXCEPT !.pc = pc, !.seen = snap] \in Requests
  BY DEF Requests
<1>5. ASSUME NEW snap \in Snapshots
      PROVE  AfterReconstruct(req, snap) \in Requests
  <2>1. CASE req.pass = 1
    BY <1>1, <1>2, <2>1 DEF AfterReconstruct, Requests
  <2>2. CASE req.pass # 1
    BY <1>2, <2>2 DEF AfterReconstruct, Requests
  <2>3. QED
    BY <2>1, <2>2
<1>6. ASSUME NEW call \in Nat, NEW cost \in CostClasses, NEW ev \in SUBSET Events
      PROVE  [req EXCEPT !.pc = "mark", !.call = call, !.cost = cost, !.ev = ev,
                         !.seen = AbsentRun] \in Requests
  BY <1>1, <1>2 DEF Requests
<1>7. ASSUME NEW wake \in BOOLEAN
      PROVE  Receipting(req, wake) \in Requests
  BY <1>1, <1>2 DEF Receipting, Requests
<1>8. QED
  BY <1>1, <1>3, <1>4, <1>5, <1>6, <1>7

(* A driver that does not run, and one that was just spawned.              *)
LEMMA InitialDriver == IdleDriver \in Drivers /\ NewDriver \in Drivers
<1>1. AbsentRun \in Snapshots /\ NoCall \in Nat /\ "Low" \in CostClasses
      /\ {"idle", "step"} \subseteq DriverPC
  BY FirstSnapshots DEF NoCall, CostClasses, DriverPC
<1>2. IdleDriver \in Drivers
  BY <1>1 DEF IdleDriver, Drivers
<1>3. QED
  BY <1>1, <1>2 DEF NewDriver, Drivers

(* The drivers the actions build.                                          *)
LEMMA DriverFacts ==
    ASSUME NEW d \in Drivers, NEW pc \in DriverPC, NEW snap \in Snapshots,
           NEW call \in Nat, NEW cost \in CostClasses
    PROVE  /\ Leaving(pc) \in Drivers
           /\ NextStep(d) \in Drivers
           /\ [d EXCEPT !.pc = pc, !.cur = snap] \in Drivers
           /\ [d EXCEPT !.call = call, !.cost = cost] \in Drivers
<1>1. Leaving(pc) \in Drivers
  BY InitialDriver DEF Leaving, Drivers
<1>2. NextStep(d) \in Drivers
  <2>1. d.steps + 1 \in Nat
    BY DEF Drivers
  <2>2. QED
    BY <2>1, InitialDriver DEF NextStep, Drivers
<1>3. [d EXCEPT !.pc = pc, !.cur = snap] \in Drivers
      /\ [d EXCEPT !.call = call, !.cost = cost] \in Drivers
  BY DEF Drivers
<1>4. QED
  BY <1>1, <1>2, <1>3

-----------------------------------------------------------------------------
(* The building blocks of the actions keep the types.                      *)

LEMMA AppendBatchType ==
    ASSUME TypeInv, NEW r, NEW cur, NEW next \in Snapshots, NEW ev \in SUBSET Events,
           NEW cmd \in Cmds \cup {NoCmd}, AppendBatch(r, cur, next, ev, cmd)
    PROVE  /\ rows' \in [Runs -> Snapshots]
           /\ journal' \in [Runs -> Seq(Batches)]
<1>1. [snap |-> next, ev |-> ev, cmd |-> cmd] \in Batches
  BY DEF Batches
<1>2. rows' \in [Runs -> Snapshots]
  BY DEF TypeInv, TypeOK, AppendBatch
<1>3. journal' \in [Runs -> Seq(Batches)]
  <2>1. \A h \in Seq(Batches) :
            Append(h, [snap |-> next, ev |-> ev, cmd |-> cmd]) \in Seq(Batches)
    BY <1>1, AppendProperties
  <2>2. QED
    BY <2>1 DEF TypeInv, TypeOK, AppendBatch
<1>4. QED
  BY <1>2, <1>3

LEMMA InsertRunType ==
    ASSUME TypeInv, NEW r \in Runs, NEW snap \in Snapshots,
           NEW cmd \in Cmds \cup {NoCmd}, InsertRun(r, snap, cmd)
    PROVE  /\ rows' \in [Runs -> Snapshots]
           /\ journal' \in [Runs -> Seq(Batches)]
           /\ created' \in Seq(Runs)
<1>1. [snap |-> snap, ev |-> {}, cmd |-> cmd] \in Batches
  BY DEF Batches
<1>2. <<[snap |-> snap, ev |-> {}, cmd |-> cmd]>> \in Seq(Batches)
  BY <1>1
<1>3. QED
  BY <1>2 DEF TypeInv, TypeOK, InsertRun

LEMMA PutReceiptType ==
    ASSUME TypeInv, NEW req \in Requests, NEW run \in Runs \cup {NoRun},
           PutReceipt(req, run)
    PROVE  receipts' \in [Cmds -> Receipts]
<1>1. [kind |-> req.kind, target |-> req.target, run |-> run] \in Receipts
  BY DEF Receipts, Requests
<1>2. QED
  BY <1>1 DEF TypeInv, TypeOK, PutReceipt

LEMMA SetDriverType ==
    ASSUME TypeInv, NEW p \in Procs, NEW r \in Runs, NEW d \in Drivers,
           SetDriver(p, r, d)
    PROVE  drv' \in [Procs -> [Runs -> Drivers]]
BY DEF TypeInv, TypeOK, SetDriver

LEMMA SetRequestType ==
    ASSUME TypeInv, NEW q \in Slots, NEW req \in Requests, WellAddressed(req),
           SetRequest(q, req)
    PROVE  /\ reqs' \in [Slots -> Requests]
           /\ \A k \in Slots : WellAddressed(reqs'[k])
BY DEF TypeInv, TypeOK, SetRequest

(* A driver's append.                                                      *)
LEMMA StepAppendType ==
    ASSUME TypeInv, NEW p \in Procs, NEW r \in Runs, NEW next \in Snapshots,
           NEW ev \in SUBSET Events, NEW d \in Drivers,
           StepAppend(p, r, next, ev, d), lastCall' \in Nat
    PROVE  TypeInv'
<1>1. /\ AppendBatch(r, Driver(p, r).cur, next, ev, NoCmd)
      /\ SetDriver(p, r, d)
      /\ UNCHANGED <<created, receipts, reqs, sched, crashes>>
  BY DEF StepAppend
<1>2. rows' \in [Runs -> Snapshots] /\ journal' \in [Runs -> Seq(Batches)]
  BY <1>1, AppendBatchType
<1>3. drv' \in [Procs -> [Runs -> Drivers]]
  BY <1>1, SetDriverType
<1>4. QED
  BY <1>1, <1>2, <1>3 DEF TypeInv, TypeOK

(* A driver's step that leaves the store alone.                            *)
LEMMA DriverMoveType ==
    ASSUME TypeInv, NEW p \in Procs, NEW r \in Runs, NEW d \in Drivers,
           SetDriver(p, r, d), sched' \in [Procs -> SUBSET Runs],
           UNCHANGED <<store, reqs, lastCall, crashes>>
    PROVE  TypeInv'
<1>1. drv' \in [Procs -> [Runs -> Drivers]]
  BY SetDriverType
<1>2. QED
  BY <1>1 DEF TypeInv, TypeOK, store

(* A request's step that leaves the store alone.                           *)
LEMMA RequestMoveType ==
    ASSUME TypeInv, NEW q \in Slots, NEW req \in Requests, WellAddressed(req),
           SetRequest(q, req), UNCHANGED <<store, sched, drv, lastCall, crashes>>
    PROVE  TypeInv'
<1>1. reqs' \in [Slots -> Requests] /\ \A k \in Slots : WellAddressed(reqs'[k])
  BY SetRequestType
<1>2. QED
  BY <1>1 DEF TypeInv, TypeOK, store

-----------------------------------------------------------------------------
(* Every step of a driver keeps the types.                                 *)
LEMMA DriverNextType ==
    ASSUME TypeInv, NEW p \in Procs, NEW r \in Runs, DriverNext(p, r)
    PROVE  TypeInv'
<1> DEFINE d == Driver(p, r)
           running == NextSnapshot(d.cur, "Running", "none")
<1>1. /\ d \in Drivers /\ d.cur \in Snapshots
      /\ d.call \in Nat /\ d.cost \in CostClasses
      /\ d.cur.pend \in Nat /\ d.cur.cost \in CostClasses
  <2>1. d \in Drivers
    BY DEF TypeInv, TypeOK, Driver
  <2>2. QED
    BY <2>1 DEF Drivers, Snapshots
<1>2. /\ running \in Snapshots
      /\ TakePending(d.cur) \in Snapshots
      /\ \A s \in RunStatus, w \in Waits : NextSnapshot(d.cur, s, w) \in Snapshots
  <2>1. \A s \in RunStatus, w \in Waits : NextSnapshot(d.cur, s, w) \in Snapshots
    BY <1>1, NextSnapshotFacts
  <2>2. "Running" \in RunStatus /\ "none" \in Waits
    BY DEF RunStatus, Waits
  <2>3. QED
    BY <1>1, <2>1, <2>2, TakePendingFacts
<1>3. /\ NewDriver \in Drivers /\ IdleDriver \in Drivers /\ NextStep(d) \in Drivers
      /\ \A pc \in DriverPC : Leaving(pc) \in Drivers
      /\ \A pc \in DriverPC, snap \in Snapshots : Holding(p, r, pc, snap) \in Drivers
  <2>1. "Low" \in CostClasses
    BY DEF CostClasses
  <2>2. \A pc \in DriverPC, snap \in Snapshots :
            [d EXCEPT !.pc = pc, !.cur = snap] \in Drivers
    BY <1>1, <2>1, DriverFacts
  <2>3. \A pc \in DriverPC : Leaving(pc) \in Drivers
    BY <1>1, <2>1, DriverFacts
  <2>4. "idle" \in DriverPC
    BY DEF DriverPC
  <2>5. NewDriver \in Drivers /\ IdleDriver \in Drivers /\ NextStep(d) \in Drivers
    BY <1>1, <2>1, <2>4, DriverFacts, InitialDriver
  <2>6. QED
    BY <2>2, <2>3, <2>5 DEF Holding
<1>4. /\ lastCall \in Nat /\ sched \in [Procs -> SUBSET Runs]
      /\ rows[r] \in Snapshots /\ Costs \subseteq CostClasses
  BY CostsAssumption DEF TypeInv, TypeOK
<1>5. /\ \A t \in EventTypes, call \in Nat, cost \in CostClasses :
             {ToolEvent(t, call, cost)} \in SUBSET Events
      /\ {} \in SUBSET Events
      /\ {"started", "rejected", "ended"} \subseteq EventTypes
  BY ToolEventType DEF EventTypes
<1>6. DriverPC = {"idle", "step", "loaded", "model", "acked", "tool", "outcome",
                  "failload", "failappend", "returned"}
  BY DEF DriverPC
<1>7. RunStatus = {"Running", "WaitingForInput", "Succeeded", "Failed", "Cancelled"}
      /\ {"none", "clarification"} \subseteq Waits
  BY DEF RunStatus, Waits
<1> HIDE DEF d, running
<1>8. CASE StepLoad(p, r)
  <2>1. /\ \/ SetDriver(p, r, Holding(p, r, "loaded", rows[r]))
           \/ SetDriver(p, r, Leaving("outcome"))
        /\ UNCHANGED <<store, reqs, sched, lastCall, crashes>>
    BY <1>8 DEF StepLoad, Goto
  <2>2. QED
    BY <2>1, <1>3, <1>4, <1>6, DriverMoveType
<1>9. ASSUME NEW pc \in DriverPC, Goto(p, r, pc),
             UNCHANGED <<store, reqs, sched, lastCall, crashes>>
      PROVE  TypeInv'
  BY <1>9, <1>3, <1>4, DriverMoveType DEF Goto
<1>10. CASE BudgetExceeded(p, r) \/ StepFails(p, r) \/ LoopReturns(p, r)
            \/ OutcomeOverrun(p, r) \/ FailConflict(p, r)
  <2>1. /\ Goto(p, r, "failload") \/ Goto(p, r, "returned")
        /\ UNCHANGED <<store, reqs, sched, lastCall, crashes>>
    BY <1>10 DEF BudgetExceeded, StepFails, LoopReturns, OutcomeOverrun, FailConflict
  <2>2. QED
    BY <2>1, <1>6, <1>9
<1>11. CASE FailLoad(p, r)
  BY <1>11, <1>3, <1>4, <1>6, DriverMoveType DEF FailLoad
<1>12. CASE Release(p, r)
  <2>1. sched' \in [Procs -> SUBSET Runs]
    BY <1>12, <1>4 DEF Release, Forget
  <2>2. QED
    BY <1>12, <2>1, <1>3, DriverMoveType DEF Release
<1>13. ASSUME NEW next \in Snapshots, NEW ev \in SUBSET Events, NEW e \in Drivers,
              StepAppend(p, r, next, ev, e), lastCall' \in Nat
       PROVE  TypeInv'
  BY <1>13, StepAppendType
<1>14. CASE Advance(p, r) \/ ModelContinues(p, r)
  <2>1. StepAppend(p, r, running, {}, NextStep(d)) /\ lastCall' = lastCall
    BY <1>14 DEF Advance, ModelContinues, d, running
  <2>2. QED
    BY <2>1, <1>2, <1>3, <1>4, <1>5, <1>13
<1>15. CASE RequestModel(p, r) \/ ModelAcknowledged(p, r)
  <2>1. /\ \/ StepAppend(p, r, running, {}, Holding(p, r, "model", running))
           \/ StepAppend(p, r, running, {}, Holding(p, r, "acked", running))
        /\ lastCall' = lastCall
    BY <1>15 DEF RequestModel, ModelAcknowledged, d, running
  <2>2. QED
    BY <2>1, <1>2, <1>3, <1>4, <1>5, <1>6, <1>13
<1>16. CASE VerificationFails(p, r) \/ Complete(p, r)
  <2>1. /\ \E s \in {"Succeeded", "Failed"} :
              StepAppend(p, r, NextSnapshot(d.cur, s, "none"), {}, Leaving("outcome"))
        /\ lastCall' = lastCall
    BY <1>16 DEF VerificationFails, Complete, d
  <2>2. QED
    BY <2>1, <1>2, <1>3, <1>4, <1>5, <1>6, <1>7, <1>13
<1>17. CASE Wait(p, r)
  <2>1. /\ StepAppend(p, r, NextSnapshot(d.cur, "WaitingForInput", "clarification"),
                      {}, Leaving("outcome"))
        /\ lastCall' = lastCall
    BY <1>17 DEF Wait, d
  <2>2. QED
    BY <2>1, <1>2, <1>3, <1>4, <1>5, <1>6, <1>7, <1>13
<1>18. CASE FailAppend(p, r)
  <2>1. /\ StepAppend(p, r, NextSnapshot(d.cur, "Failed", "none"), {}, Leaving("returned"))
        /\ lastCall' = lastCall
    BY <1>18 DEF FailAppend, d
  <2>2. QED
    BY <2>1, <1>2, <1>3, <1>4, <1>5, <1>6, <1>7, <1>13
<1>19. CASE ToolRejected(p, r)
  <2>1. PICK cost \in Costs :
            StepAppend(p, r, running, {ToolEvent("rejected", lastCall', cost)}, NextStep(d))
    BY <1>19 DEF ToolRejected, d, running
  <2>2. lastCall' \in Nat
    BY <1>19, <1>4 DEF ToolRejected
  <2>3. QED
    BY <2>1, <2>2, <1>2, <1>3, <1>4, <1>5, <1>13
<1>20. ASSUME NEW next \in Snapshots, NEW call \in Nat, NEW cost \in CostClasses
       PROVE  [Holding(p, r, "tool", next) EXCEPT !.call = call, !.cost = cost]
                 \in Drivers
  <2>1. Holding(p, r, "tool", next) \in Drivers
    BY <1>3, <1>6
  <2>2. QED
    BY <2>1, <1>6, DriverFacts
<1>21. CASE ToolStarted(p, r)
  <2>1. PICK cost \in Costs :
            StepAppend(p, r, running, {ToolEvent("started", lastCall', cost)},
                       [Holding(p, r, "tool", running) EXCEPT
                          !.call = lastCall', !.cost = cost])
    BY <1>21 DEF ToolStarted, d, running
  <2>2. lastCall' \in Nat
    BY <1>21, <1>4 DEF ToolStarted
  <2>3. QED
    BY <2>1, <2>2, <1>2, <1>4, <1>5, <1>13, <1>20
<1>22. CASE RecoveredToolRejected(p, r)
  <2>1. StepAppend(p, r, TakePending(d.cur),
                   {ToolEvent("rejected", d.cur.pend, d.cur.cost)}, NextStep(d))
        /\ lastCall' = lastCall
    BY <1>22 DEF RecoveredToolRejected, d
  <2>2. QED
    BY <2>1, <1>1, <1>2, <1>3, <1>4, <1>5, <1>13
<1>23. CASE RecoveredToolStarted(p, r)
  <2>1. StepAppend(p, r, TakePending(d.cur),
                   {ToolEvent("started", d.cur.pend, d.cur.cost)},
                   [Holding(p, r, "tool", TakePending(d.cur)) EXCEPT
                      !.call = d.cur.pend, !.cost = d.cur.cost])
        /\ lastCall' = lastCall
    BY <1>23 DEF RecoveredToolStarted, d
  <2>2. QED
    BY <2>1, <1>1, <1>2, <1>4, <1>5, <1>13, <1>20
<1>24. CASE ToolEnded(p, r)
  <2>1. StepAppend(p, r, running, {ToolEvent("ended", d.call, d.cost)}, NextStep(d))
        /\ lastCall' = lastCall
    BY <1>24 DEF ToolEnded, d, running
  <2>2. QED
    BY <2>1, <1>1, <1>2, <1>3, <1>4, <1>5, <1>13
<1>25. QED
  BY <1>8, <1>10, <1>11, <1>12, <1>14, <1>15, <1>16, <1>17, <1>18, <1>19, <1>21,
     <1>22, <1>23, <1>24 DEF DriverNext

-----------------------------------------------------------------------------
(* Every step of a request keeps the types.                                *)

(* The calls recovery finds in a history are numbers, the costs are costs. *)
LEMMA HistoryFacts ==
    ASSUME NEW history \in Seq(Batches)
    PROVE  /\ UnfinishedCalls(history) \subseteq Nat
           /\ \A call \in UnfinishedCalls(history) :
                 CostOfCall(history, call) \in CostClasses
           /\ UnresolvedUnknown(history) => LatestUnknown(history) \in Nat
           /\ Projectable(history) => Projection(history) \in Snapshots
<1>1. \A i \in DOMAIN history : history[i] \in Batches
  OBVIOUS
<1>2. \A i \in DOMAIN history : \A e \in history[i].ev :
          e \in Events /\ e.call \in Nat /\ e.cost \in CostClasses
  BY <1>1 DEF Batches, Events
<1>3. UnfinishedCalls(history) \subseteq Nat
  BY <1>2 DEF UnfinishedCalls, CallsOf
<1>4. ASSUME NEW call \in UnfinishedCalls(history)
      PROVE  CostOfCall(history, call) \in CostClasses
  <2>1. PICK i \in DOMAIN history :
            \E e \in history[i].ev : e.type = "started" /\ e.call = call
    BY <1>4 DEF UnfinishedCalls, CallsOf
  <2>2. PICK e \in history[i].ev :
            e.type = "started" /\ e = ToolEvent("started", call, e.cost)
    BY <1>2, <2>1 DEF Events, ToolEvent
  <2>3. \E cost \in CostClasses :
            \E k \in DOMAIN history : ToolEvent("started", call, cost) \in history[k].ev
    BY <1>2, <2>1, <2>2
  <2>4. QED
    BY <2>3 DEF CostOfCall
<1>5. ASSUME UnresolvedUnknown(history)
      PROVE  LatestUnknown(history) \in Nat
  <2> DEFINE last == CHOOSE i \in DOMAIN history : UnresolvedAt(history, i)
  <2>1. last \in DOMAIN history /\ UnresolvedAt(history, last)
    BY <1>5 DEF UnresolvedUnknown
  <2>2. \E e \in history[last].ev : IsUnknown(e)
    BY <2>1 DEF UnresolvedAt
  <2>3. (CHOOSE e \in history[last].ev : IsUnknown(e)) \in history[last].ev
    BY <2>2
  <2>4. QED
    BY <1>2, <2>1, <2>3 DEF LatestUnknown
<1>6. ASSUME Projectable(history)
      PROVE  Projection(history) \in Snapshots
  <2>1. Len(history) \in DOMAIN history
    BY <1>6 DEF Projectable
  <2>2. QED
    BY <1>1, <2>1 DEF Projection, Batches
<1>7. QED
  BY <1>3, <1>4, <1>5, <1>6

(* A call that returns, or that goes on to schedule a Run.                 *)
LEMMA ReplyType ==
    ASSUME TypeInv, NEW q \in Slots, NEW run \in Runs \cup {NoRun},
           Reply(q, run) \/ Refuse(q) \/ (run \in Runs /\ Wake(q, run))
    PROVE  /\ reqs' \in [Slots -> Requests]
           /\ \A k \in Slots : WellAddressed(reqs'[k])
<1>1. reqs[q] \in Requests /\ NoRun \in Runs \cup {NoRun}
  BY DEF TypeInv, TypeOK
<1>2. PICK req \in Requests : WellAddressed(req) /\ SetRequest(q, req)
  BY <1>1, RepliedType, WakingType DEF Reply, Refuse, Wake
<1>3. QED
  BY <1>2, SetRequestType

LEMMA RequestNextType ==
    ASSUME TypeInv, NEW q \in Slots, RequestNext(q) \/ CallFails(q)
    PROVE  TypeInv'
<1> DEFINE req == reqs[q]
<1>1. /\ req \in Requests /\ WellAddressed(req)
      /\ req.run \in Runs \cup {NoRun} /\ req.target \in Runs \cup {NoRun}
      /\ req.cur \in Snapshots /\ req.seen \in Snapshots
      /\ req.call \in Nat /\ req.cost \in CostClasses /\ req.ev \in SUBSET Events
      /\ req.cmd \in Cmds \cup {NoCmd} /\ req.proc \in Procs \cup {NoProc}
  <2>1. req \in Requests /\ WellAddressed(req)
    BY DEF TypeInv, TypeOK
  <2>2. QED
    BY <2>1 DEF Requests
<1>2. /\ rows \in [Runs -> Snapshots] /\ journal \in [Runs -> Seq(Batches)]
      /\ created \in Seq(Runs) /\ receipts \in [Cmds -> Receipts]
      /\ lastCall \in Nat
  BY DEF TypeInv, TypeOK
<1>3. RequestPC = {"idle", "check", "load", "commit", "read", "compare", "replace",
                   "facts", "mark", "receipt", "schedule", "done"}
  BY DEF RequestPC
<1>4. ASSUME NEW run \in Runs \cup {NoRun},
             Reply(q, run) \/ Refuse(q) \/ (run \in Runs /\ Wake(q, run)),
             UNCHANGED <<store, sched, drv, lastCall, crashes>>
      PROVE  TypeInv'
  <2>1. reqs' \in [Slots -> Requests] /\ \A k \in Slots : WellAddressed(reqs'[k])
    BY <1>4, ReplyType
  <2>2. QED
    BY <1>4, <2>1 DEF TypeInv, TypeOK, store
<1>5. /\ \A pc \in RequestPC : [req EXCEPT !.pc = pc] \in Requests
      /\ \A pc \in RequestPC, snap \in Snapshots :
             [req EXCEPT !.pc = pc, !.seen = snap] \in Requests
      /\ \A pc \in RequestPC, snap \in Snapshots, run \in Runs :
             /\ [req EXCEPT !.pc = pc, !.cur = snap, !.run = run] \in Requests
             /\ [req EXCEPT !.pc = pc, !.run = run, !.cur = snap] \in Requests
      /\ \A snap \in Snapshots : AfterReconstruct(req, snap) \in Requests
      /\ \A call \in Nat, cost \in CostClasses, ev \in SUBSET Events :
             [req EXCEPT !.pc = "mark", !.call = call, !.cost = cost, !.ev = ev,
                         !.seen = AbsentRun] \in Requests
      /\ \A wake \in BOOLEAN : Receipting(req, wake) \in Requests
  <2>1. req \in Requests
    BY <1>1
  <2> HIDE DEF req
  <2>2. QED
    BY <2>1, RequestUpdates, Zenon
<1>6. ASSUME NEW snap \in Snapshots, req.run \in Runs, req.cmd \in Cmds
      PROVE  WellAddressed(AfterReconstruct(req, snap))
  <2>1. CASE req.pass = 1
    BY <1>1, <1>6, <2>1 DEF AfterReconstruct, WellAddressed, Requests
  <2>2. CASE req.pass # 1
    BY <1>1, <1>6, <2>2 DEF AfterReconstruct, WellAddressed, Requests
  <2>3. QED
    BY <2>1, <2>2
<1>7. ASSUME NEW wake \in BOOLEAN, req.cmd \in Cmds, req.run \in Runs
      PROVE  WellAddressed(Receipting(req, wake))
  BY <1>1, <1>7 DEF Receipting, WellAddressed, Requests
<1>8. /\ req.pc \notin {"idle", "schedule", "done"} => req.cmd \in Cmds
      /\ req.pc \in {"read", "compare", "replace", "facts", "mark", "receipt", "schedule"} =>
          req.run \in Runs
      /\ req.kind \in {"answer", "cancel"} => req.target \in Runs
      /\ req.kind \in {"answer", "cancel"} /\ req.pc = "commit" => req.run \in Runs
  BY <1>1 DEF WellAddressed
<1>9. ASSUME req.cmd \in Cmds
      PROVE  receipts[req.cmd].run \in Runs \cup {NoRun}
  BY <1>2, <1>9 DEF Receipts
<1>10. FreshRuns \subseteq Runs
  BY DEF FreshRuns
<1>11. ASSUME NEW next \in Requests, WellAddressed(next), SetRequest(q, next),
              UNCHANGED <<store, sched, drv, lastCall, crashes>>
       PROVE  TypeInv'
  BY <1>11, RequestMoveType
<1> HIDE DEF req
<1>12. CASE CheckReceipt(q)
  <2>1. CASE ~HasReceipt(req.cmd)
    <3>1. SetRequest(q, [req EXCEPT !.pc = IF req.kind = "start" THEN "commit" ELSE "load"])
      BY <1>12, <2>1 DEF CheckReceipt, RequestGoto, req
    <3>2. req.pc = "check" /\ UNCHANGED <<store, sched, drv, lastCall, crashes>>
      BY <1>12 DEF CheckReceipt, RequestAt, req
    <3>3. WellAddressed([req EXCEPT !.pc = IF req.kind = "start" THEN "commit" ELSE "load"])
      BY <1>1, <3>2 DEF WellAddressed, Requests
    <3>4. QED
      BY <1>3, <1>5, <1>11, <3>1, <3>2, <3>3
  <2>2. CASE HasReceipt(req.cmd)
    <3>1. /\ Reply(q, receipts[req.cmd].run) \/ Refuse(q)
          /\ req.pc = "check" /\ UNCHANGED <<store, sched, drv, lastCall, crashes>>
      BY <1>12, <2>2 DEF CheckReceipt, RequestAt, req
    <3>2. QED
      BY <1>4, <1>8, <1>9, <3>1
  <2>3. QED
    BY <2>1, <2>2
<1>13. CASE ResumeLoad(q)
  <2>1. /\ req.pc = "load" /\ req.kind = "resume"
        /\ UNCHANGED <<store, sched, drv, lastCall, crashes>>
    BY <1>13 DEF ResumeLoad, RequestAt, req
  <2>2. CASE created = <<>>
    <3>1. SetRequest(q, [req EXCEPT !.pc = "commit"])
      BY <1>13, <2>2 DEF ResumeLoad, RequestGoto, req
    <3>2. WellAddressed([req EXCEPT !.pc = "commit"])
      BY <1>1, <2>1 DEF WellAddressed, Requests
    <3>3. QED
      BY <1>3, <1>5, <1>11, <2>1, <3>1, <3>2
  <2>3. CASE created # <<>>
    <3> DEFINE last == created[Len(created)]
               pc   == IF rows[last].status = "Failed" THEN "commit" ELSE "read"
    <3>1. last \in Runs /\ rows[last] \in Snapshots
      BY <1>2, <2>3
    <3>2. SetRequest(q, [req EXCEPT !.pc = pc, !.run = last, !.cur = rows[last]])
      BY <1>13, <2>3 DEF ResumeLoad, req
    <3>3. WellAddressed([req EXCEPT !.pc = pc, !.run = last, !.cur = rows[last]])
      BY <1>1, <2>1, <3>1 DEF WellAddressed, Requests
    <3>4. pc \in RequestPC
      BY <1>3
    <3> HIDE DEF last, pc
    <3>5. QED
      BY <1>5, <1>11, <2>1, <3>1, <3>2, <3>3, <3>4
  <2>4. QED
    BY <2>2, <2>3
<1>14. CASE AnswerLoad(q) \/ CancelLoad(q)
  <2> DEFINE row == rows[req.target]
             loaded == [req EXCEPT !.pc = "commit", !.cur = row, !.run = req.target]
  <2>1. /\ req.pc = "load" /\ req.kind \in {"answer", "cancel"}
        /\ Refuse(q) \/ SetRequest(q, loaded)
        /\ UNCHANGED <<store, sched, drv, lastCall, crashes>>
    BY <1>14 DEF AnswerLoad, CancelLoad, RequestAt, req
  <2>2. req.target \in Runs /\ row \in Snapshots
    BY <1>2, <1>8, <2>1
  <2>3. loaded \in Requests
    BY <1>3, <1>5, <2>2
  <2>4. WellAddressed(loaded)
    BY <1>1, <1>8, <2>1, <2>2 DEF WellAddressed, Requests
  <2> HIDE DEF row, loaded
  <2>5. QED
    BY <1>4, <1>11, <2>1, <2>3, <2>4
<1>15. CASE StartRecommit(q) \/ ResumeRecommit(q) \/ UpdateRecommit(q)
  <2>1. req.cmd \in Cmds /\ UNCHANGED <<store, sched, drv, lastCall, crashes>>
    BY <1>8, <1>15 DEF StartRecommit, ResumeRecommit, UpdateRecommit, Recommit,
                       RequestAt, req
  <2>2. \E run \in Runs \cup {NoRun} :
            Reply(q, run) \/ Refuse(q) \/ (run \in Runs /\ Wake(q, run))
    BY <1>1, <1>8, <1>9, <1>10, <1>15, <2>1
       DEF StartRecommit, ResumeRecommit, UpdateRecommit, Recommit, RequestAt, req
  <2>3. QED
    BY <1>4, <2>1, <2>2
<1>16. CASE CommitStart(q) \/ CommitResume(q)
  <2>1. PICK r \in FreshRuns, snap \in Snapshots :
            /\ PutReceipt(req, r)
            /\ InsertRun(r, snap, req.cmd)
            /\ Wake(q, r) \/ Reply(q, r)
    <3>1. RunningSnapshot \in Snapshots /\ WaitingSnapshot \in Snapshots
          /\ RetrySnapshot(req.cur, req.run) \in Snapshots
      BY <1>1, FirstSnapshots, RetrySnapshotFacts
    <3>2. QED
      BY <1>16, <3>1 DEF CommitStart, CommitResume, req
  <2>2. UNCHANGED <<sched, drv, lastCall, crashes>>
    BY <1>16 DEF CommitStart, CommitResume
  <2>3. r \in Runs
    BY <1>10
  <2>4. receipts' \in [Cmds -> Receipts]
    BY <1>1, <2>1, <2>3, PutReceiptType
  <2>5. /\ rows' \in [Runs -> Snapshots]
        /\ journal' \in [Runs -> Seq(Batches)]
        /\ created' \in Seq(Runs)
    BY <1>1, <2>1, <2>3, InsertRunType
  <2>6. reqs' \in [Slots -> Requests] /\ \A k \in Slots : WellAddressed(reqs'[k])
    BY <2>1, <2>3, ReplyType
  <2>7. QED
    BY <2>2, <2>4, <2>5, <2>6 DEF TypeInv, TypeOK
<1>17. CASE CommitAnswer(q) \/ CommitCancel(q)
  <2>1. lastCall' \in Nat /\ UNCHANGED <<created, sched, drv, crashes>>
    BY <1>2, <1>17 DEF CommitAnswer, CommitCancel
  <2>2. PICK snap \in Snapshots, ev \in SUBSET Events :
            /\ AppendBatch(req.run, req.cur, snap, ev, req.cmd)
            /\ PutReceipt(req, req.run)
            /\ (req.run \in Runs /\ Wake(q, req.run)) \/ Reply(q, req.run)
    <3>1. /\ AnsweredSnapshot(req.cur, lastCall') \in Snapshots
          /\ NextSnapshot(req.cur, "Cancelled", "none") \in Snapshots
      BY <1>1, <2>1, AnsweredSnapshotFacts, NextSnapshotFacts DEF RunStatus, Waits
    <3>2. {RunResumed} \in SUBSET Events /\ {} \in SUBSET Events
      BY IndeterminateEventsType DEF CostClasses
    <3>3. QED
      BY <1>8, <1>17, <3>1, <3>2 DEF CommitAnswer, CommitCancel, RequestAt, req
  <2>3. rows' \in [Runs -> Snapshots] /\ journal' \in [Runs -> Seq(Batches)]
    BY <1>1, <2>2, AppendBatchType
  <2>4. receipts' \in [Cmds -> Receipts]
    BY <1>1, <2>2, PutReceiptType
  <2>5. reqs' \in [Slots -> Requests] /\ \A k \in Slots : WellAddressed(reqs'[k])
    BY <1>1, <2>2, ReplyType
  <2>6. QED
    BY <2>1, <2>3, <2>4, <2>5 DEF TypeInv, TypeOK
<1>18. CASE CommitConflict(q) \/ ReadCorrupt(q) \/ MarkConflict(q) \/ CallFails(q)
  <2>1. Refuse(q) /\ UNCHANGED <<store, sched, drv, lastCall, crashes>>
    BY <1>18 DEF CommitConflict, ReadCorrupt, MarkConflict, CallFails
  <2>2. QED
    BY <1>4, <2>1
<1>19. CASE Reconstruct(q)
  <2> DEFINE snap == Projection(journal[req.run])
  <2>1. req.pc = "read" /\ req.run \in Runs /\ req.cmd \in Cmds
    BY <1>8, <1>19 DEF Reconstruct, RequestAt, req
  <2>2. /\ rows' = [rows EXCEPT ![req.run] = snap]
        /\ SetRequest(q, AfterReconstruct(req, snap))
        /\ UNCHANGED <<journal, created, receipts, sched, drv, lastCall, crashes>>
    BY <1>19 DEF Reconstruct, req
  <2>3. snap \in Snapshots
    BY <1>2, <1>19, <2>1, HistoryFacts DEF Reconstruct, req
  <2>4. AfterReconstruct(req, snap) \in Requests
        /\ WellAddressed(AfterReconstruct(req, snap))
    BY <1>5, <1>6, <2>1, <2>3
  <2>5. reqs' \in [Slots -> Requests] /\ \A k \in Slots : WellAddressed(reqs'[k])
    BY <2>2, <2>4, SetRequestType
  <2>6. rows' \in [Runs -> Snapshots]
    BY <1>2, <2>2, <2>3
  <2>7. QED
    BY <2>2, <2>5, <2>6 DEF TypeInv, TypeOK
<1>20. CASE ReadProjection(q)
  <2> DEFINE snap == Projection(journal[req.run])
             next == [req EXCEPT !.pc = "compare", !.seen = snap]
  <2>1. req.pc = "read" /\ req.run \in Runs /\ req.cmd \in Cmds
    BY <1>8, <1>20 DEF ReadProjection, RequestAt, req
  <2>2. SetRequest(q, next) /\ UNCHANGED <<store, sched, drv, lastCall, crashes>>
    BY <1>20 DEF ReadProjection, req
  <2>3. snap \in Snapshots
    BY <1>2, <1>20, <2>1, HistoryFacts DEF ReadProjection, req
  <2>4. next \in Requests
    BY <1>3, <1>5, <2>3
  <2>5. WellAddressed(next)
    BY <1>1, <2>1, <1>8 DEF WellAddressed, Requests
  <2> HIDE DEF next
  <2>6. QED
    BY <1>11, <2>2, <2>4, <2>5
<1>21. CASE CompareCache(q)
  <2> DEFINE next == [req EXCEPT !.pc = "replace"]
  <2>1. req.pc = "compare" /\ req.run \in Runs /\ req.cmd \in Cmds
    BY <1>8, <1>21 DEF CompareCache, RequestAt, req
  <2>2. /\ SetRequest(q, AfterReconstruct(req, req.seen)) \/ SetRequest(q, next)
        /\ UNCHANGED <<store, sched, drv, lastCall, crashes>>
    BY <1>21 DEF CompareCache, req
  <2>3. next \in Requests
    BY <1>3, <1>5
  <2>4. WellAddressed(next)
    BY <1>1, <2>1, <1>8 DEF WellAddressed, Requests
  <2>5. AfterReconstruct(req, req.seen) \in Requests
        /\ WellAddressed(AfterReconstruct(req, req.seen))
    BY <1>1, <1>5, <1>6, <2>1
  <2> HIDE DEF next
  <2>6. QED
    BY <1>11, <2>2, <2>3, <2>4, <2>5
<1>22. CASE ReplaceCache(q)
  <2>1. req.pc = "replace" /\ req.run \in Runs /\ req.cmd \in Cmds
    BY <1>8, <1>22 DEF ReplaceCache, RequestAt, req
  <2>2. /\ rows' = [rows EXCEPT ![req.run] = req.seen]
        /\ SetRequest(q, AfterReconstruct(req, req.seen))
        /\ UNCHANGED <<journal, created, receipts, sched, drv, lastCall, crashes>>
    BY <1>22 DEF ReplaceCache, req
  <2>3. AfterReconstruct(req, req.seen) \in Requests
        /\ WellAddressed(AfterReconstruct(req, req.seen))
    BY <1>1, <1>5, <1>6, <2>1
  <2>4. reqs' \in [Slots -> Requests] /\ \A k \in Slots : WellAddressed(reqs'[k])
    BY <2>2, <2>3, SetRequestType
  <2>5. rows' \in [Runs -> Snapshots]
    BY <1>1, <1>2, <2>2
  <2>6. QED
    BY <2>2, <2>4, <2>5 DEF TypeInv, TypeOK
<1>23. CASE Assess(q)
  <2> DEFINE history == journal[req.run]
             marked(call, cost, ev) ==
                 [req EXCEPT !.pc = "mark", !.call = call, !.cost = cost, !.ev = ev,
                             !.seen = AbsentRun]
  <2>1. req.pc = "facts" /\ req.run \in Runs /\ req.cmd \in Cmds
    BY <1>8, <1>23 DEF Assess, RequestAt, req
  <2>2. history \in Seq(Batches)
    BY <1>2, <2>1
  <2>3. /\ \/ Refuse(q)
           \/ \E wake \in BOOLEAN : SetRequest(q, Receipting(req, wake))
           \/ \E call \in UnfinishedCalls(history) :
                 LET cost == CostOfCall(history, call) IN
                 SetRequest(q, marked(call, cost, IndeterminateEvents(call, cost)))
           \/ /\ UnresolvedUnknown(history)
              /\ SetRequest(q, marked(LatestUnknown(history), "High", {}))
        /\ UNCHANGED <<store, sched, drv, lastCall, crashes>>
    BY <1>23 DEF Assess, req
  <2>4. ASSUME NEW call \in Nat, NEW cost \in CostClasses, NEW ev \in SUBSET Events
        PROVE  marked(call, cost, ev) \in Requests /\ WellAddressed(marked(call, cost, ev))
    <3>1. WellAddressed(marked(call, cost, ev))
      BY <1>1, <1>8, <2>1 DEF WellAddressed, Requests
    <3>2. QED
      BY <1>5, <3>1
  <2>5. \A wake \in BOOLEAN : Receipting(req, wake) \in Requests
                                /\ WellAddressed(Receipting(req, wake))
    BY <1>5, <1>7, <2>1
  <2>6. "High" \in CostClasses /\ {} \in SUBSET Events
    BY DEF CostClasses
  <2> HIDE DEF history, marked
  <2>7. CASE Refuse(q)
    BY <1>4, <2>3, <2>7
  <2>8. CASE \E wake \in BOOLEAN : SetRequest(q, Receipting(req, wake))
    BY <1>11, <2>3, <2>5, <2>8
  <2>9. ASSUME NEW call \in UnfinishedCalls(history),
               SetRequest(q, marked(call, CostOfCall(history, call),
                             IndeterminateEvents(call, CostOfCall(history, call))))
        PROVE  TypeInv'
    <3>1. call \in Nat /\ CostOfCall(history, call) \in CostClasses
      BY <2>2, HistoryFacts
    <3>2. IndeterminateEvents(call, CostOfCall(history, call)) \in SUBSET Events
      BY <3>1, IndeterminateEventsType
    <3>3. QED
      BY <1>11, <2>3, <2>4, <2>9, <3>1, <3>2
  <2>10. CASE UnresolvedUnknown(history)
              /\ SetRequest(q, marked(LatestUnknown(history), "High", {}))
    <3>1. LatestUnknown(history) \in Nat
      BY <2>2, <2>10, HistoryFacts
    <3>2. QED
      BY <1>11, <2>3, <2>4, <2>6, <2>10, <3>1
  <2>11. QED
    BY <2>3, <2>7, <2>8, <2>9, <2>10
<1>24. CASE MarkIndeterminate(q)
  <2>1. req.pc = "mark" /\ req.run \in Runs /\ req.cmd \in Cmds
    BY <1>8, <1>24 DEF MarkIndeterminate, RequestAt, req
  <2>2. lastCall' \in Nat
    BY <1>2, <1>24 DEF MarkIndeterminate
  <2>3. PICK snap \in Snapshots : AppendBatch(req.run, req.cur, snap, req.ev, NoCmd)
    BY <1>1, <1>24, <2>2, IndeterminateSnapshotFacts DEF MarkIndeterminate, req
  <2>4. rows' \in [Runs -> Snapshots] /\ journal' \in [Runs -> Seq(Batches)]
    BY <1>1, <2>3, AppendBatchType
  <2>5. /\ SetRequest(q, Receipting(req, req.cost = "Low"))
        /\ UNCHANGED <<created, receipts, sched, drv, crashes>>
    BY <1>24 DEF MarkIndeterminate, req
  <2>6. Receipting(req, req.cost = "Low") \in Requests
        /\ WellAddressed(Receipting(req, req.cost = "Low"))
    BY <1>5, <1>7, <2>1
  <2>7. reqs' \in [Slots -> Requests] /\ \A k \in Slots : WellAddressed(reqs'[k])
    BY <2>5, <2>6, SetRequestType
  <2>8. QED
    BY <2>2, <2>4, <2>5, <2>7 DEF TypeInv, TypeOK
<1>25. CASE CommitResumed(q)
  <2>1. \/ PutReceipt(req, req.run)
        \/ receipts' = receipts
    BY <1>25 DEF CommitResumed, req
  <2>2. receipts' \in [Cmds -> Receipts]
    BY <1>1, <1>2, <2>1, PutReceiptType
  <2>3. Reply(q, req.run) \/ Refuse(q) \/ (req.run \in Runs /\ Wake(q, req.run))
    BY <1>8, <1>25 DEF CommitResumed, RequestAt, req
  <2>4. reqs' \in [Slots -> Requests] /\ \A k \in Slots : WellAddressed(reqs'[k])
    BY <1>1, <2>3, ReplyType
  <2>5. QED
    BY <1>25, <2>2, <2>4 DEF CommitResumed, TypeInv, TypeOK
<1>26. CASE Schedule(q)
  <2>1. Reply(q, req.run) /\ UNCHANGED <<store, lastCall, crashes>>
    BY <1>26 DEF Schedule, req
  <2>2. reqs' \in [Slots -> Requests] /\ \A k \in Slots : WellAddressed(reqs'[k])
    BY <1>1, <2>1, ReplyType
  <2>3. sched' \in [Procs -> SUBSET Runs] /\ drv' \in [Procs -> [Runs -> Drivers]]
    <3>1. NewDriver \in Drivers /\ req.run \in Runs
      BY <1>8, <1>26, InitialDriver DEF Schedule, RequestAt, req
    <3>2. /\ \/ UNCHANGED <<sched, drv>>
             \/ /\ sched' = [sched EXCEPT ![req.proc] = @ \cup {req.run}]
                /\ drv' = [drv EXCEPT ![req.proc][req.run] = NewDriver]
      BY <1>26 DEF Schedule, SetDriver, req
    <3>3. sched \in [Procs -> SUBSET Runs] /\ drv \in [Procs -> [Runs -> Drivers]]
      BY DEF TypeInv, TypeOK
    <3>4. sched' \in [Procs -> SUBSET Runs]
      BY <3>1, <3>2, <3>3
    <3>5. drv' \in [Procs -> [Runs -> Drivers]]
      BY <3>1, <3>2, <3>3
    <3>6. QED
      BY <3>4, <3>5
  <2>4. QED
    BY <2>1, <2>2, <2>3 DEF TypeInv, TypeOK, store
<1>27. QED
  BY <1>12, <1>13, <1>14, <1>15, <1>16, <1>17, <1>18, <1>19, <1>20, <1>21, <1>22,
     <1>23, <1>24, <1>25, <1>26 DEF RequestNext

-----------------------------------------------------------------------------
(* Type correctness.                                                       *)

LEMMA InitType == Init => TypeInv
<1> SUFFICES ASSUME Init PROVE TypeInv
  OBVIOUS
<1>1. AbsentRun \in Snapshots /\ IdleDriver \in Drivers
      /\ IdleRequest \in Requests /\ WellAddressed(IdleRequest)
  BY FirstSnapshots, InitialDriver, IdleRequestType
<1>2. NoReceipt \in Receipts
  BY DEF NoReceipt, Receipts
<1>3. <<>> \in Seq(Batches) /\ <<>> \in Seq(Runs)
  OBVIOUS
<1>4. QED
  BY <1>1, <1>2, <1>3, BoundsAssumption DEF Init, TypeInv, TypeOK, NoCall

LEMMA IssueType ==
    ASSUME TypeInv, NEW q \in Slots, NEW p \in Procs, NEW c \in Cmds,
           NEW kind \in Kinds, NEW target \in Runs \cup {NoRun},
           Issue(q, p, c, kind, target)
    PROVE  TypeInv'
<1> DEFINE req == [IdleRequest EXCEPT !.pc = "check", !.kind = kind, !.cmd = c,
                                      !.target = target, !.proc = p]
<1>1. /\ SetRequest(q, req)
      /\ kind \in {"answer", "cancel"} => target \in Created
      /\ UNCHANGED <<store, sched, drv, lastCall, crashes>>
  BY DEF Issue
<1>2. kind \in {"answer", "cancel"} => target \in Runs
  BY <1>1 DEF Created, TypeInv, TypeOK
<1>3. req \in Requests
  <2>1. "check" \in RequestPC
    BY DEF RequestPC
  <2>2. QED
    BY <2>1, IdleRequestType DEF Requests
<1>4. WellAddressed(req)
  BY <1>2, IdleRequestType DEF WellAddressed, Requests
<1> HIDE DEF req
<1>5. QED
  BY <1>1, <1>3, <1>4, RequestMoveType

LEMMA CrashType ==
    ASSUME TypeInv, NEW p \in Procs, Crash(p)
    PROVE  TypeInv'
<1>1. /\ crashes < MaxCrashes /\ crashes' = crashes + 1
      /\ sched' = [sched EXCEPT ![p] = {}]
      /\ drv' = [drv EXCEPT ![p] = [r \in Runs |-> IdleDriver]]
      /\ reqs' = [q \in Slots |->
                     IF reqs[q].proc = p THEN Replied(NoRun, FALSE) ELSE reqs[q]]
      /\ UNCHANGED <<store, lastCall>>
  BY DEF Crash
<1>2. crashes' \in 0 .. MaxCrashes
  BY <1>1, BoundsAssumption DEF TypeInv, TypeOK
<1>3. Replied(NoRun, FALSE) \in Requests /\ WellAddressed(Replied(NoRun, FALSE))
  BY RepliedType
<1>4. reqs' \in [Slots -> Requests] /\ \A q \in Slots : WellAddressed(reqs'[q])
  BY <1>1, <1>3 DEF TypeInv, TypeOK
<1>5. sched' \in [Procs -> SUBSET Runs] /\ drv' \in [Procs -> [Runs -> Drivers]]
  BY <1>1, InitialDriver DEF TypeInv, TypeOK
<1>6. QED
  BY <1>1, <1>2, <1>4, <1>5 DEF TypeInv, TypeOK, store

LEMMA NextType == TypeInv /\ [Next]_vars => TypeInv'
<1> SUFFICES ASSUME TypeInv, [Next]_vars PROVE TypeInv'
  OBVIOUS
<1>1. ASSUME NEW p \in Procs, NEW r \in Runs, DriverNext(p, r) PROVE TypeInv'
  BY <1>1, DriverNextType
<1>2. ASSUME NEW q \in Slots, RequestNext(q) \/ CallFails(q) PROVE TypeInv'
  BY <1>2, RequestNextType
<1>3. ASSUME NEW q \in Slots, NEW p \in Procs, NEW c \in Cmds, NEW kind \in Kinds,
             NEW target \in Runs \cup {NoRun}, Issue(q, p, c, kind, target)
      PROVE  TypeInv'
  BY <1>3, IssueType
<1>4. ASSUME NEW p \in Procs, Crash(p) PROVE TypeInv'
  BY <1>4, CrashType
<1>5. CASE Quiet \/ UNCHANGED vars
  BY <1>5 DEF Quiet, vars, TypeInv, TypeOK
<1>6. QED
  BY <1>1, <1>2, <1>3, <1>4, <1>5 DEF Next

(* Whatever the clients, the drivers and the crashes do, every table of    *)
(* the store and every local state of a driver or a call keeps its type,   *)
(* for any number of Runs, commands, processes and deliveries.             *)
THEOREM TypeCorrect == Spec => []TypeOK
<1>1. Spec => []TypeInv
  BY InitType, NextType, PTL DEF Spec
<1>2. TypeInv => TypeOK
  BY DEF TypeInv
<1>3. QED
  BY <1>1, <1>2, PTL

-----------------------------------------------------------------------------
(***************************************************************************)
(* The integrity of the ledger: the row of a Run is the projection of its  *)
(* journal, and the versions of the projections count 1, 2, 3, ...  Proved *)
(* for histories in which no append lands between the store calls of one   *)
(* reconstruct; RunProperties states, and a run refutes, the general claim.*)
(***************************************************************************)

(* No call is between the load_events and the replace_snapshot_cache of a  *)
(* reconstruct.                                                            *)
NoWindow == \A q \in Slots : reqs[q].pc \notin {"compare", "replace"}

(* The inductive invariant.                                                *)
LedgerIInv == TypeInv /\ NoWindow /\ LedgerInv

-----------------------------------------------------------------------------
(* What a transaction does to the ledger.                                  *)

(* The row carries the number of the batches its journal holds.            *)
LEMMA RowVersion ==
    ASSUME TypeInv, LedgerInv, NEW r \in Runs
    PROVE  /\ journal[r] \in Seq(Batches)
           /\ rows[r].version = Len(journal[r])
<1>1. journal[r] \in Seq(Batches)
  BY DEF TypeInv, TypeOK
<1>2. CASE journal[r] = <<>>
  BY <1>2 DEF LedgerInv, RowIsLastProjection, AbsentRun
<1>3. CASE journal[r] # <<>>
  <2>1. Len(journal[r]) \in DOMAIN journal[r]
    BY <1>1, <1>3
  <2>2. journal[r][Len(journal[r])].snap.version = Len(journal[r])
    BY <2>1 DEF LedgerInv, VersionsContiguous
  <2>3. rows[r] = journal[r][Len(journal[r])].snap
    BY <1>3 DEF LedgerInv, RowIsLastProjection, Projection
  <2>4. QED
    BY <1>1, <2>2, <2>3
<1>4. QED
  BY <1>1, <1>2, <1>3

(* An append that carries the next version extends the ledger.             *)
LEMMA AppendLedger ==
    ASSUME TypeInv, LedgerInv, NEW r \in Runs, NEW cur, NEW next \in Snapshots,
           NEW ev \in SUBSET Events, NEW cmd \in Cmds \cup {NoCmd},
           next.version = cur.version + 1, AppendBatch(r, cur, next, ev, cmd)
    PROVE  LedgerInv'
<1> DEFINE batch == [snap |-> next, ev |-> ev, cmd |-> cmd]
           h     == journal[r]
<1>1. batch \in Batches /\ batch.snap = next
  BY DEF Batches
<1>2. h \in Seq(Batches) /\ next.version = Len(h) + 1
  BY RowVersion DEF AppendBatch, VersionMatches
<1>3. /\ rows'[r] = next /\ journal'[r] = Append(h, batch)
      /\ \A s \in Runs \ {r} : rows'[s] = rows[s] /\ journal'[s] = journal[s]
  BY DEF AppendBatch, TypeInv, TypeOK
<1> HIDE DEF batch, h
<1>4. /\ Len(Append(h, batch)) = Len(h) + 1
      /\ Append(h, batch)[Len(h) + 1] = batch
      /\ \A i \in 1 .. Len(h) : Append(h, batch)[i] = h[i]
      /\ Append(h, batch) # <<>>
      /\ DOMAIN Append(h, batch) = 1 .. Len(h) + 1
  BY <1>1, <1>2, AppendProperties
<1>5. rows'[r] = IF journal'[r] = <<>> THEN AbsentRun ELSE Projection(journal'[r])
  BY <1>1, <1>3, <1>4 DEF Projection
<1>6. \A i \in DOMAIN journal'[r] : journal'[r][i].snap.version = i
  <2>1. \A i \in 1 .. Len(h) : h[i].snap.version = i
    BY <1>2 DEF LedgerInv, VersionsContiguous, h
  <2>2. QED
    BY <1>1, <1>2, <1>3, <1>4, <2>1
<1>7. QED
  BY <1>3, <1>5, <1>6 DEF LedgerInv, RowIsLastProjection, VersionsContiguous

(* So does the first batch of a Run.                                       *)
LEMMA InsertLedger ==
    ASSUME TypeInv, LedgerInv, NEW r \in Runs, NEW snap \in Snapshots, NEW cmd,
           snap.version = 1, InsertRun(r, snap, cmd)
    PROVE  LedgerInv'
<1> DEFINE batch == [snap |-> snap, ev |-> {}, cmd |-> cmd]
<1>1. batch.snap = snap
  OBVIOUS
<1>2. /\ rows'[r] = snap /\ journal'[r] = <<batch>>
      /\ \A s \in Runs \ {r} : rows'[s] = rows[s] /\ journal'[s] = journal[s]
  BY DEF InsertRun, TypeInv, TypeOK
<1> HIDE DEF batch
<1>3. rows'[r] = IF journal'[r] = <<>> THEN AbsentRun ELSE Projection(journal'[r])
  BY <1>1, <1>2 DEF Projection
<1>4. \A i \in DOMAIN journal'[r] : journal'[r][i].snap.version = i
  BY <1>1, <1>2
<1>5. QED
  BY <1>2, <1>3, <1>4 DEF LedgerInv, RowIsLastProjection, VersionsContiguous

(* A reconstruct that no append interrupts rewrites the row it finds.      *)
LEMMA ReconstructLedger ==
    ASSUME TypeInv, LedgerInv, NEW q \in Slots, Reconstruct(q)
    PROVE  UNCHANGED <<rows, journal>>
<1> DEFINE r == reqs[q].run
<1>1. reqs[q].pc = "read" /\ Projectable(journal[r]) /\ journal' = journal
      /\ rows' = [rows EXCEPT ![r] = Projection(journal[r])]
  BY DEF Reconstruct, RequestAt
<1>2. r \in Runs
  BY <1>1 DEF TypeInv, WellAddressed
<1>3. rows[r] = Projection(journal[r])
  BY <1>1, <1>2 DEF LedgerInv, RowIsLastProjection, Projectable
<1>4. rows' = rows
  BY <1>1, <1>2, <1>3 DEF TypeInv, TypeOK
<1>5. QED
  BY <1>1, <1>4

LEMMA UnchangedLedger ==
    ASSUME LedgerInv, UNCHANGED <<rows, journal>>
    PROVE  LedgerInv'
BY DEF LedgerInv, RowIsLastProjection, VersionsContiguous

-----------------------------------------------------------------------------
(* Every step of a driver appends the next version, or nothing.            *)
LEMMA DriverLedger ==
    ASSUME TypeInv, LedgerInv, NEW p \in Procs, NEW r \in Runs, DriverNext(p, r)
    PROVE  LedgerInv'
<1> DEFINE d == Driver(p, r)
<1>1. /\ d.cur \in Snapshots /\ d.cur.pend \in Nat /\ d.cur.cost \in CostClasses
      /\ d.call \in Nat /\ d.cost \in CostClasses
  <2>1. d \in Drivers
    BY DEF TypeInv, TypeOK, Driver
  <2>2. QED
    BY <2>1 DEF Drivers, Snapshots
<1>2. ASSUME NEW s \in RunStatus, NEW w \in Waits
      PROVE  /\ NextSnapshot(d.cur, s, w) \in Snapshots
             /\ NextSnapshot(d.cur, s, w).version = d.cur.version + 1
  BY <1>1, NextSnapshotFacts
<1>3. /\ TakePending(d.cur) \in Snapshots
      /\ TakePending(d.cur).version = d.cur.version + 1
  BY <1>1, TakePendingFacts
<1>4. ASSUME NEW t \in EventTypes, NEW call \in Nat, NEW cost \in CostClasses
      PROVE  {ToolEvent(t, call, cost)} \in SUBSET Events
  BY ToolEventType
<1>5. /\ RunStatus = {"Running", "WaitingForInput", "Succeeded", "Failed", "Cancelled"}
      /\ {"none", "clarification"} \subseteq Waits
      /\ {"started", "rejected", "ended"} \subseteq EventTypes
      /\ Costs \subseteq CostClasses /\ lastCall \in Nat
  BY CostsAssumption DEF RunStatus, Waits, EventTypes, TypeInv, TypeOK
<1>6. ASSUME NEW next \in Snapshots, NEW ev \in SUBSET Events, NEW e,
             next.version = d.cur.version + 1, StepAppend(p, r, next, ev, e)
      PROVE  LedgerInv'
  BY <1>6, AppendLedger DEF StepAppend, d
<1> HIDE DEF d
<1>7. ASSUME UNCHANGED store
      PROVE  LedgerInv'
  BY <1>7, UnchangedLedger DEF store
<1>8. CASE StepLoad(p, r) \/ BudgetExceeded(p, r) \/ StepFails(p, r) \/ LoopReturns(p, r)
           \/ OutcomeOverrun(p, r) \/ FailLoad(p, r) \/ FailConflict(p, r) \/ Release(p, r)
  BY <1>7, <1>8 DEF StepLoad, BudgetExceeded, StepFails, LoopReturns, OutcomeOverrun,
                    FailLoad, FailConflict, Release
<1>9. ASSUME NEW s \in RunStatus, NEW w \in Waits, NEW e,
             StepAppend(p, r, NextSnapshot(d.cur, s, w), {}, e)
      PROVE  LedgerInv'
  BY <1>2, <1>6, <1>9
<1>10. CASE Advance(p, r) \/ RequestModel(p, r) \/ ModelContinues(p, r)
            \/ ModelAcknowledged(p, r) \/ VerificationFails(p, r) \/ Complete(p, r)
            \/ Wait(p, r) \/ FailAppend(p, r)
  <2>1. \E s \in RunStatus, w \in Waits : \E e :
            StepAppend(p, r, NextSnapshot(d.cur, s, w), {}, e)
    BY <1>5, <1>10
       DEF Advance, RequestModel, ModelContinues, ModelAcknowledged,
           VerificationFails, Complete, Wait, FailAppend, d
  <2>2. QED
    BY <1>9, <2>1
<1>11. CASE ToolRejected(p, r)
  <2>1. PICK cost \in Costs :
            StepAppend(p, r, NextSnapshot(d.cur, "Running", "none"),
                       {ToolEvent("rejected", lastCall', cost)}, NextStep(d))
    BY <1>11 DEF ToolRejected, d
  <2>2. lastCall' \in Nat
    BY <1>5, <1>11 DEF ToolRejected
  <2>3. QED
    BY <1>2, <1>4, <1>5, <1>6, <2>1, <2>2
<1>12. CASE ToolStarted(p, r)
  <2>1. PICK cost \in Costs :
            StepAppend(p, r, NextSnapshot(d.cur, "Running", "none"),
                       {ToolEvent("started", lastCall', cost)},
                       [Holding(p, r, "tool", NextSnapshot(d.cur, "Running", "none"))
                          EXCEPT !.call = lastCall', !.cost = cost])
    BY <1>12 DEF ToolStarted, d
  <2>2. lastCall' \in Nat
    BY <1>5, <1>12 DEF ToolStarted
  <2>3. QED
    BY <1>2, <1>4, <1>5, <1>6, <2>1, <2>2
<1>13. CASE RecoveredToolRejected(p, r)
  <2>1. StepAppend(p, r, TakePending(d.cur),
                   {ToolEvent("rejected", d.cur.pend, d.cur.cost)}, NextStep(d))
    BY <1>13 DEF RecoveredToolRejected, d
  <2>2. QED
    BY <1>1, <1>3, <1>4, <1>5, <1>6, <2>1
<1>14. CASE RecoveredToolStarted(p, r)
  <2>1. StepAppend(p, r, TakePending(d.cur),
                   {ToolEvent("started", d.cur.pend, d.cur.cost)},
                   [Holding(p, r, "tool", TakePending(d.cur)) EXCEPT
                      !.call = d.cur.pend, !.cost = d.cur.cost])
    BY <1>14 DEF RecoveredToolStarted, d
  <2>2. QED
    BY <1>1, <1>3, <1>4, <1>5, <1>6, <2>1
<1>15. CASE ToolEnded(p, r)
  <2>1. StepAppend(p, r, NextSnapshot(d.cur, "Running", "none"),
                   {ToolEvent("ended", d.call, d.cost)}, NextStep(d))
    BY <1>15 DEF ToolEnded, d
  <2>2. QED
    BY <1>1, <1>2, <1>4, <1>5, <1>6, <2>1
<1>16. QED
  BY <1>8, <1>10, <1>11, <1>12, <1>13, <1>14, <1>15 DEF DriverNext

-----------------------------------------------------------------------------
(* So does every step of a request.                                        *)
LEMMA RequestLedger ==
    ASSUME TypeInv, NoWindow, LedgerInv, NEW q \in Slots, RequestNext(q) \/ CallFails(q)
    PROVE  LedgerInv'
<1> DEFINE req == reqs[q]
<1>1. /\ req.run \in Runs \cup {NoRun} /\ req.cur \in Snapshots
      /\ req.call \in Nat /\ req.cost \in CostClasses /\ req.ev \in SUBSET Events
      /\ req.cmd \in Cmds \cup {NoCmd}
  BY DEF TypeInv, TypeOK, Requests
<1>2. /\ req.pc = "mark" => req.run \in Runs
      /\ req.kind \in {"answer", "cancel"} /\ req.pc = "commit" => req.run \in Runs
  BY DEF TypeInv, WellAddressed
<1>3. lastCall \in Nat /\ FreshRuns \subseteq Runs
  BY DEF TypeInv, TypeOK, FreshRuns
<1> HIDE DEF req
<1>4. CASE \/ CheckReceipt(q) \/ ResumeLoad(q) \/ AnswerLoad(q) \/ CancelLoad(q)
           \/ StartRecommit(q) \/ ResumeRecommit(q) \/ UpdateRecommit(q)
           \/ CommitConflict(q) \/ ReadProjection(q) \/ ReadCorrupt(q)
           \/ CompareCache(q) \/ Assess(q) \/ MarkConflict(q) \/ CommitResumed(q)
           \/ Schedule(q) \/ CallFails(q)
  <2>1. UNCHANGED <<rows, journal>>
    BY <1>4 DEF CheckReceipt, ResumeLoad, AnswerLoad, CancelLoad, StartRecommit,
                ResumeRecommit, UpdateRecommit, Recommit, CommitConflict,
                ReadProjection, ReadCorrupt, CompareCache, Assess, MarkConflict,
                CommitResumed, Schedule, CallFails, store
  <2>2. QED
    BY <2>1, UnchangedLedger
<1>5. CASE CommitStart(q) \/ CommitResume(q)
  <2>1. /\ RunningSnapshot \in Snapshots /\ RunningSnapshot.version = 1
        /\ WaitingSnapshot \in Snapshots /\ WaitingSnapshot.version = 1
    BY FirstSnapshots DEF RunningSnapshot, WaitingSnapshot, AbsentRun
  <2>2. /\ RetrySnapshot(req.cur, req.run) \in Snapshots
        /\ RetrySnapshot(req.cur, req.run).version = 1
    BY <1>1, RetrySnapshotFacts
  <2>3. PICK r \in FreshRuns, snap \in Snapshots :
            snap.version = 1 /\ InsertRun(r, snap, req.cmd)
    BY <1>5, <2>1, <2>2 DEF CommitStart, CommitResume, req
  <2>4. QED
    BY <1>3, <2>3, InsertLedger
<1>6. CASE CommitAnswer(q)
  <2>1. lastCall' \in Nat
    BY <1>3, <1>6 DEF CommitAnswer
  <2>2. /\ AnsweredSnapshot(req.cur, lastCall') \in Snapshots
        /\ AnsweredSnapshot(req.cur, lastCall').version = req.cur.version + 1
    BY <1>1, <2>1, AnsweredSnapshotFacts
  <2>3. {RunResumed} \in SUBSET Events
    BY IndeterminateEventsType DEF CostClasses
  <2>4. /\ AppendBatch(req.run, req.cur, AnsweredSnapshot(req.cur, lastCall'),
                       {RunResumed}, req.cmd)
        /\ req.run \in Runs
    BY <1>2, <1>6 DEF CommitAnswer, RequestAt, req
  <2>5. QED
    BY <1>1, <2>2, <2>3, <2>4, AppendLedger
<1>7. CASE CommitCancel(q)
  <2>1. /\ NextSnapshot(req.cur, "Cancelled", "none") \in Snapshots
        /\ NextSnapshot(req.cur, "Cancelled", "none").version = req.cur.version + 1
    BY <1>1, NextSnapshotFacts DEF RunStatus, Waits
  <2>2. /\ AppendBatch(req.run, req.cur, NextSnapshot(req.cur, "Cancelled", "none"),
                       {}, req.cmd)
        /\ req.run \in Runs
    BY <1>2, <1>7 DEF CommitCancel, RequestAt, req
  <2>3. QED
    BY <1>1, <2>1, <2>2, AppendLedger
<1>8. CASE Reconstruct(q)
  BY <1>8, ReconstructLedger, UnchangedLedger
<1>9. CASE ReplaceCache(q)
  BY <1>9 DEF ReplaceCache, RequestAt, NoWindow
<1>10. CASE MarkIndeterminate(q)
  <2>1. lastCall' \in Nat
    BY <1>3, <1>10 DEF MarkIndeterminate
  <2> DEFINE next == IndeterminateSnapshot(req.cur, req.call, req.cost, lastCall')
  <2>2. next \in Snapshots /\ next.version = req.cur.version + 1
    BY <1>1, <2>1, IndeterminateSnapshotFacts
  <2>3. AppendBatch(req.run, req.cur, next, req.ev, NoCmd) /\ req.run \in Runs
    BY <1>2, <1>10 DEF MarkIndeterminate, RequestAt, req
  <2>4. QED
    BY <1>1, <2>2, <2>3, AppendLedger
<1>11. QED
  BY <1>4, <1>5, <1>6, <1>7, <1>8, <1>9, <1>10 DEF RequestNext

(* No request enters the window of a reconstruct.                          *)
LEMMA RequestWindow ==
    ASSUME ReconstructIsAtomic, TypeInv, NoWindow, NEW q \in Slots,
           RequestNext(q) \/ CallFails(q)
    PROVE  NoWindow'
<1> DEFINE req == reqs[q]
<1>1. req \in Requests /\ req.pc \notin {"compare", "replace"}
  BY DEF TypeInv, TypeOK, NoWindow
<1>2. ASSUME NEW next, next.pc \notin {"compare", "replace"}, SetRequest(q, next)
      PROVE  NoWindow'
  BY <1>2 DEF NoWindow, SetRequest, TypeInv, TypeOK
<1>3. /\ \A run, ok : Replied(run, ok).pc = "done"
      /\ \A run : Waking(req, run).pc = "schedule"
      /\ \A snap : AfterReconstruct(req, snap).pc \in {"read", "facts"}
      /\ \A wake : Receipting(req, wake).pc = "receipt"
  BY <1>1 DEF Replied, Waking, AfterReconstruct, Receipting, IdleRequest, Requests
<1>4. /\ \A pc : [req EXCEPT !.pc = pc].pc = pc
      /\ \A pc, run, snap : [req EXCEPT !.pc = pc, !.run = run, !.cur = snap].pc = pc
      /\ \A call, cost, ev : [req EXCEPT !.pc = "mark", !.call = call, !.cost = cost,
                                  !.ev = ev, !.seen = AbsentRun].pc = "mark"
  BY <1>1 DEF Requests
<1>5. ASSUME NEW run, Reply(q, run) \/ Refuse(q) \/ Wake(q, run)
      PROVE  NoWindow'
  BY <1>2, <1>3, <1>5 DEF Reply, Refuse, Wake
<1> HIDE DEF req
<1>6. CASE CheckReceipt(q)
  <2>1. \/ \E pc \in {"commit", "load"} : SetRequest(q, [req EXCEPT !.pc = pc])
        \/ \E run : Reply(q, run) \/ Refuse(q)
    BY <1>6 DEF CheckReceipt, RequestGoto, req
  <2>2. QED
    BY <1>2, <1>4, <1>5, <2>1
<1>7. CASE ResumeLoad(q)
  <2>1. \/ SetRequest(q, [req EXCEPT !.pc = "commit"])
        \/ \E pc \in {"commit", "read"} : \E run, snap :
               SetRequest(q, [req EXCEPT !.pc = pc, !.run = run, !.cur = snap])
    BY <1>7 DEF ResumeLoad, RequestGoto, req
  <2>2. QED
    BY <1>2, <1>4, <2>1
<1>8. CASE AnswerLoad(q) \/ CancelLoad(q)
  <2>1. \/ Refuse(q)
        \/ \E run, snap :
               SetRequest(q, [req EXCEPT !.pc = "commit", !.cur = snap, !.run = run])
    BY <1>8 DEF AnswerLoad, CancelLoad, req
  <2>2. \A run, snap : [req EXCEPT !.pc = "commit", !.cur = snap, !.run = run].pc
                          = "commit"
    BY <1>1 DEF Requests
  <2>3. QED
    BY <1>2, <1>5, <2>1, <2>2
<1>9. CASE \/ StartRecommit(q) \/ ResumeRecommit(q) \/ UpdateRecommit(q)
           \/ CommitStart(q) \/ CommitResume(q) \/ CommitAnswer(q) \/ CommitCancel(q)
           \/ CommitConflict(q) \/ ReadCorrupt(q) \/ MarkConflict(q)
           \/ CommitResumed(q) \/ Schedule(q) \/ CallFails(q)
  <2>1. \E run : Reply(q, run) \/ Refuse(q) \/ Wake(q, run)
    BY <1>9 DEF StartRecommit, ResumeRecommit, UpdateRecommit, CommitStart,
                CommitResume, CommitAnswer, CommitCancel, CommitConflict,
                ReadCorrupt, MarkConflict, CommitResumed, Schedule, CallFails
  <2>2. QED
    BY <1>5, <2>1
<1>10. CASE Reconstruct(q)
  <2>1. \E snap : SetRequest(q, AfterReconstruct(req, snap))
    BY <1>10 DEF Reconstruct, req
  <2>2. QED
    BY <1>2, <1>3, <2>1
<1>11. CASE ReadProjection(q) \/ CompareCache(q) \/ ReplaceCache(q)
  BY <1>1, <1>11 DEF ReadProjection, CompareCache, ReplaceCache, RequestAt, req
<1>12. CASE Assess(q)
  <2>1. \/ Refuse(q)
        \/ \E wake : SetRequest(q, Receipting(req, wake))
        \/ \E call, cost, ev :
               SetRequest(q, [req EXCEPT !.pc = "mark", !.call = call, !.cost = cost,
                                         !.ev = ev, !.seen = AbsentRun])
    BY <1>12 DEF Assess, req
  <2>2. QED
    BY <1>2, <1>3, <1>4, <1>5, <2>1
<1>13. CASE MarkIndeterminate(q)
  <2>1. \E wake : SetRequest(q, Receipting(req, wake))
    BY <1>13 DEF MarkIndeterminate, req
  <2>2. QED
    BY <1>2, <1>3, <2>1
<1>14. QED
  BY <1>6, <1>7, <1>8, <1>9, <1>10, <1>11, <1>12, <1>13 DEF RequestNext

-----------------------------------------------------------------------------
LEMMA LedgerInit == Init => LedgerIInv
<1>1. Init => TypeInv
  BY InitType
<1>2. Init => NoWindow
  BY DEF Init, NoWindow, IdleRequest
<1>3. Init => LedgerInv
  BY DEF Init, LedgerInv, RowIsLastProjection, VersionsContiguous
<1>4. QED
  BY <1>1, <1>2, <1>3 DEF LedgerIInv

LEMMA LedgerNext == ReconstructIsAtomic /\ LedgerIInv /\ [Next]_vars => LedgerIInv'
<1> SUFFICES ASSUME ReconstructIsAtomic, TypeInv, NoWindow, LedgerInv, [Next]_vars
             PROVE  NoWindow' /\ LedgerInv'
  BY NextType DEF LedgerIInv
<1>1. ASSUME NEW p \in Procs, NEW r \in Runs, DriverNext(p, r)
      PROVE  NoWindow' /\ LedgerInv'
  <2>1. LedgerInv'
    BY <1>1, DriverLedger
  <2>2. reqs' = reqs
    BY <1>1 DEF DriverNext, StepLoad, BudgetExceeded, Advance, VerificationFails, Wait,
                RequestModel, ModelContinues, ModelAcknowledged, Complete, ToolRejected,
                ToolStarted, RecoveredToolRejected, RecoveredToolStarted, ToolEnded,
                StepFails, LoopReturns, OutcomeOverrun, FailLoad, FailAppend,
                FailConflict, Release, StepAppend
  <2>3. QED
    BY <2>1, <2>2 DEF NoWindow
<1>2. ASSUME NEW q \in Slots, RequestNext(q) \/ CallFails(q)
      PROVE  NoWindow' /\ LedgerInv'
  BY <1>2, RequestLedger, RequestWindow
<1>3. ASSUME NEW q \in Slots, NEW p \in Procs, NEW c \in Cmds, NEW kind \in Kinds,
             NEW target \in Runs \cup {NoRun}, Issue(q, p, c, kind, target)
      PROVE  NoWindow' /\ LedgerInv'
  <2>1. LedgerInv'
    BY <1>3, UnchangedLedger DEF Issue, store
  <2>2. \A k \in Slots : reqs'[k].pc \in {"check", reqs[k].pc}
    BY <1>3, IdleRequestType DEF Issue, SetRequest, Requests, TypeInv, TypeOK
  <2>3. QED
    BY <2>1, <2>2 DEF NoWindow
<1>4. ASSUME NEW p \in Procs, Crash(p)
      PROVE  NoWindow' /\ LedgerInv'
  <2>1. LedgerInv'
    BY <1>4, UnchangedLedger DEF Crash, store
  <2>2. \A k \in Slots : reqs'[k].pc \in {"done", reqs[k].pc}
    BY <1>4 DEF Crash, Replied, IdleRequest
  <2>3. QED
    BY <2>1, <2>2 DEF NoWindow
<1>5. CASE Quiet \/ UNCHANGED vars
  BY <1>5, UnchangedLedger DEF Quiet, vars, NoWindow
<1>6. QED
  BY <1>1, <1>2, <1>3, <1>4, <1>5 DEF Next

(* If no append lands inside a reconstruct, the row of every Run is the    *)
(* last projection of its journal and the journal has no gap and no fork,  *)
(* for any number of Runs, processes, deliveries and crashes.              *)
THEOREM LedgerIntegrity == ReconstructIsAtomic => (Spec => []LedgerInv)
<1> SUFFICES ASSUME ReconstructIsAtomic PROVE Spec => []LedgerInv
  OBVIOUS
<1>1. LedgerIInv /\ [Next]_vars => LedgerIInv'
  BY LedgerNext
<1>2. LedgerIInv => LedgerInv
  BY DEF LedgerIInv
<1>3. QED
  BY <1>1, <1>2, LedgerInit, PTL DEF Spec

-----------------------------------------------------------------------------
(***************************************************************************)
(* What the commands do to the Runs: a command takes effect at most once,  *)
(* a row is a state its Run was really in, and the runtime implements      *)
(* RunContract.  The first two are proved for every interleaving; the      *)
(* refinement, like the integrity of the ledger it rests on, for histories *)
(* in which no append lands between the store calls of one reconstruct.    *)
(***************************************************************************)

-----------------------------------------------------------------------------
(* The fields of the records the actions build.                            *)

(* The snapshots of one Run differ in what a step decides, never in which  *)
(* Run they retry and in which attempt they are.                           *)
SameRun(a, b) == a.attempt = b.attempt /\ a.retryOf = b.retryOf

LEMMA NextSnapshotFields ==
    ASSUME NEW cur \in Snapshots, NEW s \in RunStatus, NEW w \in Waits
    PROVE  LET n == NextSnapshot(cur, s, w) IN
           /\ n.status = s /\ n.wait = w /\ SameRun(n, cur)
           /\ n.pend = cur.pend /\ n.cost = cur.cost /\ n.granted = cur.granted
BY DEF NextSnapshot, Snapshots, SameRun

LEMMA TakePendingFields ==
    ASSUME NEW cur \in Snapshots
    PROVE  LET n == TakePending(cur) IN
           /\ n.status = "Running" /\ n.wait = "none" /\ SameRun(n, cur)
           /\ n.pend = NoCall /\ n.cost = "Low" /\ n.granted = FALSE
<1> DEFINE m == NextSnapshot(cur, "Running", "none")
<1>1. /\ m \in Snapshots /\ m.status = "Running" /\ m.wait = "none" /\ SameRun(m, cur)
      /\ NoCall \in Nat /\ "Low" \in CostClasses
  BY NextSnapshotFacts, NextSnapshotFields DEF RunStatus, Waits, NoCall, CostClasses
<1>2. TakePending(cur) = [m EXCEPT !.pend = NoCall, !.cost = "Low", !.granted = FALSE]
  BY DEF TakePending
<1> HIDE DEF m
<1>3. QED
  BY <1>1, <1>2 DEF Snapshots, SameRun

LEMMA AnsweredFields ==
    ASSUME NEW cur \in Snapshots, NEW call \in Nat
    PROVE  LET n == AnsweredSnapshot(cur, call) IN
           /\ n.status = "Running" /\ n.wait = "none" /\ SameRun(n, cur)
           /\ n.cost = cur.cost
           /\ cur.wait = "confirm" => n.pend = call /\ n.granted = TRUE
           /\ cur.wait # "confirm" => n.pend = cur.pend /\ n.granted = cur.granted
<1> DEFINE m == NextSnapshot(cur, "Running", "none")
<1>1. /\ m \in Snapshots /\ m.status = "Running" /\ m.wait = "none" /\ SameRun(m, cur)
      /\ m.pend = cur.pend /\ m.cost = cur.cost /\ m.granted = cur.granted
  BY NextSnapshotFacts, NextSnapshotFields DEF RunStatus, Waits
<1>2. AnsweredSnapshot(cur, call) =
          IF cur.wait = "confirm" THEN [m EXCEPT !.pend = call, !.granted = TRUE] ELSE m
  BY DEF AnsweredSnapshot
<1> HIDE DEF m
<1>4. LET n == [m EXCEPT !.pend = call, !.granted = TRUE] IN
      /\ n.status = m.status /\ n.wait = m.wait /\ SameRun(n, m)
      /\ n.pend = call /\ n.cost = m.cost /\ n.granted = TRUE
  BY <1>1 DEF Snapshots, SameRun
<1>5. QED
  BY <1>1, <1>2, <1>4 DEF SameRun

LEMMA IndeterminateFields ==
    ASSUME NEW cur \in Snapshots, NEW call \in Nat, NEW cost \in CostClasses,
           NEW newCall \in Nat
    PROVE  LET n == IndeterminateSnapshot(cur, call, cost, newCall) IN
           /\ SameRun(n, cur) /\ n.granted = cur.granted /\ n.cost = cost
           /\ cost = "Low" => n.status = "Running" /\ n.wait = "none" /\ n.pend = newCall
           /\ cost # "Low" => /\ n.status = "WaitingForInput" /\ n.wait = "confirm"
                              /\ n.pend = call
<1> DEFINE resumed == NextSnapshot(cur, "Running", "none")
           asked   == NextSnapshot(cur, "WaitingForInput", "confirm")
<1>1. /\ resumed \in Snapshots /\ resumed.status = "Running" /\ resumed.wait = "none"
      /\ SameRun(resumed, cur) /\ resumed.granted = cur.granted
      /\ asked \in Snapshots /\ asked.status = "WaitingForInput"
      /\ asked.wait = "confirm" /\ SameRun(asked, cur) /\ asked.granted = cur.granted
      /\ "Low" \in CostClasses
  BY NextSnapshotFacts, NextSnapshotFields DEF RunStatus, Waits, CostClasses
<1>2. IndeterminateSnapshot(cur, call, cost, newCall) =
          IF cost = "Low" THEN [resumed EXCEPT !.pend = newCall, !.cost = "Low"]
                          ELSE [asked EXCEPT !.pend = call, !.cost = cost]
  BY DEF IndeterminateSnapshot
<1> HIDE DEF resumed, asked
<1>3. LET n == [resumed EXCEPT !.pend = newCall, !.cost = "Low"] IN
      /\ n.status = resumed.status /\ n.wait = resumed.wait /\ SameRun(n, resumed)
      /\ n.pend = newCall /\ n.cost = "Low" /\ n.granted = resumed.granted
  BY <1>1 DEF Snapshots, SameRun
<1>4. LET n == [asked EXCEPT !.pend = call, !.cost = cost] IN
      /\ n.status = asked.status /\ n.wait = asked.wait /\ SameRun(n, asked)
      /\ n.pend = call /\ n.cost = cost /\ n.granted = asked.granted
  BY <1>1 DEF Snapshots, SameRun
<1>5. CASE cost = "Low"
  BY <1>1, <1>2, <1>3, <1>5 DEF SameRun
<1>6. CASE cost # "Low"
  BY <1>1, <1>2, <1>4, <1>6 DEF SameRun
<1>7. QED
  BY <1>5, <1>6

LEMMA RetryFields ==
    ASSUME NEW cur \in Snapshots, NEW r
    PROVE  LET n == RetrySnapshot(cur, r) IN
           /\ n.status = "Running" /\ n.wait = "none" /\ n.retryOf = r
           /\ n.attempt = cur.attempt + 1
           /\ n.pend = cur.pend /\ n.cost = cur.cost /\ n.granted = cur.granted
BY DEF RetrySnapshot, Snapshots

(* The caller, the command and the target of a request stay as they are    *)
(* while it is served.                                                     *)
SameCall(a, b) == /\ a.kind = b.kind /\ a.cmd = b.cmd /\ a.target = b.target
                  /\ a.proc = b.proc

LEMMA GotoFields ==
    ASSUME NEW req \in Requests, NEW pc
    PROVE  LET n == [req EXCEPT !.pc = pc] IN
           /\ SameCall(n, req) /\ n.pc = pc /\ n.run = req.run /\ n.cur = req.cur
           /\ n.seen = req.seen /\ n.pass = req.pass
BY DEF Requests, SameCall

LEMMA LoadFields ==
    ASSUME NEW req \in Requests, NEW pc, NEW run, NEW snap
    PROVE  /\ LET n == [req EXCEPT !.pc = pc, !.run = run, !.cur = snap] IN
              /\ SameCall(n, req) /\ n.pc = pc /\ n.run = run /\ n.cur = snap
              /\ n.pass = req.pass
           /\ LET n == [req EXCEPT !.pc = pc, !.cur = snap, !.run = run] IN
              SameCall(n, req) /\ n.pc = pc /\ n.run = run /\ n.cur = snap
BY DEF Requests, SameCall

LEMMA SeenFields ==
    ASSUME NEW req \in Requests, NEW pc, NEW snap
    PROVE  LET n == [req EXCEPT !.pc = pc, !.seen = snap] IN
           /\ SameCall(n, req) /\ n.pc = pc /\ n.run = req.run /\ n.cur = req.cur
           /\ n.seen = snap
BY DEF Requests, SameCall

LEMMA ReconstructFields ==
    ASSUME NEW req \in Requests, NEW snap
    PROVE  LET n == AfterReconstruct(req, snap) IN
           /\ SameCall(n, req) /\ n.run = req.run
           /\ req.pass = 1 => n.pc = "read" /\ n.pass = 2 /\ n.cur = snap
           /\ req.pass # 1 => n.pc = "facts" /\ n.cur = req.cur /\ n.seen = snap
<1>1. CASE req.pass = 1
  BY <1>1 DEF AfterReconstruct, Requests, SameCall
<1>2. CASE req.pass # 1
  BY <1>2 DEF AfterReconstruct, Requests, SameCall
<1>3. QED
  BY <1>1, <1>2

LEMMA MarkFields ==
    ASSUME NEW req \in Requests, NEW call, NEW cost, NEW ev
    PROVE  LET n == [req EXCEPT !.pc = "mark", !.call = call, !.cost = cost,
                                !.ev = ev, !.seen = AbsentRun] IN
           /\ SameCall(n, req) /\ n.pc = "mark" /\ n.run = req.run /\ n.cur = req.cur
           /\ n.call = call /\ n.cost = cost /\ n.ev = ev
BY DEF Requests, SameCall

LEMMA ReceiptingFields ==
    ASSUME NEW req \in Requests, NEW wake
    PROVE  LET n == Receipting(req, wake) IN
           SameCall(n, req) /\ n.pc = "receipt" /\ n.run = req.run
BY DEF Receipting, Requests, SameCall

(* A call that has returned, or only has to schedule its Run, has dropped  *)
(* all but that Run.                                                       *)
LEMMA ReturnedFields ==
    ASSUME NEW req, NEW run, NEW ok
    PROVE  /\ Replied(run, ok).pc = "done" /\ Replied(run, ok).kind = "none"
           /\ Replied(run, ok).run = run
           /\ Waking(req, run).pc = "schedule" /\ Waking(req, run).kind = "none"
           /\ Waking(req, run).run = run
BY DEF Replied, Waking, IdleRequest
-----------------------------------------------------------------------------
(* Whom the commands and the drivers speak of.                             *)

(* A request has named no Run before it has loaded one, and names Runs     *)
(* that exist; recovery runs for a resume only, and an answer or a cancel  *)
(* commits to the Run its caller meant.                                    *)
Known(req, runs) ==
    /\ req.pc \in {"check", "load"} => req.run = NoRun
    /\ req.pc \in {"read", "compare", "replace", "facts", "mark", "receipt"} =>
          req.kind = "resume"
    /\ req.pc \in {"read", "compare", "replace", "facts", "mark", "receipt", "schedule"} =>
          req.run \in runs
    /\ req.kind \in {"answer", "cancel"} =>
          req.target \in runs /\ (req.pc = "commit" => req.run = req.target)
    /\ req.pc = "commit" /\ req.kind = "resume" => req.run \in runs \cup {NoRun}

(* The Runs that exist are those with a journal; only they are driven.     *)
AddressInv ==
    /\ \A r \in Runs : journal[r] # <<>> <=> r \in Created
    /\ \A p \in Procs, r \in Runs : drv[p][r].pc # "idle" => r \in Created
    /\ \A q \in Slots : Known(reqs[q], Created)

LEMMA KnownStays ==
    ASSUME NEW req, NEW runs, NEW more, runs \subseteq more, Known(req, runs)
    PROVE  Known(req, more)
BY DEF Known

LEMMA CreatedRuns == TypeInv => Created \subseteq Runs
BY DEF TypeInv, TypeOK, Created

LEMMA CreatedAppend ==
    ASSUME TypeInv, NEW r \in Runs, created' = Append(created, r)
    PROVE  Created' = Created \cup {r}
<1>1. created \in Seq(Runs)
  BY DEF TypeInv, TypeOK
<1>2. /\ DOMAIN created = 1 .. Len(created) /\ DOMAIN created' = 1 .. Len(created) + 1
      /\ \A i \in 1 .. Len(created) : created'[i] = created[i]
      /\ created'[Len(created) + 1] = r
      /\ Len(created) \in Nat
  BY <1>1, AppendProperties
<1>3. QED
  BY <1>2 DEF Created

(* The last Run of the Task, which resume_task loads, exists.              *)
LEMMA LastCreated ==
    ASSUME TypeInv, created # <<>>
    PROVE  created[Len(created)] \in Created /\ Created \subseteq Runs
<1>1. created \in Seq(Runs)
  BY DEF TypeInv, TypeOK
<1>2. QED
  BY <1>1 DEF Created

(* What a transaction may do to the journals: append a batch to the one of *)
(* a Run.  An insert_run is the append to an empty journal.                *)
Appends(r, snap, ev, cmd) ==
    journal' = [journal EXCEPT ![r] = Append(@, [snap |-> snap, ev |-> ev, cmd |-> cmd])]

LEMMA InsertAppends ==
    ASSUME TypeInv, AddressInv, NEW r \in FreshRuns, NEW snap, NEW cmd,
           InsertRun(r, snap, cmd)
    PROVE  Appends(r, snap, {}, cmd) /\ journal[r] = <<>> /\ r \in Runs \ Created
<1>1. r \in Runs \ Created
  BY DEF FreshRuns
<1>2. journal[r] = <<>>
  BY <1>1 DEF AddressInv
<1>3. Append(journal[r], [snap |-> snap, ev |-> {}, cmd |-> cmd])
         = <<[snap |-> snap, ev |-> {}, cmd |-> cmd]>>
  BY <1>2
<1>4. QED
  BY <1>1, <1>2, <1>3 DEF Appends, InsertRun

LEMMA AppendsFacts ==
    ASSUME TypeInv, NEW r \in Runs, NEW snap, NEW ev, NEW cmd, Appends(r, snap, ev, cmd)
    PROVE  LET n == Len(journal[r]) IN
           /\ n \in Nat /\ DOMAIN journal[r] = 1 .. n
           /\ Len(journal'[r]) = n + 1 /\ DOMAIN journal'[r] = 1 .. n + 1
           /\ \A i \in 1 .. n : journal'[r][i] = journal[r][i]
           /\ journal'[r][n + 1].snap = snap
           /\ journal'[r][n + 1].ev = ev
           /\ journal'[r][n + 1].cmd = cmd
           /\ journal'[r] # <<>>
           /\ \A s \in Runs \ {r} : journal'[s] = journal[s]
<1> DEFINE b == [snap |-> snap, ev |-> ev, cmd |-> cmd]
           h == journal[r]
<1>1. b.snap = snap /\ b.ev = ev /\ b.cmd = cmd
  OBVIOUS
<1>2. h \in Seq(Batches) /\ DOMAIN journal = Runs
  BY DEF TypeInv, TypeOK
<1>3. h \in Seq(Batches \cup {b})
  BY <1>2
<1>4. journal'[r] = Append(h, b) /\ \A s \in Runs \ {r} : journal'[s] = journal[s]
  BY <1>2 DEF Appends
<1> HIDE DEF b, h
<1>5. /\ Len(h) \in Nat /\ DOMAIN h = 1 .. Len(h)
      /\ Len(Append(h, b)) = Len(h) + 1 /\ DOMAIN Append(h, b) = 1 .. Len(h) + 1
      /\ \A i \in 1 .. Len(h) : Append(h, b)[i] = h[i]
      /\ Append(h, b)[Len(h) + 1] = b
      /\ Append(h, b) # <<>>
  BY <1>3, AppendProperties
<1>6. QED
  BY <1>1, <1>4, <1>5 DEF h

-----------------------------------------------------------------------------
(* The transactions: what a step can do to the store.                      *)

(* A driver's step appends to the journal of its own Run, or nothing.      *)
DriverAppends(p, r) ==
    /\ \E snap \in Snapshots, ev \in SUBSET Events :
          AppendBatch(r, drv[p][r].cur, snap, ev, NoCmd)
    /\ UNCHANGED <<created, receipts>>

(* A command creates a Run, or updates one, together with its receipt.     *)
CommitsNew(q) ==
    /\ RequestAt(q, "commit") /\ reqs[q].kind \in {"start", "resume"}
    /\ MayCommit(reqs[q].cmd)
    /\ \E r \in FreshRuns, snap \in Snapshots :
          InsertRun(r, snap, reqs[q].cmd) /\ PutReceipt(reqs[q], r)

CommitsUpdate(q) ==
    /\ RequestAt(q, "commit") /\ reqs[q].kind \in {"answer", "cancel"}
    /\ MayCommit(reqs[q].cmd)
    /\ \E snap \in Snapshots, ev \in SUBSET Events :
          AppendBatch(reqs[q].run, reqs[q].cur, snap, ev, reqs[q].cmd)
    /\ PutReceipt(reqs[q], reqs[q].run)
    /\ UNCHANGED created

(* Recovery appends its decision, rewrites a row, or files its receipt.    *)
RecoveryAppends(q) ==
    /\ RequestAt(q, "mark")
    /\ \E snap \in Snapshots, ev \in SUBSET Events :
          AppendBatch(reqs[q].run, reqs[q].cur, snap, ev, NoCmd)
    /\ UNCHANGED <<created, receipts>>

RecoveryRewrites(q) ==
    /\ \/ /\ RequestAt(q, "read") /\ journal[reqs[q].run] # <<>>
          /\ rows' = [rows EXCEPT ![reqs[q].run] = Projection(journal[reqs[q].run])]
       \/ /\ RequestAt(q, "replace")
          /\ rows' = [rows EXCEPT ![reqs[q].run] = reqs[q].seen]
    /\ UNCHANGED <<journal, created, receipts>>

RecoveryReceipt(q) ==
    /\ RequestAt(q, "receipt")
    /\ MayCommit(reqs[q].cmd)
    /\ PutReceipt(reqs[q], reqs[q].run)
    /\ UNCHANGED <<rows, journal, created>>

LEMMA DriverStore ==
    ASSUME TypeInv, NEW p \in Procs, NEW r \in Runs, DriverNext(p, r)
    PROVE  /\ UNCHANGED store \/ DriverAppends(p, r)
           /\ reqs' = reqs /\ crashes' = crashes
           /\ drv[p][r].pc # "idle"
           /\ \E d : SetDriver(p, r, d)
<1> DEFINE d == Driver(p, r)
<1>1. /\ d.cur \in Snapshots /\ d.cur.pend \in Nat /\ d.cur.cost \in CostClasses
      /\ d.call \in Nat /\ d.cost \in CostClasses
  <2>1. d \in Drivers
    BY DEF TypeInv, TypeOK, Driver
  <2>2. QED
    BY <2>1 DEF Drivers, Snapshots
<1>2. /\ \A s \in RunStatus, w \in Waits : NextSnapshot(d.cur, s, w) \in Snapshots
      /\ TakePending(d.cur) \in Snapshots
  BY <1>1, NextSnapshotFacts, TakePendingFacts
<1>3. /\ \A t \in EventTypes, call \in Nat, cost \in CostClasses :
             {ToolEvent(t, call, cost)} \in SUBSET Events
      /\ {} \in SUBSET Events
  BY ToolEventType
<1>4. /\ RunStatus = {"Running", "WaitingForInput", "Succeeded", "Failed", "Cancelled"}
      /\ {"none", "clarification"} \subseteq Waits
      /\ {"started", "rejected", "ended"} \subseteq EventTypes
      /\ Costs \subseteq CostClasses /\ lastCall \in Nat
  BY CostsAssumption DEF RunStatus, Waits, EventTypes, TypeInv, TypeOK
<1>5. ASSUME NEW next \in Snapshots, NEW ev \in SUBSET Events, NEW e, d.pc # "idle",
             StepAppend(p, r, next, ev, e)
      PROVE  /\ DriverAppends(p, r) /\ reqs' = reqs /\ crashes' = crashes
             /\ drv[p][r].pc # "idle" /\ \E x : SetDriver(p, r, x)
  BY <1>5 DEF StepAppend, DriverAppends, Driver
<1>6. drv[p][r] = d
  BY DEF Driver
<1> HIDE DEF d
<1>7. CASE StepLoad(p, r) \/ BudgetExceeded(p, r) \/ StepFails(p, r) \/ LoopReturns(p, r)
           \/ OutcomeOverrun(p, r) \/ FailLoad(p, r) \/ FailConflict(p, r) \/ Release(p, r)
  BY <1>7 DEF StepLoad, BudgetExceeded, StepFails, LoopReturns, OutcomeOverrun,
              FailLoad, FailConflict, Release, Goto, At
<1>8. CASE Advance(p, r) \/ RequestModel(p, r) \/ ModelContinues(p, r)
           \/ ModelAcknowledged(p, r) \/ VerificationFails(p, r) \/ Complete(p, r)
           \/ Wait(p, r) \/ FailAppend(p, r)
  <2>1. d.pc # "idle" /\ \E s \in RunStatus, w \in Waits : \E e :
            StepAppend(p, r, NextSnapshot(d.cur, s, w), {}, e)
    BY <1>4, <1>6, <1>8
       DEF Advance, RequestModel, ModelContinues, ModelAcknowledged,
           VerificationFails, Complete, Wait, FailAppend, At, Driver
  <2>2. QED
    BY <1>2, <1>3, <1>5, <2>1
<1>9. CASE ToolRejected(p, r)
  <2>1. lastCall' \in Nat /\ d.pc # "idle"
    BY <1>4, <1>6, <1>9 DEF ToolRejected, At
  <2>2. PICK cost \in Costs :
            StepAppend(p, r, NextSnapshot(d.cur, "Running", "none"),
                       {ToolEvent("rejected", lastCall', cost)}, NextStep(d))
    BY <1>9 DEF ToolRejected, d
  <2>3. QED
    BY <1>2, <1>3, <1>4, <1>5, <2>1, <2>2
<1>10. CASE ToolStarted(p, r)
  <2>1. lastCall' \in Nat /\ d.pc # "idle"
    BY <1>4, <1>6, <1>10 DEF ToolStarted, At
  <2>2. PICK cost \in Costs : \E e :
            StepAppend(p, r, NextSnapshot(d.cur, "Running", "none"),
                       {ToolEvent("started", lastCall', cost)}, e)
    BY <1>10 DEF ToolStarted, d
  <2>3. QED
    BY <1>2, <1>3, <1>4, <1>5, <2>1, <2>2
<1>11. CASE RecoveredToolRejected(p, r) \/ RecoveredToolStarted(p, r)
  <2>1. d.pc # "idle" /\ \E t \in {"rejected", "started"} : \E e :
            StepAppend(p, r, TakePending(d.cur),
                       {ToolEvent(t, d.cur.pend, d.cur.cost)}, e)
    BY <1>6, <1>11 DEF RecoveredToolRejected, RecoveredToolStarted, At, Driver
  <2>2. QED
    BY <1>1, <1>2, <1>3, <1>4, <1>5, <2>1
<1>12. CASE ToolEnded(p, r)
  <2>1. d.pc # "idle" /\ StepAppend(p, r, NextSnapshot(d.cur, "Running", "none"),
                                    {ToolEvent("ended", d.call, d.cost)}, NextStep(d))
    BY <1>6, <1>12 DEF ToolEnded, At, Driver
  <2>2. QED
    BY <1>1, <1>2, <1>3, <1>4, <1>5, <2>1
<1>13. QED
  BY <1>7, <1>8, <1>9, <1>10, <1>11, <1>12 DEF DriverNext

LEMMA RequestStore ==
    ASSUME TypeInv, NEW q \in Slots, RequestNext(q) \/ CallFails(q)
    PROVE  \/ UNCHANGED store
           \/ CommitsNew(q)      \/ CommitsUpdate(q)
           \/ RecoveryAppends(q) \/ RecoveryRewrites(q) \/ RecoveryReceipt(q)
<1> DEFINE req == reqs[q]
<1>1. /\ req.run \in Runs \cup {NoRun} /\ req.cur \in Snapshots
      /\ req.call \in Nat /\ req.cost \in CostClasses /\ req.ev \in SUBSET Events
  BY DEF TypeInv, TypeOK, Requests
<1>2. lastCall \in Nat
  BY DEF TypeInv, TypeOK
<1> HIDE DEF req
<1>3. CASE \/ CheckReceipt(q) \/ ResumeLoad(q) \/ AnswerLoad(q) \/ CancelLoad(q)
           \/ StartRecommit(q) \/ ResumeRecommit(q) \/ UpdateRecommit(q)
           \/ CommitConflict(q) \/ ReadProjection(q) \/ ReadCorrupt(q)
           \/ CompareCache(q) \/ Assess(q) \/ MarkConflict(q)
           \/ Schedule(q) \/ CallFails(q)
  BY <1>3 DEF CheckReceipt, ResumeLoad, AnswerLoad, CancelLoad, StartRecommit,
              ResumeRecommit, UpdateRecommit, Recommit, CommitConflict,
              ReadProjection, ReadCorrupt, CompareCache, Assess, MarkConflict,
              Schedule, CallFails
<1>4. CASE CommitStart(q) \/ CommitResume(q)
  <2>1. RetrySnapshot(req.cur, req.run) \in Snapshots
    BY <1>1, RetrySnapshotFacts
  <2>2. \E r \in FreshRuns, snap \in Snapshots :
            InsertRun(r, snap, req.cmd) /\ PutReceipt(req, r)
    BY <1>4, <2>1, FirstSnapshots DEF CommitStart, CommitResume, req
  <2>3. QED
    BY <1>4, <2>2 DEF CommitStart, CommitResume, CommitsNew, req
<1>5. CASE CommitAnswer(q)
  <2>1. lastCall' \in Nat
    BY <1>2, <1>5 DEF CommitAnswer
  <2>2. AnsweredSnapshot(req.cur, lastCall') \in Snapshots
    BY <1>1, <2>1, AnsweredSnapshotFacts
  <2>3. {RunResumed} \in SUBSET Events
    BY IndeterminateEventsType DEF CostClasses
  <2>4. QED
    BY <1>5, <2>2, <2>3 DEF CommitAnswer, CommitsUpdate, req
<1>6. CASE CommitCancel(q)
  <2>1. NextSnapshot(req.cur, "Cancelled", "none") \in Snapshots
    BY <1>1, NextSnapshotFacts DEF RunStatus, Waits
  <2>2. QED
    BY <1>6, <2>1 DEF CommitCancel, CommitsUpdate, req
<1>7. CASE Reconstruct(q) \/ ReplaceCache(q)
  BY <1>7 DEF Reconstruct, ReplaceCache, RecoveryRewrites, Projectable
<1>8. CASE MarkIndeterminate(q)
  <2>1. lastCall' \in Nat
    BY <1>2, <1>8 DEF MarkIndeterminate
  <2>2. IndeterminateSnapshot(req.cur, req.call, req.cost, lastCall') \in Snapshots
    BY <1>1, <2>1, IndeterminateSnapshotFacts
  <2>3. QED
    BY <1>1, <1>8, <2>2 DEF MarkIndeterminate, RecoveryAppends, req
<1>9. CASE CommitResumed(q)
  BY <1>9 DEF CommitResumed, RecoveryReceipt, store
<1>10. QED
  BY <1>3, <1>4, <1>5, <1>6, <1>7, <1>8, <1>9 DEF RequestNext

-----------------------------------------------------------------------------
(* AddressInv is invariant.                                                *)

(* An update of a Run that exists leaves the existing Runs with a journal. *)
LEMMA AppendAddress ==
    ASSUME TypeInv, AddressInv, NEW r \in Runs, NEW snap, NEW ev, NEW cmd,
           Appends(r, snap, ev, cmd),
           \/ r \in Created /\ UNCHANGED created
           \/ created' = Append(created, r)
    PROVE  /\ \A s \in Runs : journal'[s] # <<>> <=> s \in Created'
           /\ Created \subseteq Created'
<1>1. /\ journal'[r] # <<>>
      /\ \A s \in Runs \ {r} : journal'[s] = journal[s]
  BY AppendsFacts
<1>2. Created' = Created \cup {r}
  BY CreatedAppend DEF Created
<1>3. QED
  BY <1>1, <1>2 DEF AddressInv

(* What a request step does to the Runs that exist.                        *)
LEMMA RequestAddress ==
    ASSUME TypeInv, AddressInv, NEW q \in Slots, RequestNext(q) \/ CallFails(q)
    PROVE  /\ \A s \in Runs : journal'[s] # <<>> <=> s \in Created'
           /\ Created \subseteq Created'
<1>1. Known(reqs[q], Created) /\ Created \subseteq Runs
  BY CreatedRuns DEF AddressInv
<1>2. CASE UNCHANGED <<journal, created>>
  BY <1>2 DEF AddressInv, Created
<1>3. CASE CommitsNew(q)
  <2>1. PICK r \in FreshRuns, snap \in Snapshots : InsertRun(r, snap, reqs[q].cmd)
    BY <1>3 DEF CommitsNew
  <2>2. Appends(r, snap, {}, reqs[q].cmd) /\ r \in Runs
    BY <2>1, InsertAppends
  <2>3. created' = Append(created, r)
    BY <2>1 DEF InsertRun
  <2>4. QED
    BY <2>2, <2>3, AppendAddress
<1>4. CASE CommitsUpdate(q) \/ RecoveryAppends(q)
  <2>1. reqs[q].run \in Created
    BY <1>1, <1>4 DEF CommitsUpdate, RecoveryAppends, RequestAt, Known
  <2>2. PICK snap, ev, cmd : AppendBatch(reqs[q].run, reqs[q].cur, snap, ev, cmd)
    BY <1>4 DEF CommitsUpdate, RecoveryAppends
  <2>3. created' = created
    BY <1>4 DEF CommitsUpdate, RecoveryAppends
  <2>4. Appends(reqs[q].run, snap, ev, cmd)
    BY <2>2 DEF AppendBatch, Appends
  <2>5. QED
    BY <1>1, <2>1, <2>3, <2>4, AppendAddress
<1>5. QED
  BY <1>2, <1>3, <1>4, RequestStore DEF store, RecoveryRewrites, RecoveryReceipt

LEMMA RequestKnown ==
    ASSUME TypeInv, AddressInv, NEW q \in Slots, RequestNext(q) \/ CallFails(q)
    PROVE  \A k \in Slots : Known(reqs'[k], Created')
<1> DEFINE req == reqs[q]
<1>1. req \in Requests /\ Known(req, Created)
  BY DEF TypeInv, TypeOK, AddressInv
<1>2. Created \subseteq Created' /\ Created \subseteq Runs /\ NoRun \notin Runs
  BY RequestAddress, CreatedRuns, RunsAssumption
<1>3. ASSUME NEW next, Known(next, Created'), SetRequest(q, next)
      PROVE  \A k \in Slots : Known(reqs'[k], Created')
  <2>1. \A k \in Slots : Known(reqs[k], Created')
    BY <1>2, KnownStays DEF AddressInv
  <2>2. \A k \in Slots : reqs'[k] = IF k = q THEN next ELSE reqs[k]
    BY <1>3 DEF SetRequest, TypeInv, TypeOK
  <2>3. QED
    BY <1>3, <2>1, <2>2
<1>4. ASSUME NEW run, Reply(q, run) \/ Refuse(q) \/ (run \in Created' /\ Wake(q, run))
      PROVE  \A k \in Slots : Known(reqs'[k], Created')
  <2>1. \A r, ok : Known(Replied(r, ok), Created')
    BY ReturnedFields DEF Known
  <2>2. ASSUME run \in Created' PROVE Known(Waking(req, run), Created')
    BY <2>2, ReturnedFields DEF Known
  <2>3. QED
    BY <1>3, <1>4, <2>1, <2>2 DEF Reply, Refuse, Wake
<1> HIDE DEF req
<1>5. CASE CheckReceipt(q)
  <2>1. \/ req.kind = "start" /\ SetRequest(q, [req EXCEPT !.pc = "commit"])
        \/ SetRequest(q, [req EXCEPT !.pc = "load"])
        \/ \E run : Reply(q, run) \/ Refuse(q)
    BY <1>5 DEF CheckReceipt, RequestGoto, req
  <2>2. req.run = NoRun
    BY <1>1, <1>5 DEF CheckReceipt, RequestAt, Known, req
  <2>3. ASSUME req.kind = "start"
        PROVE  Known([req EXCEPT !.pc = "commit"], Created')
    BY <1>1, <2>3, GotoFields DEF Known, SameCall
  <2>4. Known([req EXCEPT !.pc = "load"], Created')
    BY <1>1, <1>2, <2>2, GotoFields DEF Known, SameCall
  <2>5. QED
    BY <1>3, <1>4, <2>1, <2>3, <2>4
<1>6. CASE ResumeLoad(q)
  <2>1. req.pc = "load" /\ req.kind = "resume"
    BY <1>6 DEF ResumeLoad, RequestAt, req
  <2>2. \/ SetRequest(q, [req EXCEPT !.pc = "commit"])
        \/ \E pc \in {"commit", "read"}, run \in Created : \E snap :
               SetRequest(q, [req EXCEPT !.pc = pc, !.run = run, !.cur = snap])
    BY <1>6, LastCreated DEF ResumeLoad, RequestGoto, req
  <2>3. Known([req EXCEPT !.pc = "commit"], Created')
    BY <1>1, <2>1, GotoFields DEF Known, SameCall
  <2>4. ASSUME NEW pc \in {"commit", "read"}, NEW run \in Created, NEW snap
        PROVE  Known([req EXCEPT !.pc = pc, !.run = run, !.cur = snap], Created')
    BY <1>1, <1>2, <2>1, LoadFields DEF Known, SameCall
  <2>5. QED
    BY <1>3, <2>2, <2>3, <2>4
<1>7. CASE AnswerLoad(q) \/ CancelLoad(q)
  <2>1. /\ req.pc = "load" /\ req.kind \in {"answer", "cancel"}
        /\ \/ Refuse(q)
           \/ \E snap : SetRequest(q, [req EXCEPT !.pc = "commit", !.cur = snap,
                                                  !.run = req.target])
    BY <1>7 DEF AnswerLoad, CancelLoad, RequestAt, req
  <2>2. ASSUME NEW snap, NEW run, run = req.target
        PROVE  Known([req EXCEPT !.pc = "commit", !.cur = snap, !.run = run], Created')
    <3> DEFINE n == [req EXCEPT !.pc = "commit", !.cur = snap, !.run = run]
    <3>1. SameCall(n, req) /\ n.pc = "commit" /\ n.run = run
      BY <1>1 DEF Requests, SameCall
    <3>2. req.target \in Created'
      BY <1>1, <1>2, <2>1 DEF Known
    <3> HIDE DEF n
    <3>3. Known(n, Created')
      BY <2>1, <2>2, <3>1, <3>2 DEF Known, SameCall
    <3>4. QED
      BY <3>3 DEF n
  <2>3. QED
    BY <1>3, <1>4, <2>1, <2>2
<1>8. CASE StartRecommit(q) \/ ResumeRecommit(q) \/ CommitCancel(q)
           \/ CommitConflict(q) \/ ReadCorrupt(q) \/ MarkConflict(q)
           \/ Schedule(q) \/ CallFails(q)
  <2>1. \E run : Reply(q, run) \/ Refuse(q)
    BY <1>8 DEF StartRecommit, ResumeRecommit, CommitCancel, CommitConflict,
                ReadCorrupt, MarkConflict, Schedule, CallFails
  <2>2. QED
    BY <1>4, <2>1
<1>9. CASE UpdateRecommit(q) \/ CommitAnswer(q)
  <2>1. /\ req.pc = "commit" /\ req.kind \in {"answer", "cancel"}
        /\ \/ \E run : Reply(q, run) \/ Refuse(q)
           \/ Wake(q, req.run)
    BY <1>9 DEF UpdateRecommit, Recommit, CommitAnswer, RequestAt, req
  <2>2. req.run \in Created'
    BY <1>1, <1>2, <2>1 DEF Known
  <2>3. QED
    BY <1>4, <2>1, <2>2
<1>10. CASE CommitStart(q) \/ CommitResume(q)
  <2>1. PICK r \in FreshRuns : /\ created' = Append(created, r)
                               /\ Wake(q, r) \/ Reply(q, r)
    BY <1>10 DEF CommitStart, CommitResume, InsertRun
  <2>2. r \in Created'
    BY <2>1, CreatedAppend DEF FreshRuns
  <2>3. QED
    BY <1>4, <2>1, <2>2
<1>11. CASE Reconstruct(q) \/ CompareCache(q) \/ ReplaceCache(q)
  <2>1. /\ req.pc \in {"read", "compare", "replace"}
        /\ \/ \E snap : SetRequest(q, AfterReconstruct(req, snap))
           \/ SetRequest(q, [req EXCEPT !.pc = "replace"])
    BY <1>11 DEF Reconstruct, CompareCache, ReplaceCache, RequestAt, req
  <2>2. req.kind = "resume" /\ req.run \in Created'
    BY <1>1, <1>2, <2>1 DEF Known
  <2>3. ASSUME NEW snap PROVE Known(AfterReconstruct(req, snap), Created')
    BY <1>1, <2>2, ReconstructFields DEF Known, SameCall
  <2>4. Known([req EXCEPT !.pc = "replace"], Created')
    BY <1>1, <2>2, GotoFields DEF Known, SameCall
  <2>5. QED
    BY <1>3, <2>1, <2>3, <2>4
<1>12. CASE ReadProjection(q)
  <2>1. /\ req.pc = "read"
        /\ \E snap : SetRequest(q, [req EXCEPT !.pc = "compare", !.seen = snap])
    BY <1>12 DEF ReadProjection, RequestAt, req
  <2>2. req.kind = "resume" /\ req.run \in Created'
    BY <1>1, <1>2, <2>1 DEF Known
  <2>3. ASSUME NEW snap
        PROVE  Known([req EXCEPT !.pc = "compare", !.seen = snap], Created')
    BY <1>1, <2>2, SeenFields DEF Known, SameCall
  <2>4. QED
    BY <1>3, <2>1, <2>3
<1>13. CASE Assess(q) \/ MarkIndeterminate(q)
  <2>1. /\ req.pc \in {"facts", "mark"}
        /\ \/ \E run : Refuse(q)
           \/ \E wake : SetRequest(q, Receipting(req, wake))
           \/ \E call, cost, ev :
               SetRequest(q, [req EXCEPT !.pc = "mark", !.call = call, !.cost = cost,
                                         !.ev = ev, !.seen = AbsentRun])
    BY <1>13 DEF Assess, MarkIndeterminate, RequestAt, req
  <2>2. req.kind = "resume" /\ req.run \in Created'
    BY <1>1, <1>2, <2>1 DEF Known
  <2>3. ASSUME NEW wake PROVE Known(Receipting(req, wake), Created')
    BY <1>1, <2>2, ReceiptingFields DEF Known, SameCall
  <2>4. ASSUME NEW call, NEW cost, NEW ev
        PROVE  Known([req EXCEPT !.pc = "mark", !.call = call, !.cost = cost,
                                 !.ev = ev, !.seen = AbsentRun], Created')
    BY <1>1, <2>2, MarkFields DEF Known, SameCall
  <2>5. QED
    BY <1>3, <1>4, <2>1, <2>3, <2>4
<1>14. CASE CommitResumed(q)
  <2>1. /\ req.pc = "receipt"
        /\ \/ \E run : Reply(q, run) \/ Refuse(q)
           \/ Wake(q, req.run)
    BY <1>14 DEF CommitResumed, RequestAt, req
  <2>2. req.run \in Created'
    BY <1>1, <1>2, <2>1 DEF Known
  <2>3. QED
    BY <1>4, <2>1, <2>2
<1>15. QED
  BY <1>5, <1>6, <1>7, <1>8, <1>9, <1>10, <1>11, <1>12, <1>13, <1>14 DEF RequestNext

LEMMA AddressNext == TypeInv /\ AddressInv /\ [Next]_vars => AddressInv'
<1> SUFFICES ASSUME TypeInv, AddressInv, [Next]_vars
             PROVE  AddressInv'
  OBVIOUS
<1>1. ASSUME NEW p \in Procs, NEW r \in Runs, DriverNext(p, r)
      PROVE  AddressInv'
  <2>1. /\ reqs' = reqs /\ drv[p][r].pc # "idle"
        /\ \E d : drv' = [drv EXCEPT ![p][r] = d]
        /\ UNCHANGED store \/ DriverAppends(p, r)
    BY <1>1, DriverStore DEF SetDriver
  <2>2. r \in Created
    BY <2>1 DEF AddressInv
  <2>3. created' = created
    BY <2>1 DEF DriverAppends, store
  <2>4. \A s \in Runs : journal'[s] # <<>> <=> s \in Created'
    <3>1. CASE UNCHANGED store
      BY <3>1 DEF AddressInv, store, Created
    <3>2. CASE DriverAppends(p, r)
      <4>1. PICK snap, ev : Appends(r, snap, ev, NoCmd)
        BY <3>2 DEF DriverAppends, AppendBatch, Appends
      <4>2. QED
        BY <2>2, <2>3, <4>1, AppendAddress
    <3>3. QED
      BY <2>1, <3>1, <3>2
  <2>5. Created' = Created
    BY <2>3 DEF Created
  <2>6. \A k \in Procs, s \in Runs : drv'[k][s].pc # "idle" => s \in Created
    <3>1. \A k \in Procs, s \in Runs : k # p \/ s # r => drv'[k][s] = drv[k][s]
      BY <2>1 DEF TypeInv, TypeOK
    <3>2. QED
      BY <2>2, <3>1 DEF AddressInv
  <2>7. \A k \in Slots : Known(reqs'[k], Created')
    BY <2>1, <2>5 DEF AddressInv
  <2>8. QED
    BY <2>4, <2>5, <2>6, <2>7 DEF AddressInv
<1>2. ASSUME NEW q \in Slots, RequestNext(q) \/ CallFails(q)
      PROVE  AddressInv'
  <2>1. /\ \A s \in Runs : journal'[s] # <<>> <=> s \in Created'
        /\ Created \subseteq Created'
    BY <1>2, RequestAddress
  <2>2. \A k \in Slots : Known(reqs'[k], Created')
    BY <1>2, RequestKnown
  <2>3. drv' = drv \/ (Schedule(q) /\ drv' # drv)
    BY <1>2 DEF RequestNext, CheckReceipt, ResumeLoad, AnswerLoad, CancelLoad,
                StartRecommit, ResumeRecommit, UpdateRecommit, Recommit, CommitStart,
                CommitResume, CommitAnswer, CommitCancel, CommitConflict, Reconstruct,
                ReadProjection, ReadCorrupt, CompareCache, ReplaceCache, Assess,
                MarkIndeterminate, MarkConflict, CommitResumed, CallFails
  <2>4. \A p \in Procs, s \in Runs : drv'[p][s].pc # "idle" => s \in Created
    <3>1. CASE drv' = drv
      BY <3>1 DEF AddressInv
    <3>2. CASE Schedule(q) /\ drv' # drv
      <4>1. /\ reqs[q].run \in Created
            /\ drv' = [drv EXCEPT ![reqs[q].proc][reqs[q].run] = NewDriver]
        BY <3>2 DEF Schedule, RequestAt, AddressInv, Known, SetDriver
      <4>2. \A p \in Procs, s \in Runs :
                s # reqs[q].run => drv'[p][s] = drv[p][s]
        BY <4>1 DEF TypeInv, TypeOK
      <4>3. QED
        BY <4>1, <4>2 DEF AddressInv
    <3>3. QED
      BY <2>3, <3>1, <3>2
  <2>5. QED
    BY <2>1, <2>2, <2>4 DEF AddressInv
<1>3. ASSUME NEW q \in Slots, NEW p \in Procs, NEW c \in Cmds, NEW kind \in Kinds,
             NEW target \in Runs \cup {NoRun}, Issue(q, p, c, kind, target)
      PROVE  AddressInv'
  <2> DEFINE n == [IdleRequest EXCEPT !.pc = "check", !.kind = kind, !.cmd = c,
                                      !.target = target, !.proc = p]
  <2>1. /\ SetRequest(q, n)
        /\ kind \in {"answer", "cancel"} => target \in Created
        /\ UNCHANGED <<journal, created, drv>>
    BY <1>3 DEF Issue, store
  <2>2. n.pc = "check" /\ n.kind = kind /\ n.target = target /\ n.run = NoRun
    BY DEF IdleRequest
  <2> HIDE DEF n
  <2>3. Known(n, Created)
    BY <2>1, <2>2 DEF Known
  <2>4. Created' = Created
    BY <2>1 DEF Created
  <2>5. \A k \in Slots : reqs'[k] = IF k = q THEN n ELSE reqs[k]
    BY <2>1 DEF SetRequest, TypeInv, TypeOK
  <2>6. QED
    BY <2>1, <2>3, <2>4, <2>5 DEF AddressInv
<1>4. ASSUME NEW p \in Procs, Crash(p)
      PROVE  AddressInv'
  <2>1. /\ \A k \in Slots : reqs'[k] \in {reqs[k], Replied(NoRun, FALSE)}
        /\ \A k \in Procs, r \in Runs : drv'[k][r] \in {drv[k][r], IdleDriver}
        /\ UNCHANGED <<journal, created>>
    BY <1>4 DEF Crash, store, TypeInv, TypeOK
  <2>2. Known(Replied(NoRun, FALSE), Created) /\ IdleDriver.pc = "idle"
    BY ReturnedFields DEF Known, IdleDriver
  <2>3. Created' = Created
    BY <2>1 DEF Created
  <2>4. \A k \in Slots : Known(reqs'[k], Created)
    BY <2>1, <2>2 DEF AddressInv
  <2>5. \A k \in Procs, r \in Runs : drv'[k][r].pc # "idle" => r \in Created
    BY <2>1, <2>2 DEF AddressInv
  <2>6. QED
    BY <2>1, <2>3, <2>4, <2>5 DEF AddressInv
<1>5. CASE Quiet \/ UNCHANGED vars
  <2>1. UNCHANGED <<journal, created, reqs, drv>>
    BY <1>5 DEF Quiet, vars
  <2>2. Created' = Created
    BY <2>1 DEF Created
  <2>3. QED
    BY <2>1, <2>2 DEF AddressInv
<1>6. QED
  BY <1>1, <1>2, <1>3, <1>4, <1>5 DEF Next

LEMMA AddressInit == Init => AddressInv
<1> SUFFICES ASSUME Init PROVE AddressInv
  OBVIOUS
<1>1. /\ \A r \in Runs : journal[r] = <<>>
      /\ \A p \in Procs, r \in Runs : drv[p][r] = IdleDriver
      /\ \A q \in Slots : reqs[q] = IdleRequest
      /\ created = <<>>
  BY DEF Init
<1>2. Known(IdleRequest, Created) /\ IdleDriver.pc = "idle" /\ Created = {}
  BY <1>1 DEF Known, IdleRequest, IdleDriver, Created
<1>3. QED
  BY <1>1, <1>2 DEF AddressInv

-----------------------------------------------------------------------------
(* A command takes effect once.                                            *)

(* What a step does to the effects and the receipt of a command: it gives  *)
(* the command its one effect together with its receipt, or a resume its   *)
(* receipt, or neither.                                                    *)
Applies(c) ==
    /\ ~HasReceipt(c)
    /\ \E r \in Runs, i \in Nat : /\ Effects(c)' = Effects(c) \cup {<<r, i>>}
                                  /\ receipts'[c].run = r
    /\ HasReceipt(c)'

Acknowledges(c) ==
    /\ ~HasReceipt(c)
    /\ Effects(c)' = Effects(c)
    /\ receipts'[c].kind = "resume"

LeavesCommand(c) == Effects(c)' = Effects(c) /\ receipts'[c] = receipts[c]

(* Of an append, only the command it was made by takes an effect.          *)
LEMMA EffectsAppend ==
    ASSUME TypeInv, NEW r \in Runs, NEW snap, NEW ev, NEW cmd, Appends(r, snap, ev, cmd),
           NEW c \in Cmds
    PROVE  /\ c # cmd => Effects(c)' = Effects(c)
           /\ c = cmd => \E i \in Nat : Effects(c)' = Effects(c) \cup {<<r, i>>}
<1> DEFINE n == Len(journal[r]) + 1
<1>1. /\ n \in Nat \ {0} /\ DOMAIN journal[r] = 1 .. n - 1 /\ DOMAIN journal'[r] = 1 .. n
      /\ \A i \in 1 .. n - 1 : journal'[r][i] = journal[r][i]
      /\ journal'[r][n].cmd = cmd
      /\ \A s \in Runs \ {r} : journal'[s] = journal[s]
  BY AppendsFacts
<1> HIDE DEF n
<1>2. \A s \in Runs : \A i :
          (i \in DOMAIN journal'[s] /\ journal'[s][i].cmd = c) <=>
             \/ i \in DOMAIN journal[s] /\ journal[s][i].cmd = c
             \/ s = r /\ i = n /\ c = cmd
  <2> SUFFICES ASSUME NEW s \in Runs, NEW i
               PROVE  (i \in DOMAIN journal'[s] /\ journal'[s][i].cmd = c) <=>
                         \/ i \in DOMAIN journal[s] /\ journal[s][i].cmd = c
                         \/ s = r /\ i = n /\ c = cmd
    OBVIOUS
  <2>1. CASE s # r
    BY <1>1, <2>1
  <2>2. CASE s = r
    <3>1. i \in DOMAIN journal'[r] <=> i \in DOMAIN journal[r] \/ i = n
      BY <1>1
    <3>2. n \notin DOMAIN journal[r]
      BY <1>1
    <3>3. QED
      BY <1>1, <2>2, <3>1, <3>2
  <2>3. QED
    BY <2>1, <2>2
<1>3. CASE c # cmd
  BY <1>2, <1>3 DEF Effects
<1>4. CASE c = cmd
  <2>1. Effects(c)' = Effects(c) \cup {<<r, n>>}
    BY <1>2, <1>4 DEF Effects
  <2>2. QED
    BY <1>1, <1>4, <2>1
<1>5. QED
  BY <1>3, <1>4

(* A transaction that files a receipt files the one of its request.        *)
LEMMA ReceiptFiled ==
    ASSUME TypeInv, NEW q \in Slots, NEW run, PutReceipt(reqs[q], run),
           reqs[q].pc \in {"commit", "receipt"}
    PROVE  /\ reqs[q].cmd \in Cmds
           /\ receipts'[reqs[q].cmd].kind = reqs[q].kind
           /\ receipts'[reqs[q].cmd].run = run
           /\ \A c \in Cmds \ {reqs[q].cmd} : receipts'[c] = receipts[c]
<1>1. reqs[q].cmd \in Cmds
  BY DEF TypeInv, WellAddressed
<1>2. QED
  BY <1>1 DEF PutReceipt, TypeInv, TypeOK

LEMMA CommandStep ==
    ASSUME TypeInv, AddressInv, [Next]_vars, NEW c \in Cmds
    PROVE  Applies(c) \/ Acknowledges(c) \/ LeavesCommand(c)
<1>1. ASSUME UNCHANGED <<journal, receipts>>
      PROVE  LeavesCommand(c)
  BY <1>1 DEF LeavesCommand, Effects
<1>2. ASSUME NEW r \in Runs, NEW snap, NEW ev, Appends(r, snap, ev, NoCmd),
             UNCHANGED receipts
      PROVE  LeavesCommand(c)
  BY <1>2, EffectsAppend, CmdsAssumption DEF LeavesCommand
<1>3. ASSUME NEW q \in Slots, NEW r \in Runs, NEW snap, NEW ev,
             Appends(r, snap, ev, reqs[q].cmd), PutReceipt(reqs[q], r),
             MayCommit(reqs[q].cmd), reqs[q].pc = "commit", reqs[q].kind # "none"
      PROVE  Applies(c) \/ LeavesCommand(c)
  <2>1. CASE c = reqs[q].cmd
    <3>1. \E i \in Nat : Effects(c)' = Effects(c) \cup {<<r, i>>}
      BY <1>3, <2>1, EffectsAppend
    <3>2. receipts'[c].run = r /\ receipts'[c].kind # "none"
      BY <1>3, <2>1, ReceiptFiled
    <3>3. QED
      BY <1>3, <2>1, <3>1, <3>2 DEF Applies, MayCommit, HasReceipt
  <2>2. CASE c # reqs[q].cmd
    BY <1>3, <2>2, EffectsAppend, ReceiptFiled DEF LeavesCommand
  <2>3. QED
    BY <2>1, <2>2
<1>4. ASSUME NEW p \in Procs, NEW r \in Runs, DriverNext(p, r)
      PROVE  LeavesCommand(c)
  <2>1. UNCHANGED store \/ DriverAppends(p, r)
    BY <1>4, DriverStore
  <2>2. CASE UNCHANGED store
    BY <1>1, <2>2 DEF store
  <2>3. CASE DriverAppends(p, r)
    BY <1>2, <2>3 DEF DriverAppends, AppendBatch, Appends
  <2>4. QED
    BY <2>1, <2>2, <2>3
<1>5. ASSUME NEW q \in Slots, RequestNext(q) \/ CallFails(q)
      PROVE  Applies(c) \/ Acknowledges(c) \/ LeavesCommand(c)
  <2>1. Known(reqs[q], Created) /\ Created \subseteq Runs
    BY CreatedRuns DEF AddressInv
  <2>2. CASE UNCHANGED store \/ RecoveryRewrites(q)
    BY <1>1, <2>2 DEF store, RecoveryRewrites
  <2>3. CASE CommitsNew(q)
    <3>1. PICK r \in FreshRuns, snap \in Snapshots :
              InsertRun(r, snap, reqs[q].cmd) /\ PutReceipt(reqs[q], r)
      BY <2>3 DEF CommitsNew
    <3>2. Appends(r, snap, {}, reqs[q].cmd) /\ r \in Runs
      BY <3>1, InsertAppends
    <3>3. QED
      BY <1>3, <2>3, <3>1, <3>2 DEF CommitsNew, RequestAt
  <2>4. CASE CommitsUpdate(q)
    <3>1. reqs[q].run \in Runs
      BY <2>1, <2>4 DEF CommitsUpdate, RequestAt, Known
    <3>2. PICK snap \in Snapshots, ev \in SUBSET Events :
              AppendBatch(reqs[q].run, reqs[q].cur, snap, ev, reqs[q].cmd)
      BY <2>4 DEF CommitsUpdate
    <3>3. Appends(reqs[q].run, snap, ev, reqs[q].cmd)
      BY <3>2 DEF AppendBatch, Appends
    <3>4. QED
      BY <1>3, <2>4, <3>1, <3>3 DEF CommitsUpdate, RequestAt
  <2>5. CASE RecoveryAppends(q)
    <3>1. reqs[q].run \in Runs /\ receipts' = receipts
      BY <2>1, <2>5 DEF RecoveryAppends, RequestAt, Known
    <3>2. PICK snap \in Snapshots, ev \in SUBSET Events :
              AppendBatch(reqs[q].run, reqs[q].cur, snap, ev, NoCmd)
      BY <2>5 DEF RecoveryAppends
    <3>3. Appends(reqs[q].run, snap, ev, NoCmd)
      BY <3>2 DEF AppendBatch, Appends
    <3>4. QED
      BY <1>2, <3>1, <3>3
  <2>6. CASE RecoveryReceipt(q)
    <3>1. reqs[q].kind = "resume" /\ reqs[q].pc = "receipt"
      BY <2>1, <2>6 DEF RecoveryReceipt, RequestAt, Known
    <3>2. Effects(c)' = Effects(c)
      BY <2>6 DEF RecoveryReceipt, Effects
    <3>3. CASE c = reqs[q].cmd
      BY <2>6, <3>1, <3>2, <3>3, ReceiptFiled
         DEF RecoveryReceipt, Acknowledges, MayCommit
    <3>4. CASE c # reqs[q].cmd
      BY <2>6, <3>1, <3>2, <3>4, ReceiptFiled DEF RecoveryReceipt, LeavesCommand
    <3>5. QED
      BY <3>3, <3>4
  <2>7. QED
    BY <1>5, <2>2, <2>3, <2>4, <2>5, <2>6, RequestStore
<1>6. ASSUME NEW q \in Slots, NEW p \in Procs, NEW d \in Cmds, NEW kind \in Kinds,
             NEW target \in Runs \cup {NoRun}, Issue(q, p, d, kind, target)
      PROVE  LeavesCommand(c)
  BY <1>1, <1>6 DEF Issue, store
<1>7. ASSUME NEW p \in Procs, Crash(p)
      PROVE  LeavesCommand(c)
  BY <1>1, <1>7 DEF Crash, store
<1>8. CASE Quiet \/ UNCHANGED vars
  BY <1>1, <1>8 DEF Quiet, vars
<1>9. QED
  BY <1>4, <1>5, <1>6, <1>7, <1>8 DEF Next

(* The inductive invariant: what has taken effect has its receipt, which   *)
(* is what the next delivery of the same command looks for.                *)
CommandInv ==
    /\ OneEffectPerCommand
    /\ \A c \in Cmds : Effects(c) # {} => HasReceipt(c)

LEMMA CommandNext == TypeInv /\ AddressInv /\ CommandInv /\ [Next]_vars => CommandInv'
<1> SUFFICES ASSUME TypeInv, AddressInv, CommandInv, [Next]_vars, NEW c \in Cmds
             PROVE  /\ \A x, y \in Effects(c)' : x = y
                    /\ Effects(c)' # {} =>
                          \E x \in Effects(c)' : receipts'[c].run = x[1]
                    /\ receipts'[c].kind \in {"start", "answer", "cancel"} =>
                          Effects(c)' # {}
                    /\ Effects(c)' # {} => HasReceipt(c)'
  BY DEF CommandInv, OneEffectPerCommand
<1>1. /\ \A x, y \in Effects(c) : x = y
      /\ Effects(c) # {} => \E x \in Effects(c) : receipts[c].run = x[1]
      /\ receipts[c].kind \in {"start", "answer", "cancel"} => Effects(c) # {}
      /\ Effects(c) # {} => HasReceipt(c)
  BY DEF CommandInv, OneEffectPerCommand
<1>2. CASE Applies(c)
  <2>1. PICK r \in Runs, i \in Nat : /\ Effects(c)' = Effects(c) \cup {<<r, i>>}
                                     /\ receipts'[c].run = r
    BY <1>2 DEF Applies
  <2>2. Effects(c) = {} /\ HasReceipt(c)'
    BY <1>1, <1>2 DEF Applies
  <2>3. Effects(c)' = {<<r, i>>} /\ <<r, i>>[1] = r
    BY <2>1, <2>2
  <2>4. QED
    BY <2>1, <2>2, <2>3
<1>3. CASE Acknowledges(c)
  BY <1>1, <1>3 DEF Acknowledges, HasReceipt
<1>4. CASE LeavesCommand(c)
  BY <1>1, <1>4 DEF LeavesCommand, HasReceipt
<1>5. QED
  BY <1>2, <1>3, <1>4, CommandStep

LEMMA CommandInit == Init => CommandInv
<1> SUFFICES ASSUME Init PROVE CommandInv
  OBVIOUS
<1>1. \A r \in Runs : journal[r] = <<>>
  BY DEF Init
<1>2. \A c \in Cmds : Effects(c) = {}
  BY <1>1 DEF Effects
<1>3. \A c \in Cmds : receipts[c].kind = "none"
  BY DEF Init, NoReceipt
<1>4. QED
  BY <1>2, <1>3 DEF CommandInv, OneEffectPerCommand

(* However often a command is delivered and replayed, and wherever its     *)
(* processes crash, it is applied at most once, and the receipt of a       *)
(* start, an answer or a cancel goes with one effect, on the Run it names  *)
(* (commit_command, replayed_receipt).  No append has to be kept out of a  *)
(* reconstruct for this.                                                   *)
THEOREM CommandsTakeEffectOnce == Spec => []OneEffectPerCommand
<1> DEFINE Inv == TypeInv /\ AddressInv /\ CommandInv
<1>1. Init => Inv
  BY InitType, AddressInit, CommandInit
<1>2. Inv /\ [Next]_vars => Inv'
  BY NextType, AddressNext, CommandNext
<1>3. Inv => OneEffectPerCommand
  BY DEF CommandInv
<1>4. QED
  BY <1>1, <1>2, <1>3, PTL DEF Spec

-----------------------------------------------------------------------------
(* A row is a state its Run was in.                                        *)

Journaled(h, snap) == \E i \in DOMAIN h : h[i].snap = snap

(* The inductive invariant: a reconstruct that was overtaken still holds a *)
(* state of the Run.                                                       *)
JournaledInv ==
    /\ RowWasJournaled
    /\ \A q \in Slots :
          reqs[q].pc \in {"compare", "replace"} => Journaled(journal[reqs[q].run], reqs[q].seen)

(* A journal only grows, by the row that is written with the batch.        *)
LEMMA AppendJournaled ==
    ASSUME TypeInv, NEW r \in Runs, NEW snap, NEW ev, NEW cmd, Appends(r, snap, ev, cmd)
    PROVE  /\ \A s \in Runs : \A x : Journaled(journal[s], x) => Journaled(journal'[s], x)
           /\ Journaled(journal'[r], snap)
<1> DEFINE n == Len(journal[r])
<1>1. /\ n \in Nat /\ DOMAIN journal[r] = 1 .. n /\ DOMAIN journal'[r] = 1 .. n + 1
      /\ \A i \in 1 .. n : journal'[r][i] = journal[r][i]
      /\ journal'[r][n + 1].snap = snap
      /\ \A s \in Runs \ {r} : journal'[s] = journal[s]
  BY AppendsFacts
<1> HIDE DEF n
<1>2. Journaled(journal'[r], snap)
  <2>1. n + 1 \in DOMAIN journal'[r]
    BY <1>1
  <2>2. QED
    BY <1>1, <2>1 DEF Journaled
<1>3. ASSUME NEW s \in Runs, NEW x, Journaled(journal[s], x)
      PROVE  Journaled(journal'[s], x)
  <2>1. CASE s = r
    <3>1. PICK i \in 1 .. n : journal[r][i].snap = x
      BY <1>1, <1>3, <2>1 DEF Journaled
    <3>2. i \in DOMAIN journal'[r] /\ journal'[r][i].snap = x
      BY <1>1, <3>1
    <3>3. QED
      BY <2>1, <3>2 DEF Journaled
  <2>2. CASE s # r
    BY <1>1, <1>3, <2>2 DEF Journaled
  <2>3. QED
    BY <2>1, <2>2
<1>4. QED
  BY <1>2, <1>3

LEMMA ProjectionJournaled ==
    ASSUME TypeInv, NEW r \in Runs, journal[r] # <<>>
    PROVE  Journaled(journal[r], Projection(journal[r]))
<1>1. journal[r] \in Seq(Batches)
  BY DEF TypeInv, TypeOK
<1>2. Len(journal[r]) \in DOMAIN journal[r]
  BY <1>1
<1>3. QED
  BY <1>2 DEF Journaled, Projection

(* What a step does to the rows and the journals: the row of one Run is    *)
(* written together with its batch, or with a snapshot its journal holds.  *)
RowsFollow ==
    /\ \A s \in Runs : \A x : Journaled(journal[s], x) => Journaled(journal'[s], x)
    /\ \A s \in Runs : \/ rows'[s] = rows[s] /\ journal'[s] = journal[s]
                       \/ Journaled(journal'[s], rows'[s])

LEMMA RowsStep ==
    ASSUME TypeInv, AddressInv, JournaledInv, [Next]_vars
    PROVE  RowsFollow
<1>1. ASSUME UNCHANGED <<rows, journal>>
      PROVE  RowsFollow
  BY <1>1 DEF RowsFollow, Journaled
<1>2. ASSUME NEW r \in Runs, NEW snap, NEW ev, NEW cmd, Appends(r, snap, ev, cmd),
             rows' = [rows EXCEPT ![r] = snap]
      PROVE  RowsFollow
  <2>1. /\ rows'[r] = snap
        /\ \A s \in Runs \ {r} : rows'[s] = rows[s] /\ journal'[s] = journal[s]
    BY <1>2, AppendsFacts DEF TypeInv, TypeOK
  <2>2. /\ \A s \in Runs : \A x : Journaled(journal[s], x) => Journaled(journal'[s], x)
        /\ Journaled(journal'[r], snap)
    BY <1>2, AppendJournaled
  <2>3. Journaled(journal'[r], rows'[r])
    BY <2>1, <2>2
  <2>4. QED
    BY <2>1, <2>2, <2>3 DEF RowsFollow
<1>3. ASSUME NEW r \in Runs, NEW cur, NEW next, NEW ev, NEW cmd,
             AppendBatch(r, cur, next, ev, cmd)
      PROVE  RowsFollow
  BY <1>2, <1>3 DEF AppendBatch, Appends
<1>4. ASSUME NEW p \in Procs, NEW r \in Runs, DriverNext(p, r)
      PROVE  RowsFollow
  <2>1. CASE UNCHANGED store
    BY <1>1, <2>1 DEF store
  <2>2. CASE DriverAppends(p, r)
    BY <1>3, <2>2 DEF DriverAppends
  <2>3. QED
    BY <1>4, <2>1, <2>2, DriverStore
<1>5. ASSUME NEW q \in Slots, RequestNext(q) \/ CallFails(q)
      PROVE  RowsFollow
  <2>1. Known(reqs[q], Created) /\ Created \subseteq Runs
    BY CreatedRuns DEF AddressInv
  <2>2. CASE UNCHANGED store \/ RecoveryReceipt(q)
    BY <1>1, <2>2 DEF store, RecoveryReceipt
  <2>3. CASE CommitsNew(q)
    <3>1. PICK r \in FreshRuns, snap \in Snapshots : InsertRun(r, snap, reqs[q].cmd)
      BY <2>3 DEF CommitsNew
    <3>2. Appends(r, snap, {}, reqs[q].cmd) /\ r \in Runs
      BY <3>1, InsertAppends
    <3>3. rows' = [rows EXCEPT ![r] = snap]
      BY <3>1 DEF InsertRun
    <3>4. QED
      BY <1>2, <3>2, <3>3
  <2>4. CASE CommitsUpdate(q) \/ RecoveryAppends(q)
    <3>1. reqs[q].run \in Runs
      BY <2>1, <2>4 DEF CommitsUpdate, RecoveryAppends, RequestAt, Known
    <3>2. PICK snap, ev, cmd : AppendBatch(reqs[q].run, reqs[q].cur, snap, ev, cmd)
      BY <2>4 DEF CommitsUpdate, RecoveryAppends
    <3>3. QED
      BY <1>3, <3>1, <3>2
  <2>5. CASE RecoveryRewrites(q)
    <3> DEFINE r == reqs[q].run
    <3>1. r \in Runs /\ journal' = journal
      BY <2>1, <2>5 DEF RecoveryRewrites, RequestAt, Known
    <3>2. PICK x : rows' = [rows EXCEPT ![r] = x] /\ Journaled(journal[r], x)
      BY <2>5, <3>1, ProjectionJournaled DEF RecoveryRewrites, RequestAt, JournaledInv
    <3>3. /\ rows'[r] = x
          /\ \A s \in Runs \ {r} : rows'[s] = rows[s]
      BY <3>1, <3>2 DEF TypeInv, TypeOK
    <3>4. \A s \in Runs : \A y : Journaled(journal[s], y) => Journaled(journal'[s], y)
      BY <3>1 DEF Journaled
    <3>5. Journaled(journal'[r], rows'[r])
      BY <3>1, <3>2, <3>3 DEF Journaled
    <3> HIDE DEF r
    <3>6. QED
      BY <3>1, <3>3, <3>4, <3>5 DEF RowsFollow
  <2>6. QED
    BY <1>5, <2>2, <2>3, <2>4, <2>5, RequestStore
<1>6. ASSUME NEW q \in Slots, NEW p \in Procs, NEW c \in Cmds, NEW kind \in Kinds,
             NEW target \in Runs \cup {NoRun}, Issue(q, p, c, kind, target)
      PROVE  RowsFollow
  BY <1>1, <1>6 DEF Issue, store
<1>7. ASSUME NEW p \in Procs, Crash(p)
      PROVE  RowsFollow
  BY <1>1, <1>7 DEF Crash, store
<1>8. CASE Quiet \/ UNCHANGED vars
  BY <1>1, <1>8 DEF Quiet, vars
<1>9. QED
  BY <1>4, <1>5, <1>6, <1>7, <1>8 DEF Next

(* What a step does to the requests inside a reconstruct: one enters it    *)
(* with the projection it has read and keeps it until it leaves.           *)
Reads(q) ==
    reqs'[q].pc \in {"compare", "replace"} =>
        \/ /\ reqs[q].pc \in {"compare", "replace"}
           /\ reqs'[q].run = reqs[q].run /\ reqs'[q].seen = reqs[q].seen
        \/ /\ reqs[q].pc = "read" /\ journal[reqs[q].run] # <<>>
           /\ reqs'[q].run = reqs[q].run
           /\ reqs'[q].seen = Projection(journal[reqs[q].run])

LEMMA ReadStep ==
    ASSUME TypeInv, NEW q \in Slots, RequestNext(q) \/ CallFails(q)
    PROVE  \A k \in Slots : Reads(k)
<1> DEFINE req == reqs[q]
<1>1. req \in Requests
  BY DEF TypeInv, TypeOK
<1>2. ASSUME NEW next, SetRequest(q, next),
             \/ next.pc \notin {"compare", "replace"}
             \/ /\ req.pc \in {"compare", "replace"}
                /\ next.run = req.run /\ next.seen = req.seen
             \/ /\ req.pc = "read" /\ journal[req.run] # <<>> /\ next.run = req.run
                /\ next.seen = Projection(journal[req.run])
      PROVE  \A k \in Slots : Reads(k)
  <2>1. \A k \in Slots : reqs'[k] = IF k = q THEN next ELSE reqs[k]
    BY <1>2 DEF SetRequest, TypeInv, TypeOK
  <2>2. QED
    BY <1>2, <2>1 DEF Reads
<1>3. ASSUME NEW run, Reply(q, run) \/ Refuse(q) \/ Wake(q, run)
      PROVE  \A k \in Slots : Reads(k)
  <2>1. /\ \A r, ok : Replied(r, ok).pc = "done"
        /\ Waking(req, run).pc = "schedule"
    BY ReturnedFields
  <2>2. QED
    BY <1>2, <1>3, <2>1 DEF Reply, Refuse, Wake
<1> HIDE DEF req
<1>4. CASE CheckReceipt(q)
  <2>1. \/ \E pc \in {"commit", "load"} : SetRequest(q, [req EXCEPT !.pc = pc])
        \/ \E run : Reply(q, run) \/ Refuse(q)
    BY <1>4 DEF CheckReceipt, RequestGoto, req
  <2>2. \A pc \in {"commit", "load"} : [req EXCEPT !.pc = pc].pc = pc
    BY <1>1 DEF Requests
  <2>3. QED
    BY <1>2, <1>3, <2>1, <2>2
<1>5. CASE ResumeLoad(q) \/ AnswerLoad(q) \/ CancelLoad(q)
  <2>1. \/ Refuse(q)
        \/ SetRequest(q, [req EXCEPT !.pc = "commit"])
        \/ \E pc \in {"commit", "read"} : \E run, snap :
               \/ SetRequest(q, [req EXCEPT !.pc = pc, !.run = run, !.cur = snap])
               \/ SetRequest(q, [req EXCEPT !.pc = pc, !.cur = snap, !.run = run])
    BY <1>5 DEF ResumeLoad, AnswerLoad, CancelLoad, RequestGoto, req
  <2>2. /\ [req EXCEPT !.pc = "commit"].pc = "commit"
        /\ \A pc, run, snap : /\ [req EXCEPT !.pc = pc, !.run = run, !.cur = snap].pc = pc
                              /\ [req EXCEPT !.pc = pc, !.cur = snap, !.run = run].pc = pc
    BY <1>1 DEF Requests
  <2>3. QED
    BY <1>2, <1>3, <2>1, <2>2
<1>6. CASE \/ StartRecommit(q) \/ ResumeRecommit(q) \/ UpdateRecommit(q)
           \/ CommitStart(q) \/ CommitResume(q) \/ CommitAnswer(q) \/ CommitCancel(q)
           \/ CommitConflict(q) \/ ReadCorrupt(q) \/ MarkConflict(q)
           \/ CommitResumed(q) \/ Schedule(q) \/ CallFails(q)
  <2>1. \E run : Reply(q, run) \/ Refuse(q) \/ Wake(q, run)
    BY <1>6 DEF StartRecommit, ResumeRecommit, UpdateRecommit, CommitStart,
                CommitResume, CommitAnswer, CommitCancel, CommitConflict,
                ReadCorrupt, MarkConflict, CommitResumed, Schedule, CallFails
  <2>2. QED
    BY <1>3, <2>1
<1>7. CASE Reconstruct(q) \/ CompareCache(q) \/ ReplaceCache(q)
  <2>1. \/ \E snap : SetRequest(q, AfterReconstruct(req, snap))
        \/ req.pc = "compare" /\ SetRequest(q, [req EXCEPT !.pc = "replace"])
    BY <1>7 DEF Reconstruct, CompareCache, ReplaceCache, RequestAt, req
  <2>2. \A snap : AfterReconstruct(req, snap).pc \in {"read", "facts"}
    BY <1>1 DEF AfterReconstruct, Requests
  <2>3. LET n == [req EXCEPT !.pc = "replace"] IN n.run = req.run /\ n.seen = req.seen
    BY <1>1 DEF Requests
  <2>4. QED
    BY <1>2, <2>1, <2>2, <2>3
<1>8. CASE ReadProjection(q)
  <2>1. /\ req.pc = "read" /\ journal[req.run] # <<>>
        /\ \E snap : /\ snap = Projection(journal[req.run])
                     /\ SetRequest(q, [req EXCEPT !.pc = "compare", !.seen = snap])
    BY <1>8 DEF ReadProjection, RequestAt, Projectable, req
  <2>2. \A snap : LET n == [req EXCEPT !.pc = "compare", !.seen = snap]
                  IN  n.run = req.run /\ n.seen = snap
    BY <1>1 DEF Requests
  <2>3. QED
    BY <1>2, <2>1, <2>2
<1>9. CASE Assess(q) \/ MarkIndeterminate(q)
  <2>1. \/ Refuse(q)
        \/ \E wake : SetRequest(q, Receipting(req, wake))
        \/ \E call, cost, ev :
               SetRequest(q, [req EXCEPT !.pc = "mark", !.call = call, !.cost = cost,
                                         !.ev = ev, !.seen = AbsentRun])
    BY <1>9 DEF Assess, MarkIndeterminate, req
  <2>2. /\ \A wake : Receipting(req, wake).pc = "receipt"
        /\ \A call, cost, ev : [req EXCEPT !.pc = "mark", !.call = call, !.cost = cost,
                                           !.ev = ev, !.seen = AbsentRun].pc = "mark"
    BY <1>1 DEF Receipting, Requests
  <2>3. QED
    BY <1>2, <1>3, <2>1, <2>2
<1>10. QED
  BY <1>4, <1>5, <1>6, <1>7, <1>8, <1>9 DEF RequestNext

LEMMA JournaledNext ==
    TypeInv /\ AddressInv /\ JournaledInv /\ [Next]_vars => JournaledInv'
<1> SUFFICES ASSUME TypeInv, AddressInv, JournaledInv, [Next]_vars
             PROVE  JournaledInv'
  OBVIOUS
<1>1. RowsFollow
  BY RowsStep
<1>2. RowWasJournaled'
  <2> SUFFICES ASSUME NEW r \in Runs, journal'[r] # <<>>
               PROVE  Journaled(journal'[r], rows'[r])
    BY DEF RowWasJournaled, Journaled
  <2>1. CASE rows'[r] = rows[r] /\ journal'[r] = journal[r]
    BY <2>1 DEF JournaledInv, RowWasJournaled, Journaled
  <2>2. QED
    BY <1>1, <2>1 DEF RowsFollow
<1>3. \A q \in Slots : Reads(q)
  <2>1. ASSUME NEW q \in Slots, RequestNext(q) \/ CallFails(q)
        PROVE  \A k \in Slots : Reads(k)
    BY <2>1, ReadStep
  <2>2. ASSUME reqs' = reqs
        PROVE  \A k \in Slots : Reads(k)
    BY <2>2 DEF Reads
  <2>3. ASSUME NEW p \in Procs, NEW r \in Runs, DriverNext(p, r)
        PROVE  \A k \in Slots : Reads(k)
    BY <2>2, <2>3, DriverStore
  <2>4. ASSUME NEW q \in Slots, NEW p \in Procs, NEW c \in Cmds, NEW kind \in Kinds,
               NEW target \in Runs \cup {NoRun}, Issue(q, p, c, kind, target)
        PROVE  \A k \in Slots : Reads(k)
    <3> DEFINE n == [IdleRequest EXCEPT !.pc = "check", !.kind = kind, !.cmd = c,
                                        !.target = target, !.proc = p]
    <3>1. SetRequest(q, n) /\ n.pc = "check"
      BY <2>4 DEF Issue, IdleRequest
    <3> HIDE DEF n
    <3>2. \A k \in Slots : reqs'[k] = IF k = q THEN n ELSE reqs[k]
      BY <3>1 DEF SetRequest, TypeInv, TypeOK
    <3>3. QED
      BY <3>1, <3>2 DEF Reads
  <2>5. ASSUME NEW p \in Procs, Crash(p)
        PROVE  \A k \in Slots : Reads(k)
    <3>1. \A k \in Slots : reqs'[k] = reqs[k] \/ reqs'[k] = Replied(NoRun, FALSE)
      BY <2>5 DEF Crash
    <3>2. Replied(NoRun, FALSE).pc = "done"
      BY DEF Replied, IdleRequest
    <3>3. QED
      BY <3>1, <3>2 DEF Reads
  <2>6. CASE Quiet \/ UNCHANGED vars
    BY <2>2, <2>6 DEF Quiet, vars
  <2>7. QED
    BY <2>1, <2>3, <2>4, <2>5, <2>6 DEF Next
<1>4. ASSUME NEW q \in Slots, reqs'[q].pc \in {"compare", "replace"}
      PROVE  Journaled(journal'[reqs'[q].run], reqs'[q].seen)
  <2>1. /\ reqs'[q].run = reqs[q].run
        /\ Journaled(journal[reqs[q].run], reqs'[q].seen)
        /\ reqs[q].run \in Runs
    <3>1. reqs[q].pc \in {"read", "compare", "replace"}
      BY <1>3, <1>4 DEF Reads
    <3>2. reqs[q].run \in Runs
      BY <3>1, CreatedRuns DEF AddressInv, Known
    <3>3. QED
      BY <1>3, <1>4, <3>2, ProjectionJournaled DEF Reads, JournaledInv
  <2>2. QED
    BY <1>1, <2>1 DEF RowsFollow
<1>5. QED
  BY <1>2, <1>4 DEF JournaledInv

LEMMA JournaledInit == Init => JournaledInv
BY DEF Init, JournaledInv, RowWasJournaled, IdleRequest

(* Even when appends land between the three store calls of a reconstruct   *)
(* and its late replace_snapshot_cache overwrites a newer row, the row is  *)
(* a snapshot some transaction of this Run has journaled.                  *)
THEOREM RowsAreJournaled == Spec => []RowWasJournaled
<1> DEFINE Inv == TypeInv /\ AddressInv /\ JournaledInv
<1>1. Init => Inv
  BY InitType, AddressInit, JournaledInit
<1>2. Inv /\ [Next]_vars => Inv'
  BY NextType, AddressNext, JournaledNext
<1>3. Inv => RowWasJournaled
  BY DEF JournaledInv
<1>4. QED
  BY <1>1, <1>2, <1>3, PTL DEF Spec

-----------------------------------------------------------------------------
(***************************************************************************)
(* The runtime implements RunContract: every transaction of a driver, a    *)
(* command or a recovery is one step of the contract, and every other step *)
(* of theirs changes nothing a client can see.  What makes this true is    *)
(* the compare-and-set: whoever appends holds the row that is replaced, so *)
(* what the code has checked of the row it loaded still holds when it      *)
(* commits.  A reconstruct that an append interrupts breaks this.          *)
(***************************************************************************)

(* A snapshot that was loaded earlier: the row itself, or an older version.*)
Current(row, cur) ==
    /\ cur.version <= row.version
    /\ cur.version = row.version => row = cur

(* What a driver holds while it is in a step: the row it has loaded, which *)
(* was Running, or, to fail the Run, the row in whatever state it was.     *)
DriverHolds(d, row) ==
    /\ d.pc \in {"loaded", "model", "acked", "tool", "failappend"} => Current(row, d.cur)
    /\ d.pc \in {"loaded", "model", "acked", "tool"} => d.cur.status = "Running"

(* What a request holds between its load and its commit.                   *)
AnswerHolds(req, row) ==
    req.pc = "commit" /\ req.kind = "answer" =>
        Current(row, req.cur) /\ req.cur.status = "WaitingForInput"

CancelHolds(req, row) ==
    req.pc = "commit" /\ req.kind = "cancel" =>
        Current(row, req.cur) /\ req.cur.status \in {"Running", "WaitingForInput"}

RetryHolds(req, row) ==
    req.pc = "commit" /\ req.kind = "resume" =>
        row.status = "Failed" /\ row.attempt = req.cur.attempt

RecoveryHolds(req, row) ==
    /\ req.pc = "read" /\ req.pass # 1 => Current(row, req.cur)
    /\ req.pc = "facts" => /\ Current(row, req.cur) /\ Current(row, req.seen)
                           /\ req.cur.version <= req.seen.version
    /\ req.pc = "mark" => /\ Current(row, req.cur)
                          /\ req.cur.version = row.version => req.cur.status = "Running"

RequestHolds(req, row) ==
    /\ AnswerHolds(req, row) /\ CancelHolds(req, row)
    /\ RetryHolds(req, row)  /\ RecoveryHolds(req, row)

HeldInv ==
    /\ \A r \in Created : rows[r].status \in RunStatus
    /\ \A p \in Procs, r \in Runs : DriverHolds(drv[p][r], rows[r])
    /\ \A q \in Slots : reqs[q].run \in Created => RequestHolds(reqs[q], rows[reqs[q].run])

(* No receipt but a filed one.                                             *)
ReceiptInv == \A c \in Cmds : ~HasReceipt(c) => receipts[c] = NoReceipt

-----------------------------------------------------------------------------
(* How the row of a Run changes once the Run exists.                       *)
RowMoves(a, b) ==
    /\ a.version \in Nat /\ b.version = a.version + 1
    /\ SameRun(b, a)
    /\ b.status \in RunStatus
    /\ a.status = "Failed" => b.status = "Failed"

LEMMA CurrentStays ==
    ASSUME NEW a, NEW b, NEW cur \in Snapshots, RowMoves(a, b), Current(a, cur)
    PROVE  Current(b, cur) /\ cur.version # b.version
<1>1. cur.version \in Nat
  BY DEF Snapshots
<1>2. QED
  BY <1>1 DEF RowMoves, Current

LEMMA DriverHoldsStill ==
    ASSUME NEW a, NEW b, NEW d \in Drivers, RowMoves(a, b), DriverHolds(d, a)
    PROVE  DriverHolds(d, b)
<1>1. d.cur \in Snapshots
  BY DEF Drivers
<1>2. QED
  BY <1>1, CurrentStays DEF DriverHolds

LEMMA RequestHoldsStill ==
    ASSUME NEW a, NEW b, NEW req \in Requests, RowMoves(a, b), RequestHolds(req, a)
    PROVE  RequestHolds(req, b)
<1>1. req.cur \in Snapshots /\ req.seen \in Snapshots
  BY DEF Requests
<1>2. \A cur \in {req.cur, req.seen} :
          Current(a, cur) => Current(b, cur) /\ cur.version # b.version
  BY <1>1, CurrentStays
<1>3. AnswerHolds(req, b) /\ CancelHolds(req, b)
  BY <1>2 DEF RequestHolds, AnswerHolds, CancelHolds
<1>4. RetryHolds(req, b)
  BY DEF RequestHolds, RetryHolds, RowMoves, SameRun
<1>5. RecoveryHolds(req, b)
  BY <1>2 DEF RequestHolds, RecoveryHolds
<1>6. QED
  BY <1>3, <1>4, <1>5 DEF RequestHolds

(* An append that holds the row builds on the row.                         *)
LEMMA AppendOnRow ==
    ASSUME TypeInv, NEW r \in Runs, NEW cur, NEW next, NEW ev, NEW cmd,
           Current(rows[r], cur), AppendBatch(r, cur, next, ev, cmd)
    PROVE  /\ rows[r] = cur /\ rows[r] \in Snapshots
           /\ rows' = [rows EXCEPT ![r] = next] /\ rows'[r] = next
           /\ \A s \in Runs \ {r} : rows'[s] = rows[s]
BY DEF AppendBatch, VersionMatches, Current, TypeInv, TypeOK

-----------------------------------------------------------------------------
(* What each transaction does to the row it replaces.                      *)

(* A driver moves a Running Run, or fails the Run in any state.            *)
DriverMoves(r) ==
    /\ r \in Created
    /\ rows' = [rows EXCEPT ![r] = rows'[r]]
    /\ RowMoves(rows[r], rows'[r])
    /\ rows'[r].status # "Cancelled"
    /\ rows[r].status = "Running" \/ rows'[r].status = "Failed"

LEMMA DriverRow ==
    ASSUME TypeInv, AddressInv, HeldInv, NEW p \in Procs, NEW r \in Runs, DriverNext(p, r)
    PROVE  UNCHANGED rows \/ DriverMoves(r)
<1> DEFINE d == Driver(p, r)
<1>1. /\ d \in Drivers /\ d.cur \in Snapshots /\ d.cur.version \in Nat
  <2>1. d \in Drivers
    BY DEF TypeInv, TypeOK, Driver
  <2>2. QED
    BY <2>1 DEF Drivers, Snapshots
<1>2. DriverHolds(d, rows[r]) /\ (d.pc # "idle" => r \in Created)
  BY DEF HeldInv, AddressInv, Driver
<1>3. /\ \A s \in RunStatus, w \in Waits :
             LET n == NextSnapshot(d.cur, s, w) IN
             n.version = d.cur.version + 1 /\ n.status = s /\ SameRun(n, d.cur)
      /\ LET n == TakePending(d.cur) IN
         n.version = d.cur.version + 1 /\ n.status = "Running" /\ SameRun(n, d.cur)
  BY <1>1, NextSnapshotFacts, NextSnapshotFields, TakePendingFacts, TakePendingFields
<1>4. /\ RunStatus = {"Running", "WaitingForInput", "Succeeded", "Failed", "Cancelled"}
      /\ {"none", "clarification"} \subseteq Waits
  BY DEF RunStatus, Waits
<1>5. d.pc = drv[p][r].pc
  BY DEF Driver
<1>6. ASSUME NEW next, NEW ev, NEW e, StepAppend(p, r, next, ev, e),
             d.pc \in {"loaded", "model", "acked", "tool", "failappend"},
             next.version = d.cur.version + 1, SameRun(next, d.cur),
             \/ next.status \in RunStatus \ {"Cancelled"} /\ d.pc # "failappend"
             \/ next.status = "Failed"
      PROVE  DriverMoves(r)
  <2>1. AppendBatch(r, d.cur, next, ev, NoCmd) /\ Current(rows[r], d.cur) /\ r \in Created
    BY <1>2, <1>6 DEF StepAppend, DriverHolds, d
  <2>2. /\ rows[r] = d.cur /\ rows' = [rows EXCEPT ![r] = next] /\ rows'[r] = next
    BY <2>1, AppendOnRow
  <2>3. d.pc # "failappend" => d.cur.status = "Running"
    BY <1>2, <1>6 DEF DriverHolds
  <2>4. RowMoves(rows[r], rows'[r])
    BY <1>1, <1>4, <1>6, <2>2, <2>3 DEF RowMoves
  <2>5. QED
    BY <1>4, <1>6, <2>1, <2>2, <2>3, <2>4 DEF DriverMoves
<1> HIDE DEF d
<1>7. CASE StepLoad(p, r) \/ BudgetExceeded(p, r) \/ StepFails(p, r) \/ LoopReturns(p, r)
           \/ OutcomeOverrun(p, r) \/ FailLoad(p, r) \/ FailConflict(p, r) \/ Release(p, r)
  BY <1>7 DEF StepLoad, BudgetExceeded, StepFails, LoopReturns, OutcomeOverrun,
              FailLoad, FailConflict, Release, store
<1>8. CASE Advance(p, r) \/ RequestModel(p, r) \/ ModelContinues(p, r)
           \/ ModelAcknowledged(p, r) \/ VerificationFails(p, r) \/ Complete(p, r)
           \/ Wait(p, r)
  <2>1. /\ d.pc \in {"loaded", "model", "acked"}
        /\ \E s \in RunStatus \ {"Cancelled"}, w \in Waits : \E e :
               StepAppend(p, r, NextSnapshot(d.cur, s, w), {}, e)
    BY <1>4, <1>5, <1>8
       DEF Advance, RequestModel, ModelContinues, ModelAcknowledged,
           VerificationFails, Complete, Wait, At, d
  <2>2. QED
    BY <1>3, <1>6, <2>1
<1>9. CASE FailAppend(p, r)
  <2>1. d.pc = "failappend" /\ "none" \in Waits /\ "Failed" \in RunStatus
        /\ \E e : StepAppend(p, r, NextSnapshot(d.cur, "Failed", "none"), {}, e)
    BY <1>4, <1>5, <1>9 DEF FailAppend, At, d
  <2>2. QED
    BY <1>3, <1>6, <2>1
<1>10. CASE ToolRejected(p, r) \/ ToolStarted(p, r) \/ ToolEnded(p, r)
  <2>1. d.pc \in {"model", "tool"} /\ "none" \in Waits
        /\ \E ev, e : StepAppend(p, r, NextSnapshot(d.cur, "Running", "none"), ev, e)
    BY <1>4, <1>5, <1>10 DEF ToolRejected, ToolStarted, ToolEnded, At, d
  <2>2. QED
    BY <1>3, <1>4, <1>6, <2>1
<1>11. CASE RecoveredToolRejected(p, r) \/ RecoveredToolStarted(p, r)
  <2>1. d.pc = "loaded" /\ \E ev, e : StepAppend(p, r, TakePending(d.cur), ev, e)
    BY <1>5, <1>11 DEF RecoveredToolRejected, RecoveredToolStarted, At, d
  <2>2. QED
    BY <1>3, <1>4, <1>6, <2>1
<1>12. QED
  BY <1>7, <1>8, <1>9, <1>10, <1>11 DEF DriverNext

-----------------------------------------------------------------------------
(* The contract's view of the rows.                                        *)

Statuses == [r \in Runs |-> rows[r].status]
Retries  == [r \in Runs |-> rows[r].retryOf]
Attempts == [r \in Runs |-> rows[r].attempt]

LEMMA ViewOfRow ==
    ASSUME TypeInv, NEW r \in Runs, NEW next, rows' = [rows EXCEPT ![r] = next]
    PROVE  /\ Statuses' = [Statuses EXCEPT ![r] = next.status]
           /\ Retries' = [Retries EXCEPT ![r] = next.retryOf]
           /\ Attempts' = [Attempts EXCEPT ![r] = next.attempt]
           /\ Statuses[r] = rows[r].status
           /\ SameRun(next, rows[r]) => Retries' = Retries /\ Attempts' = Attempts
<1>1. /\ rows'[r] = next
      /\ \A s \in Runs \ {r} : rows'[s] = rows[s]
  BY DEF TypeInv, TypeOK
<1>2. Statuses' = [Statuses EXCEPT ![r] = next.status] /\ Statuses[r] = rows[r].status
  <2>1. Statuses' = [s \in Runs |-> IF s = r THEN next.status ELSE rows[s].status]
    BY <1>1 DEF Statuses
  <2>2. QED
    BY <2>1 DEF Statuses
<1>3. Retries' = [Retries EXCEPT ![r] = next.retryOf]
  <2>1. Retries' = [s \in Runs |-> IF s = r THEN next.retryOf ELSE rows[s].retryOf]
    BY <1>1 DEF Retries
  <2>2. QED
    BY <2>1 DEF Retries
<1>4. Attempts' = [Attempts EXCEPT ![r] = next.attempt]
  <2>1. Attempts' = [s \in Runs |-> IF s = r THEN next.attempt ELSE rows[s].attempt]
    BY <1>1 DEF Attempts
  <2>2. QED
    BY <2>1 DEF Attempts
<1>5. ASSUME SameRun(next, rows[r])
      PROVE  Retries' = Retries /\ Attempts' = Attempts
  <2>1. \A s \in Runs : SameRun(rows'[s], rows[s])
    BY <1>1, <1>5 DEF SameRun
  <2>2. QED
    BY <2>1 DEF SameRun, Retries, Attempts
<1>6. QED
  BY <1>2, <1>3, <1>4, <1>5

(* A step of the contract, or none that it can see.                        *)
KeepsContract == [Contract!Next]_(Contract!vars)

LEMMA Unseen ==
    ASSUME UNCHANGED <<rows, receipts>>
    PROVE  KeepsContract
BY DEF KeepsContract, Contract!vars

LEMMA Seen ==
    ASSUME NEW c \in Cmds, NEW r \in Runs,
           \/ Contract!Create(c, r) \/ Contract!Answer(c, r)
           \/ Contract!Cancel(c, r) \/ Contract!Resume(c, r)
    PROVE  KeepsContract
BY DEF KeepsContract, Contract!Next

LEMMA SeenMove ==
    ASSUME NEW r \in Runs, Contract!Proceed(r) \/ Contract!GiveUp(r)
    PROVE  KeepsContract
BY DEF KeepsContract, Contract!Next

LEMMA DriverContract ==
    ASSUME TypeInv, NEW r \in Runs, DriverMoves(r), UNCHANGED receipts,
           rows[r].status \in RunStatus
    PROVE  KeepsContract
<1> DEFINE to == rows'[r].status
<1>1. /\ Statuses' = [Statuses EXCEPT ![r] = to] /\ Statuses[r] = rows[r].status
      /\ Retries' = Retries /\ Attempts' = Attempts
  BY ViewOfRow DEF DriverMoves, RowMoves
<1>2. /\ to \in {"Running", "WaitingForInput", "Succeeded", "Failed"}
      /\ rows[r].status = "Running" \/ to = "Failed"
  BY DEF DriverMoves, RowMoves, RunStatus
<1>3. rows[r].status \in {"Running", "WaitingForInput", "Succeeded", "Failed", "Cancelled"}
  BY DEF RunStatus
<1> HIDE DEF to
<1>4. CASE to = rows[r].status
  <2>1. Statuses' = Statuses
    BY <1>1, <1>4 DEF Statuses
  <2>2. QED
    BY <1>1, <2>1 DEF KeepsContract, Contract!vars, Statuses, Retries, Attempts
<1>5. CASE rows[r].status = "Running" /\ to # "Running"
  <2>1. Contract!Proceed(r)
    BY <1>1, <1>2, <1>5
       DEF Contract!Proceed, Contract!Moves, Statuses, Retries, Attempts
  <2>2. QED
    BY <2>1, SeenMove
<1>6. CASE rows[r].status \in {"WaitingForInput", "Succeeded", "Cancelled"}
  <2>1. Contract!GiveUp(r)
    BY <1>1, <1>2, <1>6
       DEF Contract!GiveUp, Contract!Moves, Statuses, Retries, Attempts
  <2>2. QED
    BY <2>1, SeenMove
<1>7. QED
  BY <1>2, <1>3, <1>4, <1>5, <1>6

(* The row of a Run that exists moves on or stays; a new Run has a status, *)
(* and no request that was under way has named it.                         *)
RowsAdvance ==
    /\ \A s \in Created : rows'[s] = rows[s] \/ RowMoves(rows[s], rows'[s])
    /\ \A s \in Created' \ Created : /\ rows'[s].status \in RunStatus
                                     /\ \A k \in Slots : reqs[k].run # s

LEMMA RowsUntouched ==
    ASSUME UNCHANGED <<rows, created>>
    PROVE  RowsAdvance
BY DEF RowsAdvance, Created

LEMMA AnsweredOnce ==
    ASSUME TypeInv, ReceiptInv, NEW q \in Slots, NEW run, PutReceipt(reqs[q], run),
           reqs[q].pc \in {"commit", "receipt"}, reqs[q].kind # "none",
           MayCommit(reqs[q].cmd), NEW c, c = reqs[q].cmd
    PROVE  c \in Cmds /\ Contract!Answered(c, run)
<1>1. /\ c \in Cmds /\ receipts'[c].kind = reqs[q].kind /\ receipts'[c].run = run
  BY ReceiptFiled
<1>2. receipts[c] = NoReceipt
  BY <1>1 DEF ReceiptInv, MayCommit
<1>3. receipts' = [receipts EXCEPT ![c] = receipts'[c]]
  BY <1>1 DEF PutReceipt, TypeInv, TypeOK
<1>4. receipts'[c] # NoReceipt
  BY <1>1 DEF NoReceipt
<1>5. QED
  BY <1>1, <1>2, <1>3, <1>4 DEF Contract!Answered

(* A Run no transaction has created is an absent row.                      *)
LEMMA FreshRow ==
    ASSUME TypeInv, AddressInv, LedgerInv, NEW r \in FreshRuns
    PROVE  r \in Runs \ Created /\ rows[r] = AbsentRun
<1>1. r \in Runs \ Created
  BY DEF FreshRuns
<1>2. QED
  BY <1>1 DEF AddressInv, LedgerInv, RowIsLastProjection

(* A new Run, or the retry of one that has failed.                         *)
LEMMA InsertContract ==
    ASSUME TypeInv, AddressInv, LedgerInv, ReceiptInv, NEW q \in Slots, NEW r \in FreshRuns,
           NEW snap, InsertRun(r, snap, reqs[q].cmd), PutReceipt(reqs[q], r),
           MayCommit(reqs[q].cmd), reqs[q].pc = "commit", reqs[q].kind # "none",
           \/ /\ snap.status \in {"Running", "WaitingForInput"}
              /\ snap.retryOf = NoRun /\ snap.attempt = 1
           \/ \E p \in Runs : /\ rows[p].status = "Failed" /\ snap.status = "Running"
                              /\ snap.retryOf = p /\ snap.attempt = rows[p].attempt + 1
    PROVE  KeepsContract /\ RowsAdvance
<1>1. r \in Runs \ Created /\ rows[r] = AbsentRun
  BY FreshRow
<1>2. rows' = [rows EXCEPT ![r] = snap]
  BY DEF InsertRun
<1>3. /\ Statuses' = [Statuses EXCEPT ![r] = snap.status] /\ Statuses[r] = "Absent"
      /\ Retries' = [Retries EXCEPT ![r] = snap.retryOf] /\ Retries[r] = NoRun
      /\ Attempts' = [Attempts EXCEPT ![r] = snap.attempt]
      /\ \A p \in Runs : Statuses[p] = rows[p].status /\ Attempts[p] = rows[p].attempt
  <2>1. /\ Statuses' = [Statuses EXCEPT ![r] = snap.status]
        /\ Retries' = [Retries EXCEPT ![r] = snap.retryOf]
        /\ Attempts' = [Attempts EXCEPT ![r] = snap.attempt]
    BY <1>1, <1>2, ViewOfRow
  <2>2. /\ Statuses[r] = "Absent" /\ Retries[r] = NoRun
        /\ \A p \in Runs : Statuses[p] = rows[p].status /\ Attempts[p] = rows[p].attempt
    BY <1>1 DEF AbsentRun, Statuses, Retries, Attempts
  <2>3. QED
    BY <2>1, <2>2
<1>4. Statuses'[r] = snap.status
  BY <1>1, <1>3 DEF Statuses
<1>5. PICK c \in Cmds : c = reqs[q].cmd /\ Contract!Answered(c, r)
  BY AnsweredOnce
<1>6. snap.retryOf = NoRun => Retries' = Retries
  BY <1>1, <1>3 DEF Retries
<1>7. Contract!Create(c, r)
  <2>1. snap.status \in {"Running", "WaitingForInput"}
    OBVIOUS
  <2>2. Contract!Moves(r, {"Absent"}, {"Running", "WaitingForInput"})
    BY <1>3, <2>1 DEF Contract!Moves, Statuses
  <2>3. \/ Retries' = Retries /\ Attempts' = [Attempts EXCEPT ![r] = 1]
        \/ \E p \in Runs : /\ Statuses[p] = "Failed" /\ Statuses'[r] = "Running"
                           /\ Retries' = [Retries EXCEPT ![r] = p]
                           /\ Attempts' = [Attempts EXCEPT ![r] = Attempts[p] + 1]
    BY <1>3, <1>4, <1>6
  <2>4. QED
    BY <1>5, <2>2, <2>3 DEF Contract!Create, Statuses, Retries, Attempts
<1>8. KeepsContract
  BY <1>1, <1>5, <1>7, Seen
<1>9. RowsAdvance
  <2>1. Created' = Created \cup {r}
    BY <1>1, CreatedAppend DEF InsertRun
  <2>2. rows'[r] = snap /\ \A s \in Created : rows'[s] = rows[s]
    BY <1>1, <1>2, CreatedRuns DEF TypeInv, TypeOK
  <2>3. snap.status \in RunStatus
    BY DEF RunStatus
  <2>4. \A k \in Slots : reqs[k].run # r
    BY DEF FreshRuns
  <2>5. QED
    BY <2>1, <2>2, <2>3, <2>4 DEF RowsAdvance
<1>10. QED
  BY <1>8, <1>9

(* An append to a Run that exists moves its row on.                        *)
LEMMA AppendAdvances ==
    ASSUME TypeInv, HeldInv, NEW r \in Runs, r \in Created, NEW cur, NEW next, NEW ev,
           NEW cmd, Current(rows[r], cur), AppendBatch(r, cur, next, ev, cmd),
           next.version = cur.version + 1, SameRun(next, cur), next.status \in RunStatus,
           cur.version = rows[r].version => cur.status # "Failed", UNCHANGED created
    PROVE  /\ RowsAdvance
           /\ rows[r] = cur
           /\ Statuses' = [Statuses EXCEPT ![r] = next.status]
           /\ Statuses[r] = rows[r].status
           /\ Retries' = Retries /\ Attempts' = Attempts
<1>1. /\ rows[r] = cur /\ rows[r] \in Snapshots
      /\ rows' = [rows EXCEPT ![r] = next] /\ rows'[r] = next
      /\ \A s \in Runs \ {r} : rows'[s] = rows[s]
  BY AppendOnRow
<1>2. cur.version \in Nat
  BY <1>1 DEF Snapshots
<1>3. RowMoves(rows[r], rows'[r])
  BY <1>1, <1>2 DEF RowMoves
<1>4. RowsAdvance
  <2>1. Created' = Created
    BY DEF Created
  <2>2. QED
    BY <1>1, <1>3, <2>1, CreatedRuns DEF RowsAdvance
<1>5. QED
  BY <1>1, <1>4, ViewOfRow

LEMMA RequestContract ==
    ASSUME TypeInv, AddressInv, LedgerInv, HeldInv, ReceiptInv, NoWindow, NEW q \in Slots,
           RequestNext(q) \/ CallFails(q)
    PROVE  KeepsContract /\ RowsAdvance
<1> DEFINE req == reqs[q]
<1>1. /\ req.run \in Runs \cup {NoRun} /\ req.cur \in Snapshots /\ req.cost \in CostClasses
      /\ req.call \in Nat
  BY DEF TypeInv, TypeOK, Requests
<1>2. /\ Known(req, Created) /\ Created \subseteq Runs /\ NoRun \notin Created
      /\ req.run \in Created => RequestHolds(req, rows[req.run])
  BY CreatedRuns, RunsAssumption DEF AddressInv, HeldInv
<1>3. lastCall \in Nat
  BY DEF TypeInv, TypeOK
<1>4. RunStatus = {"Running", "WaitingForInput", "Succeeded", "Failed", "Cancelled"}
      /\ "none" \in Waits
  BY DEF RunStatus, Waits
<1>5. ASSUME UNCHANGED <<rows, created, receipts>>
      PROVE  KeepsContract /\ RowsAdvance
  BY <1>5, Unseen, RowsUntouched
<1> PICK r, c : r = req.run /\ c = req.cmd
  OBVIOUS
<1> HIDE DEF req
<1>6. CASE \/ CheckReceipt(q) \/ ResumeLoad(q) \/ AnswerLoad(q) \/ CancelLoad(q)
           \/ StartRecommit(q) \/ ResumeRecommit(q) \/ UpdateRecommit(q)
           \/ CommitConflict(q) \/ ReadProjection(q) \/ ReadCorrupt(q)
           \/ CompareCache(q) \/ Assess(q) \/ MarkConflict(q)
           \/ Schedule(q) \/ CallFails(q)
  <2>1. UNCHANGED store
    BY <1>6 DEF CheckReceipt, ResumeLoad, AnswerLoad, CancelLoad, StartRecommit,
                ResumeRecommit, UpdateRecommit, Recommit, CommitConflict,
                ReadProjection, ReadCorrupt, CompareCache, Assess, MarkConflict,
                Schedule, CallFails
  <2>2. QED
    BY <1>5, <2>1 DEF store
<1>7. CASE CommitStart(q)
  <2>1. PICK new \in FreshRuns : \E snap \in {RunningSnapshot, WaitingSnapshot} :
            PutReceipt(req, new) /\ InsertRun(new, snap, req.cmd)
    BY <1>7 DEF CommitStart, req
  <2>2. \A snap \in {RunningSnapshot, WaitingSnapshot} :
            /\ snap.status \in {"Running", "WaitingForInput"}
            /\ snap.retryOf = NoRun /\ snap.attempt = 1
    BY DEF RunningSnapshot, WaitingSnapshot, AbsentRun
  <2>3. req.pc = "commit" /\ req.kind # "none" /\ MayCommit(req.cmd)
    BY <1>7 DEF CommitStart, RequestAt, req
  <2>4. QED
    BY <2>1, <2>2, <2>3, InsertContract DEF req
<1>8. CASE CommitResume(q)
  <2>1. /\ req.pc = "commit" /\ req.kind = "resume" /\ MayCommit(req.cmd)
        /\ req.run \in Created \cup {NoRun}
    BY <1>2, <1>8 DEF CommitResume, RequestAt, Known, req
  <2>2. PICK new \in FreshRuns :
            /\ PutReceipt(req, new)
            /\ InsertRun(new, IF req.run = NoRun THEN RunningSnapshot
                            ELSE RetrySnapshot(req.cur, req.run), req.cmd)
    BY <1>8 DEF CommitResume, req
  <2>3. CASE req.run = NoRun
    <3>1. /\ RunningSnapshot.status = "Running" /\ RunningSnapshot.retryOf = NoRun
          /\ RunningSnapshot.attempt = 1
      BY DEF RunningSnapshot, AbsentRun
    <3>2. InsertRun(new, RunningSnapshot, req.cmd)
      BY <2>2, <2>3
    <3>3. QED
      BY <2>1, <2>2, <3>1, <3>2, InsertContract DEF req
  <2>4. CASE req.run # NoRun
    <3> DEFINE snap == RetrySnapshot(req.cur, req.run)
    <3>1. InsertRun(new, snap, req.cmd)
      BY <2>2, <2>4
    <3>2. /\ rows[req.run].status = "Failed" /\ rows[req.run].attempt = req.cur.attempt
          /\ req.run \in Runs
      BY <1>2, <2>1, <2>4 DEF RequestHolds, RetryHolds
    <3>3. /\ snap.status = "Running" /\ snap.retryOf = req.run
          /\ snap.attempt = rows[req.run].attempt + 1
      BY <1>1, <3>2, RetryFields
    <3> HIDE DEF snap
    <3>4. QED
      BY <2>1, <2>2, <3>1, <3>2, <3>3, InsertContract DEF req
  <2>5. QED
    BY <2>3, <2>4
<1>9. CASE CommitAnswer(q)
  <2> DEFINE next == AnsweredSnapshot(req.cur, lastCall')
  <2>1. /\ req.pc = "commit" /\ req.kind = "answer" /\ MayCommit(req.cmd)
        /\ AppendBatch(req.run, req.cur, next, {RunResumed}, req.cmd)
        /\ PutReceipt(req, r) /\ created' = created
    BY <1>9 DEF CommitAnswer, RequestAt, req
  <2>2. lastCall' \in Nat
    BY <1>3, <1>9 DEF CommitAnswer
  <2>3. /\ req.run \in Created /\ Current(rows[req.run], req.cur)
        /\ req.cur.status = "WaitingForInput"
    BY <1>2, <2>1 DEF Known, RequestHolds, AnswerHolds
  <2>4. /\ next.version = req.cur.version + 1 /\ next.status = "Running"
        /\ SameRun(next, req.cur)
    <3>1. next.version = req.cur.version + 1
      BY <1>1, <2>2, AnsweredSnapshotFacts
    <3>2. next.status = "Running" /\ SameRun(next, req.cur)
      BY <1>1, <2>2, AnsweredFields
    <3>3. QED
      BY <3>1, <3>2
  <2> HIDE DEF next
  <2>5. /\ RowsAdvance /\ rows[req.run] = req.cur
        /\ Statuses' = [Statuses EXCEPT ![req.run] = "Running"]
        /\ Statuses[req.run] = rows[req.run].status
        /\ Retries' = Retries /\ Attempts' = Attempts
    BY <1>2, <1>4, <2>1, <2>3, <2>4, AppendAdvances
  <2>6. c \in Cmds /\ Contract!Answered(c, r)
    BY <2>1, AnsweredOnce DEF req
  <2>7. Contract!Answer(c, r)
    BY <2>3, <2>5, <2>6
       DEF Contract!Answer, Contract!Moves, Statuses, Retries, Attempts
  <2>8. KeepsContract
    BY <1>2, <2>3, <2>6, <2>7, Seen
  <2>9. QED
    BY <2>5, <2>8
<1>10. CASE CommitCancel(q)
  <2> DEFINE next == NextSnapshot(req.cur, "Cancelled", "none")
  <2>1. /\ req.pc = "commit" /\ req.kind = "cancel" /\ MayCommit(req.cmd)
        /\ AppendBatch(req.run, req.cur, next, {}, req.cmd)
        /\ PutReceipt(req, r) /\ created' = created
    BY <1>10 DEF CommitCancel, RequestAt, req
  <2>2. /\ req.run \in Created /\ Current(rows[req.run], req.cur)
        /\ req.cur.status \in {"Running", "WaitingForInput"}
    BY <1>2, <2>1 DEF Known, RequestHolds, CancelHolds
  <2>3. /\ next.version = req.cur.version + 1 /\ next.status = "Cancelled"
        /\ SameRun(next, req.cur)
    <3>1. next.version = req.cur.version + 1
      BY <1>1, <1>4, NextSnapshotFacts
    <3>2. next.status = "Cancelled" /\ SameRun(next, req.cur)
      BY <1>1, <1>4, NextSnapshotFields
    <3>3. QED
      BY <3>1, <3>2
  <2> HIDE DEF next
  <2>4. /\ RowsAdvance /\ rows[req.run] = req.cur
        /\ Statuses' = [Statuses EXCEPT ![req.run] = "Cancelled"]
        /\ Statuses[req.run] = rows[req.run].status
        /\ Retries' = Retries /\ Attempts' = Attempts
    BY <1>2, <1>4, <2>1, <2>2, <2>3, AppendAdvances
  <2>5. c \in Cmds /\ Contract!Answered(c, r)
    BY <2>1, AnsweredOnce DEF req
  <2>6. Contract!Cancel(c, r)
    BY <2>2, <2>4, <2>5
       DEF Contract!Cancel, Contract!Moves, Statuses, Retries, Attempts
  <2>7. KeepsContract
    BY <1>2, <2>2, <2>5, <2>6, Seen
  <2>8. QED
    BY <2>4, <2>7
<1>11. CASE Reconstruct(q)
  <2>1. UNCHANGED <<rows, created, receipts>>
    BY <1>11, ReconstructLedger DEF Reconstruct
  <2>2. QED
    BY <1>5, <2>1
<1>12. CASE ReplaceCache(q)
  BY <1>12 DEF ReplaceCache, RequestAt, NoWindow
<1>13. CASE MarkIndeterminate(q)
  <2> DEFINE next == IndeterminateSnapshot(req.cur, req.call, req.cost, lastCall')
  <2>1. /\ req.pc = "mark" /\ AppendBatch(req.run, req.cur, next, req.ev, NoCmd)
        /\ receipts' = receipts /\ created' = created
    BY <1>13 DEF MarkIndeterminate, RequestAt, req
  <2>2. lastCall' \in Nat
    BY <1>3, <1>13 DEF MarkIndeterminate
  <2>3. /\ req.run \in Created /\ Current(rows[req.run], req.cur)
        /\ req.cur.version = rows[req.run].version => req.cur.status = "Running"
    BY <1>2, <2>1 DEF Known, RequestHolds, RecoveryHolds
  <2>4. /\ next.version = req.cur.version + 1
        /\ next.status \in {"Running", "WaitingForInput"} /\ SameRun(next, req.cur)
    <3>1. next.version = req.cur.version + 1
      BY <1>1, <2>2, IndeterminateSnapshotFacts
    <3>2. next.status \in {"Running", "WaitingForInput"} /\ SameRun(next, req.cur)
      BY <1>1, <2>2, IndeterminateFields
    <3>3. QED
      BY <3>1, <3>2
  <2> HIDE DEF next
  <2>5. /\ RowsAdvance /\ rows[req.run] = req.cur
        /\ Statuses' = [Statuses EXCEPT ![req.run] = next.status]
        /\ Statuses[req.run] = rows[req.run].status
        /\ Retries' = Retries /\ Attempts' = Attempts
    BY <1>2, <1>4, <2>1, <2>3, <2>4, AppendAdvances
  <2>6. Statuses[req.run] = "Running"
    BY <2>3, <2>5
  <2>7. CASE next.status = "Running"
    <3>1. Statuses' = Statuses
      BY <2>5, <2>6, <2>7 DEF Statuses
    <3>2. QED
      BY <2>1, <2>5, <3>1 DEF KeepsContract, Contract!vars, Statuses, Retries, Attempts
  <2>8. CASE next.status = "WaitingForInput"
    <3>1. Contract!Proceed(r)
      BY <2>1, <2>5, <2>6, <2>8
         DEF Contract!Proceed, Contract!Moves, Statuses, Retries, Attempts
    <3>2. KeepsContract
      BY <1>2, <2>3, <3>1, SeenMove
    <3>3. QED
      BY <2>5, <3>2
  <2>9. QED
    BY <2>4, <2>7, <2>8
<1>14. CASE CommitResumed(q)
  <2>1. req.pc = "receipt" /\ req.run \in Created /\ req.kind = "resume"
        /\ UNCHANGED <<rows, created>>
    BY <1>2, <1>14 DEF CommitResumed, RequestAt, Known, req
  <2>2. CASE MayCommit(req.cmd)
    <3>1. PutReceipt(req, r)
      BY <1>14, <2>2 DEF CommitResumed, req
    <3>2. c \in Cmds /\ Contract!Answered(c, r)
      BY <2>1, <2>2, <3>1, AnsweredOnce DEF req
    <3>3. Statuses[req.run] # "Absent" /\ Statuses' = Statuses /\ Retries' = Retries
          /\ Attempts' = Attempts
      BY <1>2, <1>4, <2>1 DEF HeldInv, Statuses, Retries, Attempts
    <3>4. Contract!Resume(c, r)
      BY <3>2, <3>3 DEF Contract!Resume, Statuses, Retries, Attempts
    <3>5. KeepsContract
      BY <1>2, <2>1, <3>2, <3>4, Seen
    <3>6. QED
      BY <2>1, <3>5, RowsUntouched
  <2>3. CASE ~MayCommit(req.cmd)
    <3>1. receipts' = receipts
      BY <1>14, <2>3 DEF CommitResumed, req
    <3>2. QED
      BY <1>5, <2>1, <3>1
  <2>4. QED
    BY <2>2, <2>3
<1>15. QED
  BY <1>6, <1>7, <1>8, <1>9, <1>10, <1>11, <1>12, <1>13, <1>14 DEF RequestNext

-----------------------------------------------------------------------------
(* What drivers and requests hold stays true.                              *)

LEMMA RowsHeld ==
    ASSUME HeldInv, RowsAdvance
    PROVE  \A s \in Created' : rows'[s].status \in RunStatus
<1> SUFFICES ASSUME NEW s \in Created' PROVE rows'[s].status \in RunStatus
  OBVIOUS
<1>1. CASE s \in Created
  BY <1>1 DEF HeldInv, RowsAdvance, RowMoves
<1>2. CASE s \notin Created
  BY <1>2 DEF RowsAdvance
<1>3. QED
  BY <1>1, <1>2

(* A driver that does not move still holds what it held, and so does a     *)
(* request, even if its Run was updated.                                   *)
LEMMA DriverStays ==
    ASSUME TypeInv, AddressInv, HeldInv, RowsAdvance, NEW p \in Procs, NEW r \in Runs
    PROVE  DriverHolds(drv[p][r], rows'[r])
<1>1. drv[p][r] \in Drivers /\ DriverHolds(drv[p][r], rows[r])
  BY DEF TypeInv, TypeOK, HeldInv
<1>2. CASE r \in Created
  BY <1>1, <1>2, DriverHoldsStill DEF RowsAdvance
<1>3. CASE r \notin Created
  BY <1>3 DEF AddressInv, DriverHolds
<1>4. QED
  BY <1>2, <1>3

LEMMA RequestStays ==
    ASSUME TypeInv, HeldInv, RowsAdvance, NEW q \in Slots, reqs[q].run \in Created'
    PROVE  RequestHolds(reqs[q], rows'[reqs[q].run])
<1>1. reqs[q] \in Requests
  BY DEF TypeInv, TypeOK
<1>2. reqs[q].run \in Created
  BY DEF RowsAdvance
<1>3. RequestHolds(reqs[q], rows[reqs[q].run])
  BY <1>2 DEF HeldInv
<1>4. CASE rows'[reqs[q].run] = rows[reqs[q].run]
  BY <1>3, <1>4
<1>5. CASE RowMoves(rows[reqs[q].run], rows'[reqs[q].run])
  BY <1>1, <1>3, <1>5, RequestHoldsStill
<1>6. QED
  BY <1>2, <1>4, <1>5 DEF RowsAdvance

(* Elsewhere than in a step, a driver holds nothing.                       *)
LEMMA FreeDrivers ==
    ASSUME NEW row
    PROVE  /\ \A pc \in {"outcome", "failload", "returned"} : DriverHolds(Leaving(pc), row)
           /\ \A d : DriverHolds(NextStep(d), row)
           /\ DriverHolds(IdleDriver, row) /\ DriverHolds(NewDriver, row)
BY DEF Leaving, NextStep, NewDriver, IdleDriver, DriverHolds

(* In a step, it holds the row it has loaded or appended.                  *)
LEMMA HoldingDrivers ==
    ASSUME NEW d, NEW row \in Snapshots, d.cur = row,
           row.status = "Running" \/ d.pc = "failappend"
    PROVE  DriverHolds(d, row)
<1>1. Current(row, row)
  BY DEF Current, Snapshots
<1>2. QED
  BY <1>1 DEF DriverHolds

LEMMA HoldingFields ==
    ASSUME TypeInv, NEW p \in Procs, NEW r \in Runs, NEW pc, NEW row, NEW call, NEW cost
    PROVE  /\ LET n == Holding(p, r, pc, row) IN n.pc = pc /\ n.cur = row
           /\ LET n == [Holding(p, r, pc, row) EXCEPT !.call = call, !.cost = cost] IN
              n.pc = pc /\ n.cur = row /\ n.call = call
<1> DEFINE d == Driver(p, r)
<1>1. d \in Drivers
  BY DEF TypeInv, TypeOK, Driver
<1> HIDE DEF d
<1>2. Holding(p, r, pc, row) = [d EXCEPT !.pc = pc, !.cur = row]
  BY DEF Holding, d
<1>3. LET n == [d EXCEPT !.pc = pc, !.cur = row] IN
      /\ n.pc = pc /\ n.cur = row
      /\ [n EXCEPT !.call = call, !.cost = cost].pc = pc
      /\ [n EXCEPT !.call = call, !.cost = cost].cur = row
      /\ [n EXCEPT !.call = call, !.cost = cost].call = call
  BY <1>1 DEF Drivers
<1>4. QED
  BY <1>2, <1>3

LEMMA DriverHeld ==
    ASSUME TypeInv, AddressInv, HeldInv, NEW p \in Procs, NEW r \in Runs, DriverNext(p, r)
    PROVE  DriverHolds(drv'[p][r], rows'[r])
<1> DEFINE d == Driver(p, r)
           running == NextSnapshot(d.cur, "Running", "none")
<1>1. d \in Drivers /\ d.cur \in Snapshots
  <2>1. d \in Drivers
    BY DEF TypeInv, TypeOK, Driver
  <2>2. QED
    BY <2>1 DEF Drivers
<1>2. /\ running.status = "Running" /\ running \in Snapshots
      /\ TakePending(d.cur).status = "Running" /\ TakePending(d.cur) \in Snapshots
      /\ rows[r] \in Snapshots
  <2>1. "Running" \in RunStatus /\ "none" \in Waits /\ rows[r] \in Snapshots
    BY DEF RunStatus, Waits, TypeInv, TypeOK
  <2>2. running.status = "Running" /\ running \in Snapshots
    BY <1>1, <2>1, NextSnapshotFields, NextSnapshotFacts
  <2>3. TakePending(d.cur).status = "Running" /\ TakePending(d.cur) \in Snapshots
    BY <1>1, TakePendingFields, TakePendingFacts
  <2>4. QED
    BY <2>1, <2>2, <2>3
<1>3. ASSUME NEW e, SetDriver(p, r, e)
      PROVE  drv'[p][r] = e
  BY <1>3 DEF SetDriver, TypeInv, TypeOK
<1>4. ASSUME NEW next, NEW ev, NEW e, StepAppend(p, r, next, ev, e)
      PROVE  drv'[p][r] = e /\ rows'[r] = next
  BY <1>3, <1>4 DEF StepAppend, AppendBatch, TypeInv, TypeOK
<1>5. ASSUME NEW next \in Snapshots, NEW ev, NEW e, StepAppend(p, r, next, ev, e),
             e.cur = next, next.status = "Running"
      PROVE  DriverHolds(drv'[p][r], rows'[r])
  BY <1>4, <1>5, HoldingDrivers
<1> HIDE DEF d, running
<1>6. CASE BudgetExceeded(p, r) \/ StepFails(p, r) \/ LoopReturns(p, r)
           \/ OutcomeOverrun(p, r) \/ FailConflict(p, r)
  <2>1. \E pc \in {"failload", "returned"} : SetDriver(p, r, Leaving(pc))
    BY <1>6 DEF BudgetExceeded, StepFails, LoopReturns, OutcomeOverrun, FailConflict, Goto
  <2>2. QED
    BY <1>3, <2>1, FreeDrivers
<1>7. CASE Release(p, r)
  BY <1>3, <1>7, FreeDrivers DEF Release
<1>8. CASE StepLoad(p, r)
  <2>1. CASE Goto(p, r, "outcome")
    BY <1>3, <2>1, FreeDrivers DEF Goto
  <2>2. CASE rows[r].status = "Running" /\ SetDriver(p, r, Holding(p, r, "loaded", rows[r]))
    <3>1. drv'[p][r].cur = rows[r] /\ rows' = rows
      BY <1>3, <1>8, <2>2, HoldingFields DEF StepLoad, store
    <3>2. QED
      BY <1>2, <2>2, <3>1, HoldingDrivers
  <2>3. QED
    BY <1>8, <2>1, <2>2 DEF StepLoad
<1>9. CASE FailLoad(p, r)
  <2>1. /\ rows' = rows /\ drv'[p][r].cur = rows[r] /\ drv'[p][r].pc = "failappend"
    BY <1>3, <1>9, HoldingFields DEF FailLoad, store
  <2>2. QED
    BY <1>2, <2>1, HoldingDrivers
<1>10. CASE VerificationFails(p, r) \/ Complete(p, r) \/ Wait(p, r) \/ FailAppend(p, r)
  <2>1. \E pc \in {"outcome", "returned"} : \E next :
            StepAppend(p, r, next, {}, Leaving(pc))
    BY <1>10 DEF VerificationFails, Complete, Wait, FailAppend
  <2>2. QED
    BY <1>4, <2>1, FreeDrivers
<1>11. CASE Advance(p, r) \/ ModelContinues(p, r) \/ ToolRejected(p, r)
            \/ RecoveredToolRejected(p, r) \/ ToolEnded(p, r)
  <2>1. \E next, ev : StepAppend(p, r, next, ev, NextStep(d))
    BY <1>11 DEF Advance, ModelContinues, ToolRejected, RecoveredToolRejected,
                 ToolEnded, d
  <2>2. QED
    BY <1>4, <2>1, FreeDrivers
<1>12. CASE RequestModel(p, r) \/ ModelAcknowledged(p, r)
  <2>1. PICK pc \in {"model", "acked"} :
            StepAppend(p, r, running, {}, Holding(p, r, pc, running))
    BY <1>12 DEF RequestModel, ModelAcknowledged, d, running
  <2>2. Holding(p, r, pc, running).cur = running
    BY HoldingFields
  <2>3. QED
    BY <1>2, <1>5, <2>1, <2>2
<1>13. CASE ToolStarted(p, r)
  <2>1. PICK cost \in Costs :
            StepAppend(p, r, running, {ToolEvent("started", lastCall', cost)},
                       [Holding(p, r, "tool", running) EXCEPT
                           !.call = lastCall', !.cost = cost])
    BY <1>13 DEF ToolStarted, d, running
  <2>2. [Holding(p, r, "tool", running) EXCEPT !.call = lastCall', !.cost = cost].cur
        = running
    BY HoldingFields
  <2>3. QED
    BY <1>2, <1>5, <2>1, <2>2
<1>14. CASE RecoveredToolStarted(p, r)
  <2> DEFINE next == TakePending(d.cur)
  <2>1. StepAppend(p, r, next, {ToolEvent("started", d.cur.pend, d.cur.cost)},
                   [Holding(p, r, "tool", next) EXCEPT
                       !.call = d.cur.pend, !.cost = d.cur.cost])
    BY <1>14 DEF RecoveredToolStarted, d
  <2>2. [Holding(p, r, "tool", next) EXCEPT !.call = d.cur.pend, !.cost = d.cur.cost].cur
        = next
    BY HoldingFields
  <2>3. QED
    BY <1>2, <1>5, <2>1, <2>2
<1>15. QED
  BY <1>6, <1>7, <1>8, <1>9, <1>10, <1>11, <1>12, <1>13, <1>14 DEF DriverNext

(* A request that is not about to commit, and not in a recovery that has   *)
(* read the row, holds nothing.                                            *)
LEMMA FreeRequests ==
    ASSUME NEW req, NEW row,
           \/ req.pc \in {"idle", "check", "load", "receipt", "schedule", "done"}
           \/ req.pc = "commit" /\ req.kind \notin {"answer", "cancel", "resume"}
           \/ req.pc = "read" /\ req.pass = 1
    PROVE  RequestHolds(req, row)
BY DEF RequestHolds, AnswerHolds, CancelHolds, RetryHolds, RecoveryHolds

(* What a request that has just read a row holds.                          *)
LEMMA LoadedRequests ==
    ASSUME NEW req, NEW row \in Snapshots, req.cur = row,
           \/ req.pc = "read"
           \/ req.pc = "commit" /\ req.kind = "answer" /\ row.status = "WaitingForInput"
           \/ req.pc = "commit" /\ req.kind = "cancel"
              /\ row.status \in {"Running", "WaitingForInput"}
           \/ req.pc = "commit" /\ req.kind = "resume" /\ row.status = "Failed"
    PROVE  RequestHolds(req, row)
<1>1. Current(row, row)
  BY DEF Current, Snapshots
<1>2. QED
  BY <1>1 DEF RequestHolds, AnswerHolds, CancelHolds, RetryHolds, RecoveryHolds

LEMMA RequestHeld ==
    ASSUME ReconstructIsAtomic, TypeInv, AddressInv, LedgerInv, HeldInv, NoWindow,
           NEW q \in Slots, RequestNext(q) \/ CallFails(q), reqs'[q].run \in Created'
    PROVE  RequestHolds(reqs'[q], rows'[reqs'[q].run])
<1> DEFINE req == reqs[q]
<1>1. req \in Requests /\ req.cur \in Snapshots /\ Known(req, Created)
  <2>1. req \in Requests /\ Known(req, Created)
    BY DEF TypeInv, TypeOK, AddressInv
  <2>2. QED
    BY <2>1 DEF Requests
<1>2. /\ \A r \in Created : rows[r] \in Snapshots /\ rows[r].status \in RunStatus
      /\ NoRun \notin Created /\ Created \subseteq Runs
      /\ req.run \in Created => RequestHolds(req, rows[req.run])
  BY CreatedRuns, RunsAssumption DEF HeldInv, TypeInv, TypeOK
<1>3. ASSUME NEW n, SetRequest(q, n)
      PROVE  reqs'[q] = n
  BY <1>3 DEF SetRequest, TypeInv, TypeOK
<1>4. ASSUME NEW run, \/ Reply(q, run) \/ Refuse(q) \/ Wake(q, run)
                      \/ \E wake : SetRequest(q, Receipting(req, wake))
      PROVE  RequestHolds(reqs'[q], rows'[reqs'[q].run])
  <2>1. \/ \E r, ok : reqs'[q] = Replied(r, ok)
        \/ reqs'[q] = Waking(req, run)
        \/ \E wake : reqs'[q] = Receipting(req, wake)
    BY <1>3, <1>4 DEF Reply, Refuse, Wake
  <2>2. reqs'[q].pc \in {"done", "schedule", "receipt"}
    BY <1>1, <2>1, ReturnedFields, ReceiptingFields
  <2>3. QED
    BY <2>2, FreeRequests
<1> HIDE DEF req
<1>5. CASE CheckReceipt(q)
  <2>1. \/ \E run : Reply(q, run) \/ Refuse(q)
        \/ /\ req.kind = "start" /\ SetRequest(q, [req EXCEPT !.pc = "commit"])
        \/ SetRequest(q, [req EXCEPT !.pc = "load"])
    BY <1>5 DEF CheckReceipt, RequestGoto, req
  <2>2. CASE req.kind = "start" /\ SetRequest(q, [req EXCEPT !.pc = "commit"])
    <3>1. reqs'[q] = [req EXCEPT !.pc = "commit"]
      BY <1>3, <2>2
    <3>2. reqs'[q].pc = "commit" /\ reqs'[q].kind = "start"
      BY <1>1, <2>2, <3>1, GotoFields DEF SameCall
    <3>3. QED
      BY <3>2, FreeRequests
  <2>3. CASE SetRequest(q, [req EXCEPT !.pc = "load"])
    <3>1. reqs'[q] = [req EXCEPT !.pc = "load"]
      BY <1>3, <2>3
    <3>2. reqs'[q].pc = "load"
      BY <1>1, <3>1, GotoFields
    <3>3. QED
      BY <3>2, FreeRequests
  <2>4. QED
    BY <1>4, <2>1, <2>2, <2>3
<1>6. CASE ResumeLoad(q)
  <2>1. /\ req.kind = "resume" /\ req.run = NoRun /\ rows' = rows /\ created' = created
    BY <1>1, <1>6 DEF ResumeLoad, RequestAt, store, Known, req
  <2>2. CASE created = <<>>
    <3>1. reqs'[q] = [req EXCEPT !.pc = "commit"]
      BY <1>3, <1>6, <2>2 DEF ResumeLoad, RequestGoto, req
    <3>2. reqs'[q].run = NoRun /\ Created' = Created
      BY <1>1, <2>1, <3>1, GotoFields DEF Created
    <3>3. QED
      BY <1>2, <3>2
  <2>3. CASE created # <<>>
    <3> DEFINE last == created[Len(created)]
               pc   == IF rows[last].status = "Failed" THEN "commit" ELSE "read"
    <3>1. reqs'[q] = [req EXCEPT !.pc = pc, !.run = last, !.cur = rows[last]]
      BY <1>3, <1>6, <2>3 DEF ResumeLoad, req
    <3>2. last \in Created
      BY <2>3, LastCreated
    <3> HIDE DEF last, pc
    <3>3. /\ reqs'[q].pc = pc /\ reqs'[q].run = last /\ reqs'[q].cur = rows[last]
          /\ reqs'[q].kind = "resume"
      BY <1>1, <2>1, <3>1, LoadFields DEF SameCall
    <3>4. QED
      BY <1>2, <2>1, <3>2, <3>3, LoadedRequests DEF pc
  <2>4. QED
    BY <2>2, <2>3
<1>7. CASE AnswerLoad(q) \/ CancelLoad(q)
  <2> DEFINE row == rows[req.target]
  <2>1. /\ req.target \in Created /\ rows' = rows
        /\ req.kind \in {"answer", "cancel"}
    BY <1>1, <1>7 DEF AnswerLoad, CancelLoad, store, Known, req
  <2>2. \/ Refuse(q)
        \/ /\ req.kind = "answer" /\ row.status = "WaitingForInput"
           /\ SetRequest(q, [req EXCEPT !.pc = "commit", !.cur = row, !.run = req.target])
        \/ /\ req.kind = "cancel" /\ row.status \notin Terminal
           /\ SetRequest(q, [req EXCEPT !.pc = "commit", !.cur = row, !.run = req.target])
    BY <1>7 DEF AnswerLoad, CancelLoad, req
  <2>3. row \in Snapshots /\ row.status \in RunStatus
    BY <1>2, <2>1
  <2> HIDE DEF row
  <2>4. CASE SetRequest(q, [req EXCEPT !.pc = "commit", !.cur = row, !.run = req.target])
             /\ \/ req.kind = "answer" /\ row.status = "WaitingForInput"
                \/ req.kind = "cancel" /\ row.status \notin Terminal
    <3>0. reqs'[q] = [req EXCEPT !.pc = "commit", !.cur = row, !.run = req.target]
      BY <1>3, <2>4
    <3>1. /\ reqs'[q].pc = "commit" /\ reqs'[q].run = req.target
          /\ reqs'[q].cur = row /\ reqs'[q].kind = req.kind
      BY <1>1, <3>0, LoadFields DEF SameCall
    <3>2. rows'[reqs'[q].run] = row
      BY <2>1, <3>1 DEF row
    <3>3. row.status \notin Terminal => row.status \in {"Running", "WaitingForInput"}
      BY <2>3 DEF RunStatus, Terminal
    <3>4. QED
      BY <2>3, <2>4, <3>1, <3>2, <3>3, LoadedRequests
  <2>5. QED
    BY <1>4, <2>2, <2>4
<1>8. CASE \/ StartRecommit(q) \/ ResumeRecommit(q) \/ UpdateRecommit(q)
           \/ CommitStart(q) \/ CommitResume(q) \/ CommitAnswer(q) \/ CommitCancel(q)
           \/ CommitConflict(q) \/ ReadCorrupt(q) \/ MarkIndeterminate(q)
           \/ MarkConflict(q) \/ CommitResumed(q) \/ Schedule(q) \/ CallFails(q)
  <2>1. \E run : \/ Reply(q, run) \/ Refuse(q) \/ Wake(q, run)
                 \/ \E wake : SetRequest(q, Receipting(req, wake))
    BY <1>8 DEF StartRecommit, ResumeRecommit, UpdateRecommit, CommitStart, CommitResume,
                CommitAnswer, CommitCancel, CommitConflict, ReadCorrupt,
                MarkIndeterminate, MarkConflict, CommitResumed, Schedule, CallFails, req
  <2>2. QED
    BY <1>4, <2>1
<1>9. CASE CompareCache(q) \/ ReplaceCache(q) \/ ReadProjection(q)
  BY <1>9 DEF CompareCache, ReplaceCache, ReadProjection, RequestAt, NoWindow
<1>10. CASE Reconstruct(q)
  <2> DEFINE row == rows[req.run]
  <2>1. /\ req.pc = "read" /\ req.run \in Created /\ rows' = rows
        /\ Projectable(journal[req.run]) /\ row = Projection(journal[req.run])
    <3>1. req.pc = "read" /\ req.run \in Created /\ Projectable(journal[req.run])
      BY <1>1, <1>10 DEF Reconstruct, RequestAt, Known, req
    <3>2. row = Projection(journal[req.run])
      BY <1>2, <3>1 DEF LedgerInv, RowIsLastProjection, Projectable
    <3>3. rows' = rows
      BY <1>10, ReconstructLedger
    <3>4. QED
      BY <3>1, <3>2, <3>3
  <2>2. SetRequest(q, AfterReconstruct(req, Projection(journal[req.run])))
    BY <1>10 DEF Reconstruct, req
  <2>3. reqs'[q] = AfterReconstruct(req, row)
    BY <1>3, <2>1, <2>2
  <2>4. row \in Snapshots /\ RequestHolds(req, row)
    BY <1>2, <2>1
  <2> HIDE DEF row
  <2>5. reqs'[q].run = req.run /\ rows'[reqs'[q].run] = row
    BY <1>1, <2>1, <2>3, ReconstructFields DEF row
  <2>6. CASE req.pass = 1
    <3>1. reqs'[q].pc = "read" /\ reqs'[q].cur = row
      BY <1>1, <2>3, <2>6, ReconstructFields
    <3>2. QED
      BY <2>4, <2>5, <3>1, LoadedRequests
  <2>7. CASE req.pass # 1
    <3>1. reqs'[q].pc = "facts" /\ reqs'[q].cur = req.cur /\ reqs'[q].seen = row
      BY <1>1, <2>3, <2>7, ReconstructFields
    <3>2. Current(row, req.cur) /\ Current(row, row)
      BY <2>1, <2>4, <2>7 DEF RequestHolds, RecoveryHolds, Current, Snapshots
    <3>3. req.cur.version <= row.version
      BY <3>2 DEF Current
    <3>4. QED
      BY <2>5, <3>1, <3>2, <3>3
         DEF RequestHolds, AnswerHolds, CancelHolds, RetryHolds, RecoveryHolds
  <2>8. QED
    BY <2>6, <2>7
<1>11. CASE Assess(q)
  <2> DEFINE row == rows[req.run]
  <2>1. /\ req.pc = "facts" /\ req.run \in Created /\ rows' = rows
        /\ RequestHolds(req, row) /\ row \in Snapshots
    <3>1. req.pc = "facts" /\ req.run \in Created /\ rows' = rows
      BY <1>1, <1>11 DEF Assess, RequestAt, Known, store, req
    <3>2. QED
      BY <1>2, <3>1
  <2>2. \/ Refuse(q)
        \/ \E wake : SetRequest(q, Receipting(req, wake))
        \/ /\ req.seen.status = "Running"
           /\ \E call, cost, ev :
                 SetRequest(q, [req EXCEPT !.pc = "mark", !.call = call, !.cost = cost,
                                           !.ev = ev, !.seen = AbsentRun])
    BY <1>11 DEF Assess, req
  <2> HIDE DEF row
  <2>3. ASSUME NEW call, NEW cost, NEW ev, req.seen.status = "Running",
               SetRequest(q, [req EXCEPT !.pc = "mark", !.call = call, !.cost = cost,
                                         !.ev = ev, !.seen = AbsentRun])
        PROVE  RequestHolds(reqs'[q], rows'[reqs'[q].run])
    <3>0. reqs'[q] = [req EXCEPT !.pc = "mark", !.call = call, !.cost = cost,
                                 !.ev = ev, !.seen = AbsentRun]
      BY <2>3 DEF SetRequest, TypeInv, TypeOK, req
    <3>1. reqs'[q].pc = "mark" /\ reqs'[q].run = req.run /\ reqs'[q].cur = req.cur
      BY <1>1, <3>0 DEF Requests
    <3>2. rows'[reqs'[q].run] = row
      BY <2>1, <3>1 DEF row
    <3>3. /\ Current(row, req.cur) /\ Current(row, req.seen)
          /\ req.cur.version <= req.seen.version
      BY <2>1 DEF RequestHolds, RecoveryHolds
    <3>4. req.cur.version = row.version => req.cur.status = "Running"
      <4>1. /\ req.cur.version \in Nat /\ req.seen.version \in Nat /\ row.version \in Nat
        BY <1>1, <2>1 DEF Requests, Snapshots
      <4>2. QED
        BY <2>3, <3>3, <4>1 DEF Current
    <3>5. QED
      BY <3>1, <3>2, <3>3, <3>4
         DEF RequestHolds, AnswerHolds, CancelHolds, RetryHolds, RecoveryHolds
  <2>4. QED
    BY <1>4, <2>2, <2>3
<1>12. QED
  BY <1>5, <1>6, <1>7, <1>8, <1>9, <1>10, <1>11 DEF RequestNext

-----------------------------------------------------------------------------
(* The induction.                                                          *)

(* A request has one slot, a driver one place, and the rest stay.          *)
LEMMA OthersStay ==
    ASSUME TypeInv, NEW q \in Slots, RequestNext(q) \/ CallFails(q)
    PROVE  /\ \A k \in Slots \ {q} : reqs'[k] = reqs[k]
           /\ \A p \in Procs, r \in Runs : drv'[p][r] \in {drv[p][r], NewDriver}
<1>1. \E n : SetRequest(q, n)
  BY DEF RequestNext, CheckReceipt, ResumeLoad, AnswerLoad, CancelLoad, StartRecommit,
         ResumeRecommit, UpdateRecommit, CommitStart, CommitResume, CommitAnswer,
         CommitCancel, CommitConflict, Reconstruct, ReadProjection, ReadCorrupt,
         CompareCache, ReplaceCache, Assess, MarkIndeterminate, MarkConflict,
         CommitResumed, Schedule, CallFails, RequestGoto, Reply, Refuse, Wake
<1>2. drv' = drv \/ \E p, r : SetDriver(p, r, NewDriver)
  BY DEF RequestNext, CheckReceipt, ResumeLoad, AnswerLoad, CancelLoad, StartRecommit,
         ResumeRecommit, UpdateRecommit, Recommit, CommitStart, CommitResume,
         CommitAnswer, CommitCancel, CommitConflict, Reconstruct, ReadProjection,
         ReadCorrupt, CompareCache, ReplaceCache, Assess, MarkIndeterminate,
         MarkConflict, CommitResumed, Schedule, CallFails
<1>3. \A k \in Slots \ {q} : reqs'[k] = reqs[k]
  BY <1>1 DEF SetRequest, TypeInv, TypeOK
<1>4. \A p \in Procs, r \in Runs : drv'[p][r] \in {drv[p][r], NewDriver}
  <2>1. CASE \E x, y : SetDriver(x, y, NewDriver)
    <3>1. PICK x, y : drv' = [drv EXCEPT ![x][y] = NewDriver]
      BY <2>1 DEF SetDriver
    <3>2. QED
      BY <3>1 DEF TypeInv, TypeOK
  <2>2. QED
    BY <1>2, <2>1
<1>5. QED
  BY <1>3, <1>4

LEMMA HeldNext ==
    ASSUME ReconstructIsAtomic, TypeInv, AddressInv, LedgerInv, HeldInv, ReceiptInv,
           NoWindow, [Next]_vars
    PROVE  HeldInv' /\ KeepsContract
<1>1. ASSUME RowsAdvance,
             \A p \in Procs, r \in Runs :
                 \/ drv'[p][r] \in {drv[p][r], IdleDriver, NewDriver}
                 \/ DriverHolds(drv'[p][r], rows'[r]),
             \A q \in Slots :
                 \/ reqs'[q] = reqs[q]
                 \/ reqs'[q].pc \in {"check", "done"}
                 \/ reqs'[q].run \in Created' => RequestHolds(reqs'[q], rows'[reqs'[q].run])
      PROVE  HeldInv'
  <2>1. \A s \in Created' : rows'[s].status \in RunStatus
    BY <1>1, RowsHeld
  <2>2. ASSUME NEW p \in Procs, NEW r \in Runs
        PROVE  DriverHolds(drv'[p][r], rows'[r])
    BY <1>1, DriverStays, FreeDrivers
  <2>3. ASSUME NEW q \in Slots, reqs'[q].run \in Created'
        PROVE  RequestHolds(reqs'[q], rows'[reqs'[q].run])
    <3>1. CASE reqs'[q] = reqs[q]
      BY <1>1, <2>3, <3>1, RequestStays
    <3>2. CASE reqs'[q].pc \in {"check", "done"}
      BY <3>2, FreeRequests
    <3>3. QED
      BY <1>1, <2>3, <3>1, <3>2
  <2>4. QED
    BY <2>1, <2>2, <2>3 DEF HeldInv
<1>2. ASSUME NEW p \in Procs, NEW r \in Runs, DriverNext(p, r)
      PROVE  HeldInv' /\ KeepsContract
  <2>1. /\ UNCHANGED store \/ DriverAppends(p, r)
        /\ reqs' = reqs
        /\ \E d : drv' = [drv EXCEPT ![p][r] = d]
    BY <1>2, DriverStore DEF SetDriver
  <2>2. UNCHANGED <<created, receipts>>
    BY <2>1 DEF DriverAppends, store
  <2>3. KeepsContract /\ RowsAdvance
    <3>1. CASE rows' = rows
      BY <2>2, <3>1, Unseen, RowsUntouched
    <3>2. CASE DriverMoves(r)
      <4>1. rows[r].status \in RunStatus
        BY <3>2 DEF DriverMoves, HeldInv
      <4>2. KeepsContract
        BY <2>2, <3>2, <4>1, DriverContract
      <4>3. \A s \in Runs \ {r} : rows'[s] = rows[s]
        BY <3>2 DEF DriverMoves, TypeInv, TypeOK
      <4>4. RowsAdvance
        BY <2>2, <3>2, <4>3, CreatedRuns DEF RowsAdvance, DriverMoves, Created
      <4>5. QED
        BY <4>2, <4>4
    <3>3. QED
      BY <1>2, <3>1, <3>2, DriverRow
  <2>4. \A x \in Procs, s \in Runs :
            drv'[x][s] = drv[x][s] \/ (x = p /\ s = r)
    BY <2>1 DEF TypeInv, TypeOK
  <2>5. DriverHolds(drv'[p][r], rows'[r])
    BY <1>2, DriverHeld
  <2>6. HeldInv'
    BY <1>1, <2>1, <2>3, <2>4, <2>5
  <2>7. QED
    BY <2>3, <2>6
<1>3. ASSUME NEW q \in Slots, RequestNext(q) \/ CallFails(q)
      PROVE  HeldInv' /\ KeepsContract
  <2>1. KeepsContract /\ RowsAdvance
    BY <1>3, RequestContract
  <2>2. reqs'[q].run \in Created' => RequestHolds(reqs'[q], rows'[reqs'[q].run])
    BY <1>3, RequestHeld
  <2>3. /\ \A k \in Slots \ {q} : reqs'[k] = reqs[k]
        /\ \A p \in Procs, r \in Runs : drv'[p][r] \in {drv[p][r], NewDriver}
    BY <1>3, OthersStay
  <2>4. HeldInv'
    BY <1>1, <2>1, <2>2, <2>3
  <2>5. QED
    BY <2>1, <2>4
<1>4. ASSUME NEW q \in Slots, NEW p, NEW c, NEW kind, NEW target,
             Issue(q, p, c, kind, target)
      PROVE  HeldInv' /\ KeepsContract
  <2>1. UNCHANGED <<store, drv>>
    BY <1>4 DEF Issue
  <2>2. KeepsContract /\ RowsAdvance
    BY <2>1, Unseen, RowsUntouched DEF store
  <2>3. \A k \in Slots : reqs'[k] = reqs[k] \/ reqs'[k].pc = "check"
    BY <1>4 DEF Issue, SetRequest, IdleRequest, TypeInv, TypeOK
  <2>4. HeldInv'
    BY <1>1, <2>1, <2>2, <2>3
  <2>5. QED
    BY <2>2, <2>4
<1>5. ASSUME NEW p \in Procs, Crash(p)
      PROVE  HeldInv' /\ KeepsContract
  <2>1. UNCHANGED store
    BY <1>5 DEF Crash
  <2>2. KeepsContract /\ RowsAdvance
    BY <2>1, Unseen, RowsUntouched DEF store
  <2>3. \A k \in Slots : reqs'[k] = reqs[k] \/ reqs'[k].pc = "done"
    <3>1. \A k \in Slots :
              reqs'[k] = IF reqs[k].proc = p THEN Replied(NoRun, FALSE) ELSE reqs[k]
      BY <1>5 DEF Crash
    <3>2. Replied(NoRun, FALSE).pc = "done"
      BY DEF Replied, IdleRequest
    <3>3. QED
      BY <3>1, <3>2
  <2>4. \A x \in Procs, s \in Runs : drv'[x][s] \in {drv[x][s], IdleDriver}
    BY <1>5 DEF Crash, TypeInv, TypeOK
  <2>5. HeldInv'
    BY <1>1, <2>2, <2>3, <2>4
  <2>6. QED
    BY <2>2, <2>5
<1>6. CASE UNCHANGED vars
  <2>1. UNCHANGED <<rows, created, receipts, reqs, drv>>
    BY <1>6 DEF vars
  <2>2. KeepsContract /\ RowsAdvance
    BY <2>1, Unseen, RowsUntouched
  <2>3. HeldInv'
    BY <1>1, <2>1, <2>2
  <2>4. QED
    BY <2>2, <2>3
<1>7. QED
  BY <1>2, <1>3, <1>4, <1>5, <1>6 DEF Next, Quiet

LEMMA ReceiptNext ==
    TypeInv /\ AddressInv /\ ReceiptInv /\ [Next]_vars => ReceiptInv'
<1> SUFFICES ASSUME TypeInv, AddressInv, ReceiptInv, [Next]_vars, NEW c \in Cmds,
                    ~HasReceipt(c)'
             PROVE  receipts'[c] = NoReceipt
  BY DEF ReceiptInv
<1>1. ~Applies(c) /\ ~Acknowledges(c)
  BY DEF Applies, Acknowledges, HasReceipt
<1>2. receipts'[c] = receipts[c]
  BY <1>1, CommandStep DEF LeavesCommand
<1>3. QED
  BY <1>2 DEF ReceiptInv, HasReceipt

LEMMA HeldInit == Init => HeldInv /\ ReceiptInv /\ Contract!Init
<1> SUFFICES ASSUME Init PROVE HeldInv /\ ReceiptInv /\ Contract!Init
  OBVIOUS
<1>1. /\ \A r \in Runs : rows[r] = AbsentRun
      /\ receipts = [c \in Cmds |-> NoReceipt] /\ Created = {}
      /\ \A p \in Procs, r \in Runs : drv[p][r] = IdleDriver
  BY DEF Init, Created
<1>2. HeldInv
  BY <1>1, FreeDrivers DEF HeldInv
<1>3. ReceiptInv
  BY <1>1 DEF ReceiptInv
<1>4. Contract!Init
  BY <1>1 DEF Contract!Init, AbsentRun
<1>5. QED
  BY <1>2, <1>3, <1>4

(* As long as no append lands inside a reconstruct, every behaviour of the *)
(* runtime is one the contract allows: a Run that has ended does not run   *)
(* or wait again, only a failed Run is retried, under the next number, and *)
(* the effect of a command and its receipt come in one step.               *)
THEOREM RuntimeImplementsContract ==
    ReconstructIsAtomic => (Spec => ImplementsContract)
<1> SUFFICES ASSUME ReconstructIsAtomic PROVE Spec => ImplementsContract
  OBVIOUS
<1> DEFINE IInv == LedgerIInv /\ AddressInv /\ ReceiptInv /\ HeldInv
<1>1. Init => IInv /\ Contract!Init
  BY LedgerInit, AddressInit, HeldInit
<1>2. IInv /\ [Next]_vars => IInv' /\ [Contract!Next]_(Contract!vars)
  BY LedgerNext, AddressNext, ReceiptNext, HeldNext DEF LedgerIInv, KeepsContract
<1>3. QED
  BY <1>1, <1>2, PTL DEF Spec, ImplementsContract, Contract!Spec

-----------------------------------------------------------------------------
(***************************************************************************)
(* The Tool calls in a Run's journal: whatever drivers, answers and        *)
(* recoveries do to a Run, no call is proposed or ended twice, no outcome  *)
(* is left unknown and undecided while the Run is Running, and a high-cost *)
(* call with an unknown outcome starts again only when the user has        *)
(* confirmed it.  As for the contract above, whoever appends holds the    *)
(* row it replaces; the new facts are about the calls that the row, the    *)
(* step of a driver and a recovery have in hand.                           *)
(***************************************************************************)

(* The calls one batch proposes or ends.                                   *)
EventCalls(ev, types) == {e.call : e \in {x \in ev : x.type \in types}}

(* HighCostRetryConfirmed, of the batch i of one history.                  *)
ConfirmedAt(h, i) ==
    RecoveredAt(h, i) /\ h[i - 1].snap.cost = "High" /\ h[1].snap.pend # h[i - 1].snap.pend
        => h[i - 1].snap.granted

(* The journal of a Run: the calls it speaks of were minted, ended if they *)
(* were proposed, neither of it twice, and restarted if confirmed.         *)
JournalCalls(h, last) ==
    /\ CallsOf(h, Proposing) \subseteq 0 .. last
    /\ CallsOf(h, Ending) \subseteq CallsOf(h, Proposing)
    /\ ~Repeated(h, Proposing) /\ ~Repeated(h, Ending)
    /\ \A i \in DOMAIN h : ConfirmedAt(h, i)

(* The row: the call a Running Run has pending was not proposed yet, and a *)
(* high-cost one is confirmed or was inherited from the Run it retries; a  *)
(* Run that waits for an ordinary answer has no call pending.              *)
RowCalls(h, row, last) ==
    /\ row.pend \in 0 .. last
    /\ row.status = "Running" => ~UnresolvedUnknown(h)
    /\ row.status = "Running" /\ row.pend # NoCall =>
          /\ row.pend \notin CallsOf(h, Proposing)
          /\ row.cost = "High" => row.granted \/ row.pend = h[1].snap.pend
    /\ row.status = "WaitingForInput" /\ row.wait # "confirm" => row.pend = NoCall

(* A driver in the middle of a step has no call pending, and the tool it   *)
(* runs is unfinished as long as nobody has appended to the Run.           *)
DriverCalls(d, h, row) ==
    /\ d.pc \in {"model", "acked", "tool"} => d.cur.pend = NoCall
    /\ d.pc = "tool" /\ d.cur.version = row.version => d.call \in UnfinishedCalls(h)

(* So is the call a recovery is about to mark: in a Running Run, it never  *)
(* comes to ask about an outcome that was journaled as unknown before.     *)
RequestCalls(req, h, row) ==
    req.pc = "mark" /\ req.cur.version = row.version =>
        /\ req.ev = IndeterminateEvents(req.call, req.cost)
        /\ req.call \in UnfinishedCalls(h)

CallInv ==
    /\ \A r \in Runs : JournalCalls(journal[r], lastCall)
    /\ \A r \in Runs : RowCalls(journal[r], rows[r], lastCall)
    /\ \A p \in Procs, r \in Runs : DriverCalls(drv[p][r], journal[r], rows[r])
    /\ \A q \in Slots : reqs[q].cur.pend <= lastCall
    /\ \A q \in Slots : RequestCalls(reqs[q], journal[reqs[q].run], rows[reqs[q].run])

-----------------------------------------------------------------------------
(* How a batch extends what a history says about calls.                    *)

LEMMA CallIn ==
    ASSUME NEW h, NEW types, NEW c
    PROVE  c \in CallsOf(h, types) <=>
               \E i \in DOMAIN h : \E e \in h[i].ev : e.type \in types /\ e.call = c
BY DEF CallsOf

LEMMA AppendedCalls ==
    ASSUME NEW h \in Seq(Batches), NEW g, NEW ev, Len(g) = Len(h) + 1,
           DOMAIN g = 1 .. Len(h) + 1, \A i \in 1 .. Len(h) : g[i] = h[i],
           g[Len(h) + 1].ev = ev, NEW types
    PROVE  /\ CallsOf(g, types) = CallsOf(h, types) \cup EventCalls(ev, types)
           /\ Repeated(g, types) =>
                 \/ Repeated(h, types)
                 \/ CallsOf(h, types) \cap EventCalls(ev, types) # {}
<1> DEFINE n == Len(h)
<1>1. n \in Nat /\ DOMAIN h = 1 .. n /\ n + 1 \in DOMAIN g
  OBVIOUS
<1>2. \A c : c \in EventCalls(ev, types) <=> \E e \in ev : e.type \in types /\ e.call = c
  BY DEF EventCalls
<1>3. CallsOf(g, types) = CallsOf(h, types) \cup EventCalls(ev, types)
  <2>1. \A c : c \in CallsOf(g, types) <=>
                  c \in CallsOf(h, types) \/ c \in EventCalls(ev, types)
    <3> TAKE c
    <3>1. ASSUME c \in CallsOf(g, types)
          PROVE  c \in CallsOf(h, types) \/ c \in EventCalls(ev, types)
      <4>1. PICK i \in DOMAIN g : \E e \in g[i].ev : e.type \in types /\ e.call = c
        BY <3>1, CallIn
      <4>2. CASE i = n + 1
        BY <1>2, <4>1, <4>2
      <4>3. CASE i # n + 1
        <5>1. i \in DOMAIN h /\ g[i] = h[i]
          BY <1>1, <4>3
        <5>2. QED
          BY <4>1, <5>1, CallIn
      <4>4. QED
        BY <4>2, <4>3
    <3>2. ASSUME c \in CallsOf(h, types)
          PROVE  c \in CallsOf(g, types)
      <4>1. PICK i \in DOMAIN h : \E e \in h[i].ev : e.type \in types /\ e.call = c
        BY <3>2, CallIn
      <4>2. i \in DOMAIN g /\ g[i] = h[i]
        BY <1>1
      <4>3. QED
        BY <4>1, <4>2, CallIn
    <3>3. ASSUME c \in EventCalls(ev, types)
          PROVE  c \in CallsOf(g, types)
      BY <1>1, <1>2, <3>3, CallIn
    <3>4. QED
      BY <3>1, <3>2, <3>3
  <2>2. QED
    BY <2>1
<1>4. ASSUME Repeated(g, types), ~Repeated(h, types)
      PROVE  CallsOf(h, types) \cap EventCalls(ev, types) # {}
  <2>1. PICK i \in DOMAIN g, j \in DOMAIN g :
            /\ i # j
            /\ \E e \in g[i].ev, f \in g[j].ev :
                  e.type \in types /\ f.type \in types /\ e.call = f.call
    BY <1>4 DEF Repeated
  <2>2. PICK e \in g[i].ev, f \in g[j].ev :
            e.type \in types /\ f.type \in types /\ e.call = f.call
    BY <2>1
  <2>3. CASE i = n + 1
    <3>1. j \in DOMAIN h /\ g[j] = h[j]
      BY <1>1, <2>1, <2>3
    <3>2. f.call \in CallsOf(h, types) /\ e.call \in EventCalls(ev, types)
      BY <1>2, <2>2, <2>3, <3>1, CallIn
    <3>3. QED
      BY <2>2, <3>2
  <2>4. CASE j = n + 1
    <3>1. i \in DOMAIN h /\ g[i] = h[i]
      BY <1>1, <2>1, <2>4
    <3>2. e.call \in CallsOf(h, types) /\ f.call \in EventCalls(ev, types)
      BY <1>2, <2>2, <2>4, <3>1, CallIn
    <3>3. QED
      BY <2>2, <3>2
  <2>5. CASE i # n + 1 /\ j # n + 1
    <3>1. i \in DOMAIN h /\ j \in DOMAIN h /\ g[i] = h[i] /\ g[j] = h[j]
      BY <1>1, <2>5
    <3>2. Repeated(h, types)
      BY <2>1, <2>2, <3>1 DEF Repeated
    <3>3. QED
      BY <1>4, <3>2
  <2>6. QED
    BY <2>3, <2>4, <2>5
<1>5. QED
  BY <1>3, <1>4

(* An unknown outcome stays undecided until a RunResumed or a later one.   *)
LEMMA AppendedUnknown ==
    ASSUME NEW h \in Seq(Batches), NEW g, NEW ev, Len(g) = Len(h) + 1,
           DOMAIN g = 1 .. Len(h) + 1, \A i \in 1 .. Len(h) : g[i] = h[i],
           g[Len(h) + 1].ev = ev
    PROVE  /\ RunResumed \in ev => ~UnresolvedUnknown(g)
           /\ ~UnresolvedUnknown(h) /\ (\A e \in ev : ~IsUnknown(e)) => ~UnresolvedUnknown(g)
<1> DEFINE n == Len(h)
<1>1. n \in Nat /\ DOMAIN h = 1 .. n /\ n + 1 \in DOMAIN g
  OBVIOUS
<1>2. ASSUME NEW i \in DOMAIN g, UnresolvedAt(g, i), RunResumed \in ev
      PROVE  FALSE
  <2>1. n + 1 \in i .. Len(g)
    BY <1>1
  <2>2. QED
    BY <1>2, <2>1 DEF UnresolvedAt
<1>3. ASSUME NEW i \in DOMAIN g, UnresolvedAt(g, i), \A e \in ev : ~IsUnknown(e)
      PROVE  UnresolvedUnknown(h)
  <2>1. i \in DOMAIN h
    <3>1. i # n + 1
      BY <1>3 DEF UnresolvedAt
    <3>2. QED
      BY <1>1, <3>1
  <2>2. /\ g[i] = h[i] /\ \A j \in i .. Len(h) : g[j] = h[j] /\ j \in i .. Len(g)
        /\ \A j \in i + 1 .. Len(h) : g[j] = h[j] /\ j \in i + 1 .. Len(g)
    BY <1>1, <2>1
  <2>3. UnresolvedAt(h, i)
    BY <1>3, <2>2 DEF UnresolvedAt
  <2>4. QED
    BY <2>1, <2>3 DEF UnresolvedUnknown
<1>4. QED
  BY <1>2, <1>3 DEF UnresolvedUnknown

LEMMA AppendedConfirmed ==
    ASSUME NEW h \in Seq(Batches), NEW g, NEW ev, Len(g) = Len(h) + 1,
           DOMAIN g = 1 .. Len(h) + 1, \A i \in 1 .. Len(h) : g[i] = h[i],
           g[Len(h) + 1].ev = ev, h # <<>>, \A i \in DOMAIN h : ConfirmedAt(h, i),
           LET row == h[Len(h)].snap IN
           row.pend # NoCall /\ row.cost = "High" /\ ToolEvent("started", row.pend, row.cost) \in ev
              => row.granted \/ row.pend = h[1].snap.pend
    PROVE  \A i \in DOMAIN g : ConfirmedAt(g, i)
<1> DEFINE n == Len(h)
<1>1. n \in Nat \ {0} /\ DOMAIN h = 1 .. n
  OBVIOUS
<1> SUFFICES ASSUME NEW i \in DOMAIN g PROVE ConfirmedAt(g, i)
  OBVIOUS
<1>2. CASE i \in 2 .. n
  <2>1. /\ i \in DOMAIN h /\ g[i] = h[i] /\ g[i - 1] = h[i - 1] /\ g[1] = h[1]
    BY <1>1, <1>2
  <2>2. ConfirmedAt(h, i)
    BY <2>1
  <2>3. QED
    BY <2>1, <2>2 DEF ConfirmedAt, RecoveredAt
<1>3. CASE i = 1
  BY <1>3 DEF ConfirmedAt, RecoveredAt
<1>4. CASE i = n + 1
  <2>1. g[i - 1] = h[n] /\ g[1] = h[1] /\ g[i].ev = ev
    BY <1>1, <1>4
  <2>2. QED
    BY <2>1 DEF ConfirmedAt, RecoveredAt
<1>5. QED
  BY <1>1, <1>2, <1>3, <1>4

(* What makes a batch on the row of a Run keep its calls in order.         *)
Sound(h, row, next, ev, last) ==
    /\ EventCalls(ev, Proposing) \subseteq 0 .. last
    /\ EventCalls(ev, Proposing) \cap CallsOf(h, Proposing) = {}
    /\ EventCalls(ev, Ending) \cap CallsOf(h, Ending) = {}
    /\ EventCalls(ev, Ending) \subseteq CallsOf(h, Proposing) \cup EventCalls(ev, Proposing)
    /\ row.pend # NoCall /\ row.cost = "High" /\ ToolEvent("started", row.pend, row.cost) \in ev
          => row.granted \/ row.pend = h[1].snap.pend
    /\ next.pend \in 0 .. last
    /\ next.status = "Running" =>
          \/ RunResumed \in ev
          \/ row.status = "Running" /\ \A e \in ev : ~IsUnknown(e)
    /\ next.status = "Running" /\ next.pend # NoCall =>
          /\ next.pend \notin CallsOf(h, Proposing) \cup EventCalls(ev, Proposing)
          /\ next.cost = "High" => next.granted
    /\ next.status = "WaitingForInput" /\ next.wait # "confirm" => next.pend = NoCall

LEMMA SoundBatch ==
    ASSUME NEW h \in Seq(Batches), NEW g, NEW ev, Len(g) = Len(h) + 1,
           DOMAIN g = 1 .. Len(h) + 1, \A i \in 1 .. Len(h) : g[i] = h[i],
           g[Len(h) + 1].ev = ev, h # <<>>, NEW row, row = h[Len(h)].snap, NEW next,
           NEW last \in Nat, NEW more \in Nat, last <= more,
           JournalCalls(h, last), RowCalls(h, row, last), Sound(h, row, next, ev, more)
    PROVE  JournalCalls(g, more) /\ RowCalls(g, next, more)
<1>1. ASSUME NEW types \in {Proposing, Ending}
      PROVE  /\ CallsOf(g, types) = CallsOf(h, types) \cup EventCalls(ev, types)
             /\ Repeated(g, types) =>
                   \/ Repeated(h, types)
                   \/ CallsOf(h, types) \cap EventCalls(ev, types) # {}
  BY AppendedCalls
<1>2. \A c \in 0 .. last : c \in 0 .. more
  OBVIOUS
<1>3. ~Repeated(g, Proposing) /\ ~Repeated(g, Ending)
  BY <1>1 DEF JournalCalls, Sound
<1>4. /\ CallsOf(g, Proposing) \subseteq 0 .. more
      /\ CallsOf(g, Ending) \subseteq CallsOf(g, Proposing)
  BY <1>1, <1>2 DEF JournalCalls, Sound
<1>5. \A i \in DOMAIN g : ConfirmedAt(g, i)
  <2>1. \A i \in DOMAIN h : ConfirmedAt(h, i)
    BY DEF JournalCalls
  <2>2. row.pend # NoCall /\ row.cost = "High"
           /\ ToolEvent("started", row.pend, row.cost) \in ev
        => row.granted \/ row.pend = h[1].snap.pend
    BY DEF Sound
  <2>3. QED
    BY <2>1, <2>2, AppendedConfirmed
<1>6. JournalCalls(g, more)
  BY <1>3, <1>4, <1>5 DEF JournalCalls
<1>7. next.status = "Running" => ~UnresolvedUnknown(g)
  <2>1. /\ RunResumed \in ev => ~UnresolvedUnknown(g)
        /\ ~UnresolvedUnknown(h) /\ (\A e \in ev : ~IsUnknown(e)) => ~UnresolvedUnknown(g)
    BY AppendedUnknown
  <2>2. QED
    BY <2>1 DEF RowCalls, Sound
<1>8. RowCalls(g, next, more)
  BY <1>1, <1>7 DEF RowCalls, Sound
<1>9. QED
  BY <1>6, <1>8

(* The calls of the batches the code appends.                              *)
LEMMA OneCall ==
    ASSUME NEW t, NEW call, NEW cost, NEW types
    PROVE  /\ t \in types => EventCalls({ToolEvent(t, call, cost)}, types) = {call}
           /\ t \notin types => EventCalls({ToolEvent(t, call, cost)}, types) = {}
<1>1. ToolEvent(t, call, cost).type = t /\ ToolEvent(t, call, cost).call = call
  BY DEF ToolEvent
<1>2. QED
  BY <1>1 DEF EventCalls

LEMMA NoCalls == \A types : EventCalls({}, types) = {}
BY DEF EventCalls

LEMMA StartedCalls ==
    ASSUME NEW call, NEW cost
    PROVE  LET ev == {ToolEvent("started", call, cost)} IN
           /\ EventCalls(ev, Proposing) = {call} /\ EventCalls(ev, Ending) = {}
           /\ EventCalls(ev, {"started"}) = {call}
           /\ \A e \in ev : ~IsUnknown(e)
           /\ \A c, k : ToolEvent("started", c, k) \in ev => c = call /\ k = cost
<1> DEFINE ev == {ToolEvent("started", call, cost)}
<1>1. "started" \in Proposing /\ "started" \notin Ending
  BY DEF Proposing, Ending
<1>2. /\ \A e \in ev : ~IsUnknown(e)
      /\ \A c, k : ToolEvent("started", c, k) \in ev => c = call /\ k = cost
  BY DEF ToolEvent, IsUnknown
<1>3. QED
  BY <1>1, <1>2, OneCall

LEMMA RejectedCalls ==
    ASSUME NEW call, NEW cost
    PROVE  LET ev == {ToolEvent("rejected", call, cost)} IN
           /\ EventCalls(ev, Proposing) = {call} /\ EventCalls(ev, Ending) = {call}
           /\ \A e \in ev : ~IsUnknown(e)
           /\ \A c, k : ToolEvent("started", c, k) \notin ev
<1> DEFINE ev == {ToolEvent("rejected", call, cost)}
<1>1. "rejected" \in Proposing /\ "rejected" \in Ending
  BY DEF Proposing, Ending
<1>2. /\ \A e \in ev : ~IsUnknown(e)
      /\ \A c, k : ToolEvent("started", c, k) \notin ev
  BY DEF ToolEvent, IsUnknown
<1>3. QED
  BY <1>1, <1>2, OneCall

LEMMA EndedCalls ==
    ASSUME NEW call, NEW cost
    PROVE  LET ev == {ToolEvent("ended", call, cost)} IN
           /\ EventCalls(ev, Proposing) = {} /\ EventCalls(ev, Ending) = {call}
           /\ \A e \in ev : ~IsUnknown(e)
           /\ \A c, k : ToolEvent("started", c, k) \notin ev
<1> DEFINE ev == {ToolEvent("ended", call, cost)}
<1>1. "ended" \notin Proposing /\ "ended" \in Ending
  BY DEF Proposing, Ending
<1>2. /\ \A e \in ev : ~IsUnknown(e)
      /\ \A c, k : ToolEvent("started", c, k) \notin ev
  BY DEF ToolEvent, IsUnknown
<1>3. QED
  BY <1>1, <1>2, OneCall

LEMMA ResumedCalls ==
    /\ EventCalls({RunResumed}, Proposing) = {} /\ EventCalls({RunResumed}, Ending) = {}
    /\ \A c, k : ToolEvent("started", c, k) \notin {RunResumed}
BY DEF EventCalls, RunResumed, ToolEvent, Proposing, Ending

LEMMA IndeterminateCalls ==
    ASSUME NEW call, NEW cost
    PROVE  LET ev == IndeterminateEvents(call, cost) IN
           /\ EventCalls(ev, Proposing) = {} /\ EventCalls(ev, Ending) = {call}
           /\ cost = "Low" => RunResumed \in ev
           /\ \A c, k : ToolEvent("started", c, k) \notin ev
<1> DEFINE ev == IndeterminateEvents(call, cost)
<1>1. \A e \in ev : e = ToolEvent("unknown", call, cost) \/ e = RunResumed
  BY DEF IndeterminateEvents
<1>2. ToolEvent("unknown", call, cost) \in ev /\ (cost = "Low" => RunResumed \in ev)
  BY DEF IndeterminateEvents
<1>3. /\ RunResumed.type = "resumed" /\ ToolEvent("unknown", call, cost).type = "unknown"
      /\ ToolEvent("unknown", call, cost).call = call
      /\ \A c, k : ToolEvent("started", c, k).type = "started"
  BY DEF RunResumed, ToolEvent
<1>4. QED
  BY <1>1, <1>2, <1>3 DEF EventCalls, Proposing, Ending

-----------------------------------------------------------------------------
(* What drivers do to the calls.                                           *)

(* A batch on the row of a Run that keeps the calls in order.              *)
CallStep(r) ==
    /\ r \in Created
    /\ lastCall' \in {lastCall, lastCall + 1}
    /\ \E next, ev, cmd : /\ Appends(r, next, ev, cmd)
                          /\ rows' = [rows EXCEPT ![r] = next]
                          /\ next.version = rows[r].version + 1
                          /\ Sound(journal[r], rows[r], next, ev, lastCall')

LEMMA OnRow ==
    ASSUME TypeInv, AddressInv, LedgerInv, NEW r \in Created, NEW cur, NEW next, NEW ev,
           NEW cmd, Current(rows[r], cur), AppendBatch(r, cur, next, ev, cmd)
    PROVE  /\ rows[r] = cur /\ rows[r] \in Snapshots
           /\ rows' = [rows EXCEPT ![r] = next] /\ rows'[r] = next
           /\ Appends(r, next, ev, cmd)
           /\ journal[r] \in Seq(Batches) /\ journal[r] # <<>>
           /\ journal[r][Len(journal[r])].snap = rows[r]
<1>1. r \in Runs
  BY CreatedRuns
<1>2. /\ rows[r] = cur /\ rows[r] \in Snapshots
      /\ rows' = [rows EXCEPT ![r] = next] /\ rows'[r] = next
  BY <1>1, AppendOnRow
<1>3. Appends(r, next, ev, cmd)
  BY DEF AppendBatch, Appends
<1>4. journal[r] \in Seq(Batches) /\ journal[r] # <<>>
  BY <1>1 DEF TypeInv, TypeOK, AddressInv
<1>5. journal[r][Len(journal[r])].snap = rows[r]
  BY <1>1, <1>4 DEF LedgerInv, RowIsLastProjection, Projection
<1>6. QED
  BY <1>2, <1>3, <1>4, <1>5

(* A step that leaves no call pending, or stops the Run.                   *)
LEMMA SoundSettled ==
    ASSUME NEW h, NEW row, NEW next, NEW ev, NEW last \in Nat, NEW more \in Nat, last <= more,
           RowCalls(h, row, last), row.pend \in Nat,
           \/ next.pend = NoCall
           \/ next.pend = row.pend /\ next.status \notin {"Running", "WaitingForInput"},
           next.status = "Running" => row.status = "Running" /\ \A e \in ev : ~IsUnknown(e),
           EventCalls(ev, Proposing) \subseteq 0 .. more,
           EventCalls(ev, Proposing) \cap CallsOf(h, Proposing) = {},
           EventCalls(ev, Ending) \cap CallsOf(h, Ending) = {},
           EventCalls(ev, Ending) \subseteq CallsOf(h, Proposing) \cup EventCalls(ev, Proposing),
           row.pend # NoCall /\ row.cost = "High"
             /\ ToolEvent("started", row.pend, row.cost) \in ev
                => row.granted \/ row.pend = h[1].snap.pend
    PROVE  Sound(h, row, next, ev, more)
<1>1. NoCall \in 0 .. more /\ row.pend \in 0 .. more
  BY DEF NoCall, RowCalls
<1>2. QED
  BY <1>1 DEF Sound

(* A call that is minted is in no history, and one that is pending or      *)
(* unfinished is not proposed, or not ended, yet.                          *)
LEMMA FreshCall ==
    ASSUME NEW h, NEW last \in Nat, JournalCalls(h, last)
    PROVE  /\ last + 1 \notin CallsOf(h, Proposing) /\ last + 1 \notin CallsOf(h, Ending)
           /\ last + 1 # NoCall /\ last + 1 \in 0 .. last + 1
           /\ \A c : c \notin CallsOf(h, Proposing) => c \notin CallsOf(h, Ending)
           /\ \A c \in UnfinishedCalls(h) : /\ c \in CallsOf(h, Proposing)
                                            /\ c \notin CallsOf(h, Ending)
<1>1. /\ CallsOf(h, Proposing) \subseteq 0 .. last
      /\ CallsOf(h, Ending) \subseteq CallsOf(h, Proposing)
  BY DEF JournalCalls
<1>2. last + 1 \notin 0 .. last /\ last + 1 # NoCall /\ last + 1 \in 0 .. last + 1
  BY DEF NoCall
<1>3. CallsOf(h, {"started"}) \subseteq CallsOf(h, Proposing)
  <2>1. "started" \in Proposing
    BY DEF Proposing
  <2>2. QED
    BY <2>1, CallIn
<1>4. QED
  BY <1>1, <1>2, <1>3 DEF UnfinishedCalls

(* The start of a call that was never proposed makes it unfinished.        *)
LEMMA StartUnfinished ==
    ASSUME NEW h \in Seq(Batches), NEW g, NEW ev, Len(g) = Len(h) + 1,
           DOMAIN g = 1 .. Len(h) + 1, \A i \in 1 .. Len(h) : g[i] = h[i],
           g[Len(h) + 1].ev = ev, NEW call, call \notin CallsOf(h, Ending),
           EventCalls(ev, {"started"}) = {call}, EventCalls(ev, Ending) = {}
    PROVE  call \in UnfinishedCalls(g)
<1>1. ASSUME NEW types \in {{"started"}, Ending}
      PROVE  CallsOf(g, types) = CallsOf(h, types) \cup EventCalls(ev, types)
  BY AppendedCalls
<1>2. CallsOf(g, {"started"}) = CallsOf(h, {"started"}) \cup EventCalls(ev, {"started"})
  BY <1>1
<1>3. CallsOf(g, Ending) = CallsOf(h, Ending) \cup EventCalls(ev, Ending)
  BY <1>1
<1>4. QED
  BY <1>2, <1>3 DEF UnfinishedCalls

(* An append of a driver: it holds the row, which is Running unless the    *)
(* driver fails the Run, and leaves no call pending that is not its own.   *)
LEMMA DriverSettles ==
    ASSUME TypeInv, AddressInv, LedgerInv, HeldInv, CallInv, NEW p \in Procs, NEW r \in Runs,
           NEW cur, cur = drv[p][r].cur, NEW next, NEW ev, NEW e, StepAppend(p, r, next, ev, e),
           drv[p][r].pc \in {"loaded", "model", "acked", "tool", "failappend"},
           lastCall' \in {lastCall, lastCall + 1}, next.version = cur.version + 1,
           \/ next.pend = NoCall /\ drv[p][r].pc # "failappend"
           \/ next.pend = cur.pend /\ next.status = "Failed",
           \A x \in ev : ~IsUnknown(x),
           EventCalls(ev, Proposing) \subseteq 0 .. lastCall',
           EventCalls(ev, Proposing) \cap CallsOf(journal[r], Proposing) = {},
           EventCalls(ev, Ending) \cap CallsOf(journal[r], Ending) = {},
           EventCalls(ev, Ending)
               \subseteq CallsOf(journal[r], Proposing) \cup EventCalls(ev, Proposing),
           cur.pend # NoCall /\ cur.cost = "High" /\ ToolEvent("started", cur.pend, cur.cost) \in ev
             => cur.granted \/ cur.pend = journal[r][1].snap.pend
    PROVE  CallStep(r) /\ rows'[r] = next /\ drv'[p][r] = e
<1>1. /\ r \in Created /\ Current(rows[r], cur)
      /\ drv[p][r].pc # "failappend" => cur.status = "Running"
  BY DEF AddressInv, HeldInv, DriverHolds
<1>2. AppendBatch(r, cur, next, ev, NoCmd) /\ SetDriver(p, r, e)
  BY DEF StepAppend, Driver
<1>3. /\ rows[r] = cur /\ rows[r] \in Snapshots
      /\ rows' = [rows EXCEPT ![r] = next] /\ rows'[r] = next
      /\ Appends(r, next, ev, NoCmd)
  BY <1>1, <1>2, OnRow
<1>4. lastCall \in Nat /\ lastCall' \in Nat /\ lastCall <= lastCall'
  BY DEF TypeInv, TypeOK
<1>5. RowCalls(journal[r], rows[r], lastCall) /\ rows[r].pend \in Nat
  BY <1>3 DEF CallInv, Snapshots
<1>6. Sound(journal[r], rows[r], next, ev, lastCall')
  BY <1>1, <1>3, <1>4, <1>5, SoundSettled
<1>7. drv'[p][r] = e
  BY <1>2 DEF SetDriver, TypeInv, TypeOK
<1>8. QED
  BY <1>1, <1>3, <1>6, <1>7 DEF CallStep

LEMMA FreeDriverCalls ==
    ASSUME NEW d, NEW h, NEW row, d.pc \notin {"model", "acked", "tool"}
    PROVE  DriverCalls(d, h, row)
BY DEF DriverCalls

LEMMA FreeDriverPC ==
    /\ \A pc : Leaving(pc).pc = pc
    /\ \A d : NextStep(d).pc = "step"
    /\ IdleDriver.pc = "idle" /\ NewDriver.pc = "step"
BY DEF Leaving, NextStep, NewDriver, IdleDriver

(* The start of a call, journaled by the driver that will run it.          *)
LEMMA StartedDriver ==
    ASSUME TypeInv, NEW r \in Runs, NEW next, NEW call, NEW cost, NEW d,
           Appends(r, next, {ToolEvent("started", call, cost)}, NoCmd),
           call \notin CallsOf(journal[r], Ending),
           d.pc = "tool", d.cur = next, d.call = call, next.pend = NoCall
    PROVE  DriverCalls(d, journal'[r], rows'[r])
<1> DEFINE ev == {ToolEvent("started", call, cost)}
           h  == journal[r]
           g  == journal'[r]
<1>1. /\ Len(h) \in Nat /\ Len(g) = Len(h) + 1 /\ DOMAIN g = 1 .. Len(h) + 1
      /\ \A i \in 1 .. Len(h) : g[i] = h[i]
      /\ g[Len(h) + 1].ev = ev /\ h \in Seq(Batches)
  BY AppendsFacts DEF TypeInv, TypeOK
<1>2. EventCalls(ev, {"started"}) = {call} /\ EventCalls(ev, Ending) = {}
  BY StartedCalls
<1> HIDE DEF ev, h, g
<1>3. call \in UnfinishedCalls(g)
  BY <1>1, <1>2, StartUnfinished DEF h
<1>4. QED
  BY <1>3 DEF DriverCalls, g

(* What a driver's step does to the calls of its Run.                      *)
LEMMA DriverCallStep ==
    ASSUME TypeInv, AddressInv, LedgerInv, HeldInv, CallInv, NEW p \in Procs, NEW r \in Runs,
           DriverNext(p, r)
    PROVE  /\ UNCHANGED <<rows, journal, lastCall>> \/ CallStep(r)
           /\ DriverCalls(drv'[p][r], journal'[r], rows'[r])
<1> DEFINE d    == drv[p][r]
           cur  == d.cur
           next == NextSnapshot(cur, "Running", "none")
           h    == journal[r]
           goal == CallStep(r) /\ DriverCalls(drv'[p][r], journal'[r], rows'[r])
<1>1. /\ d \in Drivers /\ cur \in Snapshots /\ cur.pend \in Nat /\ lastCall \in Nat
      /\ lastCall + 1 \in Nat
  BY DEF TypeInv, TypeOK, Drivers, Snapshots
<1>2. /\ DriverCalls(d, h, rows[r]) /\ RowCalls(h, rows[r], lastCall)
      /\ JournalCalls(h, lastCall) /\ DriverHolds(d, rows[r])
  BY DEF CallInv, HeldInv
<1>3. /\ \A s \in RunStatus, w \in Waits :
             LET n == NextSnapshot(cur, s, w) IN
             n.version = cur.version + 1 /\ n.status = s /\ n.pend = cur.pend
      /\ LET n == TakePending(cur) IN
         n.version = cur.version + 1 /\ n.pend = NoCall
  <2>1. ASSUME NEW s \in RunStatus, NEW w \in Waits
        PROVE  LET n == NextSnapshot(cur, s, w) IN
               n.version = cur.version + 1 /\ n.status = s /\ n.pend = cur.pend
    BY <1>1, NextSnapshotFacts, NextSnapshotFields
  <2>2. LET n == TakePending(cur) IN n.version = cur.version + 1 /\ n.pend = NoCall
    BY <1>1, TakePendingFacts, TakePendingFields
  <2>3. QED
    BY <2>1, <2>2
<1>4. /\ RunStatus = {"Running", "WaitingForInput", "Succeeded", "Failed", "Cancelled"}
      /\ {"none", "clarification"} \subseteq Waits
  BY DEF RunStatus, Waits
<1>5. Driver(p, r) = d
  BY DEF Driver
<1>6. EventCalls({}, Proposing) = {} /\ EventCalls({}, Ending) = {}
  BY NoCalls
<1>7. ASSUME NEW n, NEW e, StepAppend(p, r, n, {}, e), lastCall' = lastCall,
             d.pc \in {"loaded", "model", "acked", "tool", "failappend"},
             n.version = cur.version + 1,
             \/ n.pend = NoCall /\ d.pc # "failappend"
             \/ n.pend = cur.pend /\ n.status = "Failed"
      PROVE  CallStep(r) /\ rows'[r] = n /\ drv'[p][r] = e
  BY <1>1, <1>6, <1>7, DriverSettles
<1>8. ASSUME NEW e, SetDriver(p, r, e)
      PROVE  drv'[p][r] = e
  BY <1>8 DEF SetDriver, TypeInv, TypeOK
<1> HIDE DEF d, cur, next, h
<1>9. CASE StepLoad(p, r) \/ BudgetExceeded(p, r) \/ StepFails(p, r) \/ LoopReturns(p, r)
           \/ OutcomeOverrun(p, r) \/ FailLoad(p, r) \/ FailConflict(p, r) \/ Release(p, r)
  <2>1. UNCHANGED <<rows, journal, lastCall>>
    BY <1>9 DEF StepLoad, BudgetExceeded, StepFails, LoopReturns, OutcomeOverrun,
                FailLoad, FailConflict, Release, store
  <2>2. \/ \E pc \in {"outcome", "failload", "returned"} : drv'[p][r] = Leaving(pc)
        \/ drv'[p][r] = IdleDriver
        \/ \E pc \in {"loaded", "failappend"} : drv'[p][r] = Holding(p, r, pc, rows[r])
    BY <1>8, <1>9 DEF StepLoad, BudgetExceeded, StepFails, LoopReturns, OutcomeOverrun,
                      FailLoad, FailConflict, Release, Goto
  <2>3. drv'[p][r].pc \notin {"model", "acked", "tool"}
    BY <2>2, FreeDriverPC, HoldingFields
  <2>4. QED
    BY <2>1, <2>3, FreeDriverCalls
<1>10. CASE VerificationFails(p, r) \/ Complete(p, r) \/ Wait(p, r)
  <2>1. /\ d.pc \in {"loaded", "model", "acked"} /\ cur.pend = NoCall /\ lastCall' = lastCall
    BY <1>2, <1>5, <1>10 DEF VerificationFails, Complete, Wait, At, DriverCalls, d, cur
  <2>2. \E s \in RunStatus, w \in Waits :
            StepAppend(p, r, NextSnapshot(cur, s, w), {}, Leaving("outcome"))
    BY <1>4, <1>5, <1>10 DEF VerificationFails, Complete, Wait, cur
  <2>3. CallStep(r) /\ drv'[p][r] = Leaving("outcome")
    BY <1>3, <1>7, <2>1, <2>2
  <2>4. QED
    BY <2>3, FreeDriverPC, FreeDriverCalls
<1>11. CASE FailAppend(p, r)
  <2>1. /\ d.pc = "failappend" /\ lastCall' = lastCall
        /\ StepAppend(p, r, NextSnapshot(cur, "Failed", "none"), {}, Leaving("returned"))
    BY <1>5, <1>11 DEF FailAppend, At, d, cur
  <2>2. CallStep(r) /\ drv'[p][r] = Leaving("returned")
    BY <1>3, <1>4, <1>7, <2>1
  <2>3. QED
    BY <2>2, FreeDriverPC, FreeDriverCalls
<1>12. CASE Advance(p, r) \/ ModelContinues(p, r)
  <2>1. /\ d.pc \in {"loaded", "model"} /\ cur.pend = NoCall /\ lastCall' = lastCall
        /\ StepAppend(p, r, next, {}, NextStep(d))
    BY <1>2, <1>5, <1>12 DEF Advance, ModelContinues, At, DriverCalls, d, cur, next
  <2>2. CallStep(r) /\ drv'[p][r] = NextStep(d)
    BY <1>3, <1>4, <1>7, <2>1 DEF next
  <2>3. QED
    BY <2>2, FreeDriverPC, FreeDriverCalls
<1>13. CASE RequestModel(p, r) \/ ModelAcknowledged(p, r)
  <2>1. /\ d.pc \in {"loaded", "model"} /\ cur.pend = NoCall /\ lastCall' = lastCall
    BY <1>2, <1>5, <1>13 DEF RequestModel, ModelAcknowledged, At, DriverCalls, d, cur
  <2>2. PICK pc \in {"model", "acked"} :
            StepAppend(p, r, next, {}, Holding(p, r, pc, next))
    BY <1>5, <1>13 DEF RequestModel, ModelAcknowledged, cur, next
  <2>3. CallStep(r) /\ drv'[p][r] = Holding(p, r, pc, next) /\ next.pend = NoCall
    BY <1>3, <1>4, <1>7, <2>1, <2>2 DEF next
  <2>4. drv'[p][r].pc = pc /\ drv'[p][r].cur = next
    BY <2>3, HoldingFields
  <2>5. QED
    BY <2>3, <2>4 DEF DriverCalls
<1>14. CASE ToolRejected(p, r)
  <2> DEFINE call == lastCall + 1
  <2>1. /\ d.pc = "model" /\ cur.pend = NoCall /\ lastCall' = call
    BY <1>2, <1>14 DEF ToolRejected, At, DriverCalls, d, cur
  <2>2. PICK cost \in Costs :
            StepAppend(p, r, next, {ToolEvent("rejected", call, cost)}, NextStep(d))
    BY <1>5, <1>14 DEF ToolRejected, cur, next
  <2>3. call \notin CallsOf(h, Proposing) /\ call \notin CallsOf(h, Ending)
        /\ call \in 0 .. call
    BY <1>1, <1>2, FreshCall
  <2> HIDE DEF call
  <2>4. CallStep(r) /\ drv'[p][r] = NextStep(d)
    <3> DEFINE ev == {ToolEvent("rejected", call, cost)}
    <3>1. /\ EventCalls(ev, Proposing) = {call} /\ EventCalls(ev, Ending) = {call}
          /\ \A e \in ev : ~IsUnknown(e)
          /\ ToolEvent("started", cur.pend, cur.cost) \notin ev
      BY RejectedCalls
    <3>2. next.version = cur.version + 1 /\ next.pend = NoCall
      BY <1>3, <1>4, <2>1 DEF next
    <3> HIDE DEF ev
    <3>3. lastCall' \in {lastCall, lastCall + 1}
      BY <2>1 DEF call
    <3>4. StepAppend(p, r, next, ev, NextStep(d))
      BY <2>2 DEF ev
    <3>5. QED
      BY <2>1, <2>3, <3>1, <3>2, <3>3, <3>4, DriverSettles DEF d, cur, h
  <2>5. QED
    BY <2>4, FreeDriverPC, FreeDriverCalls
<1>15. CASE ToolStarted(p, r)
  <2> DEFINE call == lastCall + 1
  <2>1. /\ d.pc = "model" /\ cur.pend = NoCall /\ lastCall' = call
    BY <1>2, <1>15 DEF ToolStarted, At, DriverCalls, d, cur
  <2>2. PICK cost \in Costs :
            StepAppend(p, r, next, {ToolEvent("started", call, cost)},
                       [Holding(p, r, "tool", next) EXCEPT !.call = call, !.cost = cost])
    BY <1>5, <1>15 DEF ToolStarted, cur, next
  <2>3. call \notin CallsOf(h, Proposing) /\ call \notin CallsOf(h, Ending)
        /\ call \in 0 .. call
    BY <1>1, <1>2, FreshCall
  <2> DEFINE ev == {ToolEvent("started", call, cost)}
             e  == [Holding(p, r, "tool", next) EXCEPT !.call = call, !.cost = cost]
  <2>4. /\ EventCalls(ev, Proposing) = {call} /\ EventCalls(ev, Ending) = {}
        /\ \A x \in ev : ~IsUnknown(x)
    BY StartedCalls
  <2>5. e.pc = "tool" /\ e.cur = next /\ e.call = call
    BY HoldingFields
  <2>6. StepAppend(p, r, next, ev, e)
    BY <2>2
  <2>7. next.version = cur.version + 1 /\ next.pend = NoCall
    BY <1>3, <1>4, <2>1 DEF next
  <2>8. lastCall' \in {lastCall, lastCall + 1}
    BY <2>1
  <2> HIDE DEF call, e
  <2>9. CallStep(r) /\ drv'[p][r] = e
    <3> HIDE DEF ev
    <3>1. QED
      BY <2>1, <2>3, <2>4, <2>6, <2>7, <2>8, DriverSettles DEF d, cur, h
  <2>10. Appends(r, next, ev, NoCmd)
    BY <2>6 DEF StepAppend, AppendBatch, Appends
  <2>11. DriverCalls(e, journal'[r], rows'[r])
    BY <2>3, <2>5, <2>7, <2>10, StartedDriver DEF h
  <2>12. QED
    BY <2>9, <2>11
<1>16. CASE RecoveredToolRejected(p, r) \/ RecoveredToolStarted(p, r)
  <2> DEFINE call == cur.pend
             cost == cur.cost
             n    == TakePending(cur)
  <2>1. d.pc = "loaded" /\ call # NoCall /\ lastCall' = lastCall
    BY <1>5, <1>16 DEF RecoveredToolRejected, RecoveredToolStarted, At, d, cur
  <2>2. n.version = cur.version + 1 /\ n.pend = NoCall
    BY <1>3
  <2>3. ASSUME Current(rows[r], cur), rows[r].version = cur.version
        PROVE  /\ call \notin CallsOf(h, Proposing) /\ call \notin CallsOf(h, Ending)
               /\ call \in 0 .. lastCall
               /\ cost = "High" => cur.granted \/ call = h[1].snap.pend
    <3>1. rows[r] = cur /\ cur.status = "Running"
      BY <1>2, <2>1, <2>3 DEF Current, DriverHolds, cur
    <3>2. /\ call \notin CallsOf(h, Proposing) /\ call \in 0 .. lastCall
          /\ cost = "High" => cur.granted \/ call = h[1].snap.pend
      BY <1>2, <2>1, <3>1 DEF RowCalls
    <3>3. QED
      BY <1>1, <1>2, <3>2, FreshCall
  <2>4. ASSUME NEW ev, NEW e, StepAppend(p, r, n, ev, e)
        PROVE  /\ Current(rows[r], cur) /\ rows[r].version = cur.version
               /\ Appends(r, n, ev, NoCmd)
    BY <1>2, <1>5, <2>1, <2>4
       DEF StepAppend, AppendBatch, VersionMatches, Appends, DriverHolds, cur
  <2>5. lastCall' \in {lastCall, lastCall + 1} /\ 0 .. lastCall' = 0 .. lastCall
    BY <2>1
  <2> HIDE DEF call, cost, n
  <2>6. CASE RecoveredToolRejected(p, r)
    <3> DEFINE ev == {ToolEvent("rejected", call, cost)}
    <3>1. StepAppend(p, r, n, ev, NextStep(d))
      BY <1>5, <2>6 DEF RecoveredToolRejected, cur, call, cost, n
    <3>2. /\ EventCalls(ev, Proposing) = {call} /\ EventCalls(ev, Ending) = {call}
          /\ \A e \in ev : ~IsUnknown(e)
          /\ ToolEvent("started", cur.pend, cur.cost) \notin ev
      BY RejectedCalls
    <3> HIDE DEF ev
    <3>3. /\ call \notin CallsOf(h, Proposing) /\ call \notin CallsOf(h, Ending)
          /\ call \in 0 .. lastCall'
      BY <2>3, <2>4, <2>5, <3>1
    <3>4. CallStep(r) /\ drv'[p][r] = NextStep(d)
      BY <2>1, <2>2, <2>5, <3>1, <3>2, <3>3, DriverSettles DEF d, cur, h
    <3>5. QED
      BY <3>4, FreeDriverPC, FreeDriverCalls
  <2>7. CASE RecoveredToolStarted(p, r)
    <3> DEFINE ev == {ToolEvent("started", call, cost)}
               e  == [Holding(p, r, "tool", n) EXCEPT !.call = call, !.cost = cost]
    <3>1. StepAppend(p, r, n, ev, e)
      BY <1>5, <2>7 DEF RecoveredToolStarted, cur, call, cost, n
    <3>2. /\ EventCalls(ev, Proposing) = {call} /\ EventCalls(ev, Ending) = {}
          /\ \A x \in ev : ~IsUnknown(x)
      BY StartedCalls
    <3>3. e.pc = "tool" /\ e.cur = n /\ e.call = call
      BY HoldingFields
    <3> HIDE DEF e
    <3>4. /\ call \notin CallsOf(h, Proposing) /\ call \notin CallsOf(h, Ending)
          /\ call \in 0 .. lastCall'
          /\ cost = "High" => cur.granted \/ call = h[1].snap.pend
          /\ Appends(r, n, ev, NoCmd)
      BY <2>3, <2>4, <2>5, <3>1
    <3>5. CallStep(r) /\ drv'[p][r] = e
      <4> HIDE DEF ev
      <4>1. QED
        BY <2>1, <2>2, <2>5, <3>1, <3>2, <3>4, DriverSettles DEF d, cur, h, call, cost
    <3>6. DriverCalls(e, journal'[r], rows'[r])
      BY <2>2, <3>3, <3>4, StartedDriver DEF h
    <3>7. QED
      BY <3>5, <3>6
  <2>8. QED
    BY <1>16, <2>6, <2>7
<1>17. CASE ToolEnded(p, r)
  <2> DEFINE call == d.call
             ev   == {ToolEvent("ended", call, d.cost)}
  <2>1. /\ d.pc = "tool" /\ cur.pend = NoCall /\ lastCall' = lastCall
        /\ StepAppend(p, r, next, ev, NextStep(d))
    BY <1>2, <1>5, <1>17 DEF ToolEnded, At, DriverCalls, d, cur, next
  <2>2. rows[r].version = cur.version
    BY <1>5, <2>1 DEF StepAppend, AppendBatch, VersionMatches, cur
  <2>3. call \in CallsOf(h, Proposing) /\ call \notin CallsOf(h, Ending)
    BY <1>1, <1>2, <2>1, <2>2, FreshCall DEF DriverCalls, cur
  <2>4. /\ EventCalls(ev, Proposing) = {} /\ EventCalls(ev, Ending) = {call}
        /\ \A e \in ev : ~IsUnknown(e)
        /\ ToolEvent("started", cur.pend, cur.cost) \notin ev
    BY EndedCalls
  <2>5. next.version = cur.version + 1 /\ next.pend = NoCall
    BY <1>3, <1>4, <2>1 DEF next
  <2> HIDE DEF call, ev
  <2>6. CallStep(r) /\ drv'[p][r] = NextStep(d)
    BY <1>1, <2>1, <2>3, <2>4, <2>5, DriverSettles DEF d, cur, h
  <2>7. QED
    BY <2>6, FreeDriverPC, FreeDriverCalls
<1>18. QED
  BY <1>9, <1>10, <1>11, <1>12, <1>13, <1>14, <1>15, <1>16, <1>17 DEF DriverNext

-----------------------------------------------------------------------------
(* What requests do to the calls.                                          *)

(* A new Run has proposed nothing; a retry inherits a pending call.        *)
NewCalls(r) ==
    /\ r \in Runs \ Created
    /\ journal[r] = <<>>
    /\ lastCall' = lastCall
    /\ \E snap, cmd : /\ Appends(r, snap, {}, cmd)
                      /\ rows' = [rows EXCEPT ![r] = snap]
                      /\ snap.pend \in 0 .. lastCall
                      /\ snap.status = "WaitingForInput" => snap.pend = NoCall

(* A request that has returned, or is about to, holds no snapshot.         *)
LEMMA DroppedCur ==
    ASSUME NEW req \in Requests, NEW run, NEW ok, NEW wake
    PROVE  /\ Replied(run, ok).cur = AbsentRun /\ Waking(req, run).cur = AbsentRun
           /\ Receipting(req, wake).cur = AbsentRun
BY DEF Replied, Waking, Receipting, IdleRequest, Requests

(* What a request holds, it held before or has just read; it decides to    *)
(* mark a call in assess only.                                             *)
LEMMA RequestReads ==
    ASSUME TypeInv, AddressInv, LedgerInv, NoWindow, NEW q \in Slots,
           RequestNext(q) \/ CallFails(q)
    PROVE  /\ \/ reqs'[q].cur \in {reqs[q].cur, AbsentRun}
              \/ \E r \in Runs : reqs'[q].cur = rows[r]
           /\ reqs'[q].pc = "mark" => Assess(q)
<1> DEFINE req == reqs[q]
           goal == /\ \/ reqs'[q].cur \in {req.cur, AbsentRun}
                      \/ \E r \in Runs : reqs'[q].cur = rows[r]
                   /\ reqs'[q].pc = "mark" => Assess(q)
<1> SUFFICES goal
  OBVIOUS
<1>1. req \in Requests /\ Known(req, Created) /\ Created \subseteq Runs
  BY CreatedRuns DEF TypeInv, TypeOK, AddressInv
<1>3. ASSUME NEW n, SetRequest(q, n)
      PROVE  reqs'[q] = n
  BY <1>3 DEF SetRequest, TypeInv, TypeOK
<1>4. ASSUME NEW run, \/ Reply(q, run) \/ Refuse(q) \/ Wake(q, run)
                      \/ \E wake : SetRequest(q, Receipting(req, wake))
      PROVE  goal
  <2>1. \/ \E r, ok : reqs'[q] = Replied(r, ok)
        \/ reqs'[q] = Waking(req, run)
        \/ \E wake : reqs'[q] = Receipting(req, wake)
    BY <1>3, <1>4 DEF Reply, Refuse, Wake
  <2>2. reqs'[q].cur = AbsentRun
    BY <1>1, <2>1, DroppedCur
  <2>3. reqs'[q].pc # "mark"
    BY <1>1, <2>1, ReturnedFields, ReceiptingFields
  <2>4. QED
    BY <2>2, <2>3
<1>5. ASSUME NEW pc, pc # "mark", SetRequest(q, [req EXCEPT !.pc = pc])
      PROVE  goal
  <2>1. reqs'[q] = [req EXCEPT !.pc = pc]
    BY <1>3, <1>5
  <2>2. reqs'[q].pc = pc /\ reqs'[q].cur = req.cur
    BY <1>1, <2>1, GotoFields
  <2>3. QED
    BY <1>5, <2>2
<1>6. ASSUME NEW r \in Runs, NEW pc, pc # "mark", NEW run,
             \/ SetRequest(q, [req EXCEPT !.pc = pc, !.run = run, !.cur = rows[r]])
             \/ SetRequest(q, [req EXCEPT !.pc = pc, !.cur = rows[r], !.run = run])
      PROVE  goal
  <2>1. \/ reqs'[q] = [req EXCEPT !.pc = pc, !.run = run, !.cur = rows[r]]
        \/ reqs'[q] = [req EXCEPT !.pc = pc, !.cur = rows[r], !.run = run]
    BY <1>3, <1>6
  <2>2. reqs'[q].pc = pc /\ reqs'[q].cur = rows[r]
    BY <1>1, <2>1 DEF Requests
  <2>3. QED
    BY <1>6, <2>2
<1> HIDE DEF req, goal
<1>7. CASE CheckReceipt(q)
  <2>1. \/ \E run : Reply(q, run) \/ Refuse(q)
        \/ \E pc \in {"commit", "load"} : SetRequest(q, [req EXCEPT !.pc = pc])
    BY <1>7 DEF CheckReceipt, RequestGoto, req
  <2>2. QED
    BY <1>4, <1>5, <2>1
<1>8. CASE ResumeLoad(q)
  <2>1. CASE created = <<>>
    <3>1. SetRequest(q, [req EXCEPT !.pc = "commit"])
      BY <1>8, <2>1 DEF ResumeLoad, RequestGoto, req
    <3>2. QED
      BY <1>5, <3>1
  <2>2. CASE created # <<>>
    <3> DEFINE last == created[Len(created)]
               pc   == IF rows[last].status = "Failed" THEN "commit" ELSE "read"
    <3>1. SetRequest(q, [req EXCEPT !.pc = pc, !.run = last, !.cur = rows[last]])
      BY <1>8, <2>2 DEF ResumeLoad, req
    <3>2. last \in Runs /\ pc # "mark"
      BY <2>2, LastCreated
    <3> HIDE DEF last, pc
    <3>3. QED
      BY <1>6, <3>1, <3>2
  <2>3. QED
    BY <2>1, <2>2
<1>9. CASE AnswerLoad(q) \/ CancelLoad(q)
  <2>1. req.target \in Runs
    BY <1>1, <1>9 DEF AnswerLoad, CancelLoad, Known, req
  <2>2. \/ Refuse(q)
        \/ SetRequest(q, [req EXCEPT !.pc = "commit", !.cur = rows[req.target],
                                     !.run = req.target])
    BY <1>9 DEF AnswerLoad, CancelLoad, req
  <2>3. QED
    BY <1>4, <1>6, <2>1, <2>2
<1>10. CASE \/ StartRecommit(q) \/ ResumeRecommit(q) \/ UpdateRecommit(q)
            \/ CommitStart(q) \/ CommitResume(q) \/ CommitAnswer(q) \/ CommitCancel(q)
            \/ CommitConflict(q) \/ ReadCorrupt(q) \/ MarkIndeterminate(q)
            \/ MarkConflict(q) \/ CommitResumed(q) \/ Schedule(q) \/ CallFails(q)
  <2>1. \E run : \/ Reply(q, run) \/ Refuse(q) \/ Wake(q, run)
                 \/ \E wake : SetRequest(q, Receipting(req, wake))
    BY <1>10 DEF StartRecommit, ResumeRecommit, UpdateRecommit, CommitStart, CommitResume,
                 CommitAnswer, CommitCancel, CommitConflict, ReadCorrupt,
                 MarkIndeterminate, MarkConflict, CommitResumed, Schedule, CallFails, req
  <2>2. QED
    BY <1>4, <2>1
<1>11. CASE Reconstruct(q) \/ ReadProjection(q)
  <2>1. /\ req.pc = "read" /\ req.run \in Created /\ Projectable(journal[req.run])
    BY <1>1, <1>11 DEF Reconstruct, ReadProjection, RequestAt, Known, req
  <2>2. req.run \in Runs /\ rows[req.run] = Projection(journal[req.run])
    BY <1>1, <2>1 DEF LedgerInv, RowIsLastProjection, Projectable
  <2>3. CASE Reconstruct(q)
    <3>1. SetRequest(q, AfterReconstruct(req, Projection(journal[req.run])))
      BY <2>3 DEF Reconstruct, req
    <3>2. reqs'[q] = AfterReconstruct(req, rows[req.run])
      BY <1>3, <2>2, <3>1
    <3>3. reqs'[q].cur \in {req.cur, rows[req.run]} /\ reqs'[q].pc # "mark"
      BY <1>1, <3>2, ReconstructFields
    <3>4. QED
      BY <2>2, <3>3 DEF goal
  <2>4. CASE ReadProjection(q)
    <3>1. SetRequest(q, [req EXCEPT !.pc = "compare",
                                    !.seen = Projection(journal[req.run])])
      BY <2>4 DEF ReadProjection, req
    <3>2. reqs'[q] = [req EXCEPT !.pc = "compare", !.seen = rows[req.run]]
      BY <1>3, <2>2, <3>1
    <3>3. reqs'[q].cur = req.cur /\ reqs'[q].pc # "mark"
      BY <1>1, <3>2 DEF Requests
    <3>4. QED
      BY <3>3 DEF goal
  <2>5. QED
    BY <1>11, <2>3, <2>4
<1>12. CASE CompareCache(q) \/ ReplaceCache(q)
  BY <1>12 DEF CompareCache, ReplaceCache, RequestAt, NoWindow
<1>13. CASE Assess(q)
  <2>1. \/ Refuse(q)
        \/ \E wake : SetRequest(q, Receipting(req, wake))
        \/ \E call, cost, ev :
              SetRequest(q, [req EXCEPT !.pc = "mark", !.call = call, !.cost = cost,
                                        !.ev = ev, !.seen = AbsentRun])
    BY <1>13 DEF Assess, req
  <2>2. ASSUME NEW call, NEW cost, NEW ev,
               SetRequest(q, [req EXCEPT !.pc = "mark", !.call = call, !.cost = cost,
                                         !.ev = ev, !.seen = AbsentRun])
        PROVE  goal
    <3>1. reqs'[q] = [req EXCEPT !.pc = "mark", !.call = call, !.cost = cost,
                                 !.ev = ev, !.seen = AbsentRun]
      BY <1>3, <2>2
    <3>2. reqs'[q].cur = req.cur
      BY <1>1, <3>1 DEF Requests
    <3>3. QED
      BY <1>13, <3>2 DEF goal
  <2>3. QED
    BY <1>4, <2>1, <2>2
<1>14. QED
  BY <1>7, <1>8, <1>9, <1>10, <1>11, <1>12, <1>13 DEF RequestNext

(* What a request's step does to the calls of the Runs.                    *)
LEMMA RequestCallStep ==
    ASSUME TypeInv, AddressInv, LedgerInv, HeldInv, CallInv, NoWindow, NEW q \in Slots,
           RequestNext(q) \/ CallFails(q)
    PROVE  \/ UNCHANGED <<rows, journal, lastCall>>
           \/ \E r \in Runs : CallStep(r) \/ NewCalls(r)
<1> DEFINE req == reqs[q]
           cur == req.cur
           run == req.run
           h   == journal[run]
<1>1. /\ req \in Requests /\ cur \in Snapshots /\ req.call \in Nat
      /\ req.cost \in CostClasses /\ Known(req, Created)
      /\ lastCall \in Nat /\ lastCall + 1 \in Nat /\ cur.pend \in Nat
  BY DEF TypeInv, TypeOK, AddressInv, Requests, Snapshots
<1>2. /\ Created \subseteq Runs /\ NoRun \notin Created /\ cur.pend <= lastCall
      /\ RequestCalls(req, h, rows[run])
      /\ run \in Created =>
            /\ RequestHolds(req, rows[run]) /\ JournalCalls(h, lastCall)
            /\ RowCalls(h, rows[run], lastCall)
  BY CreatedRuns, RunsAssumption DEF CallInv, HeldInv
<1>3. /\ RunStatus = {"Running", "WaitingForInput", "Succeeded", "Failed", "Cancelled"}
      /\ "none" \in Waits
  BY DEF RunStatus, Waits
<1>4. ASSUME NEW next, NEW ev, NEW cmd, run \in Created, Current(rows[run], cur),
             AppendBatch(run, cur, next, ev, cmd), next.version = cur.version + 1,
             lastCall' \in {lastCall, lastCall + 1},
             rows[run] = cur => Sound(h, cur, next, ev, lastCall')
      PROVE  CallStep(run) /\ run \in Runs
  <2>1. /\ rows[run] = cur /\ rows' = [rows EXCEPT ![run] = next]
        /\ Appends(run, next, ev, cmd)
    BY <1>4, OnRow
  <2>2. QED
    BY <1>2, <1>4, <2>1 DEF CallStep
<1>5. NoCall \in 0 .. lastCall /\ cur.pend \in 0 .. lastCall
  BY <1>1, <1>2 DEF NoCall
<1> HIDE DEF req, cur, run, h
<1>6. CASE \/ CheckReceipt(q) \/ ResumeLoad(q) \/ AnswerLoad(q) \/ CancelLoad(q)
           \/ StartRecommit(q) \/ ResumeRecommit(q) \/ UpdateRecommit(q)
           \/ CommitConflict(q) \/ ReadProjection(q) \/ ReadCorrupt(q)
           \/ CompareCache(q) \/ Assess(q) \/ MarkConflict(q)
           \/ Schedule(q) \/ CallFails(q) \/ CommitResumed(q)
  BY <1>6 DEF CheckReceipt, ResumeLoad, AnswerLoad, CancelLoad, StartRecommit,
              ResumeRecommit, UpdateRecommit, Recommit, CommitConflict,
              ReadProjection, ReadCorrupt, CompareCache, Assess, MarkConflict,
              Schedule, CallFails, CommitResumed, store
<1>7. CASE Reconstruct(q) \/ ReplaceCache(q)
  <2>1. Reconstruct(q)
    BY <1>7 DEF ReplaceCache, RequestAt, NoWindow
  <2>2. run \in Created
    BY <1>1, <2>1 DEF Reconstruct, RequestAt, Known, req, run
  <2>3. rows' = rows
    BY <2>1, ReconstructLedger
  <2>4. QED
    BY <2>1, <2>3 DEF Reconstruct
<1>8. CASE CommitStart(q) \/ CommitResume(q)
  <2>1. lastCall' = lastCall
    BY <1>8 DEF CommitStart, CommitResume
  <2>2. PICK new \in FreshRuns : \E snap :
            /\ InsertRun(new, snap, req.cmd)
            /\ \/ snap \in {RunningSnapshot, WaitingSnapshot}
               \/ snap = RetrySnapshot(cur, run)
    BY <1>8 DEF CommitStart, CommitResume, req, cur, run
  <2>3. PICK snap :
            /\ InsertRun(new, snap, req.cmd)
            /\ \/ snap \in {RunningSnapshot, WaitingSnapshot}
               \/ snap = RetrySnapshot(cur, run)
    BY <2>2
  <2>4. snap.pend \in 0 .. lastCall /\ (snap.status = "WaitingForInput" => snap.pend = NoCall)
    <3>1. RunningSnapshot.pend = NoCall /\ WaitingSnapshot.pend = NoCall
      BY DEF RunningSnapshot, WaitingSnapshot, AbsentRun
    <3>2. RetrySnapshot(cur, run).pend = cur.pend /\ RetrySnapshot(cur, run).status = "Running"
      BY <1>1, RetryFields
    <3>3. QED
      BY <1>5, <2>3, <3>1, <3>2
  <2>5. /\ Appends(new, snap, {}, req.cmd) /\ journal[new] = <<>> /\ new \in Runs \ Created
    BY <2>3, InsertAppends
  <2>6. rows' = [rows EXCEPT ![new] = snap]
    BY <2>3 DEF InsertRun
  <2>7. NewCalls(new)
    BY <2>1, <2>4, <2>5, <2>6 DEF NewCalls
  <2>8. QED
    BY <2>5, <2>7
<1>9. CASE CommitAnswer(q)
  <2> DEFINE confirm == cur.wait = "confirm"
             next    == AnsweredSnapshot(cur, lastCall')
  <2>1. /\ req.pc = "commit" /\ req.kind = "answer"
        /\ lastCall' = IF confirm THEN lastCall + 1 ELSE lastCall
        /\ AppendBatch(run, cur, next, {RunResumed}, req.cmd)
    BY <1>9 DEF CommitAnswer, RequestAt, req, cur, run
  <2>2. run \in Created /\ Current(rows[run], cur) /\ cur.status = "WaitingForInput"
    BY <1>1, <1>2, <2>1 DEF Known, RequestHolds, AnswerHolds, req, cur, run
  <2>3. lastCall' \in Nat /\ lastCall' \in {lastCall, lastCall + 1}
    BY <1>1, <2>1
  <2>4. /\ next.version = cur.version + 1 /\ next.status = "Running"
        /\ confirm => next.pend = lastCall' /\ next.granted = TRUE
        /\ ~confirm => next.pend = cur.pend
    <3>1. next.version = cur.version + 1
      BY <1>1, <2>3, AnsweredSnapshotFacts
    <3>2. PICK minted \in Nat : minted = lastCall'
      BY <2>3
    <3>3. LET n == AnsweredSnapshot(cur, minted) IN
          /\ n.status = "Running" /\ n.wait = "none" /\ SameRun(n, cur)
          /\ n.cost = cur.cost
          /\ cur.wait = "confirm" => n.pend = minted /\ n.granted = TRUE
          /\ cur.wait # "confirm" => n.pend = cur.pend /\ n.granted = cur.granted
      BY <1>1, AnsweredFields
    <3>4. QED
      BY <3>1, <3>2, <3>3
  <2>5. ASSUME rows[run] = cur
        PROVE  Sound(h, cur, next, {RunResumed}, lastCall')
    <3> DEFINE ev == {RunResumed}
    <3>1. /\ EventCalls(ev, Proposing) = {} /\ EventCalls(ev, Ending) = {}
          /\ ToolEvent("started", cur.pend, cur.cost) \notin ev /\ RunResumed \in ev
      BY ResumedCalls
    <3>2. CASE confirm
      <4>1. lastCall' = lastCall + 1 /\ next.pend = lastCall + 1 /\ next.granted = TRUE
        BY <2>1, <2>4, <3>2
      <4>2. lastCall + 1 \notin CallsOf(h, Proposing) /\ lastCall + 1 \in 0 .. lastCall + 1
        BY <1>1, <1>2, <2>2, FreshCall
      <4> HIDE DEF ev, next, confirm
      <4>3. QED
        BY <2>4, <3>1, <4>1, <4>2 DEF Sound, ev
    <3>3. CASE ~confirm
      <4>1. next.pend = NoCall /\ lastCall' = lastCall
        BY <1>2, <2>1, <2>2, <2>4, <2>5, <3>3 DEF RowCalls
      <4> HIDE DEF ev, next, confirm
      <4>2. QED
        BY <1>5, <2>4, <3>1, <4>1 DEF Sound, ev
    <3>4. QED
      BY <3>2, <3>3
  <2> HIDE DEF next
  <2>6. QED
    BY <1>4, <2>1, <2>2, <2>3, <2>4, <2>5
<1>10. CASE CommitCancel(q)
  <2> DEFINE next == NextSnapshot(cur, "Cancelled", "none")
  <2>1. /\ req.pc = "commit" /\ req.kind = "cancel" /\ lastCall' = lastCall
        /\ AppendBatch(run, cur, next, {}, req.cmd)
    BY <1>10 DEF CommitCancel, RequestAt, req, cur, run
  <2>2. run \in Created /\ Current(rows[run], cur)
    BY <1>1, <1>2, <2>1 DEF Known, RequestHolds, CancelHolds, req, cur, run
  <2>3. next.version = cur.version + 1 /\ next.status = "Cancelled"
    BY <1>1, <1>3, NextSnapshotFields, NextSnapshotFacts
  <2>4. next.pend = cur.pend
    BY <1>1, <1>3, NextSnapshotFields
  <2>5. Sound(h, cur, next, {}, lastCall')
    <3>1. EventCalls({}, Proposing) = {} /\ EventCalls({}, Ending) = {}
      BY NoCalls
    <3> HIDE DEF next
    <3>2. QED
      BY <1>5, <2>1, <2>3, <2>4, <3>1 DEF Sound
  <2> HIDE DEF next
  <2>6. QED
    BY <1>4, <2>1, <2>2, <2>3, <2>5
<1>11. CASE MarkIndeterminate(q)
  <2> DEFINE call == req.call
             cost == req.cost
             ev   == req.ev
             next == IndeterminateSnapshot(cur, call, cost, lastCall')
  <2>1. /\ req.pc = "mark" /\ AppendBatch(run, cur, next, ev, NoCmd)
        /\ lastCall' = IF cost = "Low" THEN lastCall + 1 ELSE lastCall
    BY <1>11 DEF MarkIndeterminate, RequestAt, req, cur, run
  <2>2. run \in Created /\ Current(rows[run], cur) /\ rows[run].version = cur.version
    BY <1>1, <1>2, <2>1
       DEF Known, RequestHolds, RecoveryHolds, AppendBatch, VersionMatches, req, cur, run
  <2>3. lastCall' \in Nat /\ lastCall' \in {lastCall, lastCall + 1}
    BY <1>1, <2>1
  <2>4. next.version = cur.version + 1
    BY <1>1, <2>3, IndeterminateSnapshotFacts
  <2>5. /\ next.cost = cost
        /\ cost = "Low" => next.status = "Running" /\ next.pend = lastCall'
        /\ cost # "Low" => /\ next.status = "WaitingForInput" /\ next.wait = "confirm"
                           /\ next.pend = call
    BY <1>1, <2>3, IndeterminateFields
  <2>6. ev = IndeterminateEvents(call, cost) /\ call \in UnfinishedCalls(h)
    BY <1>2, <2>1, <2>2 DEF RequestCalls, cur
  <2>7. /\ call \in CallsOf(h, Proposing) /\ call \notin CallsOf(h, Ending)
        /\ call \in 0 .. lastCall
        /\ lastCall + 1 \notin CallsOf(h, Proposing) /\ lastCall + 1 \in 0 .. lastCall + 1
    BY <1>1, <1>2, <2>2, <2>6, FreshCall DEF JournalCalls
  <2>8. /\ EventCalls(ev, Proposing) = {} /\ EventCalls(ev, Ending) = {call}
        /\ cost = "Low" => RunResumed \in ev
        /\ ToolEvent("started", cur.pend, cur.cost) \notin ev
    BY <2>6, IndeterminateCalls
  <2> HIDE DEF call, cost, ev, next
  <2>9. Sound(h, cur, next, ev, lastCall')
    <3>1. CASE cost = "Low"
      BY <2>1, <2>5, <2>7, <2>8, <3>1 DEF Sound
    <3>2. CASE cost # "Low"
      BY <2>1, <2>5, <2>7, <2>8, <3>2 DEF Sound
    <3>3. QED
      BY <3>1, <3>2
  <2>10. QED
    BY <1>4, <2>1, <2>2, <2>3, <2>4, <2>9
<1>12. QED
  BY <1>6, <1>7, <1>8, <1>9, <1>10, <1>11 DEF RequestNext

(* The call a recovery decides to mark is unfinished, if the row it will   *)
(* append to is still the one it has assessed.                             *)
LEMMA RequestMarks ==
    ASSUME TypeInv, AddressInv, LedgerInv, HeldInv, CallInv, NoWindow, NEW q \in Slots,
           RequestNext(q) \/ CallFails(q)
    PROVE  RequestCalls(reqs'[q], journal'[reqs'[q].run], rows'[reqs'[q].run])
<1> DEFINE req == reqs[q]
           h   == journal[req.run]
           row == rows[req.run]
<1> SUFFICES ASSUME Assess(q)
             PROVE  RequestCalls(reqs'[q], journal'[reqs'[q].run], rows'[reqs'[q].run])
  BY RequestReads DEF RequestCalls
<1>1. /\ req \in Requests /\ Known(req, Created) /\ Created \subseteq Runs
      /\ req.cur \in Snapshots /\ req.seen \in Snapshots
  BY CreatedRuns DEF TypeInv, TypeOK, AddressInv, Requests
<1>2. /\ req.pc = "facts" /\ rows' = rows /\ journal' = journal
  BY DEF Assess, RequestAt, store
<1>3. req.run \in Created
  BY <1>1, <1>2 DEF Known
<1>4. /\ Current(row, req.seen) /\ Current(row, req.cur) /\ req.cur.version <= req.seen.version
      /\ RowCalls(h, row, lastCall) /\ row \in Snapshots
  BY <1>1, <1>2, <1>3 DEF HeldInv, CallInv, RequestHolds, RecoveryHolds, TypeInv, TypeOK
<1>5. req.seen.status = "Running" /\ req.cur.version = row.version => ~UnresolvedUnknown(h)
  <2>1. req.cur.version \in Nat /\ req.seen.version \in Nat /\ row.version \in Nat
    BY <1>1, <1>4 DEF Snapshots
  <2>2. QED
    BY <1>4, <2>1 DEF Current, RowCalls
<1>6. ASSUME NEW call, NEW cost, NEW ev,
             reqs' = [reqs EXCEPT ![q] =
                         [req EXCEPT !.pc = "mark", !.call = call, !.cost = cost,
                                     !.ev = ev, !.seen = AbsentRun]],
             req.cur.version = row.version =>
                 ev = IndeterminateEvents(call, cost) /\ call \in UnfinishedCalls(h)
      PROVE  RequestCalls(reqs'[q], journal'[reqs'[q].run], rows'[reqs'[q].run])
  <2> DEFINE n == [req EXCEPT !.pc = "mark", !.call = call, !.cost = cost,
                              !.ev = ev, !.seen = AbsentRun]
  <2>1. /\ n.run = req.run /\ n.cur = req.cur
        /\ n.call = call /\ n.cost = cost /\ n.ev = ev
    BY <1>1 DEF Requests
  <2>2. reqs'[q] = n
    BY <1>6 DEF TypeInv, TypeOK
  <2> HIDE DEF n
  <2>3. /\ journal'[reqs'[q].run] = h /\ rows'[reqs'[q].run] = row
    BY <1>2, <2>1, <2>2
  <2>4. RequestCalls(n, h, row)
    BY <1>6, <2>1 DEF RequestCalls
  <2>5. QED
    BY <2>2, <2>3, <2>4
<1>7. \/ Refuse(q)
      \/ \E wake : SetRequest(q, Receipting(req, wake))
      \/ /\ req.seen.status = "Running"
         /\ \E call, cost, ev :
               /\ reqs' = [reqs EXCEPT ![q] =
                              [req EXCEPT !.pc = "mark", !.call = call, !.cost = cost,
                                          !.ev = ev, !.seen = AbsentRun]]
               /\ \/ ev = IndeterminateEvents(call, cost) /\ call \in UnfinishedCalls(h)
                  \/ UnresolvedUnknown(h)
  BY DEF Assess, SetRequest
<1>8. CASE Refuse(q) \/ \E wake : SetRequest(q, Receipting(req, wake))
  <2>1. \/ \E run, ok : reqs'[q] = Replied(run, ok)
        \/ \E wake : reqs'[q] = Receipting(req, wake)
    BY <1>8 DEF Refuse, SetRequest, TypeInv, TypeOK
  <2>2. reqs'[q].pc # "mark"
    BY <1>1, <2>1, ReturnedFields, ReceiptingFields
  <2>3. QED
    BY <2>2 DEF RequestCalls
<1>9. CASE ~Refuse(q) /\ ~\E wake : SetRequest(q, Receipting(req, wake))
  <2>1. req.seen.status = "Running"
    BY <1>7, <1>9
  <2>2. PICK call, cost, ev :
            /\ reqs' = [reqs EXCEPT ![q] =
                           [req EXCEPT !.pc = "mark", !.call = call, !.cost = cost,
                                       !.ev = ev, !.seen = AbsentRun]]
            /\ \/ ev = IndeterminateEvents(call, cost) /\ call \in UnfinishedCalls(h)
               \/ UnresolvedUnknown(h)
    BY <1>7, <1>9
  <2>3. req.cur.version = row.version =>
            ev = IndeterminateEvents(call, cost) /\ call \in UnfinishedCalls(h)
    BY <1>5, <2>1, <2>2
  <2>4. QED
    BY <1>6, <2>2, <2>3
<1>10. QED
  BY <1>8, <1>9

-----------------------------------------------------------------------------
(* The induction.                                                          *)

(* What the step of one actor leaves true of the Runs and of the others.   *)
CallsKept ==
    /\ lastCall' \in Nat /\ lastCall <= lastCall'
    /\ \A r \in Runs : JournalCalls(journal'[r], lastCall')
    /\ \A r \in Runs : RowCalls(journal'[r], rows'[r], lastCall')
    /\ \A p \in Procs, r \in Runs : DriverCalls(drv[p][r], journal'[r], rows'[r])
    /\ \A q \in Slots : RequestCalls(reqs[q], journal'[reqs[q].run], rows'[reqs[q].run])

LEMMA MoreCalls ==
    ASSUME NEW h, NEW row, NEW last \in Nat, NEW more \in Nat, last <= more,
           JournalCalls(h, last), RowCalls(h, row, last)
    PROVE  JournalCalls(h, more) /\ RowCalls(h, row, more)
<1>1. \A c \in 0 .. last : c \in 0 .. more
  OBVIOUS
<1>2. QED
  BY <1>1 DEF JournalCalls, RowCalls

(* A batch on a row replaces the version that others may hold.             *)
LEMMA CallStepKept ==
    ASSUME TypeInv, AddressInv, LedgerInv, HeldInv, CallInv, NEW r \in Runs, CallStep(r)
    PROVE  CallsKept
<1> DEFINE h == journal[r]
           g == journal'[r]
<1>1. lastCall \in Nat /\ lastCall' \in Nat /\ lastCall <= lastCall'
  BY DEF TypeInv, TypeOK, CallStep
<1>2. PICK next, ev, cmd : /\ Appends(r, next, ev, cmd)
                           /\ rows' = [rows EXCEPT ![r] = next]
                           /\ next.version = rows[r].version + 1
                           /\ Sound(journal[r], rows[r], next, ev, lastCall')
  BY DEF CallStep
<1>3. /\ r \in Created /\ rows[r] \in Snapshots /\ rows[r].version \in Nat /\ rows'[r] = next
      /\ \A s \in Runs \ {r} : rows'[s] = rows[s] /\ journal'[s] = journal[s]
  BY <1>2, AppendsFacts DEF CallStep, TypeInv, TypeOK, Snapshots
<1>4. /\ h \in Seq(Batches) /\ h # <<>> /\ h[Len(h)].snap = rows[r]
  BY <1>3 DEF TypeInv, TypeOK, AddressInv, LedgerInv, RowIsLastProjection, Projection
<1>5. JournalCalls(g, lastCall') /\ RowCalls(g, rows'[r], lastCall')
  <2>1. /\ Len(g) = Len(h) + 1 /\ DOMAIN g = 1 .. Len(h) + 1
        /\ \A i \in 1 .. Len(h) : g[i] = h[i]
        /\ g[Len(h) + 1].ev = ev
    BY <1>2, AppendsFacts
  <2>2. /\ JournalCalls(h, lastCall) /\ RowCalls(h, rows[r], lastCall)
        /\ Sound(h, rows[r], next, ev, lastCall')
    BY <1>2 DEF CallInv
  <2> HIDE DEF g, h
  <2>3. QED
    BY <1>1, <1>3, <1>4, <2>1, <2>2, SoundBatch
<1>6. \A s \in Runs : /\ JournalCalls(journal'[s], lastCall')
                      /\ RowCalls(journal'[s], rows'[s], lastCall')
  <2> TAKE s \in Runs
  <2>1. CASE s = r
    BY <1>5, <2>1
  <2>2. CASE s # r
    BY <1>1, <1>3, <2>2, MoreCalls DEF CallInv
  <2>3. QED
    BY <2>1, <2>2
<1>7. ASSUME NEW p \in Procs, NEW s \in Runs
      PROVE  DriverCalls(drv[p][s], journal'[s], rows'[s])
  <2>1. DriverCalls(drv[p][s], journal[s], rows[s]) /\ DriverHolds(drv[p][s], rows[s])
        /\ drv[p][s].cur \in Snapshots
    BY DEF CallInv, HeldInv, TypeInv, TypeOK, Drivers
  <2>2. CASE s = r
    <3>1. drv[p][s].pc = "tool" => drv[p][s].cur.version # rows'[s].version
      BY <1>2, <1>3, <2>1, <2>2 DEF DriverHolds, Current, Snapshots
    <3>2. QED
      BY <2>1, <3>1 DEF DriverCalls
  <2>3. CASE s # r
    BY <1>3, <2>1, <2>3
  <2>4. QED
    BY <2>2, <2>3
<1>8. ASSUME NEW q \in Slots
      PROVE  RequestCalls(reqs[q], journal'[reqs[q].run], rows'[reqs[q].run])
  <2> DEFINE s == reqs[q].run
  <2>1. CASE reqs[q].pc # "mark"
    BY <2>1 DEF RequestCalls
  <2>2. CASE reqs[q].pc = "mark"
    <3>1. /\ s \in Created /\ s \in Runs /\ reqs[q].cur \in Snapshots
      BY <2>2, CreatedRuns DEF AddressInv, Known, TypeInv, TypeOK, Requests
    <3>2. Current(rows[s], reqs[q].cur) /\ RequestCalls(reqs[q], journal[s], rows[s])
      BY <2>2, <3>1 DEF HeldInv, RequestHolds, RecoveryHolds, CallInv
    <3>3. CASE s = r
      <4>1. reqs[q].cur.version # rows'[s].version
        BY <1>2, <1>3, <3>1, <3>2, <3>3 DEF Current, Snapshots
      <4>2. QED
        BY <4>1 DEF RequestCalls
    <3>4. CASE s # r
      BY <1>3, <3>1, <3>2, <3>4
    <3>5. QED
      BY <3>3, <3>4
  <2>3. QED
    BY <2>1, <2>2
<1>9. QED
  BY <1>1, <1>6, <1>7, <1>8 DEF CallsKept

(* The first batch of a Run speaks of no call.                             *)
LEMMA FirstBatch ==
    ASSUME NEW g, DOMAIN g = 1 .. 1, g[1].ev = {}, NEW snap, g[1].snap = snap,
           NEW last \in Nat, snap.pend \in 0 .. last,
           snap.status = "WaitingForInput" => snap.pend = NoCall
    PROVE  JournalCalls(g, last) /\ RowCalls(g, snap, last)
<1>1. \A i \in DOMAIN g : i = 1 /\ g[i].ev = {}
  OBVIOUS
<1>2. ASSUME NEW types
      PROVE  CallsOf(g, types) = {} /\ ~Repeated(g, types)
  <2>1. \A c : c \notin CallsOf(g, types)
    BY <1>1, CallIn
  <2>2. ~Repeated(g, types)
    BY <1>1 DEF Repeated
  <2>3. QED
    BY <2>1, <2>2
<1>3. \A i \in DOMAIN g : ConfirmedAt(g, i)
  BY <1>1 DEF ConfirmedAt, RecoveredAt
<1>4. ~UnresolvedUnknown(g)
  BY <1>1 DEF UnresolvedUnknown, UnresolvedAt
<1>5. JournalCalls(g, last)
  BY <1>2, <1>3 DEF JournalCalls
<1>6. QED
  BY <1>2, <1>4, <1>5 DEF RowCalls

LEMMA NewCallsKept ==
    ASSUME TypeInv, AddressInv, CallInv, NEW r \in Runs, NewCalls(r)
    PROVE  CallsKept
<1>1. PICK snap, cmd : /\ Appends(r, snap, {}, cmd)
                       /\ rows' = [rows EXCEPT ![r] = snap]
                       /\ snap.pend \in 0 .. lastCall
                       /\ snap.status = "WaitingForInput" => snap.pend = NoCall
  BY DEF NewCalls
<1>2. /\ r \notin Created /\ rows'[r] = snap /\ lastCall' = lastCall /\ lastCall \in Nat
      /\ \A s \in Runs \ {r} : rows'[s] = rows[s] /\ journal'[s] = journal[s]
  BY <1>1, AppendsFacts DEF NewCalls, TypeInv, TypeOK
<1>3. DOMAIN journal'[r] = 1 .. 1 /\ journal'[r][1].snap = snap /\ journal'[r][1].ev = {}
  <2>1. Len(journal[r]) = 0
    BY DEF NewCalls
  <2>2. QED
    BY <1>1, <2>1, AppendsFacts
<1>4. JournalCalls(journal'[r], lastCall') /\ RowCalls(journal'[r], rows'[r], lastCall')
  BY <1>1, <1>2, <1>3, FirstBatch
<1>5. \A s \in Runs : JournalCalls(journal'[s], lastCall')
  BY <1>2, <1>4 DEF CallInv
<1>6. \A s \in Runs : RowCalls(journal'[s], rows'[s], lastCall')
  BY <1>2, <1>4 DEF CallInv
<1>7. \A p \in Procs, s \in Runs : DriverCalls(drv[p][s], journal'[s], rows'[s])
  BY <1>2 DEF CallInv, AddressInv, DriverCalls
<1>8. ASSUME NEW q \in Slots
      PROVE  RequestCalls(reqs[q], journal'[reqs[q].run], rows'[reqs[q].run])
  <2>1. reqs[q].pc = "mark" => reqs[q].run \in Runs \ {r}
    BY <1>2, CreatedRuns DEF AddressInv, Known
  <2>2. QED
    BY <1>2, <2>1 DEF CallInv, RequestCalls
<1>9. QED
  BY <1>2, <1>5, <1>6, <1>7, <1>8 DEF CallsKept

LEMMA SameCallsKept ==
    ASSUME TypeInv, CallInv, UNCHANGED <<rows, journal, lastCall>>
    PROVE  CallsKept
BY DEF CallsKept, CallInv, TypeInv, TypeOK

LEMMA CallNext ==
    ASSUME TypeInv, AddressInv, LedgerInv, HeldInv, CallInv, NoWindow, [Next]_vars
    PROVE  CallInv'
<1>1. ASSUME CallsKept,
             \A p \in Procs, r \in Runs :
                 \/ drv'[p][r] \in {drv[p][r], IdleDriver, NewDriver}
                 \/ DriverCalls(drv'[p][r], journal'[r], rows'[r]),
             \A q \in Slots :
                 \/ reqs'[q] = reqs[q]
                 \/ /\ reqs'[q].cur.pend <= lastCall'
                    /\ RequestCalls(reqs'[q], journal'[reqs'[q].run], rows'[reqs'[q].run])
      PROVE  CallInv'
  <2>1. ASSUME NEW p \in Procs, NEW r \in Runs
        PROVE  DriverCalls(drv'[p][r], journal'[r], rows'[r])
    BY <1>1, FreeDriverPC, FreeDriverCalls DEF CallsKept
  <2>2. ASSUME NEW q \in Slots
        PROVE  /\ reqs'[q].cur.pend <= lastCall'
               /\ RequestCalls(reqs'[q], journal'[reqs'[q].run], rows'[reqs'[q].run])
    <3>1. CASE reqs'[q] = reqs[q]
      <4>1. reqs[q].cur.pend \in Nat /\ reqs[q].cur.pend <= lastCall /\ lastCall \in Nat
        BY DEF CallInv, TypeInv, TypeOK, Requests, Snapshots
      <4>2. QED
        BY <1>1, <3>1, <4>1 DEF CallsKept
    <3>2. QED
      BY <1>1, <3>1
  <2>3. QED
    BY <1>1, <2>1, <2>2 DEF CallInv, CallsKept
<1>2. AbsentRun.pend = 0 /\ IdleRequest.cur = AbsentRun
  BY DEF AbsentRun, NoCall, IdleRequest
<1>3. ASSUME NEW p \in Procs, NEW r \in Runs, DriverNext(p, r)
      PROVE  CallInv'
  <2>1. /\ UNCHANGED <<rows, journal, lastCall>> \/ CallStep(r)
        /\ DriverCalls(drv'[p][r], journal'[r], rows'[r])
    BY <1>3, DriverCallStep
  <2>2. CallsKept
    BY <2>1, SameCallsKept, CallStepKept
  <2>3. reqs' = reqs /\ \E d : drv' = [drv EXCEPT ![p][r] = d]
    BY <1>3, DriverStore DEF SetDriver
  <2>4. \A x \in Procs, s \in Runs : drv'[x][s] = drv[x][s] \/ (x = p /\ s = r)
    BY <2>3 DEF TypeInv, TypeOK
  <2>5. QED
    BY <1>1, <2>1, <2>2, <2>3, <2>4
<1>4. ASSUME NEW q \in Slots, RequestNext(q) \/ CallFails(q)
      PROVE  CallInv'
  <2>1. CallsKept
    BY <1>4, RequestCallStep, SameCallsKept, CallStepKept, NewCallsKept
  <2>2. RequestCalls(reqs'[q], journal'[reqs'[q].run], rows'[reqs'[q].run])
    BY <1>4, RequestMarks
  <2>3. reqs'[q].cur.pend <= lastCall'
    <3>1. \/ reqs'[q].cur \in {reqs[q].cur, AbsentRun}
          \/ \E r \in Runs : reqs'[q].cur = rows[r]
      BY <1>4, RequestReads
    <3>2. /\ reqs[q].cur.pend \in Nat /\ reqs[q].cur.pend <= lastCall /\ lastCall \in Nat
          /\ \A r \in Runs : rows[r].pend \in 0 .. lastCall
      BY DEF CallInv, RowCalls, TypeInv, TypeOK, Requests, Snapshots
    <3>3. lastCall' \in Nat /\ lastCall <= lastCall'
      BY <2>1 DEF CallsKept
    <3>4. reqs'[q].cur.pend \in 0 .. lastCall
      BY <1>2, <3>1, <3>2
    <3>5. QED
      BY <3>2, <3>3, <3>4
  <2>4. /\ \A k \in Slots \ {q} : reqs'[k] = reqs[k]
        /\ \A p \in Procs, r \in Runs : drv'[p][r] \in {drv[p][r], NewDriver}
    BY <1>4, OthersStay
  <2>5. QED
    BY <1>1, <2>1, <2>2, <2>3, <2>4
<1>5. ASSUME NEW q \in Slots, NEW p, NEW c, NEW kind, NEW target,
             Issue(q, p, c, kind, target)
      PROVE  CallInv'
  <2>1. UNCHANGED <<store, drv, lastCall>>
    BY <1>5 DEF Issue
  <2>2. CallsKept
    BY <2>1, SameCallsKept DEF store
  <2>3. \A k \in Slots : \/ reqs'[k] = reqs[k]
                         \/ reqs'[k].pc = "check" /\ reqs'[k].cur = AbsentRun
    BY <1>5, <1>2 DEF Issue, SetRequest, IdleRequest, TypeInv, TypeOK
  <2>4. \A k \in Slots : \/ reqs'[k] = reqs[k]
                         \/ /\ reqs'[k].cur.pend <= lastCall'
                            /\ RequestCalls(reqs'[k], journal'[reqs'[k].run],
                                            rows'[reqs'[k].run])
    BY <1>2, <2>2, <2>3 DEF RequestCalls, CallsKept
  <2>5. QED
    BY <1>1, <2>1, <2>2, <2>4
<1>6. ASSUME NEW p \in Procs, Crash(p)
      PROVE  CallInv'
  <2>1. UNCHANGED <<store, lastCall>>
    BY <1>6 DEF Crash
  <2>2. CallsKept
    BY <2>1, SameCallsKept DEF store
  <2>3. \A k \in Slots : reqs'[k] = reqs[k] \/ reqs'[k] = Replied(NoRun, FALSE)
    BY <1>6 DEF Crash
  <2>4. Replied(NoRun, FALSE).pc = "done" /\ Replied(NoRun, FALSE).cur = AbsentRun
    BY DEF Replied, IdleRequest
  <2>5. ASSUME NEW k \in Slots, reqs'[k] # reqs[k]
        PROVE  /\ reqs'[k].cur.pend <= lastCall'
               /\ RequestCalls(reqs'[k], journal'[reqs'[k].run], rows'[reqs'[k].run])
    <3>1. reqs'[k].pc = "done" /\ reqs'[k].cur.pend = 0
      BY <1>2, <2>3, <2>4, <2>5
    <3>2. QED
      BY <2>2, <3>1 DEF RequestCalls, CallsKept
  <2>6. \A x \in Procs, s \in Runs : drv'[x][s] \in {drv[x][s], IdleDriver}
    BY <1>6 DEF Crash, TypeInv, TypeOK
  <2>7. QED
    BY <1>1, <2>2, <2>5, <2>6
<1>7. CASE UNCHANGED vars
  <2>1. UNCHANGED <<rows, journal, lastCall, reqs, drv>>
    BY <1>7 DEF vars
  <2>2. CallsKept
    BY <2>1, SameCallsKept
  <2>3. QED
    BY <1>1, <2>1, <2>2
<1>8. QED
  BY <1>3, <1>4, <1>5, <1>6, <1>7 DEF Next, Quiet

LEMMA CallInit == Init => CallInv
<1> SUFFICES ASSUME Init PROVE CallInv
  OBVIOUS
<1>1. /\ \A r \in Runs : rows[r] = AbsentRun /\ journal[r] = <<>>
      /\ \A p \in Procs, r \in Runs : drv[p][r] = IdleDriver
      /\ \A q \in Slots : reqs[q] = IdleRequest
      /\ lastCall = 0
  BY DEF Init, NoCall
<1>2. /\ AbsentRun.pend = 0 /\ AbsentRun.status = "Absent" /\ IdleRequest.cur = AbsentRun
      /\ IdleRequest.pc = "idle"
  BY DEF AbsentRun, NoCall, IdleRequest
<1>3. \A r \in Runs : JournalCalls(journal[r], lastCall)
  BY <1>1 DEF JournalCalls, CallsOf, Repeated
<1>4. \A r \in Runs : RowCalls(journal[r], rows[r], lastCall)
  BY <1>1, <1>2 DEF RowCalls
<1>5. \A p \in Procs, r \in Runs : DriverCalls(drv[p][r], journal[r], rows[r])
  BY <1>1, FreeDriverPC, FreeDriverCalls
<1>6. \A q \in Slots : /\ reqs[q].cur.pend <= lastCall
                       /\ RequestCalls(reqs[q], journal[reqs[q].run], rows[reqs[q].run])
  BY <1>1, <1>2 DEF RequestCalls
<1>7. QED
  BY <1>3, <1>4, <1>5, <1>6 DEF CallInv

(* The inductive invariant of the calls, on top of those of the ledger, of *)
(* who holds which row, and of the receipts.                               *)
CallIInv == LedgerIInv /\ AddressInv /\ ReceiptInv /\ HeldInv /\ CallInv

LEMMA CallsStayInOrder == ReconstructIsAtomic => (Spec => []CallIInv)
<1> SUFFICES ASSUME ReconstructIsAtomic PROVE Spec => []CallIInv
  OBVIOUS
<1>1. Init => CallIInv
  BY LedgerInit, AddressInit, HeldInit, CallInit DEF CallIInv
<1>2. CallIInv /\ [Next]_vars => CallIInv'
  BY LedgerNext, AddressNext, ReceiptNext, HeldNext, CallNext DEF CallIInv, LedgerIInv
<1>3. QED
  BY <1>1, <1>2, PTL DEF Spec

(* As long as no append lands inside a reconstruct, no Tool call is        *)
(* proposed or ended twice in a Run: ExternalFacts never finds a history   *)
(* corrupt that drivers, answers and recoveries of any number of processes *)
(* have written.                                                           *)
THEOREM CallsHappenOnce == ReconstructIsAtomic => (Spec => []CallEventsOnce)
<1> SUFFICES ASSUME ReconstructIsAtomic PROVE Spec => []CallEventsOnce
  OBVIOUS
<1>1. CallIInv => CallEventsOnce
  BY DEF CallIInv, CallInv, JournalCalls, CallEventsOnce
<1>2. Spec => []CallIInv
  BY CallsStayInOrder
<1>3. QED
  BY <1>1, <1>2, PTL

(* Nor is an outcome left unknown and undecided while its Run is Running.  *)
THEOREM OutcomesAreDecided == ReconstructIsAtomic => (Spec => []NoUndecidedWhileRunning)
<1> SUFFICES ASSUME ReconstructIsAtomic PROVE Spec => []NoUndecidedWhileRunning
  OBVIOUS
<1>1. CallIInv => NoUndecidedWhileRunning
  BY DEF CallIInv, CallInv, RowCalls, NoUndecidedWhileRunning
<1>2. Spec => []CallIInv
  BY CallsStayInOrder
<1>3. QED
  BY <1>1, <1>2, PTL

(* And a high-cost call with an unknown outcome is started again in its    *)
(* Run only after the user has confirmed it.                               *)
THEOREM RetriesAreConfirmed == ReconstructIsAtomic => (Spec => []HighCostRetryConfirmed)
<1> SUFFICES ASSUME ReconstructIsAtomic PROVE Spec => []HighCostRetryConfirmed
  OBVIOUS
<1>1. CallIInv => HighCostRetryConfirmed
  BY DEF CallIInv, CallInv, JournalCalls, ConfirmedAt, HighCostRetryConfirmed
<1>2. Spec => []CallIInv
  BY CallsStayInOrder
<1>3. QED
  BY <1>1, <1>2, PTL

-----------------------------------------------------------------------------
(***************************************************************************)
(* One process.  A Run that is Running has one unfinished call at most,    *)
(* since no driver starts a call, and none is spawned, while a call of the *)
(* Run is left unfinished.  A driver leaves a call only on its way to fail *)
(* the Run, and a crash that leaves one takes along the requests that      *)
(* would schedule the Run; a later resume marks the call first.            *)
(***************************************************************************)
OneProcess == \A p, o \in Procs : p = o

(* No call is unfinished in a Run that may go on.                          *)
Clear(h, row) == row.status \in {"Running", "WaitingForInput"} => UnfinishedCalls(h) = {}

RowOpen(h, row) ==
    /\ row.status = "Running" => \E call : UnfinishedCalls(h) \subseteq {call}
    /\ row.status = "WaitingForInput" => UnfinishedCalls(h) = {}

(* A driver may leave a call unfinished while it runs that call, or to     *)
(* fail the Run, unless somebody else has moved the row.                   *)
DriverOpen(d, h, row) ==
    \/ Clear(h, row)
    \/ d.pc \in {"idle", "failload"}
    \/ d.pc = "failappend" /\ d.cur.version = row.version
    \/ /\ d.pc = "tool" /\ d.cur.version = row.version
       /\ UnfinishedCalls(h) \subseteq {d.call}

(* A request that is going to schedule its Run.                            *)
Rouses(req) ==
    \/ req.pc = "schedule"
    \/ req.pc = "receipt" /\ req.wake
    \/ req.pc = "commit" /\ req.kind = "answer"

Attended(d, h, row) == Clear(h, row) \/ d.pc \in {"tool", "failload", "failappend"}

OpenInv ==
    /\ \A r \in Runs : RowOpen(journal[r], rows[r])
    /\ \A p \in Procs, r \in Runs : DriverOpen(drv[p][r], journal[r], rows[r])
    /\ \A p \in Procs, r \in Runs : drv[p][r].pc # "idle" => r \in sched[p]
    /\ \A p \in Procs, q \in Slots : Rouses(reqs[q]) =>
          LET r == reqs[q].run IN Attended(drv[p][r], journal[r], rows[r])
    /\ \A q \in Slots : reqs[q].pc \in {"idle", "done"} \/ reqs[q].proc \in Procs

LEMMA ClearRow ==
    ASSUME NEW h, NEW row, Clear(h, row)
    PROVE  RowOpen(h, row) /\ \A d : DriverOpen(d, h, row) /\ Attended(d, h, row)
BY DEF Clear, RowOpen, DriverOpen, Attended

(* The calls a batch leaves unfinished.                                    *)
LEMMA OpenAppends ==
    ASSUME TypeInv, NEW r \in Runs, NEW snap, NEW ev, NEW cmd, Appends(r, snap, ev, cmd)
    PROVE  UnfinishedCalls(journal'[r])
               \subseteq (UnfinishedCalls(journal[r]) \cup EventCalls(ev, {"started"}))
                             \ EventCalls(ev, Ending)
<1> DEFINE h == journal[r]
           g == journal'[r]
<1>1. /\ Len(h) \in Nat /\ Len(g) = Len(h) + 1 /\ DOMAIN g = 1 .. Len(h) + 1
      /\ \A i \in 1 .. Len(h) : g[i] = h[i]
      /\ g[Len(h) + 1].ev = ev /\ h \in Seq(Batches)
  BY AppendsFacts DEF TypeInv, TypeOK
<1> HIDE DEF h, g
<1>2. ASSUME NEW types
      PROVE  CallsOf(g, types) = CallsOf(h, types) \cup EventCalls(ev, types)
  BY <1>1, AppendedCalls
<1>3. UnfinishedCalls(g) \subseteq (UnfinishedCalls(h) \cup EventCalls(ev, {"started"}))
                                       \ EventCalls(ev, Ending)
  BY <1>2 DEF UnfinishedCalls
<1>4. QED
  BY <1>3 DEF h, g

LEMMA StartedOnly ==
    /\ EventCalls({}, {"started"}) = {}
    /\ \A call, cost : /\ EventCalls({ToolEvent("rejected", call, cost)}, {"started"}) = {}
                       /\ EventCalls({ToolEvent("ended", call, cost)}, {"started"}) = {}
    /\ EventCalls({RunResumed}, {"started"}) = {}
    /\ \A call, cost : EventCalls(IndeterminateEvents(call, cost), {"started"}) = {}
<1>1. EventCalls({}, {"started"}) = {}
  BY NoCalls
<1>2. ASSUME NEW call, NEW cost
      PROVE  /\ EventCalls({ToolEvent("rejected", call, cost)}, {"started"}) = {}
             /\ EventCalls({ToolEvent("ended", call, cost)}, {"started"}) = {}
             /\ EventCalls({ToolEvent("resumed", call, cost)}, {"started"}) = {}
             /\ EventCalls({ToolEvent("unknown", call, cost)}, {"started"}) = {}
  BY OneCall
<1>3. EventCalls({RunResumed}, {"started"}) = {}
  BY <1>2 DEF RunResumed
<1>4. ASSUME NEW call, NEW cost
      PROVE  EventCalls(IndeterminateEvents(call, cost), {"started"}) = {}
  BY DEF EventCalls, IndeterminateEvents, ToolEvent, RunResumed
<1>5. QED
  BY <1>1, <1>2, <1>3, <1>4

(* What an append of a driver leaves unfinished.                           *)
LEMMA DriverLeaves ==
    ASSUME TypeInv, AddressInv, LedgerInv, HeldInv, OpenInv, NEW p \in Procs, NEW r \in Runs,
           drv[p][r].pc \in {"loaded", "model", "acked", "tool", "failappend"},
           NEW next, NEW ev, NEW e, StepAppend(p, r, next, ev, e)
    PROVE  /\ rows'[r] = next /\ drv'[p][r] = e
           /\ \/ drv[p][r].pc = "failappend"
              \/ UnfinishedCalls(journal'[r]) \subseteq
                    ((IF drv[p][r].pc = "tool" THEN {drv[p][r].call} ELSE {})
                         \cup EventCalls(ev, {"started"})) \ EventCalls(ev, Ending)
<1> DEFINE d == drv[p][r]
<1>1. /\ r \in Created /\ Current(rows[r], d.cur)
      /\ d.pc # "failappend" => d.cur.status = "Running"
  BY DEF AddressInv, HeldInv, DriverHolds
<1>2. AppendBatch(r, d.cur, next, ev, NoCmd) /\ SetDriver(p, r, e)
  BY DEF StepAppend, Driver
<1>3. rows[r] = d.cur /\ rows'[r] = next /\ Appends(r, next, ev, NoCmd)
  BY <1>1, <1>2, OnRow
<1>4. drv'[p][r] = e
  BY <1>2 DEF SetDriver, TypeInv, TypeOK
<1>5. CASE d.pc = "failappend"
  BY <1>3, <1>4, <1>5
<1>6. CASE d.pc # "failappend"
  <2>1. UnfinishedCalls(journal[r]) \subseteq IF d.pc = "tool" THEN {d.call} ELSE {}
    BY <1>1, <1>3, <1>6 DEF OpenInv, DriverOpen, Clear
  <2>2. UnfinishedCalls(journal'[r])
            \subseteq (UnfinishedCalls(journal[r]) \cup EventCalls(ev, {"started"}))
                          \ EventCalls(ev, Ending)
    BY <1>3, OpenAppends
  <2> HIDE DEF d
  <2>3. QED
    BY <1>3, <1>4, <2>1, <2>2 DEF d
<1>7. QED
  BY <1>5, <1>6

(* What a driver's step leaves unfinished in its Run.                      *)
LEMMA DriverOpens ==
    ASSUME TypeInv, AddressInv, LedgerInv, HeldInv, OpenInv, NEW p \in Procs, NEW r \in Runs,
           DriverNext(p, r)
    PROVE  /\ RowOpen(journal'[r], rows'[r])
           /\ DriverOpen(drv'[p][r], journal'[r], rows'[r])
           /\ Attended(drv[p][r], journal[r], rows[r])
                 => Attended(drv'[p][r], journal'[r], rows'[r])
<1> DEFINE d    == drv[p][r]
           goal == /\ RowOpen(journal'[r], rows'[r])
                   /\ DriverOpen(drv'[p][r], journal'[r], rows'[r])
                   /\ Attended(drv[p][r], journal[r], rows[r])
                         => Attended(drv'[p][r], journal'[r], rows'[r])
<1> SUFFICES goal
  OBVIOUS
<1>1. /\ d \in Drivers /\ Driver(p, r) = d
      /\ DriverOpen(d, journal[r], rows[r]) /\ RowOpen(journal[r], rows[r])
      /\ rows[r] \in Snapshots
  BY DEF TypeInv, TypeOK, OpenInv, Driver
<1>2. ASSUME Clear(journal'[r], rows'[r])
      PROVE  goal
  BY <1>2, ClearRow
<1>3. ASSUME NEW next, NEW ev, NEW e, StepAppend(p, r, next, ev, e),
             d.pc \in {"loaded", "model", "acked", "tool"},
             EventCalls(ev, {"started"}) = {},
             d.pc # "tool" \/ EventCalls(ev, Ending) = {d.call}
      PROVE  goal
  <2>1. UnfinishedCalls(journal'[r]) = {}
    BY <1>3, DriverLeaves
  <2>2. QED
    BY <1>2, <2>1 DEF Clear
<1>4. ASSUME NEW call, NEW cost, NEW next, NEW e,
             StepAppend(p, r, next, {ToolEvent("started", call, cost)}, e),
             d.pc \in {"loaded", "model"}, e.pc = "tool", e.call = call, e.cur = next,
             next.status = "Running"
      PROVE  goal
  <2> DEFINE ev == {ToolEvent("started", call, cost)}
  <2>1. EventCalls(ev, {"started"}) = {call} /\ StepAppend(p, r, next, ev, e)
    BY <1>4, StartedCalls
  <2> HIDE DEF ev
  <2>2. /\ rows'[r] = next /\ drv'[p][r] = e
        /\ UnfinishedCalls(journal'[r]) \subseteq {call}
    BY <1>4, <2>1, DriverLeaves
  <2>3. QED
    BY <1>4, <2>2 DEF RowOpen, DriverOpen, Attended
<1>5. ASSUME UNCHANGED <<rows, journal>>, NEW e, SetDriver(p, r, e),
             \/ Clear(journal[r], rows[r])
             \/ e.pc = "failload"
             \/ e.pc = "failappend" /\ e.cur = rows[r]
      PROVE  goal
  <2>1. drv'[p][r] = e
    BY <1>5 DEF SetDriver, TypeInv, TypeOK
  <2>2. QED
    BY <1>1, <1>2, <1>5, <2>1 DEF DriverOpen, Attended
<1>6. d.pc \in {"step", "loaded", "model", "acked", "outcome", "returned"} =>
          Clear(journal[r], rows[r])
  BY <1>1 DEF DriverOpen
<1> HIDE DEF goal
<1>7. CASE StepLoad(p, r) \/ BudgetExceeded(p, r) \/ LoopReturns(p, r)
           \/ OutcomeOverrun(p, r) \/ Release(p, r) \/ FailConflict(p, r)
  <2>1. Clear(journal[r], rows[r])
    BY <1>1, <1>6, <1>7 DEF StepLoad, BudgetExceeded, LoopReturns, OutcomeOverrun, Release,
                            FailConflict, VersionMatches, DriverOpen, At
  <2>2. UNCHANGED <<rows, journal>> /\ \E e : SetDriver(p, r, e)
    BY <1>7 DEF StepLoad, BudgetExceeded, LoopReturns, OutcomeOverrun, Release,
                FailConflict, Goto, store
  <2>3. QED
    BY <1>5, <2>1, <2>2
<1>8. CASE StepFails(p, r)
  BY <1>5, <1>8, FreeDriverPC DEF StepFails, Goto, store
<1>9. CASE FailLoad(p, r)
  <2>1. UNCHANGED <<rows, journal>> /\ SetDriver(p, r, Holding(p, r, "failappend", rows[r]))
    BY <1>9 DEF FailLoad, store
  <2>2. Holding(p, r, "failappend", rows[r]).pc = "failappend"
        /\ Holding(p, r, "failappend", rows[r]).cur = rows[r]
    BY HoldingFields
  <2>3. QED
    BY <1>5, <2>1, <2>2
<1>10. CASE FailAppend(p, r)
  <2>1. d.pc = "failappend" /\ d.cur \in Snapshots
        /\ StepAppend(p, r, NextSnapshot(d.cur, "Failed", "none"), {}, Leaving("returned"))
    BY <1>1, <1>10 DEF FailAppend, At, Drivers
  <2>2. rows'[r] = NextSnapshot(d.cur, "Failed", "none")
    BY <2>1, DriverLeaves
  <2>3. NextSnapshot(d.cur, "Failed", "none").status = "Failed"
    BY <2>1, NextSnapshotFields DEF RunStatus, Waits
  <2>4. QED
    BY <1>2, <2>2, <2>3 DEF Clear
<1>11. CASE Advance(p, r) \/ RequestModel(p, r) \/ ModelContinues(p, r)
            \/ ModelAcknowledged(p, r) \/ VerificationFails(p, r) \/ Complete(p, r)
            \/ Wait(p, r)
  <2>1. /\ d.pc \in {"loaded", "model", "acked"}
        /\ \E next, e : StepAppend(p, r, next, {}, e)
    BY <1>11 DEF Advance, RequestModel, ModelContinues, ModelAcknowledged,
                 VerificationFails, Complete, Wait, At
  <2>2. QED
    BY <1>3, <2>1, StartedOnly
<1>12. CASE ToolRejected(p, r) \/ RecoveredToolRejected(p, r)
  <2>1. /\ d.pc \in {"model", "loaded"}
        /\ \E next, e, call, cost :
              StepAppend(p, r, next, {ToolEvent("rejected", call, cost)}, e)
    BY <1>12 DEF ToolRejected, RecoveredToolRejected, At
  <2>2. QED
    BY <1>3, <2>1, StartedOnly
<1>13. CASE ToolEnded(p, r)
  <2>1. /\ d.pc = "tool"
        /\ \E next, e : StepAppend(p, r, next, {ToolEvent("ended", d.call, d.cost)}, e)
    BY <1>1, <1>13 DEF ToolEnded, At
  <2>2. EventCalls({ToolEvent("ended", d.call, d.cost)}, Ending) = {d.call}
    BY EndedCalls
  <2> HIDE DEF d
  <2>3. QED
    BY <1>3, <2>1, <2>2, StartedOnly
<1>14. CASE ToolStarted(p, r)
  <2> DEFINE next == NextSnapshot(d.cur, "Running", "none")
  <2>1. PICK cost \in Costs :
            StepAppend(p, r, next, {ToolEvent("started", lastCall', cost)},
                       [Holding(p, r, "tool", next) EXCEPT !.call = lastCall', !.cost = cost])
    BY <1>1, <1>14 DEF ToolStarted
  <2>2. next.status = "Running" /\ d.pc = "model"
    BY <1>1, <1>14, NextSnapshotFields DEF ToolStarted, At, Drivers, RunStatus, Waits
  <2> HIDE DEF next
  <2>3. PICK call : call = lastCall'
    OBVIOUS
  <2>4. LET n == [Holding(p, r, "tool", next) EXCEPT !.call = call, !.cost = cost] IN
        n.pc = "tool" /\ n.cur = next /\ n.call = call
    BY HoldingFields
  <2>5. QED
    BY <1>4, <2>1, <2>2, <2>3, <2>4
<1>15. CASE RecoveredToolStarted(p, r)
  <2> DEFINE next == TakePending(d.cur)
             call == d.cur.pend
             cost == d.cur.cost
  <2>1. StepAppend(p, r, next, {ToolEvent("started", call, cost)},
                   [Holding(p, r, "tool", next) EXCEPT !.call = call, !.cost = cost])
    BY <1>1, <1>15 DEF RecoveredToolStarted
  <2>2. next.status = "Running" /\ d.pc = "loaded"
    BY <1>1, <1>15, TakePendingFields DEF RecoveredToolStarted, At, Drivers
  <2> HIDE DEF next, call, cost
  <2>3. LET n == [Holding(p, r, "tool", next) EXCEPT !.call = call, !.cost = cost] IN
        n.pc = "tool" /\ n.cur = next /\ n.call = call
    BY HoldingFields
  <2>4. QED
    BY <1>4, <2>1, <2>2, <2>3
<1>16. QED
  BY <1>7, <1>8, <1>9, <1>10, <1>11, <1>12, <1>13, <1>14, <1>15 DEF DriverNext

(* What a request asks for next.                                           *)
LEMMA RousingRequests ==
    /\ \A run, ok : ~Rouses(Replied(run, ok))
    /\ \A req, run : Rouses(Waking(req, run)) /\ Waking(req, run).run = run
    /\ \A req \in Requests : \A wake :
          LET n == Receipting(req, wake) IN n.run = req.run /\ (Rouses(n) => wake)
<1>1. ASSUME NEW run, NEW ok, NEW req
      PROVE  ~Rouses(Replied(run, ok)) /\ Rouses(Waking(req, run)) /\ Waking(req, run).run = run
  BY ReturnedFields DEF Rouses
<1>2. ASSUME NEW req \in Requests, NEW wake
      PROVE  LET n == Receipting(req, wake) IN n.run = req.run /\ (Rouses(n) => wake)
  <2>1. LET n == Receipting(req, wake) IN n.pc = "receipt" /\ n.wake = wake /\ n.run = req.run
    BY DEF Receipting, Requests
  <2>2. QED
    BY <2>1 DEF Rouses
<1>3. QED
  BY <1>1, <1>2

(* An append of a request leaves no call of its Run unfinished: an answer  *)
(* finds none, a recovery marks the only one, a cancel stops the Run.      *)
LEMMA RequestClears ==
    ASSUME TypeInv, AddressInv, LedgerInv, HeldInv, CallInv, OpenInv, NEW q \in Slots,
           CommitAnswer(q) \/ CommitCancel(q) \/ MarkIndeterminate(q)
    PROVE  LET s == reqs[q].run IN
           /\ s \in Runs /\ Clear(journal'[s], rows'[s])
           /\ \A r \in Runs \ {s} : rows'[r] = rows[r] /\ journal'[r] = journal[r]
<1> DEFINE req == reqs[q]
           cur == req.cur
           run == req.run
<1>1. /\ req \in Requests /\ cur \in Snapshots /\ Known(req, Created)
      /\ Created \subseteq Runs /\ RequestCalls(req, journal[run], rows[run])
      /\ run \in Created => RequestHolds(req, rows[run])
  BY CreatedRuns DEF TypeInv, TypeOK, AddressInv, Requests, HeldInv, CallInv
<1>2. PICK next, ev, cmd : AppendBatch(run, cur, next, ev, cmd)
  BY DEF CommitAnswer, CommitCancel, MarkIndeterminate
<1>3. run \in Created /\ Current(rows[run], cur)
  BY <1>1 DEF CommitAnswer, CommitCancel, MarkIndeterminate, RequestAt, Known,
              RequestHolds, AnswerHolds, CancelHolds, RecoveryHolds
<1>4. run \in Runs /\ RowOpen(journal[run], rows[run])
  BY <1>1, <1>3 DEF OpenInv
<1>5. ASSUME NEW n, NEW e, NEW c, AppendBatch(run, cur, n, e, c)
      PROVE  /\ rows[run] = cur /\ rows'[run] = n
             /\ UnfinishedCalls(journal'[run])
                    \subseteq (UnfinishedCalls(journal[run]) \cup EventCalls(e, {"started"}))
                                  \ EventCalls(e, Ending)
             /\ \A r \in Runs \ {run} : rows'[r] = rows[r] /\ journal'[r] = journal[r]
  <2>1. /\ rows[run] = cur /\ rows'[run] = n /\ rows' = [rows EXCEPT ![run] = n]
        /\ Appends(run, n, e, c)
    BY <1>3, <1>5, OnRow
  <2>2. \A r \in Runs \ {run} : rows'[r] = rows[r] /\ journal'[r] = journal[r]
    BY <1>4, <2>1, AppendsFacts DEF TypeInv, TypeOK
  <2>3. QED
    BY <1>4, <2>1, <2>2, OpenAppends
<1> HIDE DEF req, cur, run
<1>6. CASE CommitAnswer(q)
  <2>1. \E n, c : AppendBatch(run, cur, n, {RunResumed}, c)
    BY <1>6 DEF CommitAnswer, req, cur, run
  <2>2. cur.status = "WaitingForInput"
    BY <1>1, <1>3, <1>6 DEF CommitAnswer, RequestAt, RequestHolds, AnswerHolds, req, cur
  <2>3. rows[run] = cur
    BY <1>5, <2>1
  <2>4. UnfinishedCalls(journal'[run]) = {}
    BY <1>4, <1>5, <2>1, <2>2, <2>3, StartedOnly DEF RowOpen
  <2>5. QED
    BY <1>4, <1>5, <2>1, <2>4 DEF Clear, run, req
<1>7. CASE CommitCancel(q)
  <2> DEFINE n == NextSnapshot(cur, "Cancelled", "none")
  <2>1. \E c : AppendBatch(run, cur, n, {}, c)
    BY <1>7 DEF CommitCancel, req, cur, run
  <2>2. n.status = "Cancelled"
    BY <1>1, NextSnapshotFields DEF RunStatus, Waits
  <2> HIDE DEF n
  <2>3. QED
    BY <1>4, <1>5, <2>1, <2>2 DEF Clear, run, req
<1>8. CASE MarkIndeterminate(q)
  <2>1. req.pc = "mark" /\ \E n : AppendBatch(run, cur, n, req.ev, NoCmd)
    BY <1>8 DEF MarkIndeterminate, RequestAt, req, cur, run
  <2>2. rows[run] = cur
    BY <1>5, <2>1
  <2>3. req.ev = IndeterminateEvents(req.call, req.cost)
        /\ req.call \in UnfinishedCalls(journal[run])
    BY <1>1, <2>1, <2>2 DEF RequestCalls, cur
  <2>4. cur.status = "Running"
    BY <1>1, <1>3, <2>1, <2>2 DEF RequestHolds, RecoveryHolds, cur
  <2>5. UnfinishedCalls(journal[run]) = {req.call}
    BY <1>4, <2>2, <2>3, <2>4 DEF RowOpen
  <2>6. EventCalls(req.ev, {"started"}) = {} /\ EventCalls(req.ev, Ending) = {req.call}
    BY <2>3, StartedOnly, IndeterminateCalls
  <2>7. UnfinishedCalls(journal'[run]) = {}
    BY <1>5, <2>1, <2>5, <2>6
  <2>8. QED
    BY <1>4, <1>5, <2>1, <2>7 DEF Clear, run, req
<1>9. QED
  BY <1>6, <1>7, <1>8

(* A request writes a row that no call is unfinished in, or none.          *)
LEMMA RequestRows ==
    ASSUME TypeInv, AddressInv, LedgerInv, HeldInv, CallInv, NoWindow, OpenInv,
           NEW q \in Slots, RequestNext(q) \/ CallFails(q), NEW r \in Runs
    PROVE  \/ rows'[r] = rows[r] /\ journal'[r] = journal[r]
           \/ Clear(journal'[r], rows'[r])
<1>1. CASE CommitAnswer(q) \/ CommitCancel(q) \/ MarkIndeterminate(q)
  BY <1>1, RequestClears
<1>2. CASE CommitStart(q) \/ CommitResume(q)
  <2>1. PICK new \in FreshRuns : \E snap : InsertRun(new, snap, reqs[q].cmd)
    BY <1>2 DEF CommitStart, CommitResume
  <2>2. PICK snap : InsertRun(new, snap, reqs[q].cmd)
    BY <2>1
  <2>3. /\ Appends(new, snap, {}, reqs[q].cmd) /\ journal[new] = <<>> /\ new \in Runs
        /\ rows' = [rows EXCEPT ![new] = snap]
    BY <2>2, InsertAppends DEF InsertRun
  <2>4. UnfinishedCalls(journal[new]) = {}
    BY <2>3 DEF UnfinishedCalls, CallsOf
  <2>5. UnfinishedCalls(journal'[new]) = {}
    BY <2>3, <2>4, OpenAppends, StartedOnly
  <2>6. \A s \in Runs \ {new} : rows'[s] = rows[s] /\ journal'[s] = journal[s]
    BY <2>3, AppendsFacts DEF TypeInv, TypeOK
  <2>7. QED
    BY <2>5, <2>6 DEF Clear
<1>3. CASE Reconstruct(q) \/ ReplaceCache(q)
  BY <1>3, ReconstructLedger DEF ReplaceCache, RequestAt, NoWindow
<1>4. CASE \/ CheckReceipt(q) \/ ResumeLoad(q) \/ AnswerLoad(q) \/ CancelLoad(q)
           \/ StartRecommit(q) \/ ResumeRecommit(q) \/ UpdateRecommit(q)
           \/ CommitConflict(q) \/ ReadProjection(q) \/ ReadCorrupt(q)
           \/ CompareCache(q) \/ Assess(q) \/ MarkConflict(q)
           \/ Schedule(q) \/ CallFails(q) \/ CommitResumed(q)
  BY <1>4 DEF CheckReceipt, ResumeLoad, AnswerLoad, CancelLoad, StartRecommit,
              ResumeRecommit, UpdateRecommit, Recommit, CommitConflict,
              ReadProjection, ReadCorrupt, CompareCache, Assess, MarkConflict,
              Schedule, CallFails, CommitResumed, store
<1>5. QED
  BY <1>1, <1>2, <1>3, <1>4 DEF RequestNext

(* It spawns a driver only where no call is unfinished.                    *)
LEMMA RequestSpawns ==
    ASSUME TypeInv, AddressInv, OpenInv, NEW q \in Slots, RequestNext(q) \/ CallFails(q),
           NEW p \in Procs, NEW r \in Runs
    PROVE  /\ r \in sched[p] => r \in sched'[p]
           /\ \/ drv'[p][r] = drv[p][r]
              \/ r \in sched'[p] /\ Clear(journal'[r], rows'[r])
<1>1. CASE Schedule(q)
  <2> DEFINE req == reqs[q]
  <2>1. /\ UNCHANGED <<rows, journal>> /\ req.pc = "schedule"
        /\ \/ UNCHANGED <<sched, drv>>
           \/ /\ req.run \notin sched[req.proc]
              /\ sched' = [sched EXCEPT ![req.proc] = @ \cup {req.run}]
              /\ drv' = [drv EXCEPT ![req.proc][req.run] = NewDriver]
    BY <1>1 DEF Schedule, RequestAt, SetDriver, store
  <2>2. CASE UNCHANGED <<sched, drv>>
    BY <2>2
  <2>3. CASE ~UNCHANGED <<sched, drv>> /\ ~(p = req.proc /\ r = req.run)
    BY <2>1, <2>3 DEF TypeInv, TypeOK
  <2>4. CASE ~UNCHANGED <<sched, drv>> /\ p = req.proc /\ r = req.run
    <3>1. r \notin sched[p] /\ sched'[p] = sched[p] \cup {r}
      BY <2>1, <2>4 DEF TypeInv, TypeOK
    <3>2. drv[p][r].pc = "idle" /\ Attended(drv[p][r], journal[r], rows[r])
      BY <2>1, <2>4, <3>1 DEF OpenInv, Rouses
    <3>3. QED
      BY <2>1, <3>1, <3>2 DEF Attended
  <2>5. QED
    BY <2>2, <2>3, <2>4
<1>2. CASE ~Schedule(q)
  <2>1. UNCHANGED <<sched, drv>>
    BY <1>2 DEF RequestNext, CheckReceipt, ResumeLoad, AnswerLoad, CancelLoad, StartRecommit,
         ResumeRecommit, UpdateRecommit, Recommit, CommitStart, CommitResume,
         CommitAnswer, CommitCancel, CommitConflict, Reconstruct, ReadProjection,
         ReadCorrupt, CompareCache, ReplaceCache, Assess, MarkIndeterminate,
         MarkConflict, CommitResumed, CallFails
  <2>2. QED
    BY <2>1
<1>3. QED
  BY <1>1, <1>2

(* It asks to schedule a Run only if it did before, or if no call of the   *)
(* Run is unfinished.                                                      *)
LEMMA RequestRouses ==
    ASSUME TypeInv, AddressInv, LedgerInv, HeldInv, CallInv, NoWindow, OpenInv,
           NEW q \in Slots, RequestNext(q) \/ CallFails(q), Rouses(reqs'[q])
    PROVE  LET r == reqs'[q].run IN
           \/ Clear(journal'[r], rows'[r])
           \/ Rouses(reqs[q]) /\ reqs[q].run = r
<1> DEFINE req  == reqs[q]
           goal == LET r == reqs'[q].run IN
                   \/ Clear(journal'[r], rows'[r])
                   \/ Rouses(req) /\ req.run = r
<1> SUFFICES goal
  OBVIOUS
<1>1. /\ req \in Requests /\ Known(req, Created) /\ Created \subseteq Runs
  BY CreatedRuns DEF TypeInv, TypeOK, AddressInv
<1>2. ASSUME NEW n, SetRequest(q, n)
      PROVE  reqs'[q] = n /\ Rouses(n)
  BY <1>2 DEF SetRequest, TypeInv, TypeOK
<1>3. ~\E run : Reply(q, run) \/ Refuse(q)
  BY <1>2, RousingRequests DEF Reply, Refuse
<1>4. ASSUME NEW pc, SetRequest(q, [req EXCEPT !.pc = pc]),
             pc = "commit" => req.kind # "answer", pc \in {"load", "commit"}
      PROVE  FALSE
  <2>1. reqs'[q] = [req EXCEPT !.pc = pc] /\ Rouses(reqs'[q])
    BY <1>2, <1>4
  <2>2. reqs'[q].pc = pc /\ reqs'[q].kind = req.kind
    BY <1>1, <2>1, GotoFields DEF SameCall
  <2>3. QED
    BY <1>4, <2>1, <2>2 DEF Rouses
<1>5. ASSUME NEW pc, NEW run, NEW row,
             \/ SetRequest(q, [req EXCEPT !.pc = pc, !.run = run, !.cur = row])
             \/ SetRequest(q, [req EXCEPT !.pc = pc, !.cur = row, !.run = run]),
             pc \in {"commit", "read"}
      PROVE  pc = "commit" /\ req.kind = "answer" /\ reqs'[q].run = run
  <2>1. /\ \/ reqs'[q] = [req EXCEPT !.pc = pc, !.run = run, !.cur = row]
           \/ reqs'[q] = [req EXCEPT !.pc = pc, !.cur = row, !.run = run]
        /\ Rouses(reqs'[q])
    BY <1>2, <1>5
  <2>2. reqs'[q].pc = pc /\ reqs'[q].kind = req.kind /\ reqs'[q].run = run
    BY <1>1, <2>1 DEF Requests
  <2>3. QED
    BY <1>5, <2>1, <2>2 DEF Rouses
<1> HIDE DEF goal
<1>6. CASE CommitAnswer(q) \/ MarkIndeterminate(q) \/ CommitCancel(q)
  <2>1. /\ req.run \in Runs /\ Clear(journal'[req.run], rows'[req.run])
    BY <1>6, RequestClears
  <2>2. Wake(q, req.run) \/ \E wake : SetRequest(q, Receipting(req, wake))
    BY <1>3, <1>6 DEF CommitAnswer, MarkIndeterminate, CommitCancel
  <2>3. reqs'[q].run = req.run
    BY <1>1, <1>2, <2>2, RousingRequests DEF Wake
  <2>4. QED
    BY <2>1, <2>3 DEF goal
<1>7. CASE CommitStart(q) \/ CommitResume(q)
  <2>1. PICK new \in FreshRuns : Wake(q, new) /\ \E snap : InsertRun(new, snap, req.cmd)
    BY <1>3, <1>7 DEF CommitStart, CommitResume
  <2>2. PICK snap : InsertRun(new, snap, req.cmd)
    BY <2>1
  <2>3. Appends(new, snap, {}, req.cmd) /\ journal[new] = <<>> /\ new \in Runs
    BY <2>2, InsertAppends
  <2>4. UnfinishedCalls(journal[new]) = {}
    BY <2>3 DEF UnfinishedCalls, CallsOf
  <2>5. UnfinishedCalls(journal'[new]) = {}
    BY <2>3, <2>4, OpenAppends, StartedOnly
  <2>6. reqs'[q].run = new
    BY <1>2, <2>1, RousingRequests DEF Wake
  <2>7. QED
    BY <2>5, <2>6 DEF goal, Clear
<1>8. CASE UpdateRecommit(q) \/ CommitResumed(q)
  <2>1. Wake(q, req.run) /\ Rouses(req)
    BY <1>3, <1>8 DEF UpdateRecommit, Recommit, CommitResumed, RequestAt, Rouses
  <2>2. reqs'[q].run = req.run
    BY <1>2, <2>1, RousingRequests DEF Wake
  <2>3. QED
    BY <2>1, <2>2 DEF goal
<1>9. CASE Assess(q)
  <2>0. UNCHANGED <<rows, journal>>
    BY <1>9 DEF Assess, store
  <2>1. /\ \/ \E call, cost, ev :
                 SetRequest(q, [req EXCEPT !.pc = "mark", !.call = call, !.cost = cost,
                                           !.ev = ev, !.seen = AbsentRun])
           \/ SetRequest(q, Receipting(req, FALSE))
           \/ /\ UnfinishedCalls(journal[req.run]) = {}
              /\ SetRequest(q, Receipting(req, TRUE))
    BY <1>3, <1>9 DEF Assess
  <2>2. ASSUME NEW call, NEW cost, NEW ev,
               SetRequest(q, [req EXCEPT !.pc = "mark", !.call = call, !.cost = cost,
                                         !.ev = ev, !.seen = AbsentRun])
        PROVE  FALSE
    <3> DEFINE n == [req EXCEPT !.pc = "mark", !.call = call, !.cost = cost,
                                !.ev = ev, !.seen = AbsentRun]
    <3>1. n.pc = "mark"
      BY <1>1 DEF Requests
    <3>2. Rouses(n)
      BY <1>2, <2>2
    <3> HIDE DEF n
    <3>3. QED
      BY <3>1, <3>2 DEF Rouses
  <2>3. ~SetRequest(q, Receipting(req, FALSE))
    BY <1>1, <1>2, RousingRequests
  <2>4. UnfinishedCalls(journal[req.run]) = {} /\ SetRequest(q, Receipting(req, TRUE))
    BY <2>1, <2>2, <2>3
  <2>5. reqs'[q].run = req.run
    <3>1. reqs'[q] = Receipting(req, TRUE)
      BY <1>2, <2>4
    <3>2. QED
      BY <1>1, <3>1, ReceiptingFields
  <2>6. Clear(journal'[req.run], rows'[req.run])
    BY <2>0, <2>4 DEF Clear
  <2> HIDE DEF req
  <2>7. QED
    BY <2>5, <2>6 DEF goal
<1>10. CASE AnswerLoad(q)
  <2> DEFINE row == rows[req.target]
  <2>1. /\ req.kind = "answer" /\ UNCHANGED <<rows, journal>>
        /\ row.status = "WaitingForInput"
        /\ SetRequest(q, [req EXCEPT !.pc = "commit", !.cur = row, !.run = req.target])
    BY <1>3, <1>10 DEF AnswerLoad, store
  <2>2. reqs'[q].run = req.target
    BY <1>5, <2>1
  <2>3. req.target \in Runs
    BY <1>1, <2>1 DEF Known
  <2>4. UnfinishedCalls(journal[req.target]) = {}
    BY <2>1, <2>3 DEF OpenInv, RowOpen
  <2>5. QED
    BY <2>1, <2>2, <2>4 DEF goal, Clear
<1>11. CASE CancelLoad(q)
  <2>1. /\ req.kind = "cancel"
        /\ SetRequest(q, [req EXCEPT !.pc = "commit", !.cur = rows[req.target],
                                     !.run = req.target])
    BY <1>3, <1>11 DEF CancelLoad
  <2>2. QED
    BY <1>5, <2>1
<1>12. CASE ResumeLoad(q)
  <2>1. CASE created = <<>>
    <3>1. req.kind = "resume" /\ SetRequest(q, [req EXCEPT !.pc = "commit"])
      BY <1>12, <2>1 DEF ResumeLoad, RequestGoto
    <3>2. QED
      BY <1>4, <3>1
  <2>2. CASE created # <<>>
    <3> DEFINE last == created[Len(created)]
               pc   == IF rows[last].status = "Failed" THEN "commit" ELSE "read"
    <3>1. /\ req.kind = "resume" /\ pc \in {"commit", "read"}
          /\ SetRequest(q, [req EXCEPT !.pc = pc, !.run = last, !.cur = rows[last]])
      BY <1>12, <2>2 DEF ResumeLoad
    <3> HIDE DEF last, pc
    <3>2. QED
      BY <1>5, <3>1
  <2>3. QED
    BY <2>1, <2>2
<1>13. CASE CheckReceipt(q)
  <2>1. \E pc : /\ SetRequest(q, [req EXCEPT !.pc = pc])
                /\ pc \in {"load", "commit"} /\ (pc = "commit" => req.kind # "answer")
    BY <1>3, <1>13 DEF CheckReceipt, RequestGoto
  <2>2. QED
    BY <1>4, <2>1
<1>14. CASE Reconstruct(q)
  <2>1. PICK snap : reqs'[q] = AfterReconstruct(req, snap)
    BY <1>2, <1>14 DEF Reconstruct
  <2>2. Rouses(reqs'[q])
    OBVIOUS
  <2>3. reqs'[q].pc \in {"read", "facts"}
    BY <1>1, <2>1, ReconstructFields
  <2>4. QED
    BY <2>2, <2>3 DEF Rouses
<1>15. CASE ReadProjection(q)
  <2>1. PICK snap : SetRequest(q, [req EXCEPT !.pc = "compare", !.seen = snap])
    BY <1>15 DEF ReadProjection
  <2>2. reqs'[q].pc = "compare"
    <3>1. reqs'[q] = [req EXCEPT !.pc = "compare", !.seen = snap]
      BY <1>2, <2>1
    <3>2. QED
      BY <1>1, <3>1 DEF Requests
  <2>3. Rouses(reqs'[q])
    OBVIOUS
  <2>4. QED
    BY <2>2, <2>3 DEF Rouses
<1>16. CASE CompareCache(q) \/ ReplaceCache(q)
  BY <1>16 DEF CompareCache, ReplaceCache, RequestAt, NoWindow
<1>17. CASE \/ StartRecommit(q) \/ ResumeRecommit(q) \/ CommitConflict(q)
            \/ ReadCorrupt(q) \/ MarkConflict(q) \/ Schedule(q) \/ CallFails(q)
  BY <1>3, <1>17 DEF StartRecommit, ResumeRecommit, CommitConflict, ReadCorrupt,
                     MarkConflict, Schedule, CallFails
<1>18. QED
  BY <1>6, <1>7, <1>8, <1>9, <1>10, <1>11, <1>12, <1>13, <1>14, <1>15, <1>16, <1>17
     DEF RequestNext

(* A process serves a request from the call to the reply.                  *)
LEMMA RequestOpen ==
    ASSUME NEW q \in Slots, RequestNext(q) \/ CallFails(q)
    PROVE  reqs[q].pc \notin {"idle", "done"}
BY DEF RequestNext, CheckReceipt, ResumeLoad, AnswerLoad, CancelLoad, StartRecommit,
       ResumeRecommit, UpdateRecommit, Recommit, CommitStart, CommitResume,
       CommitAnswer, CommitCancel, CommitConflict, Reconstruct, ReadProjection,
       ReadCorrupt, CompareCache, ReplaceCache, Assess, MarkIndeterminate,
       MarkConflict, CommitResumed, Schedule, CallFails, RequestAt

LEMMA RequestServed ==
    ASSUME TypeInv, NoWindow, NEW q \in Slots, RequestNext(q) \/ CallFails(q)
    PROVE  reqs'[q].pc = "done" \/ reqs'[q].proc = reqs[q].proc
<1> DEFINE req  == reqs[q]
           goal == reqs'[q].pc = "done" \/ reqs'[q].proc = req.proc
<1> SUFFICES goal
  OBVIOUS
<1>1. req \in Requests
  BY DEF TypeInv, TypeOK
<1>2. ASSUME NEW n, SetRequest(q, n)
      PROVE  reqs'[q] = n
  BY <1>2 DEF SetRequest, TypeInv, TypeOK
<1>4. ASSUME NEW run, Reply(q, run) \/ Refuse(q) \/ Wake(q, run)
      PROVE  goal
  <2>1. /\ \A r, ok : Replied(r, ok).pc = "done"
        /\ \A r : Waking(req, r).proc = req.proc
    BY DEF Replied, Waking, IdleRequest
  <2>2. \/ \E r, ok : reqs'[q] = Replied(r, ok)
        \/ reqs'[q] = Waking(req, run)
    BY <1>2, <1>4 DEF Reply, Refuse, Wake
  <2>3. QED
    BY <2>1, <2>2
<1>5. ASSUME NEW pc, SetRequest(q, [req EXCEPT !.pc = pc])
      PROVE  goal
  <2>1. reqs'[q] = [req EXCEPT !.pc = pc]
    BY <1>2, <1>5
  <2>2. reqs'[q].proc = req.proc
    BY <1>1, <2>1 DEF Requests
  <2>3. QED
    BY <2>2
<1>5a. ASSUME NEW pc, NEW run, NEW snap,
              \/ SetRequest(q, [req EXCEPT !.pc = pc, !.run = run, !.cur = snap])
              \/ SetRequest(q, [req EXCEPT !.pc = pc, !.cur = snap, !.run = run])
       PROVE  goal
  <2>1. \/ reqs'[q] = [req EXCEPT !.pc = pc, !.run = run, !.cur = snap]
        \/ reqs'[q] = [req EXCEPT !.pc = pc, !.cur = snap, !.run = run]
    BY <1>2, <1>5a
  <2>2. reqs'[q].proc = req.proc
    BY <1>1, <2>1 DEF Requests
  <2>3. QED
    BY <2>2
<1>5b. ASSUME NEW snap, SetRequest(q, [req EXCEPT !.pc = "compare", !.seen = snap])
       PROVE  goal
  <2>1. reqs'[q] = [req EXCEPT !.pc = "compare", !.seen = snap]
    BY <1>2, <1>5b
  <2>2. reqs'[q].proc = req.proc
    BY <1>1, <2>1 DEF Requests
  <2>3. QED
    BY <2>2
<1>6. ASSUME NEW snap, SetRequest(q, AfterReconstruct(req, snap))
      PROVE  goal
  <2>1. reqs'[q] = AfterReconstruct(req, snap)
    BY <1>2, <1>6
  <2>2. reqs'[q].proc = req.proc
    BY <1>1, <2>1, ReconstructFields DEF SameCall
  <2>3. QED
    BY <2>2
<1>7. ASSUME NEW wake, SetRequest(q, Receipting(req, wake))
      PROVE  goal
  <2>1. reqs'[q] = Receipting(req, wake)
    BY <1>2, <1>7
  <2>2. reqs'[q].proc = req.proc
    BY <1>1, <2>1, ReceiptingFields DEF SameCall
  <2>3. QED
    BY <2>2
<1>8. ASSUME NEW call, NEW cost, NEW ev,
             SetRequest(q, [req EXCEPT !.pc = "mark", !.call = call, !.cost = cost,
                                       !.ev = ev, !.seen = AbsentRun])
      PROVE  goal
  <2>1. reqs'[q] = [req EXCEPT !.pc = "mark", !.call = call, !.cost = cost,
                               !.ev = ev, !.seen = AbsentRun]
    BY <1>2, <1>8
  <2>2. reqs'[q].proc = req.proc
    BY <1>1, <2>1 DEF Requests
  <2>3. QED
    BY <2>2
<1> HIDE DEF req, goal
<1>9. CASE CheckReceipt(q)
  <2>1. \/ \E run : Reply(q, run) \/ Refuse(q)
        \/ \E pc : SetRequest(q, [req EXCEPT !.pc = pc])
    BY <1>9 DEF CheckReceipt, RequestGoto, req
  <2>2. QED
    BY <1>4, <1>5, <2>1
<1>10. CASE ResumeLoad(q)
  <2>1. \/ SetRequest(q, [req EXCEPT !.pc = "commit"])
        \/ \E pc, run, snap : SetRequest(q, [req EXCEPT !.pc = pc, !.run = run, !.cur = snap])
    BY <1>10 DEF ResumeLoad, RequestGoto, req
  <2>2. QED
    BY <1>5, <1>5a, <2>1
<1>11. CASE AnswerLoad(q) \/ CancelLoad(q)
  <2>1. \/ Refuse(q)
        \/ \E run, snap : SetRequest(q, [req EXCEPT !.pc = "commit", !.cur = snap, !.run = run])
    BY <1>11 DEF AnswerLoad, CancelLoad, req
  <2>2. QED
    BY <1>4, <1>5a, <2>1
<1>12. CASE Assess(q)
  <2>1. \/ Refuse(q)
        \/ \E wake : SetRequest(q, Receipting(req, wake))
        \/ \E call, cost, ev :
              SetRequest(q, [req EXCEPT !.pc = "mark", !.call = call, !.cost = cost,
                                        !.ev = ev, !.seen = AbsentRun])
    BY <1>12 DEF Assess, req
  <2>2. QED
    BY <1>4, <1>7, <1>8, <2>1
<1>13. CASE Reconstruct(q)
  BY <1>6, <1>13 DEF Reconstruct, req
<1>14. CASE ReadProjection(q)
  BY <1>5b, <1>14 DEF ReadProjection, req
<1>15. CASE MarkIndeterminate(q)
  BY <1>7, <1>15 DEF MarkIndeterminate, req
<1>16. CASE CompareCache(q) \/ ReplaceCache(q)
  BY <1>16 DEF CompareCache, ReplaceCache, RequestAt, NoWindow
<1>17. CASE \/ StartRecommit(q) \/ ResumeRecommit(q) \/ UpdateRecommit(q)
            \/ CommitStart(q) \/ CommitResume(q) \/ CommitAnswer(q) \/ CommitCancel(q)
            \/ CommitConflict(q) \/ ReadCorrupt(q) \/ MarkConflict(q)
            \/ CommitResumed(q) \/ Schedule(q) \/ CallFails(q)
  <2>1. \E run : Reply(q, run) \/ Refuse(q) \/ Wake(q, run)
    BY <1>17 DEF StartRecommit, ResumeRecommit, UpdateRecommit, CommitStart, CommitResume,
                 CommitAnswer, CommitCancel, CommitConflict, ReadCorrupt, MarkConflict,
                 CommitResumed, Schedule, CallFails
  <2>2. QED
    BY <1>4, <2>1
<1>18. QED
  BY <1>9, <1>10, <1>11, <1>12, <1>13, <1>14, <1>15, <1>16, <1>17 DEF RequestNext

LEMMA OpenInit == Init => OpenInv
<1> SUFFICES ASSUME Init PROVE OpenInv
  OBVIOUS
<1>1. /\ \A r \in Runs : journal[r] = <<>>
      /\ \A p \in Procs, r \in Runs : drv[p][r].pc = "idle"
      /\ \A q \in Slots : reqs[q].pc = "idle"
  BY DEF Init, IdleDriver, IdleRequest
<1>2. \A r \in Runs : Clear(journal[r], rows[r])
  BY <1>1 DEF Clear, UnfinishedCalls, CallsOf
<1>3. \A q \in Slots : ~Rouses(reqs[q])
  BY <1>1 DEF Rouses
<1>4. QED
  BY <1>1, <1>2, <1>3, ClearRow DEF OpenInv

LEMMA OpenNext ==
    ASSUME OneProcess, TypeInv, AddressInv, LedgerInv, HeldInv, CallInv, NoWindow, OpenInv,
           [Next]_vars
    PROVE  OpenInv'
<1>1. \A q \in Slots : Rouses(reqs[q]) => reqs[q].run \in Runs
  <2> TAKE q \in Slots
  <2>1. Known(reqs[q], Created) /\ Created \subseteq Runs
    BY CreatedRuns DEF AddressInv
  <2>2. QED
    BY <2>1 DEF Known, Rouses
<1>2. ASSUME NEW p \in Procs, NEW r \in Runs, DriverNext(p, r)
      PROVE  OpenInv'
  <2>1. /\ RowOpen(journal'[r], rows'[r])
        /\ DriverOpen(drv'[p][r], journal'[r], rows'[r])
        /\ Attended(drv[p][r], journal[r], rows[r])
              => Attended(drv'[p][r], journal'[r], rows'[r])
    BY <1>2, DriverOpens
  <2>2. /\ reqs' = reqs /\ drv[p][r].pc # "idle" /\ \E d : drv' = [drv EXCEPT ![p][r] = d]
        /\ UNCHANGED store \/ DriverAppends(p, r)
    BY <1>2, DriverStore DEF SetDriver
  <2>3. \A s \in Runs \ {r} : /\ drv'[p][s] = drv[p][s]
                              /\ rows'[s] = rows[s] /\ journal'[s] = journal[s]
    <3>1. /\ rows' = rows \/ \E x : rows' = [rows EXCEPT ![r] = x]
          /\ journal' = journal \/ \E x : journal' = [journal EXCEPT ![r] = x]
      BY <2>2 DEF DriverAppends, AppendBatch, store
    <3>2. QED
      BY <2>2, <3>1 DEF TypeInv, TypeOK
  <2>4. \A s \in Runs : drv'[p][s].pc # "idle" => s \in sched'[p]
    <3>1. CASE Release(p, r)
      <4>1. drv'[p][r].pc = "idle" /\ sched'[p] = sched[p] \ {r}
        BY <3>1, FreeDriverPC DEF Release, SetDriver, Forget, TypeInv, TypeOK
      <4>2. QED
        BY <2>3, <4>1 DEF OpenInv
    <3>2. CASE ~Release(p, r)
      <4>1. sched' = sched
        BY <1>2, <3>2 DEF DriverNext, StepLoad, BudgetExceeded, Advance, VerificationFails, Wait,
             RequestModel, ModelContinues, ModelAcknowledged, Complete, ToolRejected,
             ToolStarted, RecoveredToolRejected, RecoveredToolStarted, ToolEnded, StepFails,
             LoopReturns, OutcomeOverrun, FailLoad, FailAppend, FailConflict, StepAppend
      <4>2. QED
        BY <2>2, <2>3, <4>1 DEF OpenInv
    <3>3. QED
      BY <3>1, <3>2
  <2>5. \A o \in Procs : o = p
    BY DEF OneProcess
  <2>6. \A s \in Runs : /\ RowOpen(journal'[s], rows'[s])
                        /\ DriverOpen(drv'[p][s], journal'[s], rows'[s])
                        /\ Attended(drv[p][s], journal[s], rows[s])
                              => Attended(drv'[p][s], journal'[s], rows'[s])
    BY <2>1, <2>3 DEF OpenInv
  <2>7. QED
    BY <1>1, <2>2, <2>4, <2>5, <2>6 DEF OpenInv
<1>3. ASSUME NEW q \in Slots, RequestNext(q) \/ CallFails(q)
      PROVE  OpenInv'
  <2>1. \A r \in Runs : \/ rows'[r] = rows[r] /\ journal'[r] = journal[r]
                        \/ Clear(journal'[r], rows'[r])
    BY <1>3, RequestRows
  <2>2. \A p \in Procs, r \in Runs :
            /\ r \in sched[p] => r \in sched'[p]
            /\ \/ drv'[p][r] = drv[p][r]
               \/ r \in sched'[p] /\ Clear(journal'[r], rows'[r])
    BY <1>3, RequestSpawns
  <2>3. \A k \in Slots \ {q} : reqs'[k] = reqs[k]
    BY <1>3, OthersStay
  <2>4. Rouses(reqs'[q]) => LET r == reqs'[q].run IN
                            \/ Clear(journal'[r], rows'[r])
                            \/ Rouses(reqs[q]) /\ reqs[q].run = r
    BY <1>3, RequestRouses
  <2>5. ASSUME NEW r \in Runs
        PROVE  /\ RowOpen(journal'[r], rows'[r])
               /\ \A p \in Procs : /\ DriverOpen(drv'[p][r], journal'[r], rows'[r])
                                   /\ Attended(drv[p][r], journal[r], rows[r])
                                         => Attended(drv'[p][r], journal'[r], rows'[r])
    BY <2>1, <2>2, ClearRow DEF OpenInv
  <2>6. \A p \in Procs, r \in Runs : drv'[p][r].pc # "idle" => r \in sched'[p]
    BY <2>2 DEF OpenInv
  <2>7. ASSUME NEW p \in Procs, NEW k \in Slots, Rouses(reqs'[k])
        PROVE  LET r == reqs'[k].run IN Attended(drv'[p][r], journal'[r], rows'[r])
    <3>1. CASE Rouses(reqs[k]) /\ reqs'[k].run = reqs[k].run
      <4> DEFINE r == reqs[k].run
      <4>1. r \in Runs /\ Attended(drv[p][r], journal[r], rows[r])
        BY <1>1, <3>1 DEF OpenInv
      <4> HIDE DEF r
      <4>2. Attended(drv'[p][r], journal'[r], rows'[r])
        BY <2>5, <4>1
      <4>3. QED
        BY <3>1, <4>2 DEF r
    <3>2. CASE ~(Rouses(reqs[k]) /\ reqs'[k].run = reqs[k].run)
      <4>1. Clear(journal'[reqs'[k].run], rows'[reqs'[k].run])
        BY <2>3, <2>4, <2>7, <3>2
      <4>2. QED
        BY <4>1 DEF Attended
    <3>3. QED
      BY <3>1, <3>2
  <2>8. \A k \in Slots : reqs'[k].pc \in {"idle", "done"} \/ reqs'[k].proc \in Procs
    <3>1. /\ reqs[q].pc \notin {"idle", "done"}
          /\ reqs'[q].pc = "done" \/ reqs'[q].proc = reqs[q].proc
      BY <1>3, RequestOpen, RequestServed
    <3>2. QED
      BY <2>3, <3>1 DEF OpenInv
  <2>9. \A p \in Procs, r \in Runs : DriverOpen(drv'[p][r], journal'[r], rows'[r])
    <3> TAKE p \in Procs, r \in Runs
    <3>1. QED
      BY <2>5
  <2>10. QED
    BY <2>5, <2>6, <2>7, <2>8, <2>9 DEF OpenInv
<1>4. ASSUME NEW q \in Slots, NEW p \in Procs, NEW c, NEW kind, NEW target,
             Issue(q, p, c, kind, target)
      PROVE  OpenInv'
  <2>1. UNCHANGED <<rows, journal, sched, drv>>
    BY <1>4 DEF Issue, store
  <2>2. \A k \in Slots : \/ reqs'[k] = reqs[k]
                         \/ reqs'[k].pc = "check" /\ reqs'[k].proc = p
    BY <1>4 DEF Issue, SetRequest, IdleRequest, TypeInv, TypeOK
  <2>3. \A k \in Slots : Rouses(reqs'[k]) => reqs'[k] = reqs[k]
    BY <2>2 DEF Rouses
  <2>4. QED
    BY <2>1, <2>2, <2>3 DEF OpenInv
<1>5. ASSUME NEW p \in Procs, Crash(p)
      PROVE  OpenInv'
  <2>1. /\ UNCHANGED <<rows, journal>> /\ \A r \in Runs : drv'[p][r].pc = "idle"
    BY <1>5, FreeDriverPC DEF Crash, store, TypeInv, TypeOK
  <2>2. \A o \in Procs : o = p
    BY DEF OneProcess
  <2>3. ASSUME NEW k \in Slots
        PROVE  ~Rouses(reqs'[k])
    <3>1. reqs'[k] = IF reqs[k].proc = p THEN Replied(NoRun, FALSE) ELSE reqs[k]
      BY <1>5 DEF Crash
    <3>2. CASE reqs[k].proc = p
      <4>1. reqs'[k] = Replied(NoRun, FALSE)
        BY <3>1, <3>2
      <4>2. ~Rouses(Replied(NoRun, FALSE))
        BY RousingRequests
      <4>3. QED
        BY <4>1, <4>2
    <3>3. CASE reqs[k].proc # p
      <4>1. reqs[k].pc \in {"idle", "done"}
        BY <2>2, <3>3 DEF OpenInv
      <4>2. QED
        BY <3>1, <3>3, <4>1 DEF Rouses
    <3>4. QED
      BY <3>2, <3>3
  <2>4. ASSUME NEW k \in Slots
        PROVE  reqs'[k].pc \in {"idle", "done"} \/ reqs'[k].proc \in Procs
    <3>1. reqs'[k] \in {reqs[k], Replied(NoRun, FALSE)}
      BY <1>5 DEF Crash
    <3>2. Replied(NoRun, FALSE).pc = "done"
      BY DEF Replied, IdleRequest
    <3>3. QED
      BY <3>1, <3>2 DEF OpenInv
  <2>5. QED
    BY <2>1, <2>2, <2>3, <2>4 DEF OpenInv, DriverOpen
<1>6. CASE UNCHANGED vars
  BY <1>6 DEF vars, OpenInv
<1>7. QED
  BY <1>2, <1>3, <1>4, <1>5, <1>6 DEF Next, Quiet

(* Where one process serves the store, a Running Run has one unfinished    *)
(* Tool call at most: recovery never finds two and refuses the Run.        *)
THEOREM CallsAreUnfinishedOneByOne ==
    ReconstructIsAtomic /\ OneProcess => (Spec => []SingleUnfinishedCall)
<1> SUFFICES ASSUME ReconstructIsAtomic, OneProcess PROVE Spec => []SingleUnfinishedCall
  OBVIOUS
<1>1. Init => OpenInv
  BY OpenInit
<1>2. CallIInv /\ OpenInv /\ [Next]_vars => OpenInv'
  BY OpenNext DEF CallIInv, LedgerIInv
<1>3. OpenInv => SingleUnfinishedCall
  <2> SUFFICES ASSUME OpenInv, NEW r \in Runs, rows[r].status = "Running"
               PROVE  Cardinality(UnfinishedCalls(journal[r])) <= 1
    BY DEF SingleUnfinishedCall
  <2>1. PICK call : UnfinishedCalls(journal[r]) \subseteq {call}
    BY DEF OpenInv, RowOpen
  <2>2. IsFiniteSet({call}) /\ Cardinality({call}) = 1
    BY FS_Singleton
  <2>3. QED
    BY <2>1, <2>2, FS_Subset
<1>4. Spec => []CallIInv
  BY CallsStayInOrder
<1>5. QED
  BY <1>1, <1>2, <1>3, <1>4, PTL DEF Spec

=============================================================================
