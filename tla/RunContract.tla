----------------------------- MODULE RunContract -----------------------------
(***************************************************************************)
(* What the runtime promises the clients about the Runs of a Task, with no *)
(* drivers, versions, Events or recovery: how the status of a Run moves    *)
(* (one that has ended is never Running or waiting again), which Run       *)
(* retries which, and that a command takes effect at most once, in the     *)
(* same step that records its receipt.                                     *)
(***************************************************************************)
EXTENDS Integers

CONSTANTS Runs, NoRun, Cmds, NoReceipt

VARIABLES
    status,    \* per Run: "Absent" or its RunStatus
    retryOf,   \* per Run: the failed Run it retries
    attempt,   \* per Run: how often its work was begun, itself included
    receipt    \* per command: what was answered, once and for all

vars == <<status, retryOf, attempt, receipt>>

Init ==
    /\ status = [r \in Runs |-> "Absent"]
    /\ retryOf = [r \in Runs |-> NoRun]
    /\ attempt = [r \in Runs |-> 0]
    /\ receipt = [c \in Cmds |-> NoReceipt]

-----------------------------------------------------------------------------
(* The receipt of c is written, for good, and names r.                     *)
Answered(c, r) ==
    /\ receipt[c] = NoReceipt
    /\ receipt' = [receipt EXCEPT ![c] = receipt'[c]]
    /\ receipt'[c] # NoReceipt
    /\ receipt'[c].run = r

Moves(r, from, to) ==
    /\ status[r] \in from
    /\ \E s \in to : status' = [status EXCEPT ![r] = s]

(* A command creates a Run, perhaps the retry of one that has failed, whose*)
(* numbering it continues.                                                 *)
Create(c, r) ==
    /\ Moves(r, {"Absent"}, {"Running", "WaitingForInput"})
    /\ \/ UNCHANGED retryOf /\ attempt' = [attempt EXCEPT ![r] = 1]
       \/ \E p \in Runs : /\ status[p] = "Failed"
                          /\ status'[r] = "Running"
                          /\ retryOf' = [retryOf EXCEPT ![r] = p]
                          /\ attempt' = [attempt EXCEPT ![r] = attempt[p] + 1]
    /\ Answered(c, r)

(* A step of a driver, or recovery, moves a running Run.                   *)
Proceed(r) ==
    /\ Moves(r, {"Running"}, {"WaitingForInput", "Succeeded", "Failed"})
    /\ UNCHANGED <<retryOf, attempt, receipt>>

(* A driver that gives up fails the Run in whatever state it finds it.     *)
GiveUp(r) ==
    /\ Moves(r, {"WaitingForInput", "Succeeded", "Cancelled"}, {"Failed"})
    /\ UNCHANGED <<retryOf, attempt, receipt>>

(* A clarification is answered, once per command.                          *)
Answer(c, r) ==
    /\ Moves(r, {"WaitingForInput"}, {"Running"})
    /\ Answered(c, r)
    /\ UNCHANGED <<retryOf, attempt>>

(* A Run that is not terminal is cancelled.                                *)
Cancel(c, r) ==
    /\ Moves(r, {"Running", "WaitingForInput"}, {"Cancelled"})
    /\ Answered(c, r)
    /\ UNCHANGED <<retryOf, attempt>>

(* A resume that found the Run running, waiting or terminal.               *)
Resume(c, r) ==
    /\ status[r] # "Absent"
    /\ Answered(c, r)
    /\ UNCHANGED <<status, retryOf, attempt>>

Next ==
    \/ \E r \in Runs : Proceed(r) \/ GiveUp(r)
    \/ \E c \in Cmds, r \in Runs :
          Create(c, r) \/ Answer(c, r) \/ Cancel(c, r) \/ Resume(c, r)

Spec == Init /\ [][Next]_vars
=============================================================================
