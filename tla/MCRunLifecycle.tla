--------------------------- MODULE MCRunLifecycle ---------------------------
(***************************************************************************)
(* Model values, symmetry and the temporal-checking specification for TLC. *)
(***************************************************************************)
EXTENDS RunProperties, TLC

Symmetry ==
    Permutations(Runs) \cup Permutations(Cmds) \cup
    Permutations(Slots) \cup Permutations(Procs)
\* Where Cmds = Slots: each start and resume is a command of its own, an
\* answer may be delivered again, or be taken for another command.
MarkedIssues ==
    \A q \in Slots : reqs[q].pc = "idle" /\ reqs'[q].pc # "idle" =>
        reqs'[q].cmd = q \/ reqs'[q].kind = "answer"

=============================================================================
