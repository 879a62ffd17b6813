----------------------------- MODULE RunResolver -----------------------------
(***************************************************************************)
(* Who answers: a step of a Run resolves the client of the Provider its    *)
(* binding names, and a turn of a conversation the client of the active    *)
(* Profile.  Clients of Runs are cached, a cell per Run, and concurrent    *)
(* calls build one client between them.  Provider management changes the   *)
(* rows, the vault and the active Profile between any two steps.  Nothing  *)
(* in the program calls release_run: a cell lives as long as its process.  *)
(***************************************************************************)
EXTENDS Naturals, Sequences

CONSTANTS
    Asked,        \* Runs with a binding
    Talk,         \* what a turn of a conversation asks for instead
    Callers,
    Generations,  \* credential generations, one per Profile revision
    NoGeneration,
    MaxChanges    \* bound: changes of the world outside

VARIABLES
    binding,  \* run_provider_bindings: the generation written with each Run
    world,    \* what provider management keeps
    cells,    \* the OnceCells of this process
    cacheOf,  \* RunBoundProviderResolver.cache: the cell of each Run
    calls,    \* what each caller's resolve is doing
    changes

resolverVars == <<binding, world, cells, cacheOf, calls, changes>>

EmptyCell == [client |-> NoGeneration, busy |-> FALSE]
\* failing: the credential, or its Profile, was unusable at some moment of the
\* call; active: the generations that were active in a ready revision then.
IdleCall  == [pc |-> "idle", for |-> Talk, cell |-> 0, generation |-> NoGeneration,
              failing |-> FALSE, active |-> {}]

Init ==
    /\ binding \in [Asked -> Generations]
    /\ \E g \in Generations :
         world = [row    |-> Generations,  \* rows whose status counts as Saved
                  bytes  |-> Generations,  \* generations the vault can read
                  ready  |-> Generations,  \* revisions whose state is Ready
                  active |-> g]
    /\ cells = <<>>
    /\ cacheOf = [r \in Asked |-> 0]
    /\ calls = [c \in Callers |-> IdleCall]
    /\ changes = 0

-----------------------------------------------------------------------------
(* The call, with what its history says of the world.                      *)

ActiveReady(w) == {w.active} \cap w.ready

Unusable(w, call) ==
    IF call.for = Talk
    THEN \/ ActiveReady(w) = {} \/ w.active \notin w.bytes
         \/ call.generation \notin {NoGeneration, w.active}
    ELSE binding[call.for] \notin w.row \cap w.bytes

Witness(w, call) ==
    [call EXCEPT !.failing = @ \/ Unusable(w, call), !.active = @ \union ActiveReady(w)]

Rests(c) == calls[c].pc \in {"idle", "answered", "failed"}

Move(c, pc) == calls' = [calls EXCEPT ![c].pc = pc]

\* get_or_try_init: only one call builds a cell's client.  When that fails the
\* cell is empty again, and a call that waits for it builds for itself.
Ends(c, pc, client) ==
    LET i == calls[c].cell
    IN  /\ Move(c, pc)
        /\ cells' = IF i = 0 THEN cells
                    ELSE [cells EXCEPT ![i] = [client |-> client, busy |-> FALSE]]

Fails(c) == Ends(c, "failed", NoGeneration)

-----------------------------------------------------------------------------
(* A step of a Run: RunBoundProviderResolver.                              *)

(* Mutant of CellOf: every call makes a cell of its own.                   *)
CellOfItsOwn(r) == 0

\* A binding never changes, so a cached cell always has its fingerprint.
CellOf(r) == cacheOf[r]

Resolve(c, r) ==
    /\ Rests(c)
    /\ calls' = [calls EXCEPT ![c] =
                   Witness(world, [IdleCall EXCEPT !.pc = "binding", !.for = r])]
    /\ UNCHANGED <<binding, world, cells, cacheOf, changes>>

\* After the binding is read, the cell is taken or made under the lock.
TakeCell(c) ==
    LET r == calls[c].for
        i == IF CellOf(r) # 0 THEN CellOf(r) ELSE Len(cells) + 1
    IN  /\ calls[c].pc = "binding"
        /\ cells' = IF i > Len(cells) THEN Append(cells, EmptyCell) ELSE cells
        /\ cacheOf' = [cacheOf EXCEPT ![r] = i]
        /\ calls' = [calls EXCEPT ![c] = [@ EXCEPT !.pc = "cell", !.cell = i]]
        /\ UNCHANGED <<binding, world, changes>>

(* Mutant of BoundGeneration: the client of the active Profile is built.   *)
ActiveGeneration(r) == world.active

BoundGeneration(r) == binding[r]

EnterCell(c) ==
    LET cell == cells[calls[c].cell]
    IN  /\ calls[c].pc = "cell" /\ ~cell.busy
        /\ \/ /\ cell.client # NoGeneration
              /\ Move(c, "answered")
              /\ UNCHANGED cells
           \/ /\ cell.client = NoGeneration
              /\ cells' = [cells EXCEPT ![calls[c].cell].busy = TRUE]
              /\ calls' = [calls EXCEPT ![c] =
                    [@ EXCEPT !.pc = "row", !.generation = BoundGeneration(calls[c].for)]]
        /\ UNCHANGED <<binding, world, cacheOf, changes>>

AskRow(c) ==
    /\ calls[c].pc = "row"
    /\ IF calls[c].generation \in world.row THEN Move(c, "vault") /\ UNCHANGED cells
                                            ELSE Fails(c)
    /\ UNCHANGED <<binding, world, cacheOf, changes>>

-----------------------------------------------------------------------------
(* A turn of a conversation: ActiveProfileModelProvider.                   *)

Turn(c) ==
    /\ Rests(c)
    /\ calls' = [calls EXCEPT ![c] = Witness(world, [IdleCall EXCEPT !.pc = "active"])]
    /\ UNCHANGED <<binding, world, cells, cacheOf, changes>>

(* Mutant of ReadActive: a turn takes the client a Run has in the cache.   *)
ReadCached(c) ==
    /\ calls[c].pc = "active"
    /\ calls' = [calls EXCEPT ![c] = [@ EXCEPT !.pc = "revision", !.generation =
                   IF cells # <<>> /\ cells[1].client # NoGeneration
                   THEN cells[1].client ELSE world.active]]
    /\ UNCHANGED <<binding, world, cells, cacheOf, changes>>

ReadActive(c) ==
    /\ calls[c].pc = "active"
    /\ IF world.active = NoGeneration
       THEN Fails(c)
       ELSE /\ calls' = [calls EXCEPT ![c] =
                           [@ EXCEPT !.pc = "revision", !.generation = world.active]]
            /\ UNCHANGED cells
    /\ UNCHANGED <<binding, world, cacheOf, changes>>

\* resolve_active loads the revision the active Profile named when it was read.
LoadRevision(c) ==
    /\ calls[c].pc = "revision"
    /\ IF calls[c].generation \in world.ready THEN Move(c, "vault") /\ UNCHANGED cells
                                              ELSE Fails(c)
    /\ UNCHANGED <<binding, world, cacheOf, changes>>

-----------------------------------------------------------------------------
(* Both ask the vault, read the secret and build.                          *)

AskVault(c) ==
    /\ calls[c].pc = "vault"
    /\ IF calls[c].generation \in world.bytes THEN Move(c, "secret") /\ UNCHANGED cells
                                              ELSE Fails(c)
    /\ UNCHANGED <<binding, world, cacheOf, changes>>

ReadSecret(c) ==
    /\ calls[c].pc = "secret"
    /\ IF calls[c].generation \in world.bytes THEN Move(c, "build") /\ UNCHANGED cells
                                              ELSE Fails(c)
    /\ UNCHANGED <<binding, world, cacheOf, changes>>

\* A client is built from what the binding says; that a Provider or a model is
\* refused here was refused when the revision was validated.
BuildClient(c) ==
    /\ calls[c].pc = "build"
    /\ Ends(c, "answered", calls[c].generation)
    /\ UNCHANGED <<binding, world, cacheOf, changes>>

-----------------------------------------------------------------------------
(* The world outside, and the process.                                     *)

\* Rows are revoked and restored, the vault becomes unreadable and readable
\* again; a revision that is blocked is no longer active.
Worlds ==
    (UNION {{[world EXCEPT !.row = (@ \ {g}) \union ({g} \ @)],
             [world EXCEPT !.bytes = (@ \ {g}) \union ({g} \ @)],
             [world EXCEPT !.ready = @ \union {g}],
             [world EXCEPT !.ready = @ \ {g},
                           !.active = IF @ = g THEN NoGeneration ELSE @]} : g \in Generations})
    \union {[world EXCEPT !.active = g] : g \in world.ready}

Change ==
    /\ changes < MaxChanges
    /\ changes' = changes + 1
    /\ world' \in Worlds \ {world}
    /\ calls' = [c \in Callers |-> IF Rests(c) THEN calls[c] ELSE Witness(world', calls[c])]
    /\ UNCHANGED <<binding, cells, cacheOf>>

Restart ==
    /\ cells # <<>>
    /\ cells' = <<>>
    /\ cacheOf' = [r \in Asked |-> 0]
    /\ calls' = [c \in Callers |-> IdleCall]
    /\ UNCHANGED <<binding, world, changes>>

Next ==
    \/ \E c \in Callers :
         \/ \E r \in Asked : Resolve(c, r)
         \/ TakeCell(c) \/ EnterCell(c) \/ AskRow(c)
         \/ Turn(c) \/ ReadActive(c) \/ LoadRevision(c)
         \/ AskVault(c) \/ ReadSecret(c) \/ BuildClient(c)
    \/ Change
    \/ Restart

-----------------------------------------------------------------------------
(* Steps of one Run that were answered hold one client, and it is the one  *)
(* its binding names, whatever became of the active Profile or of the      *)
(* credential (resolver.rs: nothing "can redirect an in-flight model call")*)
BoundClient ==
    \A c \in Callers : calls[c].pc = "answered" /\ calls[c].for # Talk =>
        /\ cells[calls[c].cell].client = binding[calls[c].for]
        /\ \A d \in Callers : calls[d].pc = "answered" /\ calls[d].for = calls[c].for =>
              calls[d].cell = calls[c].cell

(* A step's call fails only because the credential its Run is bound to was *)
(* unusable while it was made: neither another call's failure nor another  *)
(* Profile's credential fails it, and after a repair the next succeeds.    *)
FailureIsOwn ==
    \A c \in Callers : calls[c].pc = "failed" /\ calls[c].for # Talk => calls[c].failing

(* A turn is answered by a revision that was active, and Ready, at some    *)
(* moment of the turn, and fails only if there was none it could use.      *)
TurnUsesActive ==
    \A c \in Callers : calls[c].for = Talk =>
        /\ calls[c].pc = "answered" => calls[c].generation \in calls[c].active
        /\ calls[c].pc = "failed" => calls[c].failing

=============================================================================
