----------------------------- MODULE MCCommands -----------------------------
(***************************************************************************)
(* Commands on Runs and, each in behaviours of its own, five parts beside  *)
(* them: the files of artifacts and of exports, which are commands too;    *)
(* the context a step sends to the model; the client it is sent with; the  *)
(* picker of that model; the line commands are typed into.  The part does  *)
(* not change, and the variables of the others keep their value.           *)
(***************************************************************************)
EXTENDS MCRunLifecycle

CONSTANTS
    Puts, Bodies, PerShard, Exports, Commands, NoExport,    \* artifacts
    Lengths, Budgets, MaxFound,                             \* packing
    Asked, Talk, Callers, Generations, NoGeneration,
    MaxChanges,                                             \* resolver
    Targets, NoTarget, MaxTasks,                            \* picker
    Letter, Slash, Command, NoText, MaxText, MaxHistory     \* line

VARIABLES
    part,
    puts, files, shards, temps, exports, exported,
    receiptOf, onDisk, shared, torn, outage,                \* artifacts
    wanted, assembled,                                      \* packing
    binding, world, cells, cacheOf, calls, changes,         \* resolver
    where, picker, catalog, switch, header, activeModel,    \* picker
    text, history, index, draft, overlay, sending           \* line

Artifacts == INSTANCE ArtifactFiles_proofs
Packing   == INSTANCE ContextPacking
Resolver  == INSTANCE RunResolver
Picker    == INSTANCE ModelPicker
Line      == INSTANCE Composer

artifactVars == <<puts, files, shards, temps, exports, exported, receiptOf, onDisk,
                  shared, torn, outage>>
packingVars  == <<wanted, assembled>>
pickerVars   == <<where, picker, catalog, switch, header, activeModel>>
resolverVars == <<binding, world, cells, cacheOf, calls, changes>>
lineVars     == <<text, history, index, draft, overlay, sending>>
partVars     == <<part, vars, artifactVars, packingVars, resolverVars, pickerVars, lineVars>>

IdleArtifacts ==
    /\ puts = <<>> /\ files = <<>> /\ shards = <<>> /\ temps = <<>> /\ exports = <<>>
    /\ exported = <<>> /\ receiptOf = <<>> /\ onDisk = {} /\ shared = {} /\ torn = {}
    /\ outage = FALSE

IdlePacking == wanted = <<>> /\ assembled = <<>>

IdlePicker ==
    /\ where = "Timeline" /\ picker = Picker!Fresh
    /\ catalog = Picker!NoTasks /\ switch = Picker!NoSwitch
    /\ header = [model |-> NoTarget, stale |-> FALSE] /\ activeModel = NoTarget

IdleResolver ==
    /\ binding = <<>> /\ world = <<>> /\ cells = <<>>
    /\ cacheOf = <<>> /\ calls = <<>> /\ changes = 0

PartsInit ==
    /\ Init
    /\ part \in {"runs", "artifacts", "packing", "resolver", "picker", "line"}
    /\ IF part = "artifacts" THEN Artifacts!Init ELSE IdleArtifacts
    /\ IF part = "packing"   THEN Packing!Init   ELSE IdlePacking
    /\ IF part = "resolver"  THEN Resolver!Init  ELSE IdleResolver
    /\ IF part = "picker"    THEN Picker!Init    ELSE IdlePicker
    /\ Line!Init

PartsNext ==
    /\ \/ part = "runs" /\ Next
       \/ part # "runs" /\ UNCHANGED vars
    /\ \/ part = "artifacts" /\ Artifacts!Next
       \/ part # "artifacts" /\ UNCHANGED artifactVars
    /\ \/ part = "packing" /\ Packing!Assemble
       \/ part # "packing" /\ UNCHANGED packingVars
    /\ \/ part = "resolver" /\ Resolver!Next
       \/ part # "resolver" /\ UNCHANGED resolverVars
    /\ \/ part = "picker" /\ Picker!Next
       \/ part # "picker" /\ UNCHANGED pickerVars
    /\ \/ part = "line" /\ Line!Next
       \/ part # "line" /\ UNCHANGED lineVars
    /\ UNCHANGED part

\* A part beside the Runs may stop: its bounds are used up.
PartEnds == part # "runs" /\ UNCHANGED partVars

PartsSpec == PartsInit /\ [][PartsNext \/ PartEnds]_partVars

PartsSymmetry == Permutations(Cmds) \cup Permutations(Puts) \cup Permutations(Exports)

-----------------------------------------------------------------------------
(* Every variable of each part has the values the code can give it.        *)
PartsTypeOK ==
    /\ part = "artifacts" => Artifacts!TypeOK
    /\ part = "picker" => Picker!TypeOK

(* An artifact on record and in force has its bytes through every crash of *)
(* the process; ArtifactFiles!RowHasBytes names what a power loss may take.*)
RowHasBytes == part = "artifacts" => Artifacts!RowHasBytes

(* An export command given again is answered with its first export, whose  *)
(* file is whole but for the cases ArtifactFiles!ExportIsWhole names.      *)
ExportStands == part = "artifacts" => Artifacts!ExportStands

(* What the assembler packs, the prompt builder and the writer accept;     *)
(* nothing found is lost and the token budget is used; and a phase asks for*)
(* the evidence it requires unless valid evidence was found: not for what  *)
(* the budget, or evidence of the same source and version, then kept out.  *)
PromptPacked ==
    part = "packing" =>
        Packing!PromptAccepts /\ Packing!FillsBudget /\ Packing!EvidenceOrNeed

(* The steps of one Run are answered by one client, that of its binding; a *)
(* turn of a conversation by a revision that was active and Ready; and a   *)
(* call fails only when what it asked for was unusable.                    *)
RightClient ==
    part = "resolver" =>
        Resolver!BoundClient /\ Resolver!TurnUsesActive /\ Resolver!FailureIsOwn

(* A picker that says it is loading waits for a request that will be       *)
(* admitted, for what it shows, and what it shows answers such a request.  *)
PickerShowsAnswer ==
    part = "picker" => Picker!LoadingIsAsked /\ Picker!ShownIsAnswer

(* At rest the header and the list of models show the active model.        *)
ShowsActive == part = "picker" => Picker!ShowsActive

(* What was on the line is kept when the history is browsed or a line sent,*)
(* and what was put aside comes back; overlays are not spoken of.          *)
TextIsKept == Line!TextIsKept

=============================================================================
