-------------------------- MODULE MCCommands_proofs --------------------------
(***************************************************************************)
(* What is proved of the parts that run beside the commands on Runs: the   *)
(* artifacts and exports, from the invariants of ArtifactFiles_proofs; who *)
(* answers the steps of a Run and the turns of a conversation; what the    *)
(* model picker shows; that the line keeps what the user typed; and what   *)
(* goes into a prompt, by induction over the lists it is assembled from.   *)
(***************************************************************************)
EXTENDS MCCommands, WellFoundedInduction, TLAPS

(* The part stays, and a step of the specification is one of the part.     *)
LEMMA PartStep ==
    [PartsNext \/ PartEnds]_partVars =>
        /\ part' = part
        /\ part = "artifacts" => [Artifacts!Next]_artifactVars
        /\ part = "packing" => [Packing!Assemble]_packingVars
        /\ part = "resolver" => [Resolver!Next]_resolverVars
        /\ part = "picker" => [Picker!Next]_pickerVars
<1> SUFFICES ASSUME [PartsNext \/ PartEnds]_partVars
             PROVE  /\ part' = part
                    /\ part = "artifacts" => [Artifacts!Next]_artifactVars
                    /\ part = "packing" => [Packing!Assemble]_packingVars
                    /\ part = "resolver" => [Resolver!Next]_resolverVars
                    /\ part = "picker" => [Picker!Next]_pickerVars
  OBVIOUS
<1>1. CASE PartsNext
  BY <1>1 DEF PartsNext
<1>2. CASE UNCHANGED partVars
  BY <1>2 DEF partVars
<1>3. QED
  BY <1>1, <1>2 DEF PartEnds

-----------------------------------------------------------------------------
(* Artifacts and exports.                                                  *)

FilesInv == part = "artifacts" => Artifacts!PutIInv /\ Artifacts!ExportIInv

LEMMA FilesInvariant == NoExport \notin Exports => (PartsSpec => []FilesInv)
<1> SUFFICES ASSUME NoExport \notin Exports PROVE PartsSpec => []FilesInv
  OBVIOUS
<1>1. PartsInit => FilesInv
  BY Artifacts!PutInit, Artifacts!ExportInit DEF PartsInit, FilesInv
<1>2. FilesInv /\ [PartsNext \/ PartEnds]_partVars => FilesInv'
  BY PartStep, Artifacts!PutNext, Artifacts!ExportNext
     DEF FilesInv, artifactVars, Artifacts!artifactVars
<1>3. QED
  BY <1>1, <1>2, PTL DEF PartsSpec

(* An artifact on record and in force has its bytes on disk, whatever puts *)
(* run at once, whatever expires, and wherever the process crashes, unless *)
(* they went with an expired row of the same bytes.  A crash of the machine*)
(* may take them only from a put that found a file, or made a shard, whose *)
(* own name nobody had synced (put_artifact).                              *)
THEOREM RecordsHaveBytes == NoExport \notin Exports => (PartsSpec => []RowHasBytes)
<1> SUFFICES ASSUME NoExport \notin Exports PROVE PartsSpec => []RowHasBytes
  OBVIOUS
<1>1. FilesInv => RowHasBytes
  BY Artifacts!PutGives DEF FilesInv, RowHasBytes
<1>2. QED
  BY <1>1, FilesInvariant, PTL

(* A command given again is answered with its first export.  The file of a *)
(* recorded export is whole unless the same artifact is being exported     *)
(* again or the last export of it was cut short (torn); a crash of the     *)
(* machine may take it, and leaves none in pieces (write_private_file).    *)
THEOREM ExportsStandFast == NoExport \notin Exports => (PartsSpec => []ExportStands)
<1> SUFFICES ASSUME NoExport \notin Exports PROVE PartsSpec => []ExportStands
  OBVIOUS
<1>1. FilesInv => ExportStands
  BY Artifacts!ExportGives DEF FilesInv, ExportStands
<1>2. QED
  BY <1>1, FilesInvariant, PTL

-----------------------------------------------------------------------------
(* Who answers.  A call that waits, asks or builds is described by what it *)
(* has read (TurnInOrder, StepInOrder), by what it has seen of the world   *)
(* (Witnessed) and by the cell it is at (CellInOrder).                     *)

Resting  == {"idle", "answered", "failed"}
Building == {"row", "vault", "secret", "build"}
CallPCs  == Resting \cup Building \cup {"binding", "cell", "active", "revision"}
OrNone   == Generations \cup {NoGeneration}

CallStates == [pc : CallPCs, for : Asked \cup {Talk}, cell : Nat, generation : OrNone,
               failing : BOOLEAN, active : SUBSET Generations]
CellStates == [client : OrNone, busy : BOOLEAN]
WorldStates == [row : SUBSET Generations, bytes : SUBSET Generations,
                ready : SUBSET Generations, active : OrNone]

ResolverTypes ==
    /\ binding \in [Asked -> Generations]
    /\ world \in WorldStates /\ world.active \in world.ready \cup {NoGeneration}
    /\ cells \in Seq(CellStates)
    /\ cacheOf \in [Asked -> Nat]
    /\ calls \in [Callers -> CallStates]

(* A Run has a cell of its own, and in it only its own client.             *)
CacheInOrder(r) ==
    cacheOf[r] # 0 =>
        /\ cacheOf[r] \in 1 .. Len(cells)
        /\ cells[cacheOf[r]].client \in {NoGeneration, binding[r]}
        /\ \A s \in Asked : s # r => cacheOf[s] # cacheOf[r]

(* A call under way knows if what it needs became unusable meanwhile, and  *)
(* every generation that was active and ready.                             *)
Witnessed(c) ==
    calls[c].pc \notin Resting =>
        /\ Resolver!Unusable(world, calls[c]) => calls[c].failing
        /\ Resolver!ActiveReady(world) \subseteq calls[c].active

TurnInOrder(c) ==
    calls[c].for = Talk =>
        /\ calls[c].cell = 0
        /\ calls[c].pc \notin {"binding", "cell", "row"}
        /\ calls[c].pc = "active" => calls[c].generation = NoGeneration
        /\ calls[c].pc \in {"revision", "vault", "secret", "build", "answered"} =>
              calls[c].generation \in calls[c].active
        /\ calls[c].pc = "failed" => calls[c].failing

StepInOrder(c) ==
    calls[c].for # Talk =>
        /\ calls[c].pc \notin {"idle", "active", "revision"}
        /\ calls[c].pc = "failed" => calls[c].failing
        /\ calls[c].pc \in Building => calls[c].generation = binding[calls[c].for]

(* A step is at the cell of its Run; who builds is alone there.            *)
Builds(c) == calls[c].for # Talk /\ calls[c].pc \in Building

CellInOrder(c) ==
    /\ calls[c].for # Talk /\ calls[c].pc \in Building \cup {"cell", "answered"} =>
          calls[c].cell = cacheOf[calls[c].for] /\ calls[c].cell # 0
    /\ calls[c].for # Talk /\ calls[c].pc = "answered" =>
          cells[calls[c].cell].client = binding[calls[c].for]
    /\ Builds(c) => /\ cells[calls[c].cell].busy
                    /\ cells[calls[c].cell].client = NoGeneration
                    /\ \A d \in Callers : d # c /\ Builds(d) => calls[d].cell # calls[c].cell

CallInOrder(c) == Witnessed(c) /\ TurnInOrder(c) /\ StepInOrder(c)

ResolverInv ==
    /\ ResolverTypes
    /\ \A r \in Asked : CacheInOrder(r)
    /\ \A c \in Callers : CallInOrder(c) /\ CellInOrder(c)

Apart == Talk \notin Asked /\ NoGeneration \notin Generations

LEMMA ResolverInit == Apart /\ Resolver!Init => ResolverInv
<1> SUFFICES ASSUME Apart, Resolver!Init PROVE ResolverInv
  OBVIOUS
<1>1. PICK g \in Generations :
         world = [row |-> Generations, bytes |-> Generations, ready |-> Generations, active |-> g]
  BY DEF Resolver!Init
<1>2. Resolver!IdleCall \in CallStates
  BY DEF Resolver!IdleCall, CallStates, CallPCs, Resting, OrNone
<1>3. ResolverTypes
  BY <1>1, <1>2 DEF Resolver!Init, ResolverTypes, WorldStates, OrNone
<1>4. \A c \in Callers : CallInOrder(c) /\ CellInOrder(c)
  BY
     DEF Resolver!Init, Resolver!IdleCall, CallInOrder, Witnessed, TurnInOrder,
         StepInOrder, CellInOrder,
         Builds, Resting, Building
<1>5. \A r \in Asked : CacheInOrder(r)
  BY DEF Resolver!Init, CacheInOrder
<1>6. QED
  BY <1>3, <1>4, <1>5 DEF ResolverInv

(* A call moves on, the cells stay, and who builds was building.           *)
LEMMA CallMoves ==
    ASSUME ResolverInv, NEW c \in Callers, NEW t \in CallStates,
           calls' = [calls EXCEPT ![c] = t],
           UNCHANGED <<binding, world, cells, cacheOf>>,
           CallInOrder(c)',
           t.for # Talk => /\ t.pc \in Building => Builds(c) /\ t.cell = calls[c].cell
                           /\ t.pc \in Building \cup {"cell", "answered"} =>
                                 t.cell = cacheOf[t.for] /\ t.cell # 0
                           /\ t.pc = "answered" => cells[t.cell].client = binding[t.for]
    PROVE  ResolverInv'
<1>1. ResolverTypes'
  BY DEF ResolverInv, ResolverTypes
<1>2. calls'[c] = t /\ \A d \in Callers : d # c => calls'[d] = calls[d]
  BY DEF ResolverInv, ResolverTypes
<1>3. \A r \in Asked : CacheInOrder(r)'
  BY DEF ResolverInv, CacheInOrder
<1>4. \A d \in Callers : d # c => CallInOrder(d)'
  BY <1>2
     DEF ResolverInv, CallInOrder, Witnessed, TurnInOrder, StepInOrder,
         Resolver!Unusable, Resolver!ActiveReady
<1>5. \A d \in Callers : Builds(d)' => Builds(d) /\ calls'[d].cell = calls[d].cell
  BY <1>2 DEF Builds
<1>6. ASSUME NEW d \in Callers PROVE CellInOrder(d)'
  <2>1. CellInOrder(d)
    BY DEF ResolverInv
  <2>2. Builds(d)' => /\ cells'[calls'[d].cell].busy
                      /\ cells'[calls'[d].cell].client = NoGeneration
                      /\ \A e \in Callers : e # d /\ Builds(e)' => calls'[e].cell # calls'[d].cell
    BY <2>1, <1>5 DEF CellInOrder
  <2>3. calls'[d].for # Talk /\ calls'[d].pc \in Building \cup {"cell", "answered"} =>
          calls'[d].cell = cacheOf'[calls'[d].for] /\ calls'[d].cell # 0
    BY <2>1, <1>2 DEF CellInOrder
  <2>4. calls'[d].for # Talk /\ calls'[d].pc = "answered" =>
          cells'[calls'[d].cell].client = binding'[calls'[d].for]
    BY <2>1, <1>2 DEF CellInOrder
  <2>5. QED
    BY <2>2, <2>3, <2>4 DEF CellInOrder
<1>7. QED
  BY <1>1, <1>3, <1>4, <1>6 DEF ResolverInv

LEMMA CallFacts ==
    ASSUME ResolverInv, NEW c \in Callers
    PROVE  /\ calls \in [Callers -> CallStates] /\ calls[c] \in CallStates
           /\ CallInOrder(c) /\ CellInOrder(c)
           /\ world \in WorldStates /\ world.active \in world.ready \cup {NoGeneration}
           /\ cells \in Seq(CellStates) /\ cacheOf \in [Asked -> Nat]
           /\ binding \in [Asked -> Generations]
BY DEF ResolverInv, ResolverTypes

LEMMA WitnessState ==
    ASSUME NEW w \in WorldStates, NEW k \in CallStates
    PROVE  /\ Resolver!Witness(w, k) \in CallStates
           /\ Resolver!Witness(w, k).pc = k.pc /\ Resolver!Witness(w, k).for = k.for
           /\ Resolver!Witness(w, k).cell = k.cell /\ Resolver!Witness(w, k).generation = k.generation
           /\ Resolver!Witness(w, k).failing = (k.failing \/ Resolver!Unusable(w, k))
           /\ Resolver!Witness(w, k).active = k.active \cup Resolver!ActiveReady(w)
<1>1. Resolver!Unusable(w, k) \in BOOLEAN
  BY DEF Resolver!Unusable
<1>2. Resolver!ActiveReady(w) \subseteq Generations
  BY DEF Resolver!ActiveReady, WorldStates
<1> HIDE DEF Resolver!Unusable
<1>3. QED
  BY <1>1, <1>2 DEF Resolver!Witness, CallStates

LEMMA ResolveKeeps ==
    ASSUME ResolverInv, Apart, NEW c \in Callers, NEW r \in Asked, Resolver!Resolve(c, r)
    PROVE  ResolverInv'
<1> DEFINE k == [Resolver!IdleCall EXCEPT !.pc = "binding", !.for = r]
           t == Resolver!Witness(world, k)
<1>1. k \in CallStates /\ k.pc = "binding" /\ k.for = r /\ k.cell = 0 /\ k.generation = NoGeneration
  BY DEF Resolver!IdleCall, CallStates, CallPCs, Resting, OrNone
<1>2. /\ t \in CallStates /\ t.pc = "binding" /\ t.for = r /\ t.cell = 0
      /\ t.generation = NoGeneration /\ Resolver!ActiveReady(world) \subseteq t.active
      /\ Resolver!Unusable(world, k) => t.failing
  BY <1>1, WitnessState, CallFacts
<1>3. calls' = [calls EXCEPT ![c] = t]
  BY DEF Resolver!Resolve
<1>4. r # Talk
  BY DEF Apart
<1>5. Resolver!Unusable(world, t) = Resolver!Unusable(world, k)
  BY <1>1, <1>2 DEF Resolver!Unusable
<1> HIDE DEF k, t
<1>6. calls'[c] = t
  BY <1>3, CallFacts
<1>7. CallInOrder(c)'
  BY <1>2, <1>4, <1>5, <1>6
     DEF CallInOrder, Witnessed, TurnInOrder, StepInOrder, Building, Resting,
         Resolver!Resolve, Resolver!Unusable, Resolver!ActiveReady
<1>8. QED
  BY <1>2, <1>3, <1>7, CallMoves DEF Building, Resolver!Resolve

LEMMA TurnKeeps ==
    ASSUME ResolverInv, Apart, NEW c \in Callers, Resolver!Turn(c)
    PROVE  ResolverInv'
<1> DEFINE k == [Resolver!IdleCall EXCEPT !.pc = "active"]
           t == Resolver!Witness(world, k)
<1>1. k \in CallStates /\ k.pc = "active" /\ k.for = Talk /\ k.cell = 0 /\ k.generation = NoGeneration
  BY DEF Resolver!IdleCall, CallStates, CallPCs, Resting, OrNone
<1>2. /\ t \in CallStates /\ t.pc = "active" /\ t.for = Talk /\ t.cell = 0
      /\ t.generation = NoGeneration /\ Resolver!ActiveReady(world) \subseteq t.active
      /\ Resolver!Unusable(world, k) => t.failing
  BY <1>1, WitnessState, CallFacts
<1>3. calls' = [calls EXCEPT ![c] = t]
  BY DEF Resolver!Turn
<1>5. Resolver!Unusable(world, t) = Resolver!Unusable(world, k)
  BY <1>1, <1>2 DEF Resolver!Unusable
<1> HIDE DEF k, t
<1>6. calls'[c] = t
  BY <1>3, CallFacts
<1>7. CallInOrder(c)'
  BY <1>2, <1>5, <1>6
     DEF CallInOrder, Witnessed, TurnInOrder, StepInOrder, Building, Resting,
         Resolver!Turn, Resolver!Unusable, Resolver!ActiveReady
<1>8. QED
  BY <1>2, <1>3, <1>7, CallMoves DEF Building, Resolver!Turn

(* A call that goes on to ask something else.                              *)
LEMMA MoveGives ==
    ASSUME ResolverInv, NEW c \in Callers, NEW pc \in CallPCs, Resolver!Move(c, pc)
    PROVE  \E t \in CallStates :
              /\ calls' = [calls EXCEPT ![c] = t] /\ calls'[c] = t /\ t.pc = pc
              /\ t.for = calls[c].for /\ t.cell = calls[c].cell
              /\ t.generation = calls[c].generation
              /\ t.failing = calls[c].failing /\ t.active = calls[c].active
<1> DEFINE t == [calls[c] EXCEPT !.pc = pc]
<1>1. /\ calls \in [Callers -> CallStates] /\ calls[c] \in CallStates
  BY CallFacts
<1>2. t \in CallStates /\ t.pc = pc
      /\ t.for = calls[c].for /\ t.cell = calls[c].cell
      /\ t.generation = calls[c].generation
      /\ t.failing = calls[c].failing /\ t.active = calls[c].active
  BY <1>1 DEF CallStates
<1>3. calls' = [calls EXCEPT ![c] = t]
  BY DEF Resolver!Move
<1> HIDE DEF t
<1>4. calls'[c] = t
  BY <1>1, <1>3
<1>5. QED
  BY <1>2, <1>3, <1>4

(* From one question to the next of the same call: nothing it knows        *)
(* changes, and nothing it has learned.                                    *)
LEMMA AsksNext ==
    ASSUME ResolverInv, NEW c \in Callers, NEW pc \in {"vault", "secret", "build"},
           calls[c].pc \in {"row", "revision", "vault", "secret"},
           Resolver!Move(c, pc), UNCHANGED <<binding, world, cells, cacheOf>>
    PROVE  ResolverInv'
<1>1. PICK t \in CallStates :
              /\ calls' = [calls EXCEPT ![c] = t] /\ calls'[c] = t /\ t.pc = pc
              /\ t.for = calls[c].for /\ t.cell = calls[c].cell
              /\ t.generation = calls[c].generation
              /\ t.failing = calls[c].failing /\ t.active = calls[c].active
  BY MoveGives DEF CallPCs, Building
<1>2. CallInOrder(c) /\ CellInOrder(c)
  BY CallFacts
<1>3. Witnessed(c)'
  BY <1>1, <1>2
     DEF CallInOrder, Witnessed, Resting, Resolver!Unusable, Resolver!ActiveReady
<1>4. TurnInOrder(c)' /\ StepInOrder(c)'
  BY <1>1, <1>2 DEF CallInOrder, TurnInOrder, StepInOrder, Building
<1>5. calls[c].for # Talk => Builds(c)
  BY <1>2 DEF CallInOrder, StepInOrder, Building, Builds
<1>6. QED
  BY <1>1, <1>2, <1>3, <1>4, <1>5, CallMoves
     DEF CallInOrder, CellInOrder, Building, Builds

LEMMA ReadActiveKeeps ==
    ASSUME ResolverInv, Apart, NEW c \in Callers, Resolver!ReadActive(c), world.active # NoGeneration
    PROVE  ResolverInv'
<1> DEFINE t == [calls[c] EXCEPT !.pc = "revision", !.generation = world.active]
<1>1. calls[c] \in CallStates /\ calls \in [Callers -> CallStates] /\ world.active \in OrNone
  BY CallFacts DEF WorldStates
<1>2. /\ t \in CallStates /\ t.pc = "revision" /\ t.generation = world.active
      /\ t.for = calls[c].for /\ t.cell = calls[c].cell
      /\ t.failing = calls[c].failing /\ t.active = calls[c].active
  BY <1>1 DEF CallStates, CallPCs
<1>3. calls' = [calls EXCEPT ![c] = t] /\ UNCHANGED <<binding, world, cells, cacheOf>>
  BY DEF Resolver!ReadActive
<1> HIDE DEF t
<1>4. calls'[c] = t
  BY <1>1, <1>3
<1>5. /\ CallInOrder(c) /\ calls[c].pc = "active"
      /\ world.active \in world.ready \cup {NoGeneration}
  BY CallFacts DEF Resolver!ReadActive
<1>6. calls[c].for = Talk
  BY <1>5 DEF CallInOrder, StepInOrder
<1>7. Witnessed(c)'
  BY <1>2, <1>3, <1>4, <1>5, <1>6
     DEF CallInOrder, Witnessed, Resting, Resolver!Unusable, Resolver!ActiveReady
<1>8. world.active \in calls[c].active
  BY <1>5 DEF CallInOrder, Witnessed, Resting, Resolver!ActiveReady
<1>9. TurnInOrder(c)' /\ StepInOrder(c)'
  BY <1>2, <1>4, <1>5, <1>6, <1>8 DEF CallInOrder, TurnInOrder, StepInOrder
<1>10. QED
  BY <1>2, <1>3, <1>6, <1>7, <1>9, CallMoves DEF CallInOrder

(* Where a call gives up, what it asked for is unusable.                   *)
LEMMA GivesUp ==
    ASSUME ResolverInv, NEW c \in Callers,
           \/ calls[c].pc = "row" /\ calls[c].generation \notin world.row
           \/ calls[c].pc = "active" /\ world.active = NoGeneration
           \/ calls[c].pc = "revision" /\ calls[c].generation \notin world.ready
           \/ calls[c].pc \in {"vault", "secret"} /\ calls[c].generation \notin world.bytes,
           Apart
    PROVE  calls[c].failing
<1>1. CallInOrder(c) /\ world \in WorldStates
  BY CallFacts
<1>2. Resolver!Unusable(world, calls[c]) => calls[c].failing
  BY <1>1 DEF CallInOrder, Witnessed, Resting
<1>3. CASE calls[c].for # Talk
  BY <1>1, <1>2, <1>3 DEF CallInOrder, StepInOrder, Building, Resolver!Unusable
<1>4. CASE calls[c].for = Talk
  <2>1. CASE calls[c].pc \in {"vault", "secret"} /\ calls[c].generation \notin world.bytes
    <3>1. calls[c].generation \in calls[c].active /\ calls[c].active \subseteq Generations
      BY <1>1, <1>4, <2>1, CallFacts DEF CallInOrder, TurnInOrder, CallStates
    <3>2. QED
      BY <1>2, <1>4, <2>1, <3>1 DEF Resolver!Unusable, Apart
  <2>2. CASE calls[c].pc = "active" /\ world.active = NoGeneration
    BY <1>1, <1>2, <1>4, <2>2
       DEF Resolver!Unusable, Resolver!ActiveReady, WorldStates, Apart
  <2>3. CASE calls[c].pc = "revision" /\ calls[c].generation \notin world.ready
    <3>1. calls[c].generation \in calls[c].active /\ calls[c].active \subseteq Generations
      BY <1>1, <1>4, <2>3, CallFacts DEF CallInOrder, TurnInOrder, CallStates
    <3>2. QED
      BY <1>2, <1>4, <2>3, <3>1 DEF Resolver!Unusable, Resolver!ActiveReady, Apart
  <2>4. QED
    BY <1>1, <1>4, <2>1, <2>2, <2>3 DEF CallInOrder, TurnInOrder
<1>5. QED
  BY <1>3, <1>4

(* The call of Run r changes what is in the cell it alone may change.      *)
LEMMA CellMoves ==
    ASSUME ResolverInv, Apart, NEW c \in Callers, NEW t \in CallStates, NEW y \in CellStates,
           calls' = [calls EXCEPT ![c] = t], calls[c].for # Talk,
           calls[c].pc \in Building \cup {"cell"},
           cells' = [cells EXCEPT ![calls[c].cell] = y],
           UNCHANGED <<binding, world, cacheOf>>,
           t.for = calls[c].for, t.cell = calls[c].cell,
           cells[calls[c].cell].client = NoGeneration,
           \A d \in Callers : d # c /\ Builds(d) => calls[d].cell # calls[c].cell,
           y.client \in {NoGeneration, binding[t.for]},
           CallInOrder(c)',
           t.pc \in Building => y.busy /\ y.client = NoGeneration,
           t.pc = "answered" => y.client = binding[t.for]
    PROVE  ResolverInv'
<1> DEFINE i == calls[c].cell
<1> HIDE DEF i
<1>1. /\ calls \in [Callers -> CallStates] /\ calls[c].for \in Asked /\ cacheOf \in [Asked -> Nat]
      /\ i = cacheOf[calls[c].for] /\ i # 0 /\ cells \in Seq(CellStates) /\ t.cell = i
      /\ cells' = [cells EXCEPT ![i] = y] /\ binding \in [Asked -> Generations]
  BY CallFacts DEF CellInOrder, CallStates, i
<1>2. /\ i \in 1 .. Len(cells)
      /\ \A s \in Asked : s # calls[c].for => cacheOf[s] # i
  BY <1>1 DEF ResolverInv, CacheInOrder
<1>3. /\ cells' \in Seq(CellStates) /\ Len(cells') = Len(cells) /\ cells'[i] = y
      /\ \A j \in 1 .. Len(cells) : j # i => cells'[j] = cells[j]
  BY <1>1, <1>2
<1>4. calls'[c] = t /\ \A d \in Callers : d # c => calls'[d] = calls[d]
  BY <1>1
<1>5. ResolverTypes'
  BY <1>3 DEF ResolverInv, ResolverTypes
<1>6. ASSUME NEW r \in Asked PROVE CacheInOrder(r)'
  <2>1. CacheInOrder(r)
    BY DEF ResolverInv
  <2>2. CASE r = calls[c].for
    BY <1>1, <1>2, <1>3, <2>1, <2>2 DEF CacheInOrder
  <2>3. CASE r # calls[c].for
    BY <1>1, <1>2, <1>3, <2>1, <2>3 DEF CacheInOrder
  <2>4. QED
    BY <2>2, <2>3
<1>7. \A d \in Callers : d # c => CallInOrder(d)'
  BY <1>4
     DEF ResolverInv, CallInOrder, Witnessed, TurnInOrder, StepInOrder,
         Resolver!Unusable, Resolver!ActiveReady
<1>8. \A d \in Callers : d # c => (Builds(d)' <=> Builds(d))
  BY <1>4 DEF Builds
<1>9. CellInOrder(c)'
  <2>1. Builds(c)' => /\ cells'[calls'[c].cell].busy
                      /\ cells'[calls'[c].cell].client = NoGeneration
                      /\ \A d \in Callers : d # c /\ Builds(d)' => calls'[d].cell # calls'[c].cell
    <3> SUFFICES ASSUME Builds(c)'
                 PROVE  /\ cells'[calls'[c].cell].busy
                        /\ cells'[calls'[c].cell].client = NoGeneration
                        /\ \A d \in Callers : d # c /\ Builds(d)' => calls'[d].cell # calls'[c].cell
      OBVIOUS
    <3>1. t.pc \in Building
      BY <1>4 DEF Builds
    <3>2. QED
      BY <3>1, <1>1, <1>3, <1>4, <1>8 DEF i
  <2>2. QED
    BY <1>1, <1>3, <1>4, <2>1 DEF CellInOrder
<1>10. ASSUME NEW d \in Callers, d # c PROVE CellInOrder(d)'
  <2>1. /\ CellInOrder(d) /\ calls'[d] = calls[d] /\ calls[d] \in CallStates
    BY <1>4, <1>10, CallFacts
  <2>2. ASSUME calls[d].for # Talk, calls[d].pc \in Building \cup {"cell", "answered"}
        PROVE  /\ calls[d].for \in Asked /\ calls[d].cell = cacheOf[calls[d].for]
               /\ calls[d].cell \in 1 .. Len(cells)
               /\ calls[d].cell = i => calls[d].for = calls[c].for
    <3>1. calls[d].for \in Asked /\ calls[d].cell = cacheOf[calls[d].for] /\ calls[d].cell # 0
      BY <2>1, <2>2 DEF CellInOrder, CallStates
    <3>2. QED
      BY <3>1, <1>2 DEF ResolverInv, CacheInOrder
  <2>3. ASSUME calls[d].for # Talk, calls[d].pc = "answered"
        PROVE  cells'[calls[d].cell].client = binding[calls[d].for]
    <3>1. cells[calls[d].cell].client = binding[calls[d].for]
      BY <2>1, <2>3 DEF CellInOrder
    <3>2. calls[d].for \in Asked /\ calls[d].cell \in 1 .. Len(cells)
      BY <2>2, <2>3
    <3>3. binding[calls[d].for] # NoGeneration
      BY <3>2, <1>1 DEF Apart
    <3>4. calls[d].cell # i
      BY <3>1, <3>3 DEF i
    <3>5. QED
      BY <3>1, <3>2, <3>4, <1>3
  <2>4. ASSUME Builds(d)
        PROVE  /\ cells'[calls[d].cell].busy /\ cells'[calls[d].cell].client = NoGeneration
               /\ \A e \in Callers : e # d /\ Builds(e)' => calls'[e].cell # calls[d].cell
    <3>1. calls[d].cell # i /\ calls[d].cell \in 1 .. Len(cells)
      BY <1>10, <2>2, <2>4 DEF i, Builds
    <3>2. cells'[calls[d].cell] = cells[calls[d].cell]
      BY <3>1, <1>3
    <3>3. \A e \in Callers : e # d /\ Builds(e)' => calls'[e].cell # calls[d].cell
      BY <2>1, <2>4, <3>1, <1>1, <1>4, <1>8 DEF CellInOrder
    <3>4. QED
      BY <2>1, <2>4, <3>2, <3>3 DEF CellInOrder
  <2>5. Builds(d)' <=> Builds(d)
    BY <1>8, <1>10
  <2>6. Builds(d)' => /\ cells'[calls'[d].cell].busy
                      /\ cells'[calls'[d].cell].client = NoGeneration
                      /\ \A e \in Callers : e # d /\ Builds(e)' => calls'[e].cell # calls'[d].cell
    BY <2>1, <2>4, <2>5
  <2>7. QED
    BY <2>1, <2>3, <2>6 DEF CellInOrder
<1>11. QED
  BY <1>5, <1>6, <1>7, <1>9, <1>10 DEF ResolverInv

LEMMA EndsKeeps ==
    ASSUME ResolverInv, Apart, NEW c \in Callers, NEW pc \in {"answered", "failed"},
           NEW x \in OrNone, Resolver!Ends(c, pc, x), UNCHANGED <<binding, world, cacheOf>>,
           calls[c].pc \in Building \cup {"active", "revision"},
           pc = "answered" => calls[c].pc = "build" /\ x = calls[c].generation,
           pc = "failed" => calls[c].failing /\ x = NoGeneration
    PROVE  ResolverInv'
<1>1. PICK t \in CallStates :
              /\ calls' = [calls EXCEPT ![c] = t] /\ calls'[c] = t /\ t.pc = pc
              /\ t.for = calls[c].for /\ t.cell = calls[c].cell
              /\ t.generation = calls[c].generation
              /\ t.failing = calls[c].failing /\ t.active = calls[c].active
  BY MoveGives DEF CallPCs, Resting, Resolver!Ends
<1>2. CallInOrder(c) /\ CellInOrder(c)
  BY CallFacts
<1>3. CallInOrder(c)'
  <2>1. Witnessed(c)'
    BY <1>1 DEF Witnessed, Resting
  <2>2. TurnInOrder(c)' /\ StepInOrder(c)'
    BY <1>1, <1>2 DEF CallInOrder, TurnInOrder, StepInOrder, Building
  <2>3. QED
    BY <2>1, <2>2 DEF CallInOrder
<1>4. CASE calls[c].for = Talk
  <2>1. UNCHANGED cells
    BY <1>2, <1>4 DEF Resolver!Ends, CallInOrder, TurnInOrder
  <2>2. QED
    BY <1>1, <1>3, <1>4, <2>1, CallMoves
<1>5. CASE calls[c].for # Talk
  <2> DEFINE y == [client |-> x, busy |-> FALSE]
  <2>1. Builds(c)
    BY <1>2, <1>5 DEF CallInOrder, StepInOrder, Builds
  <2>2. /\ calls[c].cell # 0 /\ cells[calls[c].cell].client = NoGeneration
        /\ \A d \in Callers : d # c /\ Builds(d) => calls[d].cell # calls[c].cell
    BY <1>2, <2>1 DEF CellInOrder, Builds
  <2>3. cells' = [cells EXCEPT ![calls[c].cell] = y]
    BY <2>2 DEF Resolver!Ends
  <2>4. y \in CellStates /\ y.client = x
    BY DEF CellStates
  <2>5. pc = "answered" => x = binding[calls[c].for]
    BY <1>2, <1>5 DEF CallInOrder, StepInOrder, Building
  <2> HIDE DEF y
  <2>6. /\ calls[c].pc \in Building \cup {"cell"}
        /\ y.client \in {NoGeneration, binding[t.for]}
        /\ t.pc = "answered" => y.client = binding[t.for]
        /\ t.pc \notin Building
    BY <1>1, <2>1, <2>4, <2>5 DEF Builds, Building
  <2>7. QED
    BY <1>1, <1>3, <1>5, <2>2, <2>3, <2>4, <2>6, CellMoves
<1>6. QED
  BY <1>4, <1>5

LEMMA EnterCellKeeps ==
    ASSUME ResolverInv, Apart, NEW c \in Callers, Resolver!EnterCell(c)
    PROVE  ResolverInv'
<1>1. /\ CallInOrder(c) /\ CellInOrder(c) /\ calls[c].pc = "cell"
      /\ calls[c] \in CallStates /\ calls \in [Callers -> CallStates]
      /\ ~cells[calls[c].cell].busy /\ UNCHANGED <<binding, world, cacheOf>>
  BY CallFacts DEF Resolver!EnterCell
<1>2. /\ calls[c].for # Talk /\ calls[c].for \in Asked
      /\ calls[c].cell = cacheOf[calls[c].for] /\ calls[c].cell # 0
  BY <1>1 DEF CallInOrder, TurnInOrder, CellInOrder, CallStates
<1>3. /\ calls[c].cell \in 1 .. Len(cells)
      /\ cells[calls[c].cell].client \in {NoGeneration, binding[calls[c].for]}
      /\ cells \in Seq(CellStates) /\ binding[calls[c].for] \in Generations
  BY <1>2, CallFacts DEF ResolverInv, CacheInOrder
<1>4. CASE /\ cells[calls[c].cell].client # NoGeneration
           /\ Resolver!Move(c, "answered") /\ UNCHANGED cells
  <2>1. PICK t \in CallStates :
              /\ calls' = [calls EXCEPT ![c] = t] /\ calls'[c] = t /\ t.pc = "answered"
              /\ t.for = calls[c].for /\ t.cell = calls[c].cell
              /\ t.generation = calls[c].generation
              /\ t.failing = calls[c].failing /\ t.active = calls[c].active
    BY <1>4, MoveGives DEF CallPCs, Resting
  <2>2. CallInOrder(c)'
    BY <1>2, <2>1
       DEF CallInOrder, Witnessed, TurnInOrder, StepInOrder, Resting, Building
  <2>3. QED
    BY <1>1, <1>2, <1>3, <1>4, <2>1, <2>2, CallMoves DEF Building
<1>5. CASE /\ cells[calls[c].cell].client = NoGeneration
           /\ cells' = [cells EXCEPT ![calls[c].cell].busy = TRUE]
           /\ calls' = [calls EXCEPT ![c] =
                 [@ EXCEPT !.pc = "row", !.generation = Resolver!BoundGeneration(calls[c].for)]]
  <2> DEFINE y == [cells[calls[c].cell] EXCEPT !.busy = TRUE]
             t == [calls[c] EXCEPT !.pc = "row", !.generation = Resolver!BoundGeneration(calls[c].for)]
  <2>1. cells[calls[c].cell] \in CellStates
    BY <1>3
  <2>2. y \in CellStates /\ y.busy /\ y.client = NoGeneration
    BY <1>5, <2>1 DEF CellStates
  <2>3. binding[calls[c].for] \in OrNone
    BY <1>3 DEF OrNone
  <2>4. /\ t \in CallStates /\ t.pc = "row" /\ t.generation = binding[calls[c].for]
        /\ t.for = calls[c].for /\ t.cell = calls[c].cell
        /\ t.failing = calls[c].failing /\ t.active = calls[c].active
    BY <1>1, <2>3 DEF Resolver!BoundGeneration, CallStates, CallPCs, Building
  <2>5. calls' = [calls EXCEPT ![c] = t] /\ cells' = [cells EXCEPT ![calls[c].cell] = y]
    BY <1>5
  <2> HIDE DEF y, t
  <2>6. calls'[c] = t
    BY <1>1, <2>5
  <2>7. Witnessed(c)'
    BY <1>1, <1>2, <2>4, <2>6
       DEF CallInOrder, Witnessed, Resting, Resolver!Unusable,
           Resolver!ActiveReady
  <2>8. CallInOrder(c)'
    BY <1>1, <1>2, <2>4, <2>6, <2>7 DEF CallInOrder, TurnInOrder, StepInOrder
  <2>9. \A d \in Callers : d # c /\ Builds(d) => calls[d].cell # calls[c].cell
    BY <1>1, CallFacts DEF CellInOrder
  <2>10. QED
    BY <1>1, <1>2, <1>5, <2>2, <2>4, <2>5, <2>8, <2>9, CellMoves
<1>6. QED
  BY <1>4, <1>5 DEF Resolver!EnterCell

LEMMA TakeCellKeeps ==
    ASSUME ResolverInv, Apart, NEW c \in Callers, Resolver!TakeCell(c)
    PROVE  ResolverInv'
<1> DEFINE r == calls[c].for
           i == IF cacheOf[r] # 0 THEN cacheOf[r] ELSE Len(cells) + 1
           t == [calls[c] EXCEPT !.pc = "cell", !.cell = i]
<1>1. /\ CallInOrder(c) /\ calls[c].pc = "binding" /\ UNCHANGED <<binding, world>>
      /\ calls[c] \in CallStates /\ calls \in [Callers -> CallStates]
      /\ cells \in Seq(CellStates) /\ cacheOf \in [Asked -> Nat]
  BY CallFacts DEF Resolver!TakeCell
<1>2. r # Talk /\ r \in Asked
  BY <1>1 DEF CallInOrder, TurnInOrder, CallStates
<1>3. /\ cells' = IF i > Len(cells) THEN Append(cells, Resolver!EmptyCell) ELSE cells
      /\ cacheOf' = [cacheOf EXCEPT ![r] = i] /\ calls' = [calls EXCEPT ![c] = t]
  BY DEF Resolver!TakeCell, Resolver!CellOf
<1>4. /\ i \in Nat /\ i # 0 /\ (i \in 1 .. Len(cells) \/ i = Len(cells) + 1)
      /\ cacheOf[r] # 0 => i = cacheOf[r] /\ i \in 1 .. Len(cells)
      /\ cacheOf[r] = 0 => i = Len(cells) + 1
  BY <1>1, <1>2 DEF ResolverInv, CacheInOrder
<1>5. /\ t \in CallStates /\ t.pc = "cell" /\ t.cell = i
      /\ t.for = calls[c].for /\ t.generation = calls[c].generation
      /\ t.failing = calls[c].failing /\ t.active = calls[c].active
  BY <1>1, <1>4 DEF CallStates, CallPCs
<1> HIDE DEF i, t, r
<1>6. /\ calls'[c] = t /\ \A d \in Callers : d # c => calls'[d] = calls[d]
      /\ cacheOf'[r] = i /\ \A s \in Asked : s # r => cacheOf'[s] = cacheOf[s]
  BY <1>1, <1>2, <1>3
<1>7. Resolver!EmptyCell \in CellStates /\ Resolver!EmptyCell.client = NoGeneration
  BY DEF Resolver!EmptyCell, CellStates, OrNone
<1>8. /\ cells' \in Seq(CellStates) /\ i \in 1 .. Len(cells') /\ Len(cells) <= Len(cells')
      /\ \A j \in 1 .. Len(cells) : cells'[j] = cells[j]
      /\ i \notin 1 .. Len(cells) => cells'[i] = Resolver!EmptyCell
  BY <1>1, <1>3, <1>4, <1>7
<1>9. ResolverTypes'
  BY <1>1, <1>3, <1>4, <1>5, <1>8 DEF ResolverInv, ResolverTypes
<1>10. ASSUME NEW s \in Asked PROVE CacheInOrder(s)'
  <2>1. CacheInOrder(s) /\ CacheInOrder(r)
    BY <1>2 DEF ResolverInv
  <2>2. \A u \in Asked : u # r => cacheOf[u] # i
    <3> SUFFICES ASSUME NEW u \in Asked, u # r PROVE cacheOf[u] # i
      OBVIOUS
    <3>1. cacheOf[u] # 0 => cacheOf[u] \in 1 .. Len(cells)
      BY DEF ResolverInv, CacheInOrder
    <3>2. CASE cacheOf[r] # 0
      BY <2>1, <3>2, <1>4 DEF CacheInOrder
    <3>3. CASE cacheOf[r] = 0
      BY <3>1, <3>3, <1>1, <1>4
    <3>4. QED
      BY <3>2, <3>3
  <2>3. CASE s = r
    <3>1. cells'[i].client \in {NoGeneration, binding[r]}
      BY <1>4, <1>7, <1>8, <2>1 DEF CacheInOrder
    <3>2. QED
      BY <1>1, <1>6, <1>8, <2>2, <2>3, <3>1 DEF CacheInOrder
  <2>4. CASE s # r
    BY <1>1, <1>2, <1>6, <1>8, <2>1, <2>2, <2>4 DEF CacheInOrder
  <2>5. QED
    BY <2>3, <2>4
<1>11. \A d \in Callers : CallInOrder(d)'
  <2>1. CallInOrder(c)'
    <3>1. Witnessed(c)'
      BY <1>1, <1>5, <1>6
         DEF CallInOrder, Witnessed, Resting, Resolver!Unusable,
             Resolver!ActiveReady
    <3>2. TurnInOrder(c)' /\ StepInOrder(c)'
      BY <1>1, <1>2, <1>5, <1>6 DEF CallInOrder, TurnInOrder, StepInOrder, Building, r
    <3>3. QED
      BY <3>1, <3>2 DEF CallInOrder
  <2>2. \A d \in Callers : d # c => CallInOrder(d)'
    BY <1>1, <1>6
       DEF ResolverInv, CallInOrder, Witnessed, TurnInOrder, StepInOrder,
           Resolver!Unusable, Resolver!ActiveReady
  <2>3. QED
    BY <2>1, <2>2
<1>12. ASSUME NEW d \in Callers PROVE CellInOrder(d)'
  <2>1. \A e \in Callers : Builds(e)' => e # c /\ Builds(e)
    BY <1>5, <1>6 DEF Builds, Building
  <2>2. CASE d = c
    BY <1>5, <1>6, <2>1, <2>2, <1>4 DEF CellInOrder, r
  <2>3. CASE d # c
    <3>1. CellInOrder(d) /\ calls'[d] = calls[d] /\ calls[d] \in CallStates
      BY <1>6, <2>3, CallFacts
    <3>2. ASSUME calls[d].for # Talk, calls[d].pc \in Building \cup {"cell", "answered"}
          PROVE  /\ calls[d].for \in Asked /\ calls[d].cell = cacheOf[calls[d].for]
                 /\ calls[d].cell # 0 /\ calls[d].cell \in 1 .. Len(cells)
                 /\ cacheOf'[calls[d].for] = cacheOf[calls[d].for]
      <4>1. calls[d].for \in Asked /\ calls[d].cell = cacheOf[calls[d].for] /\ calls[d].cell # 0
        BY <3>1, <3>2 DEF CellInOrder, CallStates
      <4>2. QED
        BY <4>1, <1>4, <1>6 DEF ResolverInv, CacheInOrder
    <3>3. calls[d].for # Talk /\ calls[d].pc \in Building \cup {"cell", "answered"} =>
            cells'[calls[d].cell] = cells[calls[d].cell]
      BY <3>2, <1>8
    <3>4. Builds(d)' => /\ cells'[calls'[d].cell].busy
                        /\ cells'[calls'[d].cell].client = NoGeneration
                        /\ \A e \in Callers : e # d /\ Builds(e)' => calls'[e].cell # calls'[d].cell
      <4> SUFFICES ASSUME Builds(d)'
                   PROVE  /\ cells'[calls'[d].cell].busy
                          /\ cells'[calls'[d].cell].client = NoGeneration
                          /\ \A e \in Callers : e # d /\ Builds(e)' => calls'[e].cell # calls'[d].cell
        OBVIOUS
      <4>1. Builds(d)
        BY <2>1
      <4>2. cells'[calls[d].cell] = cells[calls[d].cell]
        BY <3>3, <4>1 DEF Builds
      <4>3. \A e \in Callers : Builds(e)' => Builds(e) /\ calls'[e] = calls[e]
        BY <2>1, <1>6
      <4>4. QED
        BY <3>1, <4>1, <4>2, <4>3 DEF CellInOrder
    <3>5. calls[d].for # Talk /\ calls[d].pc \in Building \cup {"cell", "answered"} =>
             calls[d].cell = cacheOf'[calls[d].for] /\ calls[d].cell # 0
      BY <3>2
    <3>6. calls[d].for # Talk /\ calls[d].pc = "answered" =>
             cells'[calls[d].cell].client = binding[calls[d].for]
      BY <3>1, <3>3 DEF CellInOrder
    <3>7. QED
      BY <1>1, <3>1, <3>4, <3>5, <3>6 DEF CellInOrder
  <2>4. QED
    BY <2>2, <2>3
<1>13. QED
  BY <1>9, <1>10, <1>11, <1>12 DEF ResolverInv

LEMMA ChangeKeeps ==
    ASSUME ResolverInv, Apart, Resolver!Change
    PROVE  ResolverInv'
<1>1. /\ calls' = [c \in Callers |-> IF Resolver!Rests(c) THEN calls[c]
                                     ELSE Resolver!Witness(world', calls[c])]
      /\ UNCHANGED <<binding, cells, cacheOf>> /\ world' \in Resolver!Worlds
      /\ world \in WorldStates /\ world.active \in world.ready \cup {NoGeneration}
      /\ calls \in [Callers -> CallStates]
  BY DEF Resolver!Change, ResolverInv, ResolverTypes
<1>2. world' \in WorldStates /\ world'.active \in world'.ready \cup {NoGeneration}
  <2> SUFFICES ASSUME NEW w \in Resolver!Worlds
               PROVE  w \in WorldStates /\ w.active \in w.ready \cup {NoGeneration}
    BY <1>1
  <2>1. CASE \E g \in world.ready : w = [world EXCEPT !.active = g]
    BY <1>1, <2>1 DEF WorldStates, OrNone
  <2>2. ASSUME NEW g \in Generations,
               w = [world EXCEPT !.row = (@ \ {g}) \union ({g} \ @)]
        PROVE  w \in WorldStates /\ w.active \in w.ready \cup {NoGeneration}
    BY <1>1, <2>2 DEF WorldStates
  <2>3. ASSUME NEW g \in Generations,
               w = [world EXCEPT !.bytes = (@ \ {g}) \union ({g} \ @)]
        PROVE  w \in WorldStates /\ w.active \in w.ready \cup {NoGeneration}
    BY <1>1, <2>3 DEF WorldStates
  <2>4. ASSUME NEW g \in Generations, w = [world EXCEPT !.ready = @ \union {g}]
        PROVE  w \in WorldStates /\ w.active \in w.ready \cup {NoGeneration}
    BY <1>1, <2>4 DEF WorldStates
  <2>5. ASSUME NEW g \in Generations,
               w = [world EXCEPT !.ready = @ \ {g},
                                 !.active = IF @ = g THEN NoGeneration ELSE @]
        PROVE  w \in WorldStates /\ w.active \in w.ready \cup {NoGeneration}
    BY <1>1, <2>5 DEF WorldStates, OrNone
  <2>6. \/ \E g \in world.ready : w = [world EXCEPT !.active = g]
        \/ \E g \in Generations :
             \/ w = [world EXCEPT !.row = (@ \ {g}) \union ({g} \ @)]
             \/ w = [world EXCEPT !.bytes = (@ \ {g}) \union ({g} \ @)]
             \/ w = [world EXCEPT !.ready = @ \union {g}]
             \/ w = [world EXCEPT !.ready = @ \ {g},
                                  !.active = IF @ = g THEN NoGeneration ELSE @]
    <3> DEFINE A(g) == [world EXCEPT !.row = (@ \ {g}) \union ({g} \ @)]
               B(g) == [world EXCEPT !.bytes = (@ \ {g}) \union ({g} \ @)]
               C(g) == [world EXCEPT !.ready = @ \union {g}]
               D(g) == [world EXCEPT !.ready = @ \ {g},
                                     !.active = IF @ = g THEN NoGeneration ELSE @]
               E(g) == [world EXCEPT !.active = g]
    <3>1. w \in (UNION {{A(g), B(g), C(g), D(g)} : g \in Generations})
                \union {E(g) : g \in world.ready}
      BY DEF Resolver!Worlds
    <3> HIDE DEF A, B, C, D, E
    <3>2. \/ \E g \in world.ready : w = E(g)
          \/ \E g \in Generations : w = A(g) \/ w = B(g) \/ w = C(g) \/ w = D(g)
      <4>1. CASE w \in {E(g) : g \in world.ready}
        BY <4>1
      <4>2. CASE w \in UNION {{A(g), B(g), C(g), D(g)} : g \in Generations}
        <5>1. PICK S \in {{A(g), B(g), C(g), D(g)} : g \in Generations} : w \in S
          BY <4>2
        <5>2. PICK g \in Generations : S = {A(g), B(g), C(g), D(g)}
          BY <5>1
        <5>3. QED
          BY <5>1, <5>2
      <4>3. QED
        BY <3>1, <4>1, <4>2
    <3>3. QED
      BY <3>2 DEF A, B, C, D, E
  <2>7. QED
    BY <2>1, <2>2, <2>3, <2>4, <2>5, <2>6
<1>3. ASSUME NEW c \in Callers
      PROVE  /\ calls'[c] \in CallStates
             /\ calls'[c].pc = calls[c].pc /\ calls'[c].for = calls[c].for
             /\ calls'[c].cell = calls[c].cell /\ calls'[c].generation = calls[c].generation
             /\ calls[c].failing => calls'[c].failing
             /\ calls[c].active \subseteq calls'[c].active
             /\ calls[c].pc \notin Resting =>
                   /\ Resolver!Unusable(world', calls[c]) => calls'[c].failing
                   /\ Resolver!ActiveReady(world') \subseteq calls'[c].active
  <2>1. Resolver!Rests(c) <=> calls[c].pc \in Resting
    BY DEF Resolver!Rests, Resting
  <2>2. /\ Resolver!Witness(world', calls[c]) \in CallStates
        /\ Resolver!Witness(world', calls[c]).pc = calls[c].pc
        /\ Resolver!Witness(world', calls[c]).for = calls[c].for
        /\ Resolver!Witness(world', calls[c]).cell = calls[c].cell
        /\ Resolver!Witness(world', calls[c]).generation = calls[c].generation
        /\ Resolver!Witness(world', calls[c]).failing = (calls[c].failing \/ Resolver!Unusable(world', calls[c]))
        /\ Resolver!Witness(world', calls[c]).active = calls[c].active \cup Resolver!ActiveReady(world')
    BY <1>1, <1>2, WitnessState
  <2>3. CASE Resolver!Rests(c)
    BY <1>1, <2>1, <2>3
  <2>4. CASE ~Resolver!Rests(c)
    <3>1. calls'[c] = Resolver!Witness(world', calls[c])
      BY <1>1, <2>4
    <3>2. QED
      BY <2>2, <3>1
  <2>5. QED
    BY <2>3, <2>4
<1>4. ResolverTypes'
  BY <1>1, <1>2, <1>3 DEF ResolverInv, ResolverTypes
<1>5. \A r \in Asked : CacheInOrder(r)'
  BY <1>1 DEF ResolverInv, CacheInOrder
<1>6. ASSUME NEW c \in Callers PROVE CallInOrder(c)'
  <2>1. CallInOrder(c)
    BY DEF ResolverInv
  <2>2. calls[c].pc \notin Resting => (Resolver!Unusable(world, calls[c])' => calls'[c].failing)
    <3>1. UNCHANGED binding
      BY <1>1
    <3>2. QED
      BY <3>1, <1>3 DEF Resolver!Unusable, Resolver!ActiveReady
  <2>3. Witnessed(c)'
    BY <1>3, <2>2 DEF Witnessed, Resolver!ActiveReady
  <2>4. TurnInOrder(c)'
    BY <1>3, <2>1 DEF CallInOrder, TurnInOrder
  <2>5. StepInOrder(c)'
    BY <1>1, <1>3, <2>1 DEF CallInOrder, StepInOrder
  <2>6. QED
    BY <2>3, <2>4, <2>5 DEF CallInOrder
<1>7. ASSUME NEW c \in Callers PROVE CellInOrder(c)'
  BY <1>1, <1>3 DEF ResolverInv, CellInOrder, Builds
<1>8. QED
  BY <1>4, <1>5, <1>6, <1>7 DEF ResolverInv

LEMMA RestartKeeps ==
    ASSUME ResolverInv, Apart, Resolver!Restart
    PROVE  ResolverInv'
<1>1. Resolver!IdleCall \in CallStates
  BY DEF Resolver!IdleCall, CallStates, CallPCs, Resting, OrNone
<1>2. ResolverTypes'
  BY <1>1 DEF Resolver!Restart, ResolverInv, ResolverTypes
<1>3. \A c \in Callers : calls'[c] = Resolver!IdleCall
  BY DEF Resolver!Restart
<1>4. \A c \in Callers : (CallInOrder(c) /\ CellInOrder(c))'
  BY <1>3
     DEF Resolver!IdleCall, CallInOrder, Witnessed, TurnInOrder, StepInOrder,
         CellInOrder,
         Builds, Resting, Building
<1>5. \A r \in Asked : CacheInOrder(r)'
  BY DEF Resolver!Restart, CacheInOrder
<1>6. QED
  BY <1>2, <1>4, <1>5 DEF ResolverInv

LEMMA CallerKeeps ==
    ASSUME ResolverInv, Apart, NEW c \in Callers,
           \/ Resolver!AskRow(c) \/ Resolver!ReadActive(c) \/ Resolver!LoadRevision(c)
           \/ Resolver!AskVault(c) \/ Resolver!ReadSecret(c) \/ Resolver!BuildClient(c)
    PROVE  ResolverInv'
<1>1. ASSUME Resolver!Fails(c), UNCHANGED <<binding, world, cacheOf>>,
             \/ calls[c].pc = "row" /\ calls[c].generation \notin world.row
             \/ calls[c].pc = "active" /\ world.active = NoGeneration
             \/ calls[c].pc = "revision" /\ calls[c].generation \notin world.ready
             \/ calls[c].pc \in {"vault", "secret"} /\ calls[c].generation \notin world.bytes
      PROVE  ResolverInv'
  <2>1. calls[c].failing /\ calls[c].pc \in Building \cup {"active", "revision"}
    BY <1>1, GivesUp DEF Building
  <2>2. QED
    BY <1>1, <2>1, EndsKeeps DEF Resolver!Fails, OrNone
<1>2. CASE Resolver!AskRow(c)
  BY <1>1, <1>2, AsksNext DEF Resolver!AskRow
<1>3. CASE Resolver!ReadActive(c)
  BY <1>1, <1>3, ReadActiveKeeps DEF Resolver!ReadActive
<1>4. CASE Resolver!LoadRevision(c)
  BY <1>1, <1>4, AsksNext DEF Resolver!LoadRevision
<1>5. CASE Resolver!AskVault(c)
  BY <1>1, <1>5, AsksNext DEF Resolver!AskVault
<1>6. CASE Resolver!ReadSecret(c)
  BY <1>1, <1>6, AsksNext DEF Resolver!ReadSecret
<1>7. CASE Resolver!BuildClient(c)
  <2>1. calls[c].generation \in OrNone /\ calls[c].pc \in Building
    BY <1>7, CallFacts DEF CallStates, Resolver!BuildClient, Building
  <2>2. QED
    BY <1>7, <2>1, EndsKeeps DEF Resolver!BuildClient
<1>8. QED
  BY <1>2, <1>3, <1>4, <1>5, <1>6, <1>7

LEMMA ResolverNext ==
    Apart /\ ResolverInv /\ [Resolver!Next]_(Resolver!resolverVars) => ResolverInv'
<1> SUFFICES ASSUME Apart, ResolverInv, [Resolver!Next]_(Resolver!resolverVars) PROVE ResolverInv'
  OBVIOUS
<1>1. CASE UNCHANGED Resolver!resolverVars
  <2>1. ResolverTypes'
    BY <1>1 DEF Resolver!resolverVars, ResolverInv, ResolverTypes
  <2>2. \A r \in Asked : CacheInOrder(r)'
    BY <1>1 DEF Resolver!resolverVars, ResolverInv, CacheInOrder
  <2>3. \A c \in Callers : CallInOrder(c)'
    BY <1>1
       DEF Resolver!resolverVars, ResolverInv, CallInOrder, Witnessed,
           TurnInOrder, StepInOrder,
                Resolver!Unusable, Resolver!ActiveReady
  <2>4. \A c \in Callers : CellInOrder(c)'
    BY <1>1 DEF Resolver!resolverVars, ResolverInv, CellInOrder, Builds
  <2>5. QED
    BY <2>1, <2>2, <2>3, <2>4 DEF ResolverInv
<1>2. CASE Resolver!Next
  BY <1>2, ResolveKeeps, TurnKeeps, TakeCellKeeps, EnterCellKeeps, CallerKeeps,
     ChangeKeeps, RestartKeeps DEF Resolver!Next
<1>3. QED
  BY <1>1, <1>2

LEMMA ResolverGives ==
    Apart /\ ResolverInv => Resolver!BoundClient /\ Resolver!FailureIsOwn /\ Resolver!TurnUsesActive
<1> SUFFICES ASSUME Apart, ResolverInv
             PROVE  Resolver!BoundClient /\ Resolver!FailureIsOwn /\ Resolver!TurnUsesActive
  OBVIOUS
<1>1. \A c \in Callers : CallInOrder(c) /\ CellInOrder(c)
  BY DEF ResolverInv
<1>2. Resolver!BoundClient
  BY <1>1 DEF CellInOrder, Resolver!BoundClient
<1>3. Resolver!FailureIsOwn
  BY <1>1 DEF CallInOrder, StepInOrder, Resolver!FailureIsOwn
<1>4. Resolver!TurnUsesActive
  BY <1>1 DEF CallInOrder, TurnInOrder, Resolver!TurnUsesActive
<1>5. QED
  BY <1>2, <1>3, <1>4

ClientInv == part = "resolver" => ResolverInv

LEMMA ClientInvariant == Apart => (PartsSpec => []ClientInv)
<1> SUFFICES ASSUME Apart PROVE PartsSpec => []ClientInv
  OBVIOUS
<1>1. PartsInit => ClientInv
  BY ResolverInit DEF PartsInit, ClientInv
<1>2. ClientInv /\ [PartsNext \/ PartEnds]_partVars => ClientInv'
  BY PartStep, ResolverNext DEF ClientInv, resolverVars, Resolver!resolverVars
<1>3. QED
  BY <1>1, <1>2, PTL DEF PartsSpec

(* A step of a Run is answered by the client of the binding of its Run,    *)
(* the same for all its steps, and a turn of a conversation by a revision  *)
(* that was active and Ready in its time, whatever management changes      *)
(* meanwhile; and a call fails only when what it asked for was unusable    *)
(* (RunBoundProviderResolver, ActiveProfileModelProvider).                 *)
THEOREM BoundClientAnswers == Apart => (PartsSpec => []RightClient)
<1> SUFFICES ASSUME Apart PROVE PartsSpec => []RightClient
  OBVIOUS
<1>1. ClientInv => RightClient
  BY ResolverGives DEF ClientInv, RightClient
<1>2. QED
  BY <1>1, ClientInvariant, PTL

-----------------------------------------------------------------------------
(* The picker.  What it shows for a target, and marks there as active, is  *)
(* the answer to the last request the guard admits, which is for that      *)
(* target (LaneFits) and was read under the model that is active unless a  *)
(* switch has committed since (AgreesWithService).                         *)

PickerConstants == MaxTasks \in Nat \ {0} /\ NoTarget \notin Targets

OrNoTarget == Targets \cup {NoTarget}
CatalogStates == [tasks : [Picker!TaskIds -> Picker!Tasks],
                  lane  : Picker!TaskIds \cup {Picker!NoTask}]

PickerTypes ==
    /\ where \in Picker!Routes /\ picker \in Picker!Pickers
    /\ catalog \in CatalogStates /\ switch \in Picker!Switches
    /\ header \in [model : Targets, stale : BOOLEAN] /\ activeModel \in Targets

(* The request in the lane.                                                *)
InLane(kind) ==
    catalog.lane # Picker!NoTask /\ catalog.tasks[catalog.lane].kind = kind

(* A request of the lane fits what is on show.                             *)
LaneFits ==
    /\ ~InLane("none")
    /\ picker.level = "Models" =>
          /\ picker.target \in Targets
          /\ InLane("Candidates") =>
                catalog.tasks[catalog.lane].of = picker.target /\ picker.load = "Loading"
          /\ InLane("Refresh") => picker.load = "Ready"

(* A switch is at its own visit, and nothing is asked for elsewhere.       *)
VisitFits ==
    /\ where = "Provider" => catalog.lane = Picker!NoTask /\ picker.load = "Ready"
    /\ switch.here => where = "Picker"
    /\ switch.state # "none" => switch.to \in Targets
    /\ switch.here /\ switch.state \in {"committed", "done", "unread"} =>
          activeModel = switch.to

(* Unless a switch has committed or a result of one was dropped, the       *)
(* header, an answer under way and the list agree with the service.        *)
Settled == ~header.stale /\ switch.state \in {"none", "running", "failed"}

AgreesWithService ==
    Settled =>
        /\ header.model = activeModel
        /\ InLane("Candidates") =>
              catalog.tasks[catalog.lane].saw \in {Picker!Unread, activeModel}
        /\ picker.level = "Models" /\ picker.load = "Ready" => picker.seen = activeModel

PickerInv ==
    /\ PickerTypes /\ LaneFits /\ VisitFits /\ AgreesWithService
    /\ Picker!LoadingIsAsked /\ Picker!ShownIsAnswer

(* The least of some ids.                                                  *)
LEMMA LeastTask ==
    ASSUME PickerConstants, NEW S \in SUBSET Picker!TaskIds, S # {}
    PROVE  (CHOOSE j \in S : \A k \in S : j <= k) \in S
<1>1. S \in SUBSET Nat
  BY DEF Picker!TaskIds, PickerConstants
<1>2. \E q \in S : \A x \in S : q <= x
  <2> DEFINE less == OpToRel(<, Nat)
  <2>1. IsWellFoundedOn(less, Nat)
    BY NatLessThanWellFounded
  <2>2. ASSUME NEW a \in Nat, NEW b \in Nat, a < b PROVE <<a, b>> \in less
    <3> DEFINE p == <<a, b>>
    <3>1. p \in Nat \X Nat /\ p[1] = a /\ p[2] = b
      OBVIOUS
    <3> HIDE DEF p
    <3>2. p \in less
      BY <2>2, <3>1 DEF OpToRel
    <3>3. QED
      BY <3>2 DEF p
  <2> HIDE DEF less
  <2>3. PICK q \in S : \A x \in S : ~(<<x, q>> \in less)
    BY <1>1, <2>1, WFMin
  <2>4. ASSUME NEW x \in S PROVE q <= x
    <3>1. x \in Nat /\ q \in Nat
      BY <1>1
    <3>2. CASE x < q
      <4>1. <<x, q>> \in less
        BY <2>2, <3>1, <3>2
      <4>2. QED
        BY <2>3, <4>1
    <3>3. QED
      BY <3>1, <3>2
  <2>5. QED
    BY <2>4
<1>3. QED
  BY <1>2

(* A request starts where none is under way, and takes the lane.           *)
LEMMA StartGives ==
    ASSUME PickerConstants, NEW d \in CatalogStates, Picker!CanStart(d),
           NEW kind \in Picker!TaskKinds, NEW of \in OrNoTarget
    PROVE  /\ Picker!Start(d, kind, of) \in CatalogStates
           /\ Picker!Start(d, kind, of).lane \in Picker!TaskIds
           /\ LET t == Picker!Start(d, kind, of).tasks[Picker!Start(d, kind, of).lane]
              IN  t.kind = kind /\ t.of = of /\ t.saw = Picker!Unread
<1> DEFINE j == CHOOSE m \in Picker!Idle(d) : \A k \in Picker!Idle(d) : m <= k
           t == [kind |-> kind, of |-> of, saw |-> Picker!Unread]
<1>1. Picker!Idle(d) \in SUBSET Picker!TaskIds /\ Picker!Idle(d) # {}
  BY DEF Picker!Idle, Picker!CanStart
<1>2. j \in Picker!TaskIds
  BY <1>1, LeastTask
<1>3. Picker!Start(d, kind, of) = [tasks |-> [d.tasks EXCEPT ![j] = t], lane |-> j]
  BY DEF Picker!Start
<1> HIDE DEF j
<1>4. t \in Picker!Tasks
  BY DEF Picker!Tasks, Picker!Unread, OrNoTarget
<1>5. d.tasks \in [Picker!TaskIds -> Picker!Tasks]
  BY DEF CatalogStates
<1>6. t.kind = kind /\ t.of = of /\ t.saw = Picker!Unread
  OBVIOUS
<1> HIDE DEF t
<1>7. QED
  BY <1>2, <1>3, <1>4, <1>5, <1>6 DEF CatalogStates

(* A request ends, and leaves the lane if it held it.                      *)
LEMMA TakenGives ==
    ASSUME NEW d \in CatalogStates, NEW i \in Picker!TaskIds
    PROVE  /\ Picker!Taken(d, i) \in CatalogStates
           /\ d.lane = i => Picker!Taken(d, i).lane = Picker!NoTask
           /\ d.lane # i => /\ Picker!Taken(d, i).lane = d.lane
                            /\ d.lane # Picker!NoTask =>
                                  Picker!Taken(d, i).tasks[d.lane] = d.tasks[d.lane]
<1>1. Picker!IdleTask \in Picker!Tasks
  BY DEF Picker!IdleTask, Picker!Tasks, Picker!TaskKinds, Picker!Unread
<1>2. QED
  BY <1>1 DEF CatalogStates, Picker!Taken

LEMMA NoRequests ==
    ASSUME PickerConstants
    PROVE  /\ Picker!NoTasks \in CatalogStates /\ Picker!NoTasks.lane = Picker!NoTask
           /\ Picker!CanStart(Picker!NoTasks)
<1>1. Picker!IdleTask \in Picker!Tasks
  BY DEF Picker!IdleTask, Picker!Tasks, Picker!TaskKinds, Picker!Unread
<1>2. 1 \in Picker!TaskIds
  BY DEF Picker!TaskIds, PickerConstants
<1>3. /\ Picker!NoTasks.tasks = [i \in Picker!TaskIds |-> Picker!IdleTask]
      /\ Picker!NoTasks.lane = Picker!NoTask
  BY DEF Picker!NoTasks
<1>4. 1 \in Picker!Idle(Picker!NoTasks)
  BY <1>2, <1>3 DEF Picker!Idle
<1>5. QED
  BY <1>1, <1>3, <1>4 DEF CatalogStates, Picker!NoTasks, Picker!CanStart

LEMMA PickerInit == PickerConstants /\ Picker!Init => PickerInv
<1> SUFFICES ASSUME PickerConstants, Picker!Init PROVE PickerInv
  OBVIOUS
<1>1. /\ where = "Timeline" /\ picker = Picker!Fresh /\ catalog = Picker!NoTasks
      /\ switch = Picker!NoSwitch /\ activeModel \in Targets
      /\ header = [model |-> activeModel, stale |-> FALSE]
  BY DEF Picker!Init
<1>2. Picker!Fresh \in Picker!Pickers /\ Picker!NoSwitch \in Picker!Switches
  BY DEF Picker!Fresh, Picker!Pickers, Picker!NoSwitch, Picker!Switches
<1>3. PickerTypes
  BY <1>1, <1>2, NoRequests DEF PickerTypes, Picker!Routes
<1>4. catalog.lane = Picker!NoTask
  BY <1>1, NoRequests
<1>5. LaneFits /\ VisitFits /\ AgreesWithService
  BY <1>1, <1>4
     DEF LaneFits, InLane, VisitFits, AgreesWithService, Settled, Picker!Fresh, Picker!NoSwitch
<1>6. Picker!LoadingIsAsked /\ Picker!ShownIsAnswer
  BY <1>1 DEF Picker!LoadingIsAsked, Picker!ShownIsAnswer, Picker!AtPicker, Picker!Fresh
<1>7. QED
  BY <1>3, <1>5, <1>6 DEF PickerInv

LEMMA OpenPickerKeeps ==
    ASSUME PickerConstants, PickerInv, Picker!OpenPicker PROVE PickerInv'
<1>1. /\ where' = "Picker" /\ picker' = Picker!Fresh
      /\ catalog' = Picker!Start(Picker!NoTasks, "Initial", NoTarget)
      /\ switch' = [switch EXCEPT !.here = FALSE]
      /\ UNCHANGED <<header, activeModel>>
  BY DEF Picker!OpenPicker, Picker!OpenedCatalog
<1>2. /\ catalog' \in CatalogStates /\ catalog'.lane \in Picker!TaskIds
      /\ catalog'.tasks[catalog'.lane].kind = "Initial"
  BY <1>1, StartGives, NoRequests DEF Picker!TaskKinds, OrNoTarget
<1>3. PickerTypes /\ VisitFits /\ AgreesWithService
  BY DEF PickerInv
<1>4. /\ switch' \in Picker!Switches /\ ~switch'.here
      /\ switch'.state = switch.state /\ switch'.to = switch.to
  BY <1>1, <1>3 DEF PickerTypes, Picker!Switches
<1>5. /\ picker' \in Picker!Pickers /\ picker'.level = "Targets" /\ picker'.load = "Loading"
  BY <1>1 DEF Picker!Fresh, Picker!Pickers
<1>6. PickerTypes'
  BY <1>1, <1>2, <1>3, <1>4, <1>5 DEF PickerTypes, Picker!Routes
<1>7. LaneFits' /\ VisitFits' /\ AgreesWithService'
  BY <1>1, <1>2, <1>3, <1>4, <1>5
     DEF LaneFits, InLane, VisitFits, AgreesWithService, Settled
<1>8. Picker!LoadingIsAsked' /\ Picker!ShownIsAnswer'
  BY <1>2, <1>5 DEF Picker!LoadingIsAsked, Picker!ShownIsAnswer
<1>9. QED
  BY <1>6, <1>7, <1>8 DEF PickerInv

(* The facts that a step starts from.                                      *)
LEMMA PickerFacts ==
    ASSUME PickerInv
    PROVE  /\ PickerTypes /\ LaneFits /\ VisitFits /\ AgreesWithService
           /\ Picker!LoadingIsAsked /\ Picker!ShownIsAnswer
           /\ where \in Picker!Routes /\ picker \in Picker!Pickers
           /\ catalog \in CatalogStates /\ switch \in Picker!Switches
           /\ header \in [model : Targets, stale : BOOLEAN] /\ activeModel \in Targets
BY DEF PickerInv, PickerTypes

LEMMA TaskReadsKeeps ==
    ASSUME PickerConstants, PickerInv, NEW i \in Picker!TaskIds, Picker!TaskReads(i)
    PROVE  PickerInv'
<1>1. /\ catalog' = [catalog EXCEPT !.tasks[i].saw = activeModel]
      /\ UNCHANGED <<where, picker, switch, header, activeModel>>
  BY DEF Picker!TaskReads
<1>2. catalog.tasks \in [Picker!TaskIds -> Picker!Tasks] /\ catalog.tasks[i] \in Picker!Tasks
  BY PickerFacts DEF CatalogStates
<1> DEFINE t == [catalog.tasks[i] EXCEPT !.saw = activeModel]
<1>3. /\ t \in Picker!Tasks /\ t.saw = activeModel
      /\ t.kind = catalog.tasks[i].kind /\ t.of = catalog.tasks[i].of
  BY <1>2, PickerFacts DEF Picker!Tasks
<1>4. catalog' = [catalog EXCEPT !.tasks = [catalog.tasks EXCEPT ![i] = t]]
  BY <1>1, <1>2, PickerFacts DEF CatalogStates, Picker!Tasks
<1> HIDE DEF t
<1>5. /\ catalog' \in CatalogStates /\ catalog'.lane = catalog.lane
      /\ \A j \in Picker!TaskIds :
            /\ catalog'.tasks[j].kind = catalog.tasks[j].kind
            /\ catalog'.tasks[j].of = catalog.tasks[j].of
            /\ catalog'.tasks[j].saw \in {catalog.tasks[j].saw, activeModel}
  BY <1>2, <1>3, <1>4, PickerFacts DEF CatalogStates
<1>6. catalog.lane # Picker!NoTask => catalog.lane \in Picker!TaskIds
  BY PickerFacts DEF CatalogStates
<1>7. PickerTypes' /\ VisitFits'
  BY <1>1, <1>5, PickerFacts DEF PickerTypes, VisitFits
<1>8. LaneFits'
  BY <1>1, <1>5, <1>6, PickerFacts DEF LaneFits, InLane
<1>9. AgreesWithService'
  BY <1>1, <1>5, <1>6, PickerFacts DEF AgreesWithService, InLane, Settled
<1>10. Picker!LoadingIsAsked' /\ Picker!ShownIsAnswer'
  BY <1>1, <1>5, PickerFacts DEF Picker!LoadingIsAsked, Picker!ShownIsAnswer, Picker!AtPicker
<1>11. QED
  BY <1>7, <1>8, <1>9, <1>10 DEF PickerInv

LEMMA AtTargetsGives ==
    ASSUME NEW p, NEW load \in {"Loading", "Ready", "Failed"}
    PROVE  /\ Picker!AtTargets(p, load) \in Picker!Pickers
           /\ Picker!AtTargets(p, load).level = "Targets"
           /\ Picker!AtTargets(p, load).load = load
BY DEF Picker!AtTargets, Picker!Fresh, Picker!Pickers

(* What the answer of the lane leaves on show.                             *)
LEMMA AppliedGives ==
    ASSUME PickerConstants, PickerInv, NEW ok \in BOOLEAN,
           catalog.lane \in Picker!TaskIds,
           catalog.tasks[catalog.lane].saw # Picker!Unread,
           NEW p, p = Picker!Applied(picker, catalog.tasks[catalog.lane], ok)
    PROVE  /\ p \in Picker!Pickers
           /\ p.level = "Models" => p.target \in Targets
           /\ where = "Picker" /\ p.load = "Loading" => p.lost
           /\ p.level = "Models" /\ p.load # "Loading" => p.answered = p.target
           /\ Settled /\ p.level = "Models" /\ p.load = "Ready" => p.seen = activeModel
<1> DEFINE t == catalog.tasks[catalog.lane]
<1>1. t \in Picker!Tasks /\ t.saw # Picker!Unread
  BY PickerFacts DEF CatalogStates
<1>2. catalog.lane # Picker!NoTask
  BY DEF Picker!TaskIds, PickerConstants, Picker!NoTask
<1>3. t.kind # "none" /\ picker \in Picker!Pickers /\ t.saw \in Targets
  BY <1>1, <1>2, PickerFacts DEF LaneFits, InLane, Picker!Tasks
<1>4. t.kind \in {"Initial", "Refresh", "Candidates"}
  BY <1>1, <1>3 DEF Picker!Tasks, Picker!TaskKinds
<1>5. picker.level = "Models" =>
         /\ picker.target \in Targets
         /\ t.kind = "Candidates" => t.of = picker.target /\ picker.load = "Loading"
         /\ t.kind = "Refresh" => picker.load = "Ready"
  BY <1>2, PickerFacts DEF LaneFits, InLane
<1>6. where = "Picker" /\ picker.load = "Loading" /\ ~picker.lost =>
         IF picker.level = "Models" THEN t.kind = "Candidates" ELSE t.kind = "Initial"
  BY PickerFacts DEF Picker!LoadingIsAsked, Picker!AtPicker
<1>7. picker.level = "Models" /\ picker.load # "Loading" => picker.answered = picker.target
  BY PickerFacts DEF Picker!ShownIsAnswer
<1>8. Settled => /\ t.kind = "Candidates" => t.saw = activeModel
                 /\ picker.level = "Models" /\ picker.load = "Ready" => picker.seen = activeModel
  BY <1>1, <1>2, PickerFacts DEF AgreesWithService, InLane
<1>9. p = Picker!Applied(picker, t, ok)
  OBVIOUS
<1> HIDE DEF t
<1>10. CASE t.kind = "Initial"
  <2>1. \E load \in {"Ready", "Failed"} : p = Picker!AtTargets(picker, load)
    BY <1>9, <1>10 DEF Picker!Applied
  <2>2. p \in Picker!Pickers /\ p.level = "Targets" /\ p.load # "Loading"
    BY <2>1, AtTargetsGives
  <2>3. QED
    BY <2>2
<1>11. CASE p = picker /\ t.kind = "Refresh"
  BY <1>3, <1>5, <1>6, <1>7, <1>8, <1>11
<1>12. CASE t.kind = "Refresh" /\ p # picker
  <2>1. p = [picker EXCEPT !.load = "Ready", !.lost = FALSE]
    BY <1>9, <1>12 DEF Picker!Applied
  <2>2. /\ p \in Picker!Pickers /\ p.level = picker.level /\ p.target = picker.target
        /\ p.load = "Ready" /\ p.answered = picker.answered /\ p.seen = picker.seen
    BY <1>3, <2>1 DEF Picker!Pickers
  <2>3. QED
    BY <1>5, <1>7, <1>8, <1>12, <2>2
<1>13. CASE t.kind = "Candidates" /\ picker.level # "Models"
  <2>1. p = picker
    BY <1>9, <1>13 DEF Picker!Applied
  <2>2. QED
    BY <1>3, <1>6, <1>13, <2>1
<1>14. CASE t.kind = "Candidates" /\ picker.level = "Models"
  <2>1. p = IF ok THEN Picker!Answered(picker, "Ready", t.of, t.saw)
            ELSE Picker!Answered(picker, "Failed", t.of, NoTarget)
    BY <1>5, <1>9, <1>14 DEF Picker!Applied
  <2>2. /\ p \in Picker!Pickers /\ p.target = picker.target /\ p.load # "Loading"
        /\ p.answered = t.of
        /\ p.load = "Ready" => p.seen = t.saw
    BY <1>3, <1>5, <1>14, <2>1 DEF Picker!Pickers, Picker!Answered
  <2>3. QED
    BY <1>5, <1>8, <1>14, <2>2
<1>15. QED
  BY <1>4, <1>10, <1>11, <1>12, <1>13, <1>14

LEMMA TaskEndsKeeps ==
    ASSUME PickerConstants, PickerInv, NEW i \in Picker!TaskIds, NEW ok \in BOOLEAN,
           Picker!TaskEnds(i, ok)
    PROVE  PickerInv'
<1>1. /\ catalog.tasks[i].saw # Picker!Unread
      /\ picker' = IF catalog.lane = i THEN Picker!Applied(picker, catalog.tasks[i], ok) ELSE picker
      /\ catalog' = Picker!Taken(catalog, i)
      /\ UNCHANGED <<where, switch, header, activeModel>>
  BY DEF Picker!TaskEnds, Picker!Admits
<1>2. i # Picker!NoTask
  BY DEF Picker!TaskIds, PickerConstants, Picker!NoTask
<1>3. /\ catalog' \in CatalogStates
      /\ catalog.lane = i => catalog'.lane = Picker!NoTask
      /\ catalog.lane # i =>
            /\ catalog'.lane = catalog.lane
            /\ catalog.lane # Picker!NoTask =>
                  catalog'.tasks[catalog.lane] = catalog.tasks[catalog.lane]
  BY <1>1, TakenGives, PickerFacts
<1>4. CASE catalog.lane # i
  <2>1. picker' = picker
    BY <1>1, <1>4
  <2>2. PickerTypes' /\ VisitFits' /\ Picker!ShownIsAnswer'
    BY <1>1, <1>3, <1>4, <2>1, PickerFacts DEF PickerTypes, VisitFits, Picker!ShownIsAnswer
  <2>3. LaneFits' /\ AgreesWithService'
    BY <1>1, <1>3, <1>4, <2>1, PickerFacts DEF LaneFits, AgreesWithService, InLane, Settled
  <2>4. \A j \in Picker!TaskIds : j # Picker!NoTask
    BY DEF Picker!TaskIds, PickerConstants, Picker!NoTask
  <2>5. Picker!LoadingIsAsked'
    BY <1>1, <1>3, <1>4, <2>1, <2>4, PickerFacts DEF Picker!LoadingIsAsked, Picker!AtPicker
  <2>6. QED
    BY <2>2, <2>3, <2>5 DEF PickerInv
<1>5. CASE catalog.lane = i
  <2>1. /\ picker' \in Picker!Pickers
        /\ picker'.level = "Models" => picker'.target \in Targets
        /\ where = "Picker" /\ picker'.load = "Loading" => picker'.lost
        /\ picker'.level = "Models" /\ picker'.load # "Loading" => picker'.answered = picker'.target
        /\ Settled /\ picker'.level = "Models" /\ picker'.load = "Ready" => picker'.seen = activeModel
    BY <1>1, <1>5, AppliedGives
  <2>2. PickerTypes' /\ Picker!ShownIsAnswer' /\ Picker!LoadingIsAsked'
    BY <1>1, <1>3, <2>1, PickerFacts
       DEF PickerTypes, Picker!ShownIsAnswer, Picker!LoadingIsAsked, Picker!AtPicker
  <2>3. LaneFits' /\ AgreesWithService'
    BY <1>1, <1>3, <1>5, <2>1, PickerFacts DEF LaneFits, AgreesWithService, InLane, Settled
  <2>4. VisitFits'
    BY <1>1, <1>2, <1>3, <1>5, PickerFacts DEF VisitFits
  <2>5. QED
    BY <2>2, <2>3, <2>4 DEF PickerInv
<1>6. QED
  BY <1>4, <1>5

(* To the Provider screen, from a list that can be chosen from.            *)
LEMMA ToProviderKeeps ==
    ASSUME PickerConstants, PickerInv, Picker!ToProvider, picker.load = "Ready"
    PROVE  PickerInv'
<1>1. /\ where' = "Provider" /\ catalog' = Picker!NoTasks
      /\ switch' = [switch EXCEPT !.here = FALSE]
      /\ UNCHANGED <<picker, header, activeModel>>
  BY DEF Picker!ToProvider
<1>2. catalog' \in CatalogStates /\ catalog'.lane = Picker!NoTask
  BY <1>1, NoRequests
<1>3. /\ switch' \in Picker!Switches /\ ~switch'.here
      /\ switch'.state = switch.state /\ switch'.to = switch.to
  BY <1>1, PickerFacts DEF Picker!Switches
<1>4. PickerTypes' /\ VisitFits'
  BY <1>1, <1>2, <1>3, PickerFacts DEF PickerTypes, VisitFits, Picker!Routes
<1>5. LaneFits' /\ AgreesWithService'
  BY <1>1, <1>2, <1>3, PickerFacts DEF LaneFits, AgreesWithService, InLane, Settled
<1>6. Picker!LoadingIsAsked' /\ Picker!ShownIsAnswer'
  BY <1>1, PickerFacts DEF Picker!LoadingIsAsked, Picker!ShownIsAnswer, Picker!AtPicker
<1>7. QED
  BY <1>4, <1>5, <1>6 DEF PickerInv

(* A request for what is then on show, which loads.                        *)
LEMMA AskingKeeps ==
    ASSUME PickerConstants, PickerInv, where = "Picker",
           NEW kind \in {"Initial", "Candidates"}, NEW of \in OrNoTarget,
           Picker!CanStart(catalog), catalog' = Picker!Start(catalog, kind, of),
           picker' \in Picker!Pickers, picker'.load = "Loading",
           kind = "Candidates" <=> picker'.level = "Models",
           picker'.level = "Models" => of \in Targets /\ picker'.target = of,
           UNCHANGED <<where, switch, header, activeModel>>
    PROVE  PickerInv'
<1>1. /\ catalog' \in CatalogStates /\ catalog'.lane \in Picker!TaskIds
      /\ catalog'.tasks[catalog'.lane].kind = kind
      /\ catalog'.tasks[catalog'.lane].of = of
      /\ catalog'.tasks[catalog'.lane].saw = Picker!Unread
  BY StartGives, PickerFacts DEF Picker!TaskKinds
<1>2. PickerTypes' /\ VisitFits'
  BY <1>1, PickerFacts DEF PickerTypes, VisitFits
<1>3. LaneFits' /\ AgreesWithService'
  BY <1>1, PickerFacts DEF LaneFits, AgreesWithService, InLane, Settled
<1>4. picker'.level \in {"Targets", "Models"}
  BY DEF Picker!Pickers
<1>5. Picker!LoadingIsAsked' /\ Picker!ShownIsAnswer'
  BY <1>1, <1>4 DEF Picker!LoadingIsAsked, Picker!ShownIsAnswer
<1>6. QED
  BY <1>2, <1>3, <1>5 DEF PickerInv

LEMMA PressEnterOnTargetKeeps ==
    ASSUME PickerConstants, PickerInv, NEW t \in Targets, Picker!PressEnterOnTarget(t)
    PROVE  PickerInv'
<1>1. where = "Picker" /\ picker.load = "Ready"
  BY DEF Picker!PressEnterOnTarget, Picker!Choosing, Picker!AtPicker
<1>2. CASE Picker!ToProvider
  BY <1>1, <1>2, ToProviderKeeps
<1>3. CASE /\ Picker!CanStart(catalog)
           /\ picker' = [Picker!Fresh EXCEPT !.level = "Models", !.target = t]
           /\ catalog' = Picker!Start(catalog, "Candidates", t)
           /\ UNCHANGED <<where, switch, header, activeModel>>
  <2>1. /\ picker' \in Picker!Pickers /\ picker'.load = "Loading"
        /\ picker'.level = "Models" /\ picker'.target = t
    BY <1>3 DEF Picker!Fresh, Picker!Pickers
  <2>2. QED
    BY <1>1, <1>3, <2>1, AskingKeeps DEF OrNoTarget
<1>4. QED
  BY <1>2, <1>3 DEF Picker!PressEnterOnTarget

LEMMA PressRetryKeeps ==
    ASSUME PickerConstants, PickerInv, Picker!PressRetry PROVE PickerInv'
<1>1. /\ where = "Picker" /\ Picker!CanStart(catalog)
      /\ picker' = [picker EXCEPT !.load = "Loading"]
      /\ catalog' = IF picker.level = "Models"
                      THEN Picker!Start(catalog, "Candidates", picker.target)
                      ELSE Picker!Start(catalog, "Initial", NoTarget)
      /\ UNCHANGED <<where, switch, header, activeModel>>
  BY DEF Picker!PressRetry, Picker!AtPicker
<1>2. /\ picker' \in Picker!Pickers /\ picker'.load = "Loading"
      /\ picker'.level = picker.level /\ picker'.target = picker.target
      /\ picker.target \in OrNoTarget
  BY <1>1, PickerFacts DEF Picker!Pickers, OrNoTarget
<1>3. picker.level = "Models" => picker.target \in Targets
  BY PickerFacts DEF LaneFits
<1>4. CASE picker.level = "Models"
  BY <1>1, <1>2, <1>3, <1>4, AskingKeeps
<1>5. CASE picker.level # "Models"
  BY <1>1, <1>2, <1>5, AskingKeeps DEF OrNoTarget
<1>6. QED
  BY <1>4, <1>5

(* Back to the targets, with requests as they are.                         *)
LEMMA BackKeeps ==
    ASSUME PickerConstants, PickerInv, where = "Picker",
           picker' \in Picker!Pickers, picker'.level = "Targets",
           picker'.load = "Loading" => picker'.lost,
           UNCHANGED <<where, catalog, switch, header, activeModel>>
    PROVE  PickerInv'
<1>1. PickerTypes' /\ VisitFits'
  BY PickerFacts DEF PickerTypes, VisitFits
<1>2. LaneFits' /\ AgreesWithService'
  BY PickerFacts DEF LaneFits, AgreesWithService, InLane, Settled
<1>3. Picker!LoadingIsAsked' /\ Picker!ShownIsAnswer'
  BY PickerFacts DEF Picker!LoadingIsAsked, Picker!ShownIsAnswer
<1>4. QED
  BY <1>1, <1>2, <1>3 DEF PickerInv

LEMMA PressTabKeeps ==
    ASSUME PickerConstants, PickerInv, Picker!PressTab PROVE PickerInv'
<1>1. /\ where = "Picker"
      /\ picker' = [Picker!AtTargets(picker, picker.load) EXCEPT !.lost = picker.load = "Loading"]
      /\ UNCHANGED <<where, catalog, switch, header, activeModel>>
  BY DEF Picker!PressTab, Picker!AtPicker
<1>2. picker.load \in {"Loading", "Ready", "Failed"}
  BY PickerFacts DEF Picker!Pickers
<1>3. /\ picker' \in Picker!Pickers /\ picker'.level = "Targets"
      /\ picker'.load = "Loading" => picker'.lost
  BY <1>1, <1>2, AtTargetsGives DEF Picker!Pickers
<1>4. QED
  BY <1>1, <1>3, BackKeeps

LEMMA PressEscKeeps ==
    ASSUME PickerConstants, PickerInv, Picker!PressEsc PROVE PickerInv'
<1>1. where = "Picker" /\ switch = Picker!NoSwitch /\ UNCHANGED <<switch, header, activeModel>>
  BY DEF Picker!PressEsc, Picker!AtPicker
<1>2. CASE picker' = Picker!AtTargets(picker, "Ready") /\ UNCHANGED <<where, catalog>>
  BY <1>1, <1>2, AtTargetsGives, BackKeeps
<1>3. CASE where' = "Timeline" /\ catalog' = Picker!NoTasks /\ UNCHANGED picker
  <2>1. catalog' \in CatalogStates /\ catalog'.lane = Picker!NoTask
    BY <1>3, NoRequests
  <2>2. PickerTypes' /\ VisitFits'
    BY <1>1, <1>3, <2>1, PickerFacts DEF PickerTypes, VisitFits, Picker!Routes, Picker!NoSwitch
  <2>3. LaneFits' /\ AgreesWithService'
    BY <1>1, <1>3, <2>1, PickerFacts DEF LaneFits, AgreesWithService, InLane, Settled
  <2>4. Picker!LoadingIsAsked' /\ Picker!ShownIsAnswer'
    BY <1>1, <1>3, PickerFacts DEF Picker!LoadingIsAsked, Picker!ShownIsAnswer, Picker!AtPicker
  <2>5. QED
    BY <2>2, <2>3, <2>4 DEF PickerInv
<1>4. QED
  BY <1>1, <1>2, <1>3 DEF Picker!PressEsc

LEMMA PressEnterOnModelKeeps ==
    ASSUME PickerConstants, PickerInv, Picker!PressEnterOnModel PROVE PickerInv'
<1>1. where = "Picker" /\ picker.load = "Ready" /\ picker.level = "Models"
  BY DEF Picker!PressEnterOnModel, Picker!Choosing, Picker!AtPicker
<1>2. CASE Picker!ToProvider
  BY <1>1, <1>2, ToProviderKeeps
<1>3. CASE /\ switch = Picker!NoSwitch
           /\ switch' = [state |-> "running", to |-> picker.target,
                         expects |-> picker.seen, here |-> TRUE]
           /\ UNCHANGED <<where, picker, catalog, header, activeModel>>
  <2>1. picker.target \in Targets /\ picker.seen \in OrNoTarget
    BY <1>1, PickerFacts DEF LaneFits, Picker!Pickers, OrNoTarget
  <2>2. /\ switch' \in Picker!Switches /\ switch'.state = "running"
        /\ switch'.to \in Targets /\ switch.state = "none"
    BY <1>3, <2>1 DEF Picker!Switches, OrNoTarget, Picker!NoSwitch
  <2>3. PickerTypes' /\ VisitFits'
    BY <1>1, <1>3, <2>2, PickerFacts DEF PickerTypes, VisitFits
  <2>4. LaneFits' /\ AgreesWithService'
    BY <1>3, <2>2, PickerFacts DEF LaneFits, AgreesWithService, InLane, Settled
  <2>5. Picker!LoadingIsAsked' /\ Picker!ShownIsAnswer'
    BY <1>3, PickerFacts DEF Picker!LoadingIsAsked, Picker!ShownIsAnswer, Picker!AtPicker
  <2>6. QED
    BY <2>3, <2>4, <2>5 DEF PickerInv
<1>4. QED
  BY <1>2, <1>3 DEF Picker!PressEnterOnModel

LEMMA SwitchCommitsKeeps ==
    ASSUME PickerConstants, PickerInv, Picker!SwitchCommits PROVE PickerInv'
<1>1. /\ switch.state = "running" /\ activeModel' = switch.to
      /\ switch' = [switch EXCEPT !.state = "committed"]
      /\ UNCHANGED <<where, picker, catalog, header>>
  BY DEF Picker!SwitchCommits
<1>2. /\ switch' \in Picker!Switches /\ switch'.state = "committed"
      /\ switch'.to = switch.to /\ switch'.here = switch.here
  BY <1>1, PickerFacts DEF Picker!Switches
<1>3. PickerTypes' /\ VisitFits'
  BY <1>1, <1>2, PickerFacts DEF PickerTypes, VisitFits
<1>4. LaneFits' /\ AgreesWithService'
  BY <1>1, <1>2, PickerFacts DEF LaneFits, AgreesWithService, InLane, Settled
<1>5. Picker!LoadingIsAsked' /\ Picker!ShownIsAnswer'
  BY <1>1, PickerFacts DEF Picker!LoadingIsAsked, Picker!ShownIsAnswer, Picker!AtPicker
<1>6. QED
  BY <1>3, <1>4, <1>5 DEF PickerInv

LEMMA SwitchReturnsKeeps ==
    ASSUME PickerConstants, PickerInv, Picker!SwitchReturns PROVE PickerInv'
<1>1. PICK s \in {"failed", "done", "unread"} :
         /\ switch' = [switch EXCEPT !.state = s]
         /\ IF s = "failed" THEN switch.state = "running" ELSE switch.state = "committed"
  BY DEF Picker!SwitchReturns
<1>2. UNCHANGED <<where, picker, catalog, header, activeModel>>
  BY DEF Picker!SwitchReturns
<1>3. /\ switch' \in Picker!Switches /\ switch'.state = s
      /\ switch'.to = switch.to /\ switch'.here = switch.here
  BY <1>1, PickerFacts DEF Picker!Switches
<1>4. PickerTypes' /\ VisitFits'
  BY <1>1, <1>2, <1>3, PickerFacts DEF PickerTypes, VisitFits
<1>5. LaneFits' /\ AgreesWithService'
  BY <1>1, <1>2, <1>3, PickerFacts DEF LaneFits, AgreesWithService, InLane, Settled
<1>6. Picker!LoadingIsAsked' /\ Picker!ShownIsAnswer'
  BY <1>2, PickerFacts DEF Picker!LoadingIsAsked, Picker!ShownIsAnswer, Picker!AtPicker
<1>7. QED
  BY <1>4, <1>5, <1>6 DEF PickerInv

(* The mark of the active model changes nothing else on show.              *)
LEMMA MarkedGives ==
    ASSUME NEW p \in Picker!Pickers, NEW m \in Targets
    PROVE  /\ Picker!Marked(p, m) \in Picker!Pickers
           /\ Picker!Marked(p, m).level = p.level /\ Picker!Marked(p, m).load = p.load
           /\ Picker!Marked(p, m).target = p.target
           /\ Picker!Marked(p, m).answered = p.answered
           /\ p.answered # NoTarget => Picker!Marked(p, m).seen = m
BY DEF Picker!Marked, Picker!Pickers

(* What is on show is asked for again.                                     *)
LEMMA RefreshedGives ==
    ASSUME PickerConstants, PickerInv, Picker!CanStart(catalog),
           NEW p \in Picker!Pickers, p.level = picker.level, p.target = picker.target
    PROVE  LET r == Picker!Refreshed(p, catalog)
           IN  /\ r.p \in Picker!Pickers /\ r.c \in CatalogStates
               /\ r.c.lane \in Picker!TaskIds
               /\ r.c.tasks[r.c.lane].saw = Picker!Unread
               /\ IF r.p.level = "Models"
                    THEN /\ r.p.load = "Loading" /\ r.p.target \in Targets
                         /\ r.c.tasks[r.c.lane].kind = "Candidates"
                         /\ r.c.tasks[r.c.lane].of = r.p.target
                    ELSE /\ r.p.load = "Loading" => r.p.lost
                         /\ r.c.tasks[r.c.lane].kind = "Refresh"
<1>1. p.level = "Models" => p.target \in Targets
  BY PickerFacts DEF LaneFits
<1>2. CASE p.level = "Models"
  <2> DEFINE q == [p EXCEPT !.load = "Loading", !.lost = FALSE]
             d == Picker!Start(catalog, "Candidates", p.target)
  <2>1. /\ q \in Picker!Pickers /\ q.load = "Loading"
        /\ q.level = "Models" /\ q.target = p.target
    BY <1>2 DEF Picker!Pickers
  <2>2. /\ d \in CatalogStates /\ d.lane \in Picker!TaskIds
        /\ d.tasks[d.lane].kind = "Candidates" /\ d.tasks[d.lane].of = p.target
        /\ d.tasks[d.lane].saw = Picker!Unread
    BY <1>1, <1>2, StartGives, PickerFacts DEF OrNoTarget, Picker!TaskKinds
  <2>3. Picker!Refreshed(p, catalog) = [p |-> q, c |-> d]
    BY <1>2 DEF Picker!Refreshed
  <2> HIDE DEF q, d
  <2>4. QED
    BY <1>1, <1>2, <2>1, <2>2, <2>3
<1>3. CASE p.level # "Models"
  <2> DEFINE q == [p EXCEPT !.lost = p.load = "Loading"]
             d == Picker!Start(catalog, "Refresh", NoTarget)
  <2>1. /\ q \in Picker!Pickers /\ q.level # "Models"
        /\ q.load = "Loading" => q.lost
    BY <1>3 DEF Picker!Pickers
  <2>2. /\ d \in CatalogStates /\ d.lane \in Picker!TaskIds
        /\ d.tasks[d.lane].kind = "Refresh" /\ d.tasks[d.lane].saw = Picker!Unread
    BY StartGives, PickerFacts DEF OrNoTarget, Picker!TaskKinds
  <2>3. Picker!Refreshed(p, catalog) = [p |-> q, c |-> d]
    BY <1>3 DEF Picker!Refreshed
  <2> HIDE DEF q, d
  <2>4. QED
    BY <2>1, <2>2, <2>3
<1>4. QED
  BY <1>2, <1>3

LEMMA SwitchEndsKeeps ==
    ASSUME PickerConstants, PickerInv, Picker!SwitchEnds PROVE PickerInv'
<1> DEFINE ok == switch.state = "done"
           p  == IF ok THEN Picker!Marked(picker, switch.to) ELSE picker
           r  == Picker!Refreshed(p, catalog)
<1>1. /\ switch.state \in {"done", "failed", "unread"}
      /\ IF switch.here THEN Picker!CanStart(catalog) /\ picker' = r.p /\ catalog' = r.c
         ELSE UNCHANGED <<picker, catalog>>
      /\ header' = IF switch.here /\ ok THEN [model |-> switch.to, stale |-> FALSE]
                   ELSE [header EXCEPT !.stale = @ \/ switch.state # "failed"]
      /\ switch' = Picker!NoSwitch
      /\ UNCHANGED <<where, activeModel>>
  BY DEF Picker!SwitchEnds, Picker!Outcome
<1>2. /\ switch.to \in Targets
      /\ switch.here => where = "Picker"
      /\ switch.here /\ switch.state \in {"done", "unread"} => activeModel = switch.to
  BY <1>1, PickerFacts DEF VisitFits
<1>3. p \in Picker!Pickers /\ p.level = picker.level /\ p.target = picker.target
  BY <1>2, MarkedGives, PickerFacts
<1>4. /\ switch' \in Picker!Switches /\ switch'.state = "none" /\ ~switch'.here
  BY <1>1 DEF Picker!NoSwitch, Picker!Switches
<1>5. /\ header' \in [model : Targets, stale : BOOLEAN]
      /\ ~header'.stale =>
            \/ switch.here /\ switch.state = "done" /\ header'.model = switch.to
            \/ switch.state = "failed" /\ ~header.stale /\ header'.model = header.model
  BY <1>1, <1>2, PickerFacts
<1> HIDE DEF p, ok
<1>6. /\ picker' \in Picker!Pickers /\ catalog' \in CatalogStates
      /\ switch.here =>
            /\ catalog'.lane \in Picker!TaskIds
            /\ catalog'.tasks[catalog'.lane].saw = Picker!Unread
            /\ IF picker'.level = "Models"
                 THEN /\ picker'.load = "Loading" /\ picker'.target \in Targets
                      /\ catalog'.tasks[catalog'.lane].kind = "Candidates"
                      /\ catalog'.tasks[catalog'.lane].of = picker'.target
                 ELSE /\ picker'.load = "Loading" => picker'.lost
                      /\ catalog'.tasks[catalog'.lane].kind = "Refresh"
  <2>1. CASE switch.here
    <3>1. Picker!CanStart(catalog) /\ picker' = r.p /\ catalog' = r.c
      BY <1>1, <2>1
    <3>2. QED
      BY <1>3, <3>1, RefreshedGives
  <2>2. CASE ~switch.here
    BY <1>1, <2>2, PickerFacts
  <2>3. QED
    BY <2>1, <2>2
<1>7. ~switch.here => UNCHANGED <<picker, catalog>>
  BY <1>1
<1> HIDE DEF r
<1>8. UNCHANGED <<where, activeModel>> /\ switch.state \in {"done", "failed", "unread"}
  BY <1>1
<1>9. PickerTypes' /\ VisitFits'
  BY <1>2, <1>4, <1>5, <1>6, <1>7, <1>8, PickerFacts DEF PickerTypes, VisitFits
<1>10. CASE switch.here
  <2>1. LaneFits' /\ AgreesWithService'
    BY <1>2, <1>5, <1>6, <1>8, <1>10, PickerFacts
       DEF LaneFits, AgreesWithService, InLane, Settled
  <2>2. Picker!LoadingIsAsked' /\ Picker!ShownIsAnswer'
    BY <1>6, <1>8, <1>10 DEF Picker!LoadingIsAsked, Picker!ShownIsAnswer, Picker!AtPicker
  <2>3. QED
    BY <1>9, <2>1, <2>2 DEF PickerInv
<1>11. CASE ~switch.here
  <2>1. LaneFits' /\ AgreesWithService'
    BY <1>4, <1>5, <1>7, <1>8, <1>11, PickerFacts
       DEF LaneFits, AgreesWithService, InLane, Settled
  <2>2. Picker!LoadingIsAsked' /\ Picker!ShownIsAnswer'
    BY <1>7, <1>8, <1>11, PickerFacts
       DEF Picker!LoadingIsAsked, Picker!ShownIsAnswer, Picker!AtPicker
  <2>3. QED
    BY <1>9, <2>1, <2>2 DEF PickerInv
<1>12. QED
  BY <1>10, <1>11

LEMMA CloseProviderKeeps ==
    ASSUME PickerConstants, PickerInv, Picker!CloseProvider PROVE PickerInv'
<1>1. /\ where = "Provider" /\ where' = "Picker" /\ catalog' = Picker!NoTasks
      /\ picker' = [picker EXCEPT !.load = "Ready"] \/ UNCHANGED picker
      /\ UNCHANGED <<switch, header, activeModel>>
  BY DEF Picker!CloseProvider
<1>2. picker.load = "Ready" /\ ~switch.here
  BY <1>1, PickerFacts DEF VisitFits
<1>3. picker' = picker
  BY <1>1, <1>2, PickerFacts DEF Picker!Pickers
<1>4. catalog' \in CatalogStates /\ catalog'.lane = Picker!NoTask
  BY <1>1, NoRequests
<1>5. PickerTypes' /\ VisitFits'
  BY <1>1, <1>2, <1>3, <1>4, PickerFacts DEF PickerTypes, VisitFits, Picker!Routes
<1>6. LaneFits' /\ AgreesWithService'
  BY <1>1, <1>3, <1>4, PickerFacts DEF LaneFits, AgreesWithService, InLane, Settled
<1>7. Picker!LoadingIsAsked' /\ Picker!ShownIsAnswer'
  BY <1>2, <1>3, PickerFacts DEF Picker!LoadingIsAsked, Picker!ShownIsAnswer
<1>8. QED
  BY <1>5, <1>6, <1>7 DEF PickerInv

LEMMA ActivateOnProviderKeeps ==
    ASSUME PickerConstants, PickerInv, NEW m \in Targets, Picker!ActivateOnProvider(m)
    PROVE  PickerInv'
<1>1. /\ where = "Provider" /\ where' = "Picker" /\ activeModel' = m
      /\ header' = [model |-> m, stale |-> FALSE]
      /\ picker' = Picker!Marked(picker, m)
      /\ catalog' = Picker!Start(Picker!NoTasks, "Refresh", NoTarget)
      /\ UNCHANGED switch
  BY DEF Picker!ActivateOnProvider
<1>2. picker.load = "Ready" /\ ~switch.here
  BY <1>1, PickerFacts DEF VisitFits
<1>3. /\ catalog' \in CatalogStates /\ catalog'.lane \in Picker!TaskIds
      /\ catalog'.tasks[catalog'.lane].kind = "Refresh"
  BY <1>1, StartGives, NoRequests DEF OrNoTarget, Picker!TaskKinds
<1>4. /\ picker' \in Picker!Pickers /\ picker'.level = picker.level
      /\ picker'.load = "Ready" /\ picker'.target = picker.target
      /\ picker'.answered = picker.answered
      /\ picker.answered # NoTarget => picker'.seen = m
  BY <1>1, <1>2, MarkedGives, PickerFacts
<1>5. picker.level = "Models" =>
         picker.answered = picker.target /\ picker.target \in Targets
  BY <1>2, PickerFacts DEF Picker!ShownIsAnswer, LaneFits
<1>6. header' \in [model : Targets, stale : BOOLEAN] /\ header'.model = m
  BY <1>1
<1>7. PickerTypes' /\ VisitFits'
  BY <1>1, <1>2, <1>3, <1>4, <1>6, PickerFacts DEF PickerTypes, VisitFits, Picker!Routes
<1>8. LaneFits' /\ AgreesWithService'
  BY <1>1, <1>3, <1>4, <1>5, <1>6
     DEF LaneFits, AgreesWithService, InLane, Settled, PickerConstants
<1>9. Picker!LoadingIsAsked' /\ Picker!ShownIsAnswer'
  BY <1>4, <1>5 DEF Picker!LoadingIsAsked, Picker!ShownIsAnswer
<1>10. QED
  BY <1>7, <1>8, <1>9 DEF PickerInv

LEMMA PickerNext ==
    PickerConstants /\ PickerInv /\ [Picker!Next]_(Picker!pickerVars) => PickerInv'
<1> SUFFICES ASSUME PickerConstants, PickerInv, [Picker!Next]_(Picker!pickerVars)
             PROVE  PickerInv'
  OBVIOUS
<1>1. CASE UNCHANGED Picker!pickerVars
  BY <1>1
     DEF Picker!pickerVars, PickerInv, PickerTypes, LaneFits, InLane, VisitFits,
         AgreesWithService, Settled,
         Picker!LoadingIsAsked, Picker!AtPicker, Picker!ShownIsAnswer
<1>2. CASE Picker!Next
  BY <1>2, OpenPickerKeeps, TaskReadsKeeps, TaskEndsKeeps, PressEnterOnTargetKeeps,
     ActivateOnProviderKeeps, PressEnterOnModelKeeps, PressTabKeeps, PressRetryKeeps,
     PressEscKeeps, SwitchCommitsKeeps, SwitchReturnsKeeps, SwitchEndsKeeps,
     CloseProviderKeeps DEF Picker!Next
<1>3. QED
  BY <1>1, <1>2

LEMMA PickerGives ==
    PickerInv => /\ Picker!LoadingIsAsked /\ Picker!ShownIsAnswer
                 /\ Picker!ShowsActive /\ Picker!TypeOK
<1> SUFFICES ASSUME PickerInv PROVE Picker!ShowsActive /\ Picker!TypeOK
  BY PickerFacts
<1>1. Picker!ShowsActive
  BY PickerFacts
     DEF Picker!ShowsActive, Picker!NoSwitch, Picker!Choosing, AgreesWithService, Settled
<1>2. Picker!TypeOK
  BY PickerFacts DEF Picker!TypeOK, CatalogStates
<1>3. QED
  BY <1>1, <1>2

PickInv == part = "picker" => PickerInv

LEMMA PickInvariant == PickerConstants => (PartsSpec => []PickInv)
<1> SUFFICES ASSUME PickerConstants PROVE PartsSpec => []PickInv
  OBVIOUS
<1>1. PartsInit => PickInv
  BY PickerInit DEF PartsInit, PickInv
<1>2. PickInv /\ [PartsNext \/ PartEnds]_partVars => PickInv'
  BY PartStep, PickerNext DEF PickInv, pickerVars, Picker!pickerVars
<1>3. QED
  BY <1>1, <1>2, PTL DEF PartsSpec

(* A picker that says it is loading waits for a request the guard will     *)
(* admit and that is for what it shows, unless Tab left the models while   *)
(* they loaded or a refresh took the lane of a snapshot; and the models or *)
(* the failure it shows for a target answer a request for that target,     *)
(* however the answers of older ones come in (open_model_selection,        *)
(* AsyncResultGuard).                                                      *)
THEOREM PickerAnswersHold == PickerConstants => (PartsSpec => []PickerShowsAnswer)
<1> SUFFICES ASSUME PickerConstants PROVE PartsSpec => []PickerShowsAnswer
  OBVIOUS
<1>1. PickInv => PickerShowsAnswer
  BY PickerGives DEF PickInv, PickerShowsAnswer
<1>2. QED
  BY <1>1, PickInvariant, PTL

(* At rest the header and the list of models show the model that is active *)
(* in the service, whatever switches commit, fail, or are left behind,     *)
(* unless the result of one was dropped with its visit or not read back    *)
(* (apply_ready_model_switch).                                             *)
THEOREM ActiveModelShown == PickerConstants => (PartsSpec => []ShowsActive)
<1> SUFFICES ASSUME PickerConstants PROVE PartsSpec => []ShowsActive
  OBVIOUS
<1>1. PickInv => ShowsActive
  BY PickerGives DEF PickInv, ShowsActive
<1>2. QED
  BY <1>1, PickInvariant, PTL

(* The variables of the artifacts and of the picker keep to the values the *)
(* code can give them.                                                     *)
THEOREM PartsTyped ==
    NoExport \notin Exports /\ PickerConstants => (PartsSpec => []PartsTypeOK)
<1> SUFFICES ASSUME NoExport \notin Exports, PickerConstants PROVE PartsSpec => []PartsTypeOK
  OBVIOUS
<1>1. FilesInv /\ PickInv => PartsTypeOK
  BY PickerGives
     DEF FilesInv, PickInv, PartsTypeOK, Artifacts!PutIInv, Artifacts!PutTypes,
         Artifacts!ExportIInv, Artifacts!ExportTypes, Artifacts!TypeOK,
         Artifacts!FileMaps, Artifacts!ShardMaps, Artifacts!FileStates
<1>2. QED
  BY <1>1, FilesInvariant, PickInvariant, PTL

-----------------------------------------------------------------------------
(* The line.  With no overlay open, only an edit, a key of the history and *)
(* a line sent replace what it holds.                                      *)

Texts == Seq({Letter, Slash, Command})

LineTypes ==
    /\ text \in Texts /\ history \in Seq(Texts) /\ index \in 0 .. Len(history)
    /\ draft \in Texts \cup {NoText}

LineInv == LineTypes /\ overlay \in {"none", "palette", "modes"}

LEMMA LineInit == Line!Init => LineInv
<1> SUFFICES ASSUME Line!Init PROVE LineInv
  OBVIOUS
<1>1. text = <<>> /\ history = <<>> /\ index = 0 /\ draft = NoText /\ overlay = "none"
  BY DEF Line!Init
<1>2. <<>> \in Texts /\ <<>> \in Seq(Texts) /\ Len(history) = 0
  BY <1>1 DEF Texts
<1>3. QED
  BY <1>1, <1>2 DEF LineInv, LineTypes

LEMMA InsertedTexts ==
    ASSUME NEW piece \in {Letter, Slash, Command}, text \in Texts
    PROVE  Line!Inserted(piece) \subseteq Texts
<1>1. <<piece>> \o text \in Texts /\ Append(text, piece) \in Texts
  BY DEF Texts
<1>2. QED
  BY <1>1 DEF Line!Inserted

(* A key, a paste: the text changes, and the palette with it.              *)
LEMMA EditKeeps ==
    ASSUME LineInv, text' \in Texts, history' = history, draft' = draft,
           Line!SyncPalette(text'), index' \in {0, index}
    PROVE  LineInv'
<1>1. LineTypes'
  BY DEF LineInv, LineTypes
<1>2. overlay' = IF overlay = "modes" THEN overlay
                 ELSE IF Line!IsCommand(text') THEN "palette" ELSE "none"
  BY DEF Line!SyncPalette
<1>3. QED
  BY <1>1, <1>2 DEF LineInv

LEMMA RememberedGives ==
    ASSUME LineInv
    PROVE  /\ Line!Remembered \in Seq(Texts)
           /\ text = <<>> \/ \E i \in DOMAIN Line!Remembered : Line!Remembered[i] = text
<1>1. text \in Texts /\ history \in Seq(Texts)
  BY DEF LineInv, LineTypes
<1>2. CASE text = <<>>
  BY <1>1, <1>2 DEF Line!Remembered
<1>3. CASE text # <<>> /\ history # <<>> /\ Line!Last(history) = text
  <2>1. Line!Remembered = history
    BY <1>3 DEF Line!Remembered
  <2>2. Len(history) \in DOMAIN history /\ history[Len(history)] = text
    BY <1>1, <1>3 DEF Line!Last
  <2>3. QED
    BY <1>1, <2>1, <2>2
<1>4. CASE text # <<>> /\ ~(history # <<>> /\ Line!Last(history) = text)
  <2>1. Line!Remembered = Append(history, text)
    BY <1>4 DEF Line!Remembered
  <2>2. /\ Append(history, text) \in Seq(Texts)
        /\ Len(history) + 1 \in DOMAIN Append(history, text)
        /\ Append(history, text)[Len(history) + 1] = text
    BY <1>1
  <2>3. QED
    BY <2>1, <2>2
<1>5. QED
  BY <1>2, <1>3, <1>4

LEMMA LineNext == LineInv /\ [Line!Next]_(Line!composerVars) => LineInv'
<1> SUFFICES ASSUME LineInv, [Line!Next]_(Line!composerVars) PROVE LineInv'
  OBVIOUS
<1>1. /\ text \in Texts /\ history \in Seq(Texts) /\ index \in 0 .. Len(history)
      /\ draft \in Texts \cup {NoText} /\ <<>> \in Texts /\ <<Command>> \in Texts
  BY DEF LineInv, LineTypes, Texts
<1>2. CASE UNCHANGED Line!composerVars
  BY <1>2 DEF Line!composerVars, LineInv, LineTypes
<1>3. CASE Line!TypeKey
  <2>1. text' \in Texts
    BY <1>1, <1>3, InsertedTexts DEF Line!TypeKey
  <2>2. QED
    BY <1>3, <2>1, EditKeeps DEF Line!TypeKey
<1>4. CASE Line!Backspace
  <2>1. text' \in Texts
    BY <1>1, <1>4 DEF Line!Backspace, Line!Front, Texts
  <2>2. QED
    BY <1>4, <2>1, EditKeeps DEF Line!Backspace
<1>5. CASE Line!Paste
  <2>1. text' \in Texts
    BY <1>1, <1>5, InsertedTexts DEF Line!Paste
  <2>2. QED
    BY <1>5, <2>1, EditKeeps DEF Line!Paste
<1>6. CASE Line!HistoryUp
  <2> DEFINE i == IF index = 0 THEN Len(history) ELSE IF index = 1 THEN 1 ELSE index - 1
  <2>1. i \in 1 .. Len(history)
    BY <1>1, <1>6 DEF Line!HistoryUp
  <2>2. /\ index' = i /\ text' = history[i] /\ draft' = Line!PutAside
        /\ UNCHANGED <<history, overlay>> /\ overlay = "none"
    BY <1>6 DEF Line!HistoryUp
  <2> HIDE DEF i
  <2>3. draft' \in Texts \cup {NoText}
    BY <1>1, <2>2 DEF Line!PutAside
  <2>4. LineTypes'
    BY <1>1, <2>1, <2>2, <2>3 DEF LineTypes
  <2>5. QED
    BY <2>2, <2>4 DEF LineInv
<1>7. CASE Line!HistoryDown
  <2>1. overlay = "none" /\ index # 0 /\ UNCHANGED <<history, overlay>>
    BY <1>7 DEF Line!HistoryDown
  <2>2. CASE index < Len(history) /\ index' = index + 1 /\ text' = history[index + 1]
             /\ UNCHANGED draft
    <3>1. LineTypes'
      BY <1>1, <2>1, <2>2 DEF LineTypes
    <3>2. QED
      BY <2>1, <2>2, <3>1 DEF LineInv
  <2>3. CASE index' = 0 /\ draft' = NoText /\ text' = IF draft = NoText THEN <<>> ELSE draft
    <3>1. LineTypes'
      BY <1>1, <2>1, <2>3 DEF LineTypes
    <3>2. QED
      BY <2>1, <2>3, <3>1 DEF LineInv
  <2>4. QED
    BY <1>7, <2>2, <2>3 DEF Line!HistoryDown
<1>8. CASE Line!Submit
  <2>1. /\ history' = Line!Remembered /\ text' = <<>> /\ index' = 0 /\ draft' = NoText
        /\ overlay = "none" /\ overlay' \in {"modes", "none"}
    BY <1>8 DEF Line!Submit
  <2>2. LineTypes'
    BY <1>1, <2>1, RememberedGives DEF LineTypes
  <2>3. QED
    BY <2>1, <2>2 DEF LineInv
<1>9. CASE Line!Complete
  <2>1. /\ text' \in {<<>>, <<Command>>} /\ index' = 0 /\ UNCHANGED <<history, draft>>
        /\ overlay' = "none" \/ (overlay' = "modes" /\ text' = <<>>)
    BY <1>9 DEF Line!Complete
  <2>2. LineTypes'
    BY <1>1, <2>1 DEF LineTypes
  <2>3. QED
    BY <2>1, <2>2 DEF LineInv
<1>10. CASE Line!ConfirmMode
  <2>1. UNCHANGED <<text, history, index, draft>> /\ overlay' = "none"
    BY <1>10 DEF Line!ConfirmMode
  <2>2. QED
    BY <2>1 DEF LineInv, LineTypes
<1>11. CASE Line!CloseOverlay /\ UNCHANGED <<history, draft>>
  <2>1. /\ overlay' = "none" /\ UNCHANGED <<history, draft>>
        /\ UNCHANGED <<text, index>> \/ (text' = <<>> /\ index' = 0)
    BY <1>11 DEF Line!CloseOverlay
  <2>2. LineTypes'
    BY <1>1, <2>1 DEF LineTypes
  <2>3. QED
    BY <2>1, <2>2 DEF LineInv
<1>12. CASE UNCHANGED <<text, history, index, draft, overlay>>
  BY <1>12 DEF LineInv, LineTypes
<1>13. QED
  BY <1>2, <1>3, <1>4, <1>5, <1>6, <1>7, <1>8, <1>9, <1>10, <1>11, <1>12
     DEF Line!Next, Line!Escape, Line!SubmissionEnds

LEMMA LineInvariantHolds == PartsSpec => []LineInv
<1>1. PartsInit => LineInv
  BY LineInit DEF PartsInit
<1>2. LineInv /\ [PartsNext \/ PartEnds]_partVars => LineInv'
  <2>1. [PartsNext \/ PartEnds]_partVars => [Line!Next]_(Line!composerVars)
    BY DEF PartsNext, PartEnds, partVars, lineVars, Line!composerVars
  <2>2. QED
    BY <2>1, LineNext
<1>3. QED
  BY <1>1, <1>2, PTL DEF PartsSpec

KeepsText ==
    /\ text' # text /\ overlay = "none" =>
          \/ Line!TypeKey \/ Line!Backspace \/ Line!Paste \/ Line!PastedInto
          \/ text \in Line!ToSet(history') \cup {<<>>, draft'}
    /\ index # 0 /\ draft' # draft => text' = draft \/ Line!Submit

(* A step of the line keeps what it held.                                  *)
LEMMA TextStep == LineInv /\ [Line!Next]_(Line!composerVars) => [KeepsText]_(Line!composerVars)
<1> SUFFICES ASSUME LineInv, Line!Next PROVE KeepsText
  BY DEF Line!composerVars
<1>1. /\ text \in Texts /\ history \in Seq(Texts) /\ index \in 0 .. Len(history)
      /\ index # 0 /\ ~Line!PastedInto => text = history[index]
  BY DEF LineInv, LineTypes, Line!PastedInto
<1>2. CASE Line!TypeKey \/ Line!Backspace \/ Line!Paste
  <2>1. UNCHANGED draft
    BY <1>2 DEF Line!TypeKey, Line!Backspace, Line!Paste
  <2>2. QED
    BY <1>2, <2>1 DEF KeepsText
<1>3. ASSUME index # 0, ~Line!PastedInto, history' = history
      PROVE  text \in Line!ToSet(history')
  BY <1>1, <1>3 DEF Line!ToSet
<1>4. CASE Line!HistoryUp
  <2>1. UNCHANGED history /\ draft' = IF index = 0 THEN text ELSE draft
    BY <1>4 DEF Line!HistoryUp, Line!PutAside
  <2>2. QED
    BY <1>3, <2>1 DEF KeepsText
<1>5. CASE Line!HistoryDown
  <2>1. /\ index # 0 /\ UNCHANGED history
        /\ UNCHANGED draft \/ (draft' = NoText /\ text' = IF draft = NoText THEN <<>> ELSE draft)
    BY <1>5 DEF Line!HistoryDown
  <2>2. QED
    BY <1>3, <2>1 DEF KeepsText
<1>6. CASE Line!Submit
  <2>1. history' = Line!Remembered
    BY <1>6 DEF Line!Submit
  <2>2. text = <<>> \/ text \in Line!ToSet(history')
    BY <2>1, RememberedGives DEF Line!ToSet
  <2>3. QED
    BY <1>6, <2>2 DEF KeepsText
<1>7. CASE UNCHANGED draft /\ (text' = text \/ overlay # "none")
  BY <1>7 DEF KeepsText
<1>8. CASE Line!Complete \/ Line!ConfirmMode \/ Line!Escape \/ Line!SubmissionEnds
  BY <1>7, <1>8
     DEF Line!Complete, Line!ConfirmMode, Line!Escape, Line!SubmissionEnds,
         Line!CloseOverlay
<1>9. QED
  BY <1>2, <1>4, <1>5, <1>6, <1>8 DEF Line!Next

(* With no overlay open, a line that is replaced and was not edited away is*)
(* in the history or put aside, unless it is a line of the history that was*)
(* pasted into; and what is put aside comes back unless the user sends     *)
(* another line: for texts and histories of any length.  Of a line that an *)
(* overlay closes over nothing is said (composer.rs, App::handle_key).     *)
THEOREM TypedTextStays == PartsSpec => TextIsKept
<1>1. [PartsNext \/ PartEnds]_partVars => [Line!Next]_(Line!composerVars)
  BY DEF PartsNext, PartEnds, partVars, lineVars, Line!composerVars
<1>2. LineInv /\ [PartsNext \/ PartEnds]_partVars => [KeepsText]_(Line!composerVars)
  BY <1>1, TextStep
<1>3. PartsSpec => [][KeepsText]_(Line!composerVars)
  BY <1>2, LineInvariantHolds, PTL DEF PartsSpec
<1>4. QED
  BY <1>3 DEF TextIsKept, Line!TextIsKept, KeepsText

-----------------------------------------------------------------------------
(* What goes into a prompt.  The folds of ContextPacking are recursions    *)
(* over the places of a list: each has a function that takes them one by   *)
(* one (ThoseSteps, CostSteps, PackSteps), and what is true of the empty   *)
(* list and kept by one element more is true of every list (Counting).     *)

(* Induction over the first N numbers, as a property of sets.              *)
Counted(S, N) == 0 \in S /\ \A n \in 0 .. N - 1 : n \in S => n + 1 \in S

LEMMA Counting ==
    ASSUME NEW N \in Nat, NEW S, Counted(S, N)
    PROVE  \A n \in 0 .. N : n \in S
<1> DEFINE T == {n \in 0 .. N : n \notin S}
           less == OpToRel(<, Nat)
<1>1. SUFFICES ASSUME T # {} PROVE FALSE
  OBVIOUS
<1>2. IsWellFoundedOn(less, Nat)
  BY NatLessThanWellFounded
<1>3. ASSUME NEW a \in Nat, NEW b \in Nat, a < b PROVE <<a, b>> \in less
  <2> DEFINE p == <<a, b>>
  <2>1. p \in Nat \X Nat /\ p[1] = a /\ p[2] = b
    OBVIOUS
  <2> HIDE DEF p
  <2>2. p \in less
    BY <1>3, <2>1 DEF OpToRel
  <2>3. QED
    BY <2>2 DEF p
<1>4. T \subseteq Nat
  OBVIOUS
<1> HIDE DEF less
<1>5. PICK n \in T : \A m \in T : ~(<<m, n>> \in less)
  BY <1>1, <1>2, <1>4, WFMin
<1>6. n \in 0 .. N /\ n \notin S /\ n # 0
  BY DEF Counted
<1>7. n - 1 \in 0 .. N - 1 /\ n - 1 \in Nat /\ n \in Nat /\ n - 1 < n /\ n - 1 + 1 = n
  BY <1>6
<1>8. n - 1 \in T
  BY <1>6, <1>7 DEF Counted
<1>9. <<n - 1, n>> \in less
  BY <1>3, <1>7
<1>10. QED
  BY <1>5, <1>8, <1>9

(* What FoldLeft takes last of the first n numbers.                        *)
LEMMA LastOf ==
    ASSUME NEW N \in Nat, NEW n \in 1 .. N
    PROVE  /\ 1 .. n \in SUBSET (1 .. N) /\ 1 .. n # {}
           /\ Packing!Max(1 .. n) = n /\ (1 .. n) \ {n} = 1 .. n - 1
<1>1. \A i \in 1 .. n : i \in 1 .. N
  OBVIOUS
<1>2. 1 \in 1 .. n
  OBVIOUS
<1>3. Packing!Max(1 .. n) = n
  BY DEF Packing!Max
<1>4. (1 .. n) \ {n} = 1 .. n - 1
  OBVIOUS
<1>5. QED
  BY <1>1, <1>2, <1>3, <1>4

LEMMA MaxIn == \A n \in Nat : \A t \in SUBSET (1 .. n) : t # {} => Packing!Max(t) \in t
<1> SUFFICES ASSUME NEW n \in Nat, NEW t \in SUBSET (1 .. n), t # {}
             PROVE  Packing!Max(t) \in t
  OBVIOUS
<1> DEFINE S == {m \in 0 .. n : \A u \in SUBSET (1 .. m) :
                                    u # {} => \E x \in u : \A y \in u : x >= y}
<1>1. 0 \in S
  <2>1. \A u \in SUBSET (1 .. 0) : u = {}
    OBVIOUS
  <2>2. \A u \in SUBSET (1 .. 0) : u # {} => \E x \in u : \A y \in u : x >= y
    BY <2>1, Zenon
  <2>3. 0 \in 0 .. n
    OBVIOUS
  <2>4. QED
    BY <2>2, <2>3, Zenon
<1>2. ASSUME NEW m \in 0 .. n - 1, m \in S PROVE m + 1 \in S
  <2>1. SUFFICES ASSUME NEW u \in SUBSET (1 .. m + 1), u # {}
                 PROVE  \E x \in u : \A y \in u : x >= y
    OBVIOUS
  <2>2. CASE m + 1 \in u
    BY <2>2
  <2>3. CASE m + 1 \notin u
    <3>1. u \in SUBSET (1 .. m)
      BY <2>3
    <3>2. QED
      BY <1>2, <2>1, <3>1
  <2>4. QED
    BY <2>2, <2>3
<1> HIDE DEF S
<1>3. n \in S
  BY <1>1, <1>2, Counting DEF Counted
<1>4. QED
  BY <1>3 DEF S, Packing!Max

\* g is the recursion that FoldLeft is, over the first N numbers, by step;
\* h is what it computes on the way.
Recurs(g, b, N, step) ==
    \A t \in SUBSET (1 .. N) :
        g[t] = IF t = {} THEN b ELSE step[<<g[t \ {Packing!Max(t)}], Packing!Max(t)>>]
Unfolds(f, b, M, N, step) ==
    /\ f[{}] = b
    /\ \A n \in 1 .. N : f[1 .. n - 1] \in M => f[1 .. n] = step[<<f[1 .. n - 1], n>>]
Advances(h, f, b, N, step) ==
    /\ h[0] = b /\ h[N] = f[1 .. N]
    /\ \A n \in 1 .. N : h[n] = step[<<h[n - 1], n>>]

(* A recursion over the first N numbers by a step that is a function.      *)
LEMMA Recursion ==
    ASSUME NEW M, NEW b \in M, NEW N \in Nat, NEW step \in [M \X (1 .. N) -> M]
    PROVE  \E g \in [SUBSET (1 .. N) -> M] : Recurs(g, b, N, step)
<1> DEFINE Of(g, t) == IF t = {} THEN b
                       ELSE step[<<g[t \ {Packing!Max(t)}], Packing!Max(t)>>]
           Good(n, g) == \A t \in SUBSET (1 .. n) : g[t] = Of(g, t)
           S == {n \in 0 .. N : \E g \in [SUBSET (1 .. n) -> M] : Good(n, g)}
<1>1. 0 \in S
  <2> DEFINE g == [t \in SUBSET (1 .. 0) |-> b]
  <2>1. g \in [SUBSET (1 .. 0) -> M]
    OBVIOUS
  <2>2. 1 .. 0 = {}
    OBVIOUS
  <2>3. Good(0, g)
    BY <2>2
  <2> HIDE DEF g
  <2>4. \E f \in [SUBSET (1 .. 0) -> M] : Good(0, f)
    BY <2>1, <2>3
  <2>5. 0 \in 0 .. N
    OBVIOUS
  <2>6. QED
    BY <2>4, <2>5
<1>2. ASSUME NEW n \in 0 .. N - 1, n \in S PROVE n + 1 \in S
  <2>1. PICK g \in [SUBSET (1 .. n) -> M] : Good(n, g)
    BY <1>2
  <2> DEFINE h == [t \in SUBSET (1 .. n + 1) |->
                     IF n + 1 \in t THEN step[<<g[t \ {n + 1}], n + 1>>] ELSE g[t]]
  <2>2. ASSUME NEW t \in SUBSET (1 .. n + 1), n + 1 \in t
        PROVE  /\ t \ {n + 1} \in SUBSET (1 .. n) /\ n + 1 \notin t \ {n + 1}
               /\ t \ {n + 1} \in SUBSET (1 .. n + 1)
               /\ Packing!Max(t) = n + 1 /\ t # {}
    <3>1. /\ t \ {n + 1} \in SUBSET (1 .. n) /\ t # {}
          /\ t \ {n + 1} \in SUBSET (1 .. n + 1)
      BY <2>2
    <3>2. \A y \in t : n + 1 >= y /\ y \in Nat
      OBVIOUS
    <3>3. \A x \in t : (\A y \in t : x >= y) => x = n + 1
      BY <2>2, <3>2
    <3>4. Packing!Max(t) = n + 1
      BY <2>2, <3>2, <3>3 DEF Packing!Max
    <3>5. QED
      BY <3>1, <3>4
  <2>3. ASSUME NEW t \in SUBSET (1 .. n + 1), n + 1 \notin t
        PROVE  t \in SUBSET (1 .. n)
    BY <2>3
  <2>4. n + 1 \in 1 .. N
    OBVIOUS
  <2>5. h \in [SUBSET (1 .. n + 1) -> M]
    <3>1. ASSUME NEW t \in SUBSET (1 .. n + 1), n + 1 \in t
          PROVE  step[<<g[t \ {n + 1}], n + 1>>] \in M
      BY <2>2, <2>4, <3>1
    <3>2. ASSUME NEW t \in SUBSET (1 .. n + 1), n + 1 \notin t
          PROVE  g[t] \in M
      BY <2>3, <3>2
    <3>3. QED
      BY <3>1, <3>2
  <2>6. Good(n + 1, h)
    <3>1. SUFFICES ASSUME NEW t \in SUBSET (1 .. n + 1) PROVE h[t] = Of(h, t)
      OBVIOUS
    <3>2. CASE n + 1 \in t
      <4>1. h[t] = step[<<g[t \ {n + 1}], n + 1>>]
        BY <3>2
      <4>2. h[t \ {n + 1}] = g[t \ {n + 1}]
        BY <2>2, <3>2
      <4>3. QED
        BY <2>2, <3>2, <4>1, <4>2
    <3>3. CASE n + 1 \notin t
      <4>1. h[t] = g[t]
        BY <3>3
      <4>2. g[t] = Of(g, t)
        BY <2>1, <2>3, <3>3
      <4>3. n + 1 \notin t \ {Packing!Max(t)} /\ t \ {Packing!Max(t)} \in SUBSET (1 .. n + 1)
        BY <3>3
      <4>4. h[t \ {Packing!Max(t)}] = g[t \ {Packing!Max(t)}]
        BY <4>3
      <4> HIDE DEF h
      <4>5. QED
        BY <4>1, <4>2, <4>4
    <3>4. QED
      BY <3>2, <3>3
  <2> HIDE DEF h
  <2>7. n + 1 \in 0 .. N
    OBVIOUS
  <2>8. QED
    BY <2>5, <2>6, <2>7
<1> HIDE DEF S
<1>3. N \in S
  BY <1>1, <1>2, Counting DEF Counted
<1>4. QED
  BY <1>3 DEF S, Recurs

(* ... and what it computes on the way to all of them.                     *)
LEMMA Results ==
    ASSUME NEW M, NEW b \in M, NEW N \in Nat, NEW step \in [M \X (1 .. N) -> M],
           NEW f, Unfolds(f, b, M, N, step)
    PROVE  \E h \in [0 .. N -> M] : Advances(h, f, b, N, step)
<1> DEFINE h == [n \in 0 .. N |-> f[1 .. n]]
           S == {n \in 0 .. N : f[1 .. n] \in M}
<1>1. 1 .. 0 = {}
  OBVIOUS
<1>2. 0 \in S
  BY <1>1 DEF Unfolds
<1>3. ASSUME NEW n \in 0 .. N - 1, n \in S PROVE n + 1 \in S
  <2>1. n + 1 \in 1 .. N /\ n + 1 - 1 = n /\ n + 1 \in 0 .. N
    OBVIOUS
  <2>2. f[1 .. n + 1] = step[<<f[1 .. n], n + 1>>]
    BY <1>3, <2>1 DEF Unfolds
  <2>3. QED
    BY <1>3, <2>1, <2>2
<1> HIDE DEF S
<1>4. \A n \in 0 .. N : n \in S
  BY <1>2, <1>3, Counting DEF Counted
<1>5. \A n \in 0 .. N : f[1 .. n] \in M
  BY <1>4 DEF S
<1>6. h \in [0 .. N -> M] /\ h[0] = b /\ h[N] = f[1 .. N]
  BY <1>1, <1>5 DEF Unfolds
<1>7. ASSUME NEW n \in 1 .. N PROVE h[n] = step[<<h[n - 1], n>>]
  <2>1. n - 1 \in 0 .. N /\ n \in 0 .. N
    OBVIOUS
  <2>2. h[n] = f[1 .. n] /\ h[n - 1] = f[1 .. n - 1]
    BY <2>1
  <2>3. QED
    BY <1>5, <2>1, <2>2 DEF Unfolds
<1> HIDE DEF h
<1>8. QED
  BY <1>6, <1>7 DEF Advances

\* h[n] are those of the first n elements of s that are in S.
Collects(h, s, S) ==
    /\ h[0] = <<>>
    /\ \A n \in 1 .. Len(s) :
          h[n] = IF s[n] \in S THEN Append(h[n - 1], s[n]) ELSE h[n - 1]
    /\ h[Len(s)] = Packing!Those(s, S)

(* Those of a list that are in a set, one by one.                          *)
LEMMA ThoseSteps ==
    ASSUME NEW E, NEW s \in Seq(E), NEW S
    PROVE  \E h \in [0 .. Len(s) -> Seq(E)] : Collects(h, s, S)
<1> DEFINE N == Len(s)
           M == Seq(E)
           none == <<>>
           With(q, e) == IF e \in S THEN Append(q, e) ELSE q
           step == [x \in M \X (1 .. N) |-> With(x[1], s[x[2]])]
           Sat(g) == g = [t \in SUBSET (1 .. N) |->
                            IF t = {} THEN none
                            ELSE With(g[t \ {Packing!Max(t)}], s[Packing!Max(t)])]
           f == CHOOSE g : Sat(g)
<1>1. N \in Nat /\ DOMAIN s = 1 .. N /\ none \in M
  OBVIOUS
<1>2. ASSUME NEW q \in M, NEW n \in 1 .. N
      PROVE  With(q, s[n]) \in M /\ step[<<q, n>>] = With(q, s[n])
  <2>1. s[n] \in E
    OBVIOUS
  <2>2. QED
    BY <2>1
<1>3. step \in [M \X (1 .. N) -> M]
  BY <1>2
<1>4. Packing!Those(s, S) = f[1 .. N]
  BY <1>1 DEF Packing!Those, Packing!FoldLeft, Packing!MapThenFoldSet
<1> HIDE DEF With, step, N, M, none
<1>5. Sat(f)
  <2>1. PICK g \in [SUBSET (1 .. N) -> M] : Recurs(g, none, N, step)
    BY <1>1, <1>3, Recursion
  <2>2. ASSUME NEW t \in SUBSET (1 .. N), t # {}
        PROVE  step[<<g[t \ {Packing!Max(t)}], Packing!Max(t)>>]
                 = With(g[t \ {Packing!Max(t)}], s[Packing!Max(t)])
    <3>1. Packing!Max(t) \in 1 .. N
      BY <1>1, <2>2, MaxIn
    <3>2. g[t \ {Packing!Max(t)}] \in M
      OBVIOUS
    <3>3. QED
      BY <1>2, <3>1, <3>2
  <2>3. Sat(g)
    BY <2>1, <2>2 DEF Recurs
  <2>4. QED
    BY <2>3
<1> HIDE DEF f
<1>6. f[{}] = none
  BY <1>5
<1>7. ASSUME NEW n \in 1 .. N, f[1 .. n - 1] \in M
      PROVE  f[1 .. n] = step[<<f[1 .. n - 1], n>>]
  <2>1. /\ 1 .. n \in SUBSET (1 .. N) /\ 1 .. n # {}
        /\ Packing!Max(1 .. n) = n /\ (1 .. n) \ {n} = 1 .. n - 1
    BY <1>1, LastOf
  <2>2. f[1 .. n] = With(f[1 .. n - 1], s[n])
    BY <1>5, <2>1
  <2>3. QED
    BY <1>2, <1>7, <2>2
<1>8. Unfolds(f, none, M, N, step)
  BY <1>6, <1>7 DEF Unfolds
<1>9. PICK h \in [0 .. N -> M] : Advances(h, f, none, N, step)
  BY <1>1, <1>3, <1>8, Results
<1>10. ASSUME NEW n \in 1 .. N PROVE h[n] = With(h[n - 1], s[n])
  <2>1. n - 1 \in 0 .. N
    BY <1>1
  <2>2. QED
    BY <1>2, <1>9, <2>1 DEF Advances
<1>11. QED
  BY <1>4, <1>9, <1>10 DEF Collects, Advances, With, N, M, none

(* Such a list has all of them and nothing else.                           *)
LEMMA ThoseFacts ==
    ASSUME NEW E, NEW s \in Seq(E), NEW S
    PROVE  /\ Packing!Those(s, S) \in Seq(E)
           /\ \A i \in DOMAIN Packing!Those(s, S) : Packing!Those(s, S)[i] \in S
           /\ \A i \in DOMAIN s : s[i] \in S =>
                 \E j \in DOMAIN Packing!Those(s, S) : Packing!Those(s, S)[j] = s[i]
<1>1. PICK h \in [0 .. Len(s) -> Seq(E)] : Collects(h, s, S)
  BY ThoseSteps
<1> DEFINE N == Len(s)
           Has(q, e) == \E j \in DOMAIN q : q[j] = e
           Good(q, n) == /\ \A i \in DOMAIN q : q[i] \in S
                         /\ \A i \in 1 .. n : s[i] \in S => Has(q, s[i])
           T == {n \in 0 .. N : Good(h[n], n)}
<1>2. N \in Nat /\ DOMAIN s = 1 .. N
  OBVIOUS
<1>3. 0 \in T
  BY <1>1, <1>2 DEF Collects
<1>4. ASSUME NEW n \in 0 .. N - 1, n \in T PROVE n + 1 \in T
  <2> DEFINE q == h[n]
             e == s[n + 1]
  <2>1. /\ n + 1 \in 1 .. N /\ n + 1 - 1 = n /\ n \in 0 .. N
        /\ n + 1 \in 0 .. N /\ \A i \in 1 .. n + 1 : i \in 1 .. n \/ i = n + 1
    BY <1>2
  <2>2. q \in Seq(E) /\ e \in E /\ Good(q, n)
    BY <1>4, <2>1
  <2>3. h[n + 1] = IF e \in S THEN Append(q, e) ELSE q
    BY <1>1, <2>1 DEF Collects
  <2>4. CASE e \in S
    <3> DEFINE a == Append(q, e)
    <3>1. /\ a[Len(q) + 1] = e /\ Len(q) + 1 \in DOMAIN a
          /\ \A i \in DOMAIN q : i \in DOMAIN a /\ a[i] = q[i]
          /\ \A i \in DOMAIN a : i \in DOMAIN q \/ i = Len(q) + 1
      BY <2>2
    <3> HIDE DEF a, q
    <3>2. \A i \in DOMAIN a : a[i] \in S
      BY <2>2, <2>4, <3>1
    <3>3. Has(a, e) /\ \A x : Has(q, x) => Has(a, x)
      BY <3>1
    <3> HIDE DEF Has
    <3>4. \A i \in 1 .. n + 1 : s[i] \in S => Has(a, s[i])
      BY <2>1, <2>2, <3>3
    <3>5. Good(a, n + 1)
      BY <3>2, <3>4
    <3>6. h[n + 1] = a
      BY <2>3, <2>4 DEF a
    <3>7. QED
      BY <2>1, <3>5, <3>6
  <2>5. CASE e \notin S
    <3> HIDE DEF Has
    <3>1. Good(q, n + 1)
      BY <2>1, <2>2, <2>5
    <3>2. QED
      BY <2>1, <2>3, <2>5, <3>1
  <2>6. QED
    BY <2>4, <2>5
<1>5. Counted(T, N)
  BY <1>3, <1>4 DEF Counted
<1> HIDE DEF T, N
<1>6. N \in T
  BY <1>2, <1>5, Counting
<1>7. Good(h[N], N)
  BY <1>6 DEF T
<1>8. QED
  BY <1>1, <1>2, <1>7 DEF Collects, N

(* What one set takes and the other leaves makes up the list.              *)
LEMMA ThoseAndOthers ==
    ASSUME NEW E, NEW s \in Seq(E), NEW S, NEW R,
           \A i \in DOMAIN s : s[i] \in S <=> s[i] \notin R
    PROVE  Len(Packing!Those(s, S)) + Len(Packing!Those(s, R)) = Len(s)
<1>1. PICK h \in [0 .. Len(s) -> Seq(E)] : Collects(h, s, S)
  BY ThoseSteps
<1>2. PICK k \in [0 .. Len(s) -> Seq(E)] : Collects(k, s, R)
  BY ThoseSteps
<1> DEFINE N == Len(s)
           T == {n \in 0 .. N : Len(h[n]) + Len(k[n]) = n}
<1>3. N \in Nat /\ DOMAIN s = 1 .. N
  OBVIOUS
<1>4. 0 \in T
  BY <1>1, <1>2, <1>3 DEF Collects
<1>5. ASSUME NEW n \in 0 .. N - 1, n \in T PROVE n + 1 \in T
  <2>1. /\ n + 1 \in 1 .. N /\ n + 1 - 1 = n /\ n \in 0 .. N
        /\ n + 1 \in 0 .. N /\ n \in Nat
    BY <1>3
  <2>2. h[n] \in Seq(E) /\ k[n] \in Seq(E) /\ Len(h[n]) + Len(k[n]) = n /\ s[n + 1] \in E
    BY <1>5, <2>1
  <2>3. /\ h[n + 1] = IF s[n + 1] \in S THEN Append(h[n], s[n + 1]) ELSE h[n]
        /\ k[n + 1] = IF s[n + 1] \in R THEN Append(k[n], s[n + 1]) ELSE k[n]
    BY <1>1, <1>2, <2>1 DEF Collects
  <2>4. /\ Len(Append(h[n], s[n + 1])) = Len(h[n]) + 1 /\ Len(h[n]) \in Nat
        /\ Len(Append(k[n], s[n + 1])) = Len(k[n]) + 1 /\ Len(k[n]) \in Nat
    BY <2>2
  <2>5. s[n + 1] \in S <=> s[n + 1] \notin R
    BY <1>3, <2>1
  <2>6. Len(h[n + 1]) + Len(k[n + 1]) = n + 1
    <3>1. CASE s[n + 1] \in S
      <4>1. h[n + 1] = Append(h[n], s[n + 1]) /\ k[n + 1] = k[n]
        BY <2>3, <2>5, <3>1
      <4>2. QED
        BY <2>1, <2>2, <2>4, <4>1
    <3>2. CASE s[n + 1] \notin S
      <4>1. h[n + 1] = h[n] /\ k[n + 1] = Append(k[n], s[n + 1])
        BY <2>3, <2>5, <3>2
      <4>2. QED
        BY <2>1, <2>2, <2>4, <4>1
    <3>3. QED
      BY <3>1, <3>2
  <2>7. QED
    BY <2>1, <2>6
<1>6. Counted(T, N)
  BY <1>4, <1>5 DEF Counted
<1> HIDE DEF T, N
<1>7. N \in T
  BY <1>3, <1>6, Counting
<1>8. QED
  BY <1>1, <1>2, <1>7 DEF T, N, Collects

(* The tokens of a list of evidence, one by one.                           *)
PackTexts == [type : Packing!Types, source : Packing!Sources, length : Nat,
              restricted : BOOLEAN, within : BOOLEAN]
Cost(s) == Packing!FoldLeft(LAMBDA n, e : n + Packing!EstimateTokens(e.length), 0, s)
Counts(h, s) ==
    /\ h[0] = 0 /\ h[Len(s)] = Cost(s)
    /\ \A n \in 1 .. Len(s) : h[n] = h[n - 1] + Packing!EstimateTokens(s[n].length)

LEMMA TokensAreNumbers == \A n \in Nat : Packing!EstimateTokens(n) \in Nat
BY DEF Packing!EstimateTokens

LEMMA CostSteps ==
    ASSUME NEW s \in Seq(PackTexts)
    PROVE  \E h \in [0 .. Len(s) -> Nat] : Counts(h, s)
<1> DEFINE N == Len(s)
           M == Nat
           none == 0
           With(q, e) == q + Packing!EstimateTokens(e.length)
           step == [x \in M \X (1 .. N) |-> With(x[1], s[x[2]])]
           Sat(g) == g = [t \in SUBSET (1 .. N) |->
                            IF t = {} THEN none
                            ELSE With(g[t \ {Packing!Max(t)}], s[Packing!Max(t)])]
           f == CHOOSE g : Sat(g)
<1>1. N \in Nat /\ DOMAIN s = 1 .. N /\ none \in M
  OBVIOUS
<1>2. ASSUME NEW q \in M, NEW n \in 1 .. N
      PROVE  With(q, s[n]) \in M /\ step[<<q, n>>] = With(q, s[n])
  <2>1. s[n] \in PackTexts
    OBVIOUS
  <2>2. Packing!EstimateTokens(s[n].length) \in Nat
    BY <2>1, TokensAreNumbers DEF PackTexts
  <2>3. QED
    BY <2>1, <2>2
<1>3. step \in [M \X (1 .. N) -> M]
  BY <1>2
<1>4. Cost(s) = f[1 .. N]
  BY <1>1 DEF Cost, Packing!FoldLeft, Packing!MapThenFoldSet
<1> HIDE DEF With, step, N, M, none
<1>5. Sat(f)
  <2>1. PICK g \in [SUBSET (1 .. N) -> M] : Recurs(g, none, N, step)
    BY <1>1, <1>3, Recursion
  <2>2. ASSUME NEW t \in SUBSET (1 .. N), t # {}
        PROVE  step[<<g[t \ {Packing!Max(t)}], Packing!Max(t)>>]
                 = With(g[t \ {Packing!Max(t)}], s[Packing!Max(t)])
    <3>1. Packing!Max(t) \in 1 .. N
      BY <1>1, <2>2, MaxIn
    <3>2. g[t \ {Packing!Max(t)}] \in M
      OBVIOUS
    <3>3. QED
      BY <1>2, <3>1, <3>2
  <2>3. Sat(g)
    BY <2>1, <2>2 DEF Recurs
  <2>4. QED
    BY <2>3
<1> HIDE DEF f
<1>6. f[{}] = none
  BY <1>5
<1>7. ASSUME NEW n \in 1 .. N, f[1 .. n - 1] \in M
      PROVE  f[1 .. n] = step[<<f[1 .. n - 1], n>>]
  <2>1. /\ 1 .. n \in SUBSET (1 .. N) /\ 1 .. n # {}
        /\ Packing!Max(1 .. n) = n /\ (1 .. n) \ {n} = 1 .. n - 1
    BY <1>1, LastOf
  <2>2. f[1 .. n] = With(f[1 .. n - 1], s[n])
    BY <1>5, <2>1
  <2>3. QED
    BY <1>2, <1>7, <2>2
<1>8. Unfolds(f, none, M, N, step)
  BY <1>6, <1>7 DEF Unfolds
<1>9. PICK h \in [0 .. N -> M] : Advances(h, f, none, N, step)
  BY <1>1, <1>3, <1>8, Results
<1>10. ASSUME NEW n \in 1 .. N PROVE h[n] = With(h[n - 1], s[n])
  <2>1. n - 1 \in 0 .. N
    BY <1>1
  <2>2. QED
    BY <1>2, <1>9, <2>1 DEF Advances
<1>11. QED
  BY <1>4, <1>9, <1>10 DEF Counts, Advances, With, N, M, none

(* What is appended to a list costs what it costs by itself.               *)
LEMMA CostGrows ==
    ASSUME NEW s \in Seq(PackTexts), NEW e \in PackTexts
    PROVE  /\ Cost(s) \in Nat
           /\ Cost(Append(s, e)) = Cost(s) + Packing!EstimateTokens(e.length)
<1> DEFINE N == Len(s)
           a == Append(s, e)
<1>1. /\ N \in Nat /\ a \in Seq(PackTexts) /\ Len(a) = N + 1 /\ a[N + 1] = e
      /\ \A n \in 1 .. N : a[n] = s[n]
  OBVIOUS
<1> HIDE DEF a
<1>2. PICK h \in [0 .. Len(s) -> Nat] : Counts(h, s)
  BY CostSteps
<1>3. PICK k \in [0 .. Len(a) -> Nat] : Counts(k, a)
  BY <1>1, CostSteps
<1> DEFINE T == {n \in 0 .. N : h[n] = k[n]}
<1>4. 0 \in T
  BY <1>1, <1>2, <1>3 DEF Counts
<1>5. ASSUME NEW n \in 0 .. N - 1, n \in T PROVE n + 1 \in T
  <2>1. /\ n + 1 \in 1 .. Len(s) /\ n + 1 \in 1 .. Len(a) /\ n + 1 - 1 = n
        /\ n + 1 \in 0 .. N /\ n + 1 \in 1 .. N
    BY <1>1
  <2>2. a[n + 1] = s[n + 1] /\ h[n] = k[n]
    BY <1>1, <1>5, <2>1
  <2>3. h[n + 1] = k[n + 1]
    BY <1>2, <1>3, <2>1, <2>2 DEF Counts
  <2>4. QED
    BY <2>1, <2>3
<1>6. Counted(T, N)
  BY <1>4, <1>5 DEF Counted
<1> HIDE DEF T
<1>7. N \in T
  BY <1>1, <1>6, Counting
<1>8. h[N] = k[N] /\ h[N] \in Nat /\ h[N] = Cost(s)
  BY <1>1, <1>2, <1>7 DEF T, Counts
<1>9. k[N + 1] = k[N] + Packing!EstimateTokens(e.length) /\ k[N + 1] = Cost(a)
  <2>1. N + 1 \in 1 .. Len(a) /\ N + 1 - 1 = N /\ Len(a) = N + 1
    BY <1>1
  <2>2. k[N + 1] = k[N + 1 - 1] + Packing!EstimateTokens(a[N + 1].length)
    BY <1>3, <2>1 DEF Counts
  <2>3. k[N + 1] = Cost(a)
    BY <1>3, <2>1 DEF Counts
  <2>4. QED
    BY <1>1, <2>1, <2>2, <2>3
<1>10. QED
  BY <1>8, <1>9 DEF a

LEMMA NothingCosts == Cost(<<>>) = 0
<1> DEFINE s == <<>>
<1>1. s \in Seq(PackTexts) /\ Len(s) = 0
  OBVIOUS
<1> HIDE DEF s
<1>2. PICK h \in [0 .. Len(s) -> Nat] : Counts(h, s)
  BY <1>1, CostSteps
<1>3. Cost(s) = 0
  BY <1>1, <1>2 DEF Counts
<1>4. QED
  BY <1>3 DEF s

LEMMA CostIsNumber == \A s \in Seq(PackTexts) : Cost(s) \in Nat
<1> SUFFICES ASSUME NEW s \in Seq(PackTexts) PROVE Cost(s) \in Nat
  OBVIOUS
<1>1. PICK h \in [0 .. Len(s) -> Nat] : Counts(h, s)
  BY CostSteps
<1>2. Len(s) \in 0 .. Len(s)
  OBVIOUS
<1>3. QED
  BY <1>1, <1>2 DEF Counts

(* The packing of a list of candidates, one by one.                        *)
PackSummaries == [length : Nat, relevant : BOOLEAN]
PackReasons == {"expired", "restricted", "unranked", "ranked", "duplicate", "token_budget",
                "irrelevant"}
PackLeft == [of : PackTexts \cup PackSummaries, why : PackReasons]
Manifests == [included : Seq(PackTexts), left : Seq(PackLeft),
              seen : SUBSET Packing!Sources, summary : BOOLEAN, used : Nat]
PackedAll(start, c, budget) ==
    Packing!FoldLeft(LAMBDA m, e : Packing!Packed(m, e, budget), start, c)
Packs(h, start, c, budget) ==
    /\ h[0] = start /\ h[Len(c)] = PackedAll(start, c, budget)
    /\ \A n \in 1 .. Len(c) : h[n] = Packing!Packed(h[n - 1], c[n], budget)

LEMMA PackedIsManifest ==
    ASSUME NEW m \in Manifests, NEW e \in PackTexts, NEW budget \in Nat
    PROVE  Packing!Packed(m, e, budget) \in Manifests
<1> DEFINE cost == Packing!EstimateTokens(e.length)
           met  == [m EXCEPT !.seen = @ \cup {e.source}]
<1>1. cost \in Nat /\ e \in PackTexts /\ e.source \in Packing!Sources
  BY TokensAreNumbers DEF PackTexts
<1>2. met \in Manifests
  BY <1>1 DEF Manifests
<1>3. ASSUME NEW x \in Manifests, NEW why \in PackReasons
      PROVE  Packing!Leave(x, e, why) \in Manifests
  <2>1. [of |-> e, why |-> why] \in PackLeft
    BY DEF PackLeft
  <2>2. Append(x.left, [of |-> e, why |-> why]) \in Seq(PackLeft)
    BY <2>1 DEF Manifests
  <2>3. QED
    BY <2>2 DEF Packing!Leave, Manifests
<1>4. [met EXCEPT !.included = Append(@, e), !.used = @ + cost] \in Manifests
  <2>1. Append(met.included, e) \in Seq(PackTexts) /\ met.used + cost \in Nat
    BY <1>1, <1>2 DEF Manifests
  <2>2. QED
    BY <1>2, <2>1 DEF Manifests
<1>5. {"duplicate", "restricted", "token_budget"} \subseteq PackReasons
  BY DEF PackReasons
<1> HIDE DEF met, cost
<1>6. QED
  BY <1>2, <1>3, <1>4, <1>5 DEF Packing!Packed, met, cost

LEMMA PackSteps ==
    ASSUME NEW s \in Seq(PackTexts), NEW start \in Manifests, NEW budget \in Nat
    PROVE  \E h \in [0 .. Len(s) -> Manifests] : Packs(h, start, s, budget)
<1> DEFINE N == Len(s)
           M == Manifests
           none == start
           With(q, e) == Packing!Packed(q, e, budget)
           step == [x \in M \X (1 .. N) |-> With(x[1], s[x[2]])]
           Sat(g) == g = [t \in SUBSET (1 .. N) |->
                            IF t = {} THEN none
                            ELSE With(g[t \ {Packing!Max(t)}], s[Packing!Max(t)])]
           f == CHOOSE g : Sat(g)
<1>1. N \in Nat /\ DOMAIN s = 1 .. N /\ none \in M
  OBVIOUS
<1>2. ASSUME NEW q \in M, NEW n \in 1 .. N
      PROVE  With(q, s[n]) \in M /\ step[<<q, n>>] = With(q, s[n])
  <2>1. s[n] \in PackTexts
    OBVIOUS
  <2>2. QED
    BY <2>1, PackedIsManifest
<1>3. step \in [M \X (1 .. N) -> M]
  BY <1>2
<1>4. PackedAll(start, s, budget) = f[1 .. N]
  BY <1>1 DEF PackedAll, Packing!FoldLeft, Packing!MapThenFoldSet
<1> HIDE DEF With, step, N, M, none
<1>5. Sat(f)
  <2>1. PICK g \in [SUBSET (1 .. N) -> M] : Recurs(g, none, N, step)
    BY <1>1, <1>3, Recursion
  <2>2. ASSUME NEW t \in SUBSET (1 .. N), t # {}
        PROVE  step[<<g[t \ {Packing!Max(t)}], Packing!Max(t)>>]
                 = With(g[t \ {Packing!Max(t)}], s[Packing!Max(t)])
    <3>1. Packing!Max(t) \in 1 .. N
      BY <1>1, <2>2, MaxIn
    <3>2. g[t \ {Packing!Max(t)}] \in M
      OBVIOUS
    <3>3. QED
      BY <1>2, <3>1, <3>2
  <2>3. Sat(g)
    BY <2>1, <2>2 DEF Recurs
  <2>4. QED
    BY <2>3
<1> HIDE DEF f
<1>6. f[{}] = none
  BY <1>5
<1>7. ASSUME NEW n \in 1 .. N, f[1 .. n - 1] \in M
      PROVE  f[1 .. n] = step[<<f[1 .. n - 1], n>>]
  <2>1. /\ 1 .. n \in SUBSET (1 .. N) /\ 1 .. n # {}
        /\ Packing!Max(1 .. n) = n /\ (1 .. n) \ {n} = 1 .. n - 1
    BY <1>1, LastOf
  <2>2. f[1 .. n] = With(f[1 .. n - 1], s[n])
    BY <1>5, <2>1
  <2>3. QED
    BY <1>2, <1>7, <2>2
<1>8. Unfolds(f, none, M, N, step)
  BY <1>6, <1>7 DEF Unfolds
<1>9. PICK h \in [0 .. N -> M] : Advances(h, f, none, N, step)
  BY <1>1, <1>3, <1>8, Results
<1>10. ASSUME NEW n \in 1 .. N PROVE h[n] = With(h[n - 1], s[n])
  <2>1. n - 1 \in 0 .. N
    BY <1>1
  <2>2. QED
    BY <1>2, <1>9, <2>1 DEF Advances
<1>11. QED
  BY <1>4, <1>9, <1>10 DEF Packs, Advances, With, N, M, none

(* What holds of the manifest when n candidates have been packed.          *)
Stands(m, e) == Packing!Weighed(m, e) \/ e.restricted
LeftOrIn(m, e) ==
    Stands(m, e) \/ \E i \in DOMAIN m.left : m.left[i] = [of |-> e, why |-> "duplicate"]
\* What was left for evidence of its source was left for some that stands.
InTurn(m, c) == \A source \in m.seen :
                   \E j \in DOMAIN c : c[j].source = source /\ Stands(m, c[j])
AddsUp(m, budget, n) ==
    /\ m.used = Cost(m.included) /\ m.used <= budget
    /\ \A i \in DOMAIN m.included : ~m.included[i].restricted
    /\ \A i \in DOMAIN m.left : m.left[i].why = "token_budget" =>
          m.used + Packing!EstimateTokens(m.left[i].of.length) > budget
    /\ Len(m.included) + Len(m.left) = n

LEMMA LeaveAddsUp ==
    ASSUME NEW m \in Manifests, NEW e \in PackTexts \cup PackSummaries, NEW budget \in Nat,
           NEW n \in Nat, AddsUp(m, budget, n), NEW why \in PackReasons,
           NEW x \in Manifests, x.included = m.included, x.used = m.used, x.left = m.left,
           why = "token_budget" => m.used + Packing!EstimateTokens(e.length) > budget
    PROVE  LET y == Packing!Leave(x, e, why)
           IN  /\ AddsUp(y, budget, n + 1) /\ y.seen = x.seen
               /\ why = "duplicate" => LeftOrIn(y, e)
               /\ why = "token_budget" => Stands(y, e)
               /\ \A c : LeftOrIn(m, c) => LeftOrIn(y, c)
               /\ \A c : Stands(m, c) => Stands(y, c)
<1> DEFINE y == Packing!Leave(x, e, why)
           l == Append(m.left, [of |-> e, why |-> why])
<1>1. /\ y.included = m.included /\ y.used = m.used /\ y.left = l /\ y.seen = x.seen
  BY DEF Packing!Leave, Manifests
<1>2. m.left \in Seq(PackLeft) /\ m.included \in Seq(PackTexts) /\ m.used \in Nat
  BY DEF Manifests
<1>3. /\ Len(l) = Len(m.left) + 1 /\ Len(m.left) + 1 \in DOMAIN l
      /\ l[Len(m.left) + 1] = [of |-> e, why |-> why]
      /\ \A i \in DOMAIN m.left : i \in DOMAIN l /\ l[i] = m.left[i]
      /\ \A i \in DOMAIN l : i \in DOMAIN m.left \/ i = Len(m.left) + 1
      /\ Len(m.left) \in Nat /\ Len(m.included) \in Nat
  BY <1>2
<1> HIDE DEF y, l
<1>4. \A i \in DOMAIN l : l[i].why = "token_budget" =>
          m.used + Packing!EstimateTokens(l[i].of.length) > budget
  BY <1>3 DEF AddsUp
<1>5. AddsUp(y, budget, n + 1)
  <2>1. Len(m.included) + Len(m.left) = n
    BY DEF AddsUp
  <2>2. Len(y.included) + Len(y.left) = n + 1
    <3>1. Len(y.included) = Len(m.included) /\ Len(y.left) = Len(m.left) + 1
      BY <1>1, <1>3
    <3> DEFINE p == Len(m.included)
               q == Len(m.left)
    <3>2. p \in Nat /\ q \in Nat /\ p + q = n
      BY <1>3, <2>1
    <3> HIDE DEF p, q
    <3>3. p + (q + 1) = n + 1
      BY <3>2
    <3>4. QED
      BY <3>1, <3>3 DEF p, q
  <2>3. QED
    BY <1>1, <1>4, <2>2 DEF AddsUp
<1>6. /\ why = "duplicate" => LeftOrIn(y, e)
      /\ why = "token_budget" => Stands(y, e)
  BY <1>1, <1>3 DEF LeftOrIn, Stands, Packing!Weighed
<1>7. ASSUME NEW c, Stands(m, c) PROVE Stands(y, c)
  BY <1>1, <1>3, <1>7 DEF Stands, Packing!Weighed
<1>8. ASSUME NEW c, LeftOrIn(m, c) PROVE LeftOrIn(y, c)
  BY <1>1, <1>3, <1>7, <1>8 DEF LeftOrIn
<1>9. QED
  BY <1>1, <1>5, <1>6, <1>7, <1>8 DEF y

LEMMA PackedAddsUp ==
    ASSUME NEW m \in Manifests, NEW e \in PackTexts, NEW budget \in Nat, NEW n \in Nat,
           AddsUp(m, budget, n)
    PROVE  LET y == Packing!Packed(m, e, budget)
           IN  /\ AddsUp(y, budget, n + 1) /\ y.summary = m.summary
               /\ LeftOrIn(y, e) /\ \A c : LeftOrIn(m, c) => LeftOrIn(y, c)
               /\ \A c : Stands(m, c) => Stands(y, c)
               /\ y.seen = m.seen \cup {e.source}
               /\ e.source \in m.seen \/ Stands(y, e)
<1> DEFINE y == Packing!Packed(m, e, budget)
           cost == Packing!EstimateTokens(e.length)
           met  == [m EXCEPT !.seen = @ \cup {e.source}]
<1>1. cost \in Nat /\ e.source \in Packing!Sources /\ m.used \in Nat
  BY TokensAreNumbers DEF PackTexts, Manifests
<1>2. /\ met \in Manifests /\ met.included = m.included /\ met.used = m.used
      /\ met.left = m.left /\ met.summary = m.summary
      /\ met.seen = m.seen \cup {e.source}
  BY <1>1 DEF Manifests
<1>3. \A x \in Manifests : \A why : Packing!Leave(x, e, why).summary = x.summary
  BY DEF Packing!Leave, Manifests
<1>9. e \in PackTexts \cup PackSummaries /\ {"duplicate", "restricted", "token_budget"} \subseteq PackReasons
  BY DEF PackReasons
<1>4. CASE e.source \in m.seen
  <2>1. y = Packing!Leave(m, e, "duplicate")
    BY <1>4 DEF Packing!Packed
  <2>2. y.seen = m.seen \cup {e.source}
    BY <1>4, <2>1 DEF Packing!Leave, Manifests
  <2>3. QED
    BY <1>3, <1>4, <1>9, <2>1, <2>2, LeaveAddsUp
<1> HIDE DEF met
<1>5. CASE e.source \notin m.seen /\ e.restricted
  <2>1. y = Packing!Leave(met, e, "restricted")
    BY <1>5 DEF Packing!Packed, met
  <2>2. Stands(y, e) /\ LeftOrIn(y, e)
    BY <1>5 DEF Stands, LeftOrIn
  <2>3. QED
    BY <1>2, <1>3, <1>9, <2>1, <2>2, LeaveAddsUp
<1>6. CASE e.source \notin m.seen /\ ~e.restricted /\ ~Packing!Fits(m.used, cost, budget)
  <2>1. y = Packing!Leave(met, e, "token_budget")
    BY <1>6 DEF Packing!Packed, met
  <2>2. m.used + cost > budget
    BY <1>1, <1>6 DEF Packing!Fits
  <2>3. Stands(y, e) => LeftOrIn(y, e)
    BY DEF LeftOrIn
  <2>4. QED
    BY <1>2, <1>3, <1>9, <2>1, <2>2, <2>3, LeaveAddsUp
<1>7. CASE e.source \notin m.seen /\ ~e.restricted /\ Packing!Fits(m.used, cost, budget)
  <2> DEFINE a == Append(m.included, e)
  <2>1. y = [met EXCEPT !.included = Append(@, e), !.used = @ + cost]
    BY <1>7 DEF Packing!Packed, met
  <2>2. /\ y.included = a /\ y.used = m.used + cost /\ y.left = m.left
        /\ y.summary = m.summary /\ y.seen = m.seen \cup {e.source}
    BY <1>2, <2>1 DEF Manifests
  <2>3. m.left \in Seq(PackLeft) /\ m.included \in Seq(PackTexts)
    BY DEF Manifests
  <2>4. /\ Len(a) = Len(m.included) + 1 /\ Len(m.included) + 1 \in DOMAIN a
        /\ a[Len(m.included) + 1] = e
        /\ \A i \in DOMAIN m.included : i \in DOMAIN a /\ a[i] = m.included[i]
        /\ \A i \in DOMAIN a : i \in DOMAIN m.included \/ i = Len(m.included) + 1
        /\ Len(m.left) \in Nat /\ Len(m.included) \in Nat
    BY <2>3
  <2>5. Cost(a) = Cost(m.included) + cost /\ Cost(m.included) \in Nat
    BY <2>3, CostGrows
  <2> HIDE DEF a, y, cost
  <2>6. y.used = Cost(y.included) /\ y.used <= budget
    BY <1>1, <1>7, <2>2, <2>5 DEF AddsUp, Packing!Fits
  <2>7. \A i \in DOMAIN a : ~a[i].restricted
    BY <1>7, <2>4 DEF AddsUp
  <2>8. ASSUME NEW i \in DOMAIN m.left, m.left[i].why = "token_budget"
        PROVE  y.used + Packing!EstimateTokens(m.left[i].of.length) > budget
    <3>1. m.left[i] \in PackLeft
      BY <2>3
    <3>2. m.left[i].of.length \in Nat
      BY <3>1 DEF PackLeft, PackTexts, PackSummaries
    <3>3. Packing!EstimateTokens(m.left[i].of.length) \in Nat
      BY <3>2, TokensAreNumbers
    <3>4. m.used + Packing!EstimateTokens(m.left[i].of.length) > budget
      BY <2>8 DEF AddsUp
    <3>5. QED
      BY <1>1, <2>2, <3>3, <3>4
  <2>9. Len(y.included) + Len(y.left) = n + 1
    <3>1. Len(m.included) + Len(m.left) = n
      BY DEF AddsUp
    <3>2. Len(y.included) = Len(m.included) + 1 /\ Len(y.left) = Len(m.left)
      BY <2>2, <2>4
    <3> DEFINE p == Len(m.included)
               q == Len(m.left)
    <3>3. p \in Nat /\ q \in Nat /\ p + q = n
      BY <2>4, <3>1
    <3> HIDE DEF p, q
    <3>4. (p + 1) + q = n + 1
      BY <3>3
    <3>5. QED
      BY <3>2, <3>4 DEF p, q
  <2>10. AddsUp(y, budget, n + 1)
    BY <2>2, <2>6, <2>7, <2>8, <2>9 DEF AddsUp
  <2>11. Stands(y, e) /\ LeftOrIn(y, e)
    BY <2>2, <2>4 DEF LeftOrIn, Stands, Packing!Weighed
  <2>12. ASSUME NEW c, Stands(m, c) PROVE Stands(y, c)
    BY <2>2, <2>4, <2>12 DEF Stands, Packing!Weighed
  <2>13. ASSUME NEW c, LeftOrIn(m, c) PROVE LeftOrIn(y, c)
    BY <2>2, <2>12, <2>13 DEF LeftOrIn
  <2>14. QED
    BY <2>2, <2>10, <2>11, <2>12, <2>13 DEF y
<1>8. QED
  BY <1>4, <1>5, <1>6, <1>7

(* All of them, in or out.                                                 *)
LEMMA PackedAllAddsUp ==
    ASSUME NEW s \in Seq(PackTexts), NEW start \in Manifests, NEW budget \in Nat,
           NEW k \in Nat, AddsUp(start, budget, k), start.summary = FALSE, start.seen = {}
    PROVE  LET y == PackedAll(start, s, budget)
           IN  /\ y \in Manifests /\ y.summary = FALSE /\ AddsUp(y, budget, k + Len(s))
               /\ \A i \in DOMAIN s : LeftOrIn(y, s[i]) /\ s[i].source \in y.seen
               /\ InTurn(y, s)
<1> DEFINE N == Len(s)
           Good(m, n) == /\ m.summary = FALSE /\ AddsUp(m, budget, k + n)
                         /\ \A i \in 1 .. n : LeftOrIn(m, s[i]) /\ s[i].source \in m.seen
                         /\ InTurn(m, s)
<1>1. N \in Nat /\ DOMAIN s = 1 .. N
  OBVIOUS
<1>2. PICK h \in [0 .. Len(s) -> Manifests] : Packs(h, start, s, budget)
  BY PackSteps
<1> DEFINE T == {n \in 0 .. N : Good(h[n], n)}
<1>3. 0 \in T
  <2>1. k + 0 = k /\ \A i \in 1 .. 0 : FALSE
    OBVIOUS
  <2>2. QED
    BY <1>1, <1>2, <2>1 DEF Packs, InTurn
<1>4. ASSUME NEW n \in 0 .. N - 1, n \in T PROVE n + 1 \in T
  <2> DEFINE m == h[n]
             e == s[n + 1]
             y == Packing!Packed(m, e, budget)
  <2>1. /\ n + 1 \in 1 .. N /\ n + 1 - 1 = n /\ n \in 0 .. N /\ n \in Nat
        /\ n + 1 \in 0 .. N /\ \A i \in 1 .. n + 1 : i \in 1 .. n \/ i = n + 1
        /\ k + n \in Nat /\ k + n + 1 = k + (n + 1)
    BY <1>1
  <2>2. m \in Manifests /\ e \in PackTexts /\ Good(m, n)
    BY <1>4, <2>1
  <2>3. h[n + 1] = y
    <3>1. \A i \in 1 .. N : h[i] = Packing!Packed(h[i - 1], s[i], budget)
      BY <1>2 DEF Packs
    <3>2. h[n + 1] = Packing!Packed(h[n + 1 - 1], s[n + 1], budget)
      BY <2>1, <3>1
    <3>3. QED
      BY <2>1, <3>2
  <2>4. /\ AddsUp(y, budget, k + n + 1) /\ y.summary = m.summary
        /\ LeftOrIn(y, e) /\ \A c : LeftOrIn(m, c) => LeftOrIn(y, c)
        /\ \A c : Stands(m, c) => Stands(y, c)
        /\ y.seen = m.seen \cup {e.source} /\ (e.source \in m.seen \/ Stands(y, e))
    BY <2>1, <2>2, PackedAddsUp
  <2> HIDE DEF y, m
  <2>5. InTurn(y, s)
    BY <1>1, <2>1, <2>2, <2>4 DEF InTurn
  <2>6. Good(y, n + 1)
    BY <2>1, <2>2, <2>4, <2>5
  <2>7. QED
    BY <2>1, <2>3, <2>6
<1>5. Counted(T, N)
  BY <1>3, <1>4 DEF Counted
<1> HIDE DEF T
<1>6. N \in T
  BY <1>1, <1>5, Counting
<1>7. Good(h[N], N) /\ h[N] \in Manifests /\ h[N] = PackedAll(start, s, budget)
  BY <1>1, <1>2, <1>6 DEF T, Packs
<1>8. QED
  BY <1>1, <1>7

(* What may be asked for.                                                  *)
PackingConstants == Lengths \subseteq Nat /\ Budgets \subseteq Nat
PackRequest(r) ==
    /\ r.budget \in Nat
    /\ r.metric \in Seq([length : Nat, active : BOOLEAN])
    /\ r.dbt \in Seq(PackTexts) /\ r.found \in Seq(PackTexts)
    /\ \A i \in DOMAIN r.dbt : r.dbt[i] \in Packing!Models
    /\ \A i \in DOMAIN r.found : r.found[i] \in Packing!RunFound
    /\ r.summary \in PackSummaries
    /\ r.requires \subseteq {"ObservedSchema", "Freshness"}

LEMMA UpToIsSeq ==
    ASSUME NEW n, NEW S, NEW E, S \subseteq E, NEW s \in Packing!UpTo(n, S)
    PROVE  s \in Seq(E) /\ \A i \in DOMAIN s : s[i] \in S
<1>1. PICK k \in 0 .. n : s \in [1 .. k -> S]
  BY DEF Packing!UpTo
<1>2. k \in Nat
  OBVIOUS
<1>3. QED
  BY <1>1, <1>2

LEMMA RequestFacts ==
    ASSUME PackingConstants, NEW r \in Packing!Requests
    PROVE  PackRequest(r)
<1>1. Packing!Models \subseteq PackTexts /\ Packing!RunFound \subseteq PackTexts
  <2> DEFINE AnyText == [type : Packing!Types, source : Packing!Sources,
                       length : Lengths \cup {1}, restricted : BOOLEAN, within : BOOLEAN]
  <2>1. AnyText \subseteq PackTexts
    <3>1. SUFFICES ASSUME NEW e \in AnyText PROVE e \in PackTexts
      OBVIOUS
    <3>2. Lengths \cup {1} \subseteq Nat
      BY DEF PackingConstants
    <3>3. e.length \in Nat
      BY <3>2
    <3>4. QED
      BY <3>3 DEF PackTexts
  <2>2. Packing!Models \subseteq AnyText
    BY DEF Packing!Models, Packing!Types, Packing!Sources
  <2>3. ASSUME NEW e \in Packing!RunFound PROVE e \in AnyText
    <3>1. CASE e \in [type : {"ObservedSchema"}, source : {"r1", "r2"}, length : Lengths,
                      restricted : BOOLEAN, within : BOOLEAN]
      BY <3>1 DEF Packing!Types, Packing!Sources
    <3>2. CASE e \in [type : {"Freshness"}, source : {"r1"}, length : Lengths,
                      restricted : BOOLEAN, within : {TRUE}]
      BY <3>2 DEF Packing!Types, Packing!Sources
    <3>3. CASE e \in [type : {"TaskSummary"}, source : {"r2"}, length : {1},
                      restricted : {FALSE}, within : {TRUE}]
      BY <3>3 DEF Packing!Types, Packing!Sources
    <3>4. QED
      BY <2>3, <3>1, <3>2, <3>3 DEF Packing!RunFound
  <2> HIDE DEF AnyText
  <2>4. QED
    BY <2>1, <2>2, <2>3
<1>2. /\ r.budget \in Budgets
      /\ r.metric \in Packing!UpTo(1, Packing!Metrics)
      /\ r.dbt \in Packing!UpTo(2, Packing!Models)
      /\ r.found \in Packing!UpTo(MaxFound, Packing!RunFound)
      /\ r.summary \in {Packing!Nothing} \cup [length : {1}, relevant : BOOLEAN]
      /\ r.requires \in {{}, {"ObservedSchema"}, {"Freshness"}}
  BY DEF Packing!Requests
<1>3. r.metric \in Seq([length : Nat, active : BOOLEAN])
  <2> DEFINE M == [length : Nat, active : BOOLEAN]
  <2>1. Packing!Metrics \subseteq M
    <3>1. ASSUME NEW e \in [length : Lengths, active : {TRUE}] PROVE e \in M
      BY DEF PackingConstants
    <3>2. ASSUME NEW e \in [length : {1}, active : {FALSE}] PROVE e \in M
      <4>1. e = [length |-> 1, active |-> FALSE]
        OBVIOUS
      <4>2. [length |-> 1, active |-> FALSE] \in M
        OBVIOUS
      <4>3. QED
        BY <4>1, <4>2
    <3> HIDE DEF M
    <3>3. QED
      BY <3>1, <3>2 DEF Packing!Metrics
  <2> HIDE DEF M
  <2>2. r.metric \in Seq(M)
    BY <1>2, <2>1, UpToIsSeq
  <2>3. QED
    BY <2>2 DEF M
<1>4. r.dbt \in Seq(PackTexts) /\ \A i \in DOMAIN r.dbt : r.dbt[i] \in Packing!Models
  BY <1>1, <1>2, UpToIsSeq
<1>5. r.found \in Seq(PackTexts) /\ \A i \in DOMAIN r.found : r.found[i] \in Packing!RunFound
  BY <1>1, <1>2, UpToIsSeq
<1>6. r.summary \in PackSummaries
  <2>1. CASE r.summary = Packing!Nothing
    <3>1. [length |-> 0, relevant |-> FALSE] \in PackSummaries
      BY DEF PackSummaries
    <3>2. QED
      BY <2>1, <3>1 DEF Packing!Nothing
  <2>2. CASE r.summary \in [length : {1}, relevant : BOOLEAN]
    BY <2>2 DEF PackSummaries
  <2>3. QED
    BY <1>2, <2>1, <2>2
<1>7. QED
  BY <1>2, <1>3, <1>4, <1>5, <1>6 DEF PackRequest, PackingConstants

LEMMA Joined ==
    ASSUME NEW E, NEW s \in Seq(E), NEW t \in Seq(E)
    PROVE  /\ s \o t \in Seq(E) /\ Len(s \o t) = Len(s) + Len(t)
           /\ \A j \in DOMAIN s : j \in DOMAIN (s \o t) /\ (s \o t)[j] = s[j]
           /\ \A j \in DOMAIN t : /\ Len(s) + j \in DOMAIN (s \o t)
                                  /\ (s \o t)[Len(s) + j] = t[j]
<1> DEFINE c == s \o t
<1>1. /\ Len(s) \in Nat /\ Len(t) \in Nat /\ DOMAIN s = 1 .. Len(s)
      /\ DOMAIN t = 1 .. Len(t) /\ c \in Seq(E) /\ Len(c) = Len(s) + Len(t)
  OBVIOUS
<1>2. DOMAIN c = 1 .. Len(c)
  BY <1>1
<1>3. \A j \in 1 .. Len(s) + Len(t) : c[j] = IF j <= Len(s) THEN s[j] ELSE t[j - Len(s)]
  OBVIOUS
<1> HIDE DEF c
<1>4. ASSUME NEW j \in DOMAIN s PROVE j \in DOMAIN c /\ c[j] = s[j]
  BY <1>1, <1>2, <1>3
<1>5. ASSUME NEW j \in DOMAIN t PROVE Len(s) + j \in DOMAIN c /\ c[Len(s) + j] = t[j]
  <2>1. /\ Len(s) + j \in 1 .. Len(s) + Len(t) /\ ~(Len(s) + j <= Len(s))
        /\ Len(s) + j - Len(s) = j
    BY <1>1
  <2>2. QED
    BY <1>1, <1>2, <1>3, <2>1
<1>6. QED
  BY <1>1, <1>4, <1>5 DEF c

(* A list whose evidence is of two sources, sorted by them.                *)
Offered == Packing!Models \cup Packing!RunFound
Texts0  == {e \in PackTexts : e \in Offered /\ ~e.restricted}
BySource(list, s, t) == Packing!OfSource(list, s) \o Packing!OfSource(list, t)

LEMMA SortedHasAll ==
    ASSUME NEW list \in Seq(Texts0), NEW s, NEW t, s # t,
           \A i \in DOMAIN list : list[i].source \in {s, t}
    PROVE  LET y == BySource(list, s, t)
           IN  /\ y \in Seq(Texts0) /\ Len(y) = Len(list)
               /\ \A i \in DOMAIN list : \E j \in DOMAIN y : y[j] = list[i]
<1> DEFINE A == {e \in Offered : e.source = s}
           B == {e \in Offered : e.source = t}
           a == Packing!Those(list, A)
           b == Packing!Those(list, B)
           y == BySource(list, s, t)
<1>1. y = a \o b
  BY DEF BySource, Packing!OfSource, Offered
<1>2. \A i \in DOMAIN list : list[i] \in Offered
  <2>1. \A i \in DOMAIN list : list[i] \in Texts0
    OBVIOUS
  <2>2. QED
    BY <2>1 DEF Texts0
<1>3. /\ \A i \in DOMAIN list : list[i] \in A <=> list[i] \notin B
      /\ \A i \in DOMAIN list : list[i] \in A \/ list[i] \in B
  BY <1>2
<1> HIDE DEF A, B, y
<1>4. /\ a \in Seq(Texts0)
      /\ \A i \in DOMAIN list : list[i] \in A => \E j \in DOMAIN a : a[j] = list[i]
  BY ThoseFacts
<1>5. /\ b \in Seq(Texts0)
      /\ \A i \in DOMAIN list : list[i] \in B => \E j \in DOMAIN b : b[j] = list[i]
  BY ThoseFacts
<1>6. Len(a) + Len(b) = Len(list)
  BY <1>3, ThoseAndOthers
<1> HIDE DEF a, b
<1>7. /\ y \in Seq(Texts0) /\ Len(y) = Len(a) + Len(b)
      /\ \A j \in DOMAIN a : j \in DOMAIN y /\ y[j] = a[j]
      /\ \A j \in DOMAIN b : Len(a) + j \in DOMAIN y /\ y[Len(a) + j] = b[j]
  BY <1>1, <1>4, <1>5, Joined
<1>8. ASSUME NEW i \in DOMAIN list PROVE \E j \in DOMAIN y : y[j] = list[i]
  <2>1. CASE list[i] \in A
    <3>1. PICK j \in DOMAIN a : a[j] = list[i]
      BY <1>4, <2>1
    <3>2. QED
      BY <1>7, <3>1
  <2>2. CASE list[i] \in B
    <3>1. PICK j \in DOMAIN b : b[j] = list[i]
      BY <1>5, <2>2
    <3>2. QED
      BY <1>7, <3>1
  <2>3. QED
    BY <1>3, <2>1, <2>2
<1>9. QED
  BY <1>6, <1>7, <1>8 DEF y

(* Of what the Run has found, the ranked ones are candidates; the rest is  *)
(* left out for another reason than the budget.                            *)
LEMMA FoundFacts ==
    ASSUME NEW r, PackRequest(r)
    PROVE  LET out == Packing!Unranked(r.found)
               c   == Packing!Candidates(r)
           IN  /\ out \in Seq(PackLeft) /\ \A i \in DOMAIN out : out[i].why # "token_budget"
               /\ c \in Seq(PackTexts) /\ \A j \in DOMAIN c : ~c[j].restricted
               /\ Len(c) + Len(out) = Len(r.metric) + Len(r.dbt) + Len(r.found)
               /\ \A i \in DOMAIN r.found : Packing!Screened(r.found[i]) = "ranked" =>
                     \E j \in DOMAIN c : c[j] = r.found[i]
<1> DEFINE s == r.found
           I == {e \in Packing!RunFound : Packing!Screened(e) = "ranked"}
           O == {e \in Packing!RunFound : Packing!Screened(e) # "ranked"}
           M == {e \in PackTexts : ~e.restricted}
           in == Packing!Those(s, I)
           rest == Packing!Those(s, O)
           out == Packing!Unranked(s)
           metric == [i \in DOMAIN r.metric |-> Packing!MetricEvidence(r.metric[i])]
           dbt == BySource(r.dbt, "d1", "d2")
           run == BySource(in, "r1", "r2")
           c == Packing!Candidates(r)
<1>1. /\ s \in Seq(PackTexts) /\ \A i \in DOMAIN s : s[i] \in Packing!RunFound
      /\ r.metric \in Seq([length : Nat, active : BOOLEAN]) /\ r.dbt \in Seq(PackTexts)
      /\ \A i \in DOMAIN r.dbt : r.dbt[i] \in Packing!Models
  BY DEF PackRequest
<1>2. c = metric \o dbt \o run
  BY DEF Packing!Ranked, Packing!Candidates, BySource
<1>3. out = [i \in DOMAIN rest |-> [of |-> rest[i], why |-> Packing!Screened(rest[i])]]
  BY DEF Packing!Unranked
<1> HIDE DEF s, I, O, in, rest, metric, dbt, run, c, out
<1>4. /\ in \in Seq(PackTexts) /\ \A i \in DOMAIN in : in[i] \in I
      /\ \A i \in DOMAIN s : s[i] \in I => \E j \in DOMAIN in : in[j] = s[i]
  BY <1>1, ThoseFacts DEF in
<1>5. rest \in Seq(PackTexts) /\ \A i \in DOMAIN rest : rest[i] \in O
  BY <1>1, ThoseFacts DEF rest
<1>6. Len(in) + Len(rest) = Len(s)
  <2>1. \A i \in DOMAIN s : s[i] \in I <=> s[i] \notin O
    BY <1>1 DEF I, O
  <2>2. QED
    BY <1>1, <2>1, ThoseAndOthers DEF in, rest
<1>7. in \in Seq(Texts0) /\ \A i \in DOMAIN in : in[i].source \in {"r1", "r2"}
  <2>1. \A e \in Packing!RunFound : /\ e.source \in {"r1", "r2"} /\ e.restricted \in BOOLEAN
                                    /\ e.type \in {"ObservedSchema", "Freshness", "TaskSummary"}
    BY DEF Packing!RunFound
  <2>2. \A e \in I : ~e.restricted
    BY <2>1 DEF Packing!Screened, I
  <2>3. \A i \in DOMAIN in : in[i] \in Texts0
    BY <1>4, <2>2 DEF I, Texts0, Offered
  <2>4. in \in Seq(Texts0)
    BY <1>4, <2>3
  <2>5. QED
    BY <1>4, <2>1, <2>4 DEF I
<1>8. r.dbt \in Seq(Texts0) /\ \A i \in DOMAIN r.dbt : r.dbt[i].source \in {"d1", "d2"}
  <2>1. \A e \in Packing!Models : e.source \in {"d1", "d2"} /\ ~e.restricted
    BY DEF Packing!Models
  <2>2. \A i \in DOMAIN r.dbt : r.dbt[i] \in Texts0
    BY <1>1, <2>1 DEF Texts0, Offered
  <2>3. r.dbt \in Seq(Texts0)
    BY <1>1, <2>2
  <2>4. QED
    BY <1>1, <2>1, <2>3
<1>9. Texts0 \subseteq M
  BY DEF Texts0
<1> HIDE DEF M
<1>10. /\ run \in Seq(M) /\ Len(run) = Len(in)
       /\ \A i \in DOMAIN in : \E j \in DOMAIN run : run[j] = in[i]
  <2>1. run \in Seq(Texts0) /\ Len(run) = Len(in)
        /\ \A i \in DOMAIN in : \E j \in DOMAIN run : run[j] = in[i]
    BY <1>7, SortedHasAll DEF run
  <2>2. QED
    BY <1>9, <2>1
<1>11. dbt \in Seq(M) /\ Len(dbt) = Len(r.dbt)
  <2>1. dbt \in Seq(Texts0) /\ Len(dbt) = Len(r.dbt)
    BY <1>8, SortedHasAll DEF dbt
  <2>2. QED
    BY <1>9, <2>1
<1>12. metric \in Seq(M) /\ Len(metric) = Len(r.metric)
  <2>1. DOMAIN r.metric = 1 .. Len(r.metric) /\ Len(r.metric) \in Nat
        /\ \A i \in DOMAIN r.metric : r.metric[i].length \in Nat
    <3> DEFINE R == [length : Nat, active : BOOLEAN]
    <3>1. r.metric \in Seq(R) /\ \A e \in R : e.length \in Nat
      BY <1>1
    <3> HIDE DEF R
    <3>2. \A i \in DOMAIN r.metric : r.metric[i] \in R
      BY <3>1
    <3>3. QED
      BY <3>1, <3>2
  <2>2. \A n \in Nat : [type |-> "Metric", source |-> "metric", length |-> n,
                        restricted |-> FALSE, within |-> TRUE] \in M
    BY DEF M, PackTexts, Packing!Types, Packing!Sources
  <2>3. \A i \in DOMAIN r.metric : Packing!MetricEvidence(r.metric[i]) \in M
    BY <2>1, <2>2 DEF Packing!MetricEvidence
  <2>4. metric \in [1 .. Len(r.metric) -> M]
    BY <2>1, <2>3 DEF metric
  <2>5. QED
    BY <2>1, <2>4
<1>13. /\ c \in Seq(M) /\ Len(c) = Len(metric) + Len(dbt) + Len(run)
       /\ \A j \in DOMAIN run : \E l \in DOMAIN c : c[l] = run[j]
  <2> DEFINE x == metric \o dbt
  <2>1. x \in Seq(M) /\ Len(x) = Len(metric) + Len(dbt)
    BY <1>11, <1>12, Joined
  <2>2. c = x \o run
    BY <1>2
  <2> HIDE DEF x
  <2>3. /\ c \in Seq(M) /\ Len(c) = Len(x) + Len(run)
        /\ \A j \in DOMAIN run : Len(x) + j \in DOMAIN c /\ c[Len(x) + j] = run[j]
    <3>1. run \in Seq(M) /\ x \in Seq(M)
      BY <1>10, <2>1
    <3>2. \A p, q \in Seq(M) :
             /\ p \o q \in Seq(M) /\ Len(p \o q) = Len(p) + Len(q)
             /\ \A j \in DOMAIN q : /\ Len(p) + j \in DOMAIN (p \o q)
                                   /\ (p \o q)[Len(p) + j] = q[j]
      BY Joined
    <3>3. QED
      BY <2>2, <3>1, <3>2
  <2>4. QED
    BY <2>1, <2>3
<1>14. out \in Seq(PackLeft) /\ Len(out) = Len(rest)
       /\ \A i \in DOMAIN out : out[i].why # "token_budget"
  <2>1. \A e : /\ Packing!Screened(e) # "token_budget"
               /\ Packing!Screened(e) \in PackReasons
    BY DEF Packing!Screened, PackReasons
  <2>2. ASSUME NEW i \in DOMAIN rest
        PROVE  [of |-> rest[i], why |-> Packing!Screened(rest[i])] \in PackLeft
    BY <1>5, <2>1 DEF PackLeft
  <2>3. DOMAIN rest = 1 .. Len(rest) /\ Len(rest) \in Nat
    BY <1>5
  <2>4. out \in [1 .. Len(rest) -> PackLeft]
    BY <1>3, <2>2, <2>3
  <2>5. \A i \in DOMAIN out : out[i].why # "token_budget"
    BY <1>3, <2>1
  <2>6. QED
    BY <2>3, <2>4, <2>5
<1>15. Len(c) + Len(out) = Len(r.metric) + Len(r.dbt) + Len(s)
  <2>1. Len(r.metric) \in Nat /\ Len(r.dbt) \in Nat /\ Len(in) \in Nat /\ Len(rest) \in Nat
    BY <1>1, <1>4, <1>5
  <2> DEFINE l == Len(r.metric)
             d == Len(r.dbt)
             k == Len(in)
             o == Len(rest)
  <2>2. /\ l \in Nat /\ d \in Nat /\ k \in Nat /\ o \in Nat
        /\ k + o = Len(s) /\ Len(out) = o /\ Len(c) = l + d + k
    BY <1>6, <1>10, <1>11, <1>12, <1>13, <1>14, <2>1
  <2> HIDE DEF l, d, k, o
  <2>3. l + d + k + o = l + d + (k + o)
    BY <2>2
  <2>4. QED
    BY <2>2, <2>3 DEF l, d
<1>16. ASSUME NEW i \in DOMAIN s, Packing!Screened(s[i]) = "ranked"
       PROVE  \E j \in DOMAIN c : c[j] = s[i]
  <2>1. s[i] \in I
    BY <1>1, <1>16 DEF I
  <2>2. PICK j \in DOMAIN in : in[j] = s[i]
    BY <1>4, <2>1
  <2>3. QED
    BY <1>10, <1>13, <2>2
<1>17. c \in Seq(PackTexts) /\ \A j \in DOMAIN c : ~c[j].restricted
  <2>1. M \subseteq PackTexts /\ \A e \in M : ~e.restricted
    BY DEF M
  <2>2. QED
    BY <1>13, <2>1
<1>18. QED
  BY <1>14, <1>15, <1>16, <1>17 DEF s, out, c

(* The summary comes last: in, or left out.                                *)
Closes(y, s, budget, n) ==
    /\ y.used = Cost(y.included) + (IF y.summary THEN Packing!EstimateTokens(s.length) ELSE 0)
    /\ y.used <= budget
    /\ \A i \in DOMAIN y.included : ~y.included[i].restricted
    /\ \A i \in DOMAIN y.left : y.left[i].why = "token_budget" =>
          y.used + Packing!EstimateTokens(y.left[i].of.length) > budget
    /\ Len(y.included) + Len(y.left) + (IF y.summary THEN 1 ELSE 0) =
          n + (IF s = Packing!Nothing THEN 0 ELSE 1)

Keeps(m, y) == \A c : /\ Stands(m, c) => Stands(y, c)
                      /\ LeftOrIn(m, c) => LeftOrIn(y, c)

LEMMA SummaryAddsUp ==
    ASSUME NEW m \in Manifests, m.summary = FALSE, NEW s \in PackSummaries,
           NEW budget \in Nat, NEW n \in Nat, AddsUp(m, budget, n)
    PROVE  LET y == Packing!WithSummary(m, s, budget)
           IN  Closes(y, s, budget, n) /\ Keeps(m, y)
<1> DEFINE y == Packing!WithSummary(m, s, budget)
           cost == Packing!EstimateTokens(s.length)
           p == Len(m.included)
           q == Len(m.left)
<1>1. cost \in Nat /\ s.relevant \in BOOLEAN /\ m.used \in Nat
  BY TokensAreNumbers DEF PackSummaries, Manifests
<1>2. m.left \in Seq(PackLeft) /\ m.included \in Seq(PackTexts)
  BY DEF Manifests
<1>3. p \in Nat /\ q \in Nat /\ p + q = n /\ Cost(m.included) \in Nat
  <2>1. p \in Nat /\ q \in Nat /\ Cost(m.included) \in Nat
    BY <1>2, CostIsNumber
  <2>2. p + q = n
    BY DEF AddsUp
  <2>3. QED
    BY <2>1, <2>2
<1>4. CASE s = Packing!Nothing
  <2>1. ~s.relevant
    BY <1>4 DEF Packing!Nothing
  <2>2. y = m
    BY <1>4, <2>1 DEF Packing!WithSummary
  <2>3. p + q + 0 = n + 0
    BY <1>3
  <2>4. m.used = Cost(m.included) + 0
    BY <1>3 DEF AddsUp
  <2> HIDE DEF y
  <2>5. Closes(m, s, budget, n)
    BY <1>4, <2>3, <2>4 DEF Closes, AddsUp
  <2>6. QED
    BY <2>2, <2>5 DEF y, Keeps
<1>5. ASSUME s # Packing!Nothing, NEW why \in {"irrelevant", "token_budget"},
             y = Packing!Leave(m, s, why), why = "token_budget" => m.used + cost > budget
      PROVE  Closes(y, s, budget, n) /\ Keeps(m, y)
  <2>1. s \in PackTexts \cup PackSummaries /\ why \in PackReasons
    BY DEF PackReasons
  <2>2. AddsUp(y, budget, n + 1) /\ Keeps(m, y)
    BY <1>5, <2>1, LeaveAddsUp DEF Keeps
  <2>3. y.summary = FALSE /\ y.included = m.included /\ y.used = m.used
    BY <1>5 DEF Packing!Leave, Manifests
  <2> HIDE DEF y
  <2>4. y.used = Cost(y.included) + 0
    BY <1>3, <2>2, <2>3 DEF AddsUp
  <2>5. Len(y.included) + Len(y.left) + 0 = n + 1
    <3>1. Len(y.included) + Len(y.left) = n + 1
      BY <2>2 DEF AddsUp
    <3>2. \A k \in Nat : k + 1 + 0 = k + 1
      OBVIOUS
    <3>3. QED
      BY <3>1, <3>2
  <2>6. Closes(y, s, budget, n)
    BY <1>5, <2>2, <2>3, <2>4, <2>5 DEF Closes, AddsUp
  <2>7. QED
    BY <2>2, <2>6
<1>6. CASE s # Packing!Nothing /\ ~s.relevant
  <2>1. y = Packing!Leave(m, s, "irrelevant")
    BY <1>6 DEF Packing!WithSummary
  <2>2. QED
    BY <1>5, <1>6, <2>1
<1>7. CASE s # Packing!Nothing /\ s.relevant /\ ~Packing!Fits(m.used, cost, budget)
  <2>1. y = Packing!Leave(m, s, "token_budget")
    BY <1>7 DEF Packing!WithSummary
  <2>2. m.used + cost > budget
    BY <1>1, <1>7 DEF Packing!Fits
  <2>3. QED
    BY <1>5, <1>7, <2>1, <2>2
<1>8. CASE s # Packing!Nothing /\ s.relevant /\ Packing!Fits(m.used, cost, budget)
  <2>1. y = [m EXCEPT !.summary = TRUE, !.used = @ + cost]
    BY <1>8 DEF Packing!WithSummary
  <2>2. /\ y.summary = TRUE /\ y.used = m.used + cost /\ y.included = m.included
        /\ y.left = m.left
    BY <2>1 DEF Manifests
  <2> HIDE DEF y, p, q
  <2>3. y.used = Cost(y.included) + cost /\ y.used <= budget
    BY <1>1, <1>8, <2>2 DEF AddsUp, Packing!Fits
  <2>4. ASSUME NEW i \in DOMAIN m.left, m.left[i].why = "token_budget"
        PROVE  y.used + Packing!EstimateTokens(m.left[i].of.length) > budget
    <3>1. m.left[i] \in PackLeft
      BY <1>2
    <3>2. m.left[i].of.length \in Nat
      BY <3>1 DEF PackLeft, PackTexts, PackSummaries
    <3>3. Packing!EstimateTokens(m.left[i].of.length) \in Nat
      BY <3>2, TokensAreNumbers
    <3>4. m.used + Packing!EstimateTokens(m.left[i].of.length) > budget
      BY <2>4 DEF AddsUp
    <3>5. QED
      BY <1>1, <2>2, <3>3, <3>4
  <2>5. p + q + 1 = n + 1
    BY <1>3
  <2>6. Len(y.included) + Len(y.left) + 1 = n + 1
    BY <2>2, <2>5 DEF p, q
  <2> HIDE DEF cost
  <2>7. Closes(y, s, budget, n)
    BY <1>8, <2>2, <2>3, <2>4, <2>6 DEF Closes, AddsUp, cost
  <2>8. Keeps(m, y)
    BY <2>2 DEF Keeps, LeftOrIn, Stands, Packing!Weighed
  <2>9. QED
    BY <2>7, <2>8 DEF y
<1>9. QED
  BY <1>1, <1>4, <1>6, <1>7, <1>8

(* The manifest of what is asked for.                                      *)
LEMMA ManifestHolds ==
    ASSUME PackingConstants, NEW r \in Packing!Requests
    PROVE  LET y == Packing!ManifestOf(r)
               c == Packing!Candidates(r)
           IN  /\ Closes(y, r.summary, r.budget, Len(r.metric) + Len(r.dbt) + Len(r.found))
               /\ \A i \in DOMAIN r.found : Packing!Screened(r.found[i]) = "ranked" =>
                     LeftOrIn(y, r.found[i])
               /\ \A i \in DOMAIN r.found : Packing!Screened(r.found[i]) = "ranked" =>
                     \E j \in DOMAIN c : /\ c[j].source = r.found[i].source
                                        /\ Packing!Weighed(y, c[j])
<1> DEFINE out == Packing!Unranked(r.found)
           c == Packing!Candidates(r)
           start == [Packing!Empty EXCEPT !.left = out]
           packed == PackedAll(start, c, r.budget)
           y == Packing!ManifestOf(r)
           n == Len(r.metric) + Len(r.dbt) + Len(r.found)
<1>1. PackRequest(r)
  BY RequestFacts
<1>2. /\ out \in Seq(PackLeft) /\ \A i \in DOMAIN out : out[i].why # "token_budget"
      /\ c \in Seq(PackTexts) /\ Len(c) + Len(out) = n
      /\ \A j \in DOMAIN c : ~c[j].restricted
      /\ \A i \in DOMAIN r.found : Packing!Screened(r.found[i]) = "ranked" =>
            \E j \in DOMAIN c : c[j] = r.found[i]
  BY <1>1, FoundFacts
<1>3. y = Packing!WithSummary(packed, r.summary, r.budget)
  BY DEF Packing!ManifestOf, PackedAll
<1> HIDE DEF out, c, y
<1>4. r.budget \in Nat /\ r.summary \in PackSummaries
  BY <1>1 DEF PackRequest
<1>5. /\ start.included = <<>> /\ start.left = out /\ start.used = 0 /\ start.summary = FALSE
      /\ start.seen = {} /\ start \in Manifests
  <2>1. <<>> \in Seq(PackTexts)
    OBVIOUS
  <2>2. QED
    BY <1>2, <2>1 DEF Packing!Empty, Manifests
<1>6. Len(out) \in Nat /\ Len(c) \in Nat
  BY <1>2
<1> HIDE DEF start
<1>7. AddsUp(start, r.budget, Len(out))
  <2>1. Len(start.included) + Len(start.left) = Len(out)
    <3>1. Len(start.included) = 0 /\ Len(start.left) = Len(out)
      BY <1>5
    <3>2. \A k \in Nat : 0 + k = k
      OBVIOUS
    <3>3. QED
      BY <1>6, <3>1, <3>2
  <2>2. start.used = Cost(start.included) /\ start.used <= r.budget
    BY <1>4, <1>5, NothingCosts
  <2>3. \A i \in DOMAIN start.included : FALSE
    BY <1>5
  <2>4. QED
    BY <1>2, <1>5, <2>1, <2>2, <2>3 DEF AddsUp
<1>8. /\ packed \in Manifests /\ packed.summary = FALSE
      /\ AddsUp(packed, r.budget, Len(out) + Len(c))
      /\ \A i \in DOMAIN c : LeftOrIn(packed, c[i]) /\ c[i].source \in packed.seen
      /\ InTurn(packed, c)
  BY <1>2, <1>4, <1>5, <1>6, <1>7, PackedAllAddsUp
<1> HIDE DEF packed, n
<1>9. n \in Nat /\ Len(out) + Len(c) = n
  BY <1>2, <1>6
<1>10. Closes(y, r.summary, r.budget, n) /\ Keeps(packed, y)
  BY <1>3, <1>4, <1>8, <1>9, SummaryAddsUp
<1>11. \A i \in DOMAIN r.found : Packing!Screened(r.found[i]) = "ranked" =>
           LeftOrIn(y, r.found[i])
  BY <1>2, <1>8, <1>10 DEF Keeps
<1>12. ASSUME NEW i \in DOMAIN r.found, Packing!Screened(r.found[i]) = "ranked"
       PROVE  \E j \in DOMAIN c : /\ c[j].source = r.found[i].source
                                  /\ Packing!Weighed(y, c[j])
  <2>1. PICK k \in DOMAIN c : c[k] = r.found[i]
    BY <1>2, <1>12
  <2>2. PICK j \in DOMAIN c : c[j].source = c[k].source /\ Stands(packed, c[j])
    BY <1>8 DEF InTurn
  <2>3. Packing!Weighed(y, c[j])
    BY <1>2, <1>10, <2>2 DEF Keeps, Stands
  <2>4. QED
    BY <2>1, <2>2, <2>3
<1>13. QED
  BY <1>10, <1>11, <1>12 DEF y, c, n

(* Nothing is assembled yet, or the manifest of what was asked for, or it  *)
(* was refused.                                                            *)
PackInv ==
    /\ wanted \in Packing!Requests
    /\ assembled.result = "manifest" =>
          /\ assembled.manifest = Packing!ManifestOf(wanted)
          /\ assembled.needs = {type \in wanted.requires : ~Packing!Has(wanted, type)}

LEMMA PackInit == Packing!Init => PackInv
<1> SUFFICES ASSUME Packing!Init PROVE PackInv
  OBVIOUS
<1>1. assembled.result # "manifest"
  BY DEF Packing!Init, Packing!Pending
<1>2. QED
  BY <1>1 DEF Packing!Init, PackInv

LEMMA PackNext == PackInv /\ [Packing!Assemble]_(Packing!packingVars) => PackInv'
<1>1. ASSUME PackInv, Packing!Assemble PROVE PackInv'
  <2> DEFINE m == Packing!ManifestOf(wanted)
             k == {type \in wanted.requires : ~Packing!Has(wanted, type)}
  <2>1. wanted' = wanted /\ wanted \in Packing!Requests
    BY <1>1 DEF Packing!Assemble, PackInv
  <2>2. CASE Packing!Assembled
    <3>1. assembled' = [result |-> "manifest", manifest |-> m, needs |-> k]
      BY <2>2 DEF Packing!Assembled
    <3> HIDE DEF m, k
    <3>2. assembled'.manifest = m /\ assembled'.needs = k
      BY <3>1
    <3>3. QED
      BY <2>1, <3>2 DEF PackInv, m, k
  <2>3. CASE Packing!Refused
    <3>1. assembled'.result # "manifest"
      BY <2>3 DEF Packing!Refused, Packing!Pending
    <3>2. QED
      BY <2>1, <3>1 DEF PackInv
  <2>4. QED
    BY <1>1, <2>2, <2>3 DEF Packing!Assemble
<1>2. ASSUME PackInv, UNCHANGED Packing!packingVars PROVE PackInv'
  BY <1>2 DEF PackInv, Packing!packingVars
<1>3. QED
  BY <1>1, <1>2

LEMMA PackGives ==
    ASSUME PackingConstants, PackInv
    PROVE  Packing!PromptAccepts /\ Packing!FillsBudget /\ Packing!EvidenceOrNeed
<1> DEFINE m == assembled.manifest
           r == wanted
           all == Len(r.metric) + Len(r.dbt) + Len(r.found)
<1>1. CASE assembled.result # "manifest"
  BY <1>1 DEF Packing!PromptAccepts, Packing!FillsBudget,
              Packing!EvidenceOrNeed
<1>2. CASE assembled.result = "manifest"
  <2>1. /\ r \in Packing!Requests /\ m = Packing!ManifestOf(r)
        /\ assembled.needs = {type \in r.requires : ~Packing!Has(r, type)}
    BY <1>2 DEF PackInv
  <2>2. /\ Closes(m, r.summary, r.budget, all)
        /\ \A i \in DOMAIN r.found : Packing!Screened(r.found[i]) = "ranked" =>
              /\ LeftOrIn(m, r.found[i])
              /\ \E j \in DOMAIN Packing!Candidates(r) :
                    /\ Packing!Candidates(r)[j].source = r.found[i].source
                    /\ Packing!Weighed(m, Packing!Candidates(r)[j])
    BY <2>1, ManifestHolds
  <2>3. PackRequest(r)
    BY <2>1, RequestFacts
  <2> HIDE DEF m, all
  <2>4. Packing!WithinBudget(m) /\ Packing!ModelSafe(m)
    <3>1. Packing!TokensOf(m) = m.used
      BY <2>2 DEF Packing!TokensOf, Cost, Closes
    <3>2. QED
      BY <2>2, <3>1 DEF Closes, Packing!WithinBudget, Packing!ModelSafe
  <2>5. Packing!PromptAccepts
    BY <2>4 DEF Packing!PromptAccepts, Packing!Written, Packing!Prompted, m
  <2>6. Packing!FillsBudget
    BY <2>2 DEF Packing!FillsBudget, Closes, m, all
  <2>7. ASSUME NEW type \in r.requires, type \notin assembled.needs
        PROVE  \E i \in DOMAIN r.found :
                  /\ r.found[i].type = type
                  /\ \/ Packing!Weighed(m, r.found[i])
                     \/ Packing!Doubles(m, r.found[i])
    <3>1. Packing!Has(r, type) /\ type \in {"ObservedSchema", "Freshness"}
      BY <2>1, <2>3, <2>7 DEF PackRequest
    <3>2. PICK i \in DOMAIN r.found :
              r.found[i].type = type /\ Packing!Screened(r.found[i]) = "ranked"
      BY <3>1 DEF Packing!Has
    <3>3. ~r.found[i].restricted
      BY <3>1, <3>2 DEF Packing!Screened
    <3>4. Packing!Weighed(m, r.found[i]) \/ Packing!Doubles(m, r.found[i])
      BY <2>2, <3>2, <3>3 DEF LeftOrIn, Stands, Packing!Doubles
    <3>5. QED
      BY <3>2, <3>4
  <2>8. Packing!EvidenceOrNeed
    BY <2>7 DEF Packing!EvidenceOrNeed, m
  <2>9. QED
    BY <2>5, <2>6, <2>8
<1>3. QED
  BY <1>1, <1>2 DEF PackInv

PackingInv == part = "packing" => PackInv

LEMMA PackingInvariant == PartsSpec => []PackingInv
<1>1. PartsInit => PackingInv
  BY PackInit DEF PartsInit, PackingInv
<1>2. PackingInv /\ [PartsNext \/ PartEnds]_partVars => PackingInv'
  BY PartStep, PackNext DEF PackingInv, packingVars, Packing!packingVars
<1>3. QED
  BY <1>1, <1>2, PTL DEF PartsSpec

(* A manifest of any evidence, of texts of any length, for any budget adds *)
(* up as the prompt builder and the writer count it, and holds nothing     *)
(* restricted; what it leaves out for the budget would not have fitted and *)
(* all that was found is in it once, in or out; and a phase that requires  *)
(* the schema or the freshness asks for it, unless valid evidence of it was*)
(* found, and is in the manifest, or was left out for the budget, or shares*)
(* source and version with evidence that was (ContextAssembler::assemble,  *)
(* PromptBuilder).                                                         *)
THEOREM PromptsArePacked == PackingConstants => (PartsSpec => []PromptPacked)
<1> SUFFICES ASSUME PackingConstants PROVE PartsSpec => []PromptPacked
  OBVIOUS
<1>1. PackingInv => PromptPacked
  BY PackGives DEF PackingInv, PromptPacked
<1>2. QED
  BY <1>1, PackingInvariant, PTL

=============================================================================
