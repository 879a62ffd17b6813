------------------------ MODULE ArtifactFiles_proofs ------------------------
(***************************************************************************)
(* Artifacts on disk, for any number of puts, contents and exports and any *)
(* crashes.  Of the puts: who has renamed its file and synced its shard has*)
(* it for good, unless a row of the same bytes expires, or the shard itself*)
(* was not on disk.  Of the exports: a whole file stays whole until it is  *)
(* written again, the writer nobody has cut makes it whole or says that it *)
(* could not, and a command that has a receipt keeps it.                   *)
(***************************************************************************)
EXTENDS ArtifactFiles, TLAPS

(* What a put that has come so far may rely on.  The file is durable from  *)
(* the sync of its shard on, where the shard itself is; a power loss takes *)
(* what is not.                                                            *)
PutInOrder(p) ==
    LET file == files[puts[p].body]  shard == shards[Shard(puts[p].body)] IN
    /\ puts[p].pc = "syncing" => file # "absent" \/ p \in shared
    /\ puts[p].pc \in {"stored", "recorded"} /\ ~HasExpired(p) =>
          \/ p \in shared
          \/ file = "durable" /\ shard = "durable"
          \/ (file # "absent" \/ outage = TRUE) /\ (puts[p].saw = TRUE \/ puts[p].fresh = TRUE)
    /\ puts[p].pc \notin {"idle", "over"} /\ puts[p].fresh = FALSE => shard = "durable"

FileStates  == {"absent", "volatile", "durable"}
FileMaps    == [Bodies -> FileStates]
ShardMaps   == [Shards -> FileStates]

PutTypes ==
    /\ puts \in [Puts -> PutStates]
    /\ files \in FileMaps /\ shards \in ShardMaps
    /\ temps \in [Puts -> {"none", "partial", "whole"}]
    /\ shared \subseteq Puts /\ outage \in BOOLEAN

PutIInv == PutTypes /\ \A p \in Puts : PutInOrder(p)

(* The export file of p is whole, but for a writer that has truncated it,  *)
(* and was cut by none, or a power loss.                                   *)
Intact(p) ==
    \/ exported[p] = "whole" \/ Rewriting(p) \/ p \in torn
    \/ outage = TRUE /\ exported[p] = "absent"

FileStands(e) == Intact(exports[e].of)

(* The file of a writer will be whole by itself or another, and a receipt   *)
(* names an export whose file was written before.                          *)
ExportInOrder(e) ==
    /\ exports[e].pc \in {"writing", "written"} => FileStands(e)
    /\ exports[e].pc = "answered" => /\ exports[e].answer # NoExport
                                     /\ exports[e].answer = receiptOf[exports[e].command]

ReceiptInOrder(c) == \A e \in Exports : receiptOf[c] = e => FileStands(e)

ExportTypes ==
    /\ exports \in [Exports -> ExportStates]
    /\ exported \in [Puts -> {"absent", "partial", "whole"}]
    /\ receiptOf \in [Commands -> Exports \cup {NoExport}]
    /\ torn \subseteq Puts /\ onDisk \subseteq Puts

ExportIInv ==
    /\ ExportTypes
    /\ \A e \in Exports : ExportInOrder(e)
    /\ \A c \in Commands : ReceiptInOrder(c)

(* A shard is in the range of Shard.                                       *)
LEMMA ShardOf == \A b \in Bodies : Shard(b) \in Shards
BY DEF Shards

-----------------------------------------------------------------------------
(* The puts.                                                               *)

(* A put that takes its next step, with the files of the others as they    *)
(* were or better.                                                         *)
LEMMA PutStep ==
    ASSUME PutIInv, NEW p \in Puts, NEW t \in PutStates,
           puts' = [puts EXCEPT ![p] = t], files' \in FileMaps, shards' \in ShardMaps,
           temps' \in [Puts -> {"none", "partial", "whole"}],
           shared' = shared, outage' = outage, PutInOrder(p)',
           \A b \in Bodies : /\ files[b] # "absent" => files'[b] # "absent"
                             /\ files[b] = "durable" => files'[b] = "durable",
           \A s \in Shards : shards[s] = "durable" => shards'[s] = "durable"
    PROVE  PutIInv'
<1>1. puts \in [Puts -> PutStates]
  BY DEF PutIInv, PutTypes
<1>2. puts' \in [Puts -> PutStates] /\ \A q \in Puts \ {p} : puts'[q] = puts[q]
  BY <1>1
<1>3. PutTypes'
  BY <1>2 DEF PutIInv, PutTypes
<1>4. ASSUME NEW q \in Puts PROVE PutInOrder(q)'
  <2>1. CASE q = p
    BY <2>1
  <2>2. CASE q # p
    <3>1. puts'[q] = puts[q] /\ puts[q].body \in Bodies /\ PutInOrder(q)
      BY <1>1, <1>2, <2>2 DEF PutStates, PutIInv
    <3>2. Shard(puts[q].body) \in Shards
      BY <3>1, ShardOf
    <3>3. QED
      BY <3>1, <3>2 DEF PutInOrder, HasExpired
  <2>3. QED
    BY <2>1, <2>2
<1>5. QED
  BY <1>3, <1>4 DEF PutIInv

LEMMA PutInit == Init => PutIInv
<1> SUFFICES ASSUME Init PROVE PutIInv
  OBVIOUS
<1>1. puts \in [Puts -> PutStates] /\ \A p \in Puts : puts[p].pc = "idle"
  BY DEF Init, PutStates, PutPcs, Expiry
<1>2. QED
  BY <1>1 DEF Init, PutIInv, PutTypes, PutInOrder, FileMaps, ShardMaps, FileStates

(* put_artifact and the transaction of its row.                            *)
LEMMA PutArtifactKeeps ==
    ASSUME PutIInv, NEW p \in Puts,
           \/ PutBegins(p) \/ TempWritten(p) \/ Placed(p)
           \/ DirectorySynced(p) \/ Recorded(p) \/ Expires(p)
    PROVE  PutIInv'
<1> DEFINE To(pc) == [puts[p] EXCEPT !.pc = pc]
           b == puts[p].body
<1>1. /\ puts \in [Puts -> PutStates] /\ puts[p] \in PutStates /\ PutInOrder(p)
      /\ b \in Bodies /\ puts[p].expiry \in Expiry /\ puts[p].saw \in BOOLEAN
      /\ puts[p].fresh \in BOOLEAN
      /\ files \in FileMaps /\ shards \in ShardMaps /\ Shard(b) \in Shards
      /\ files[b] \in FileStates /\ shards[Shard(b)] \in FileStates
      /\ temps \in [Puts -> {"none", "partial", "whole"}]
  BY ShardOf DEF PutIInv, PutTypes, PutStates, FileMaps, ShardMaps
<1>2. \A pc \in PutPcs : /\ To(pc) \in PutStates /\ To(pc).pc = pc
                         /\ To(pc).body = b /\ To(pc).saw = puts[p].saw
                         /\ To(pc).fresh = puts[p].fresh
                         /\ To(pc).expiry = puts[p].expiry
  BY <1>1 DEF PutStates
<1>3. CASE PutBegins(p)
  <2> DEFINE saw == files[b] # "absent"
             fresh == shards[Shard(b)] # "durable"
             pc == IF files[b] = "absent" THEN "writing" ELSE "stored"
             t == [puts[p] EXCEPT !.pc = pc, !.saw = saw, !.fresh = fresh]
  <2>1. saw \in BOOLEAN /\ fresh \in BOOLEAN /\ pc \in PutPcs
        /\ (pc = "writing" \/ (pc = "stored" /\ saw = TRUE /\ files[b] # "absent"))
        /\ (fresh = FALSE => shards[Shard(b)] = "durable")
    BY DEF PutPcs
  <2>2. /\ puts' = [puts EXCEPT ![p] = t] /\ files' = files
        /\ shared' = shared /\ outage' = outage
        /\ temps' \in [Puts -> {"none", "partial", "whole"}]
    BY <1>1, <1>3 DEF PutBegins, exportVars
  <2>3. /\ shards' \in ShardMaps
        /\ \A s \in Shards : shards[s] = "durable" => shards'[s] = "durable"
    BY <1>1, <1>3 DEF PutBegins, ShardMaps, FileStates
  <2> HIDE DEF saw, fresh, pc
  <2>4. /\ t \in PutStates /\ t.pc = pc /\ t.saw = saw /\ t.fresh = fresh /\ t.body = b
    BY <1>1, <2>1 DEF PutStates
  <2> HIDE DEF t, b
  <2>5. puts'[p] = t
    BY <1>1, <2>2
  <2>6. PutInOrder(p)'
    BY <1>1, <2>1, <2>2, <2>3, <2>4, <2>5 DEF PutInOrder
  <2>7. QED
    BY <1>1, <2>2, <2>3, <2>4, <2>6, PutStep
<1>4. ASSUME NEW pc \in {"placing", "over"}, puts[p].pc \notin {"idle", "over"},
             puts' = [puts EXCEPT ![p] = To(pc)], files' = files, shards' = shards,
             shared' = shared, outage' = outage,
             temps' \in [Puts -> {"none", "partial", "whole"}]
      PROVE  PutIInv'
  <2> DEFINE t == To(pc)
  <2>1. t \in PutStates /\ t.pc = pc /\ t.body = b /\ t.fresh = puts[p].fresh
    BY <1>2 DEF PutPcs
  <2> HIDE DEF t
  <2>2. puts' = [puts EXCEPT ![p] = t]
    BY <1>4 DEF t
  <2>3. puts'[p] = t
    BY <1>1, <2>2
  <2>4. PutInOrder(p)'
    BY <1>1, <1>4, <2>1, <2>3 DEF PutInOrder
  <2>5. QED
    BY <1>1, <1>4, <2>1, <2>2, <2>4, PutStep
<1>5. CASE TempWritten(p)
  <2>1. PICK pc \in {"placing", "over"} : puts' = [puts EXCEPT ![p] = To(pc)]
    BY <1>5 DEF TempWritten
  <2>2. /\ files' = files /\ shards' = shards /\ shared' = shared /\ outage' = outage
        /\ puts[p].pc \notin {"idle", "over"}
        /\ temps' \in [Puts -> {"none", "partial", "whole"}]
    BY <1>1, <1>5 DEF TempWritten
  <2> HIDE DEF To
  <2>3. QED
    BY <1>4, <2>1, <2>2
<1>6. CASE Placed(p)
  <2>1. /\ temps' \in [Puts -> {"none", "partial", "whole"}] /\ shared' = shared
        /\ shards' = shards /\ outage' = outage /\ puts[p].pc \notin {"idle", "over"}
    BY <1>1, <1>6 DEF Placed
  <2>2. CASE puts' = [puts EXCEPT ![p] = To("over")] /\ files' = files
    BY <1>4, <2>1, <2>2
  <2>3. CASE /\ puts' = [puts EXCEPT ![p] = To("syncing")]
             /\ files' = [files EXCEPT ![b] = IF @ = "absent" THEN "volatile" ELSE @]
    <3> DEFINE t == To("syncing")
    <3>1. t \in PutStates /\ t.pc = "syncing" /\ t.body = b /\ t.fresh = puts[p].fresh
      BY <1>2 DEF PutPcs
    <3> HIDE DEF t
    <3>2. puts' = [puts EXCEPT ![p] = t]
      BY <2>3 DEF t
    <3>3. puts'[p] = t
      BY <1>1, <3>2
    <3>4. /\ files' \in FileMaps /\ files'[b] # "absent"
          /\ \A c \in Bodies : /\ files[c] # "absent" => files'[c] # "absent"
                               /\ files[c] = "durable" => files'[c] = "durable"
      BY <1>1, <2>3 DEF FileMaps, FileStates
    <3>5. PutInOrder(p)'
      BY <1>1, <2>1, <3>1, <3>3, <3>4 DEF PutInOrder
    <3>6. QED
      BY <1>1, <2>1, <3>1, <3>2, <3>4, <3>5, PutStep
  <2>4. QED
    BY <1>6, <2>2, <2>3 DEF Placed
<1>7. CASE DirectorySynced(p)
  <2>1. /\ temps' = temps /\ shared' = shared /\ puts[p].pc = "syncing"
        /\ shards' = shards /\ outage' = outage
    BY <1>7 DEF DirectorySynced
  <2>2. CASE puts' = [puts EXCEPT ![p] = To("over")] /\ files' = files
    BY <1>1, <1>4, <2>1, <2>2
  <2>3. CASE /\ puts' = [puts EXCEPT ![p] = To("stored")]
             /\ files' = [files EXCEPT ![b] = Synced(@)]
    <3> DEFINE t == To("stored")
    <3>1. t \in PutStates /\ t.pc = "stored" /\ t.body = b /\ t.fresh = puts[p].fresh
      BY <1>2 DEF PutPcs
    <3> HIDE DEF t
    <3>2. puts' = [puts EXCEPT ![p] = t]
      BY <2>3 DEF t
    <3>3. puts'[p] = t
      BY <1>1, <3>2
    <3>4. /\ files' \in FileMaps
          /\ files[b] # "absent" => files'[b] = "durable"
          /\ \A c \in Bodies : /\ files[c] # "absent" => files'[c] # "absent"
                               /\ files[c] = "durable" => files'[c] = "durable"
      BY <1>1, <2>3 DEF Synced, FileMaps, FileStates
    <3> HIDE DEF b
    <3>5. b = puts[p].body
      BY DEF b
    <3>6. files'[b] = "durable" \/ p \in shared
      BY <1>1, <2>1, <3>4, <3>5 DEF PutInOrder
    <3>7. t.fresh = FALSE => shards[Shard(b)] = "durable"
      BY <1>1, <2>1, <3>1, <3>5 DEF PutInOrder
    <3>8. PutInOrder(p)'
      BY <1>1, <2>1, <3>1, <3>3, <3>6, <3>7 DEF PutInOrder
    <3>9. QED
      BY <1>1, <2>1, <3>1, <3>2, <3>4, <3>8, PutStep
  <2>4. QED
    BY <1>7, <2>2, <2>3 DEF DirectorySynced
<1>8. CASE Recorded(p)
  <2> DEFINE t == To("recorded")
  <2>1. /\ t \in PutStates /\ t.pc = "recorded" /\ t.body = b
        /\ t.saw = puts[p].saw /\ t.fresh = puts[p].fresh /\ t.expiry = puts[p].expiry
    BY <1>2 DEF PutPcs
  <2>2. /\ puts' = [puts EXCEPT ![p] = t] /\ files' = files /\ temps' = temps
        /\ shards' = shards /\ outage' = outage
        /\ shared' = shared /\ puts[p].pc = "stored"
    BY <1>8 DEF Recorded
  <2> HIDE DEF t
  <2>3. puts'[p] = t
    BY <1>1, <2>2
  <2>4. PutInOrder(p)'
    BY <1>1, <2>1, <2>2, <2>3 DEF PutInOrder, HasExpired
  <2>5. QED
    BY <1>1, <2>1, <2>2, <2>4, PutStep
<1>9. CASE Expires(p)
  <2> DEFINE t == [puts[p] EXCEPT !.expiry = "past"]
  <2>1. /\ t \in PutStates /\ t.pc = puts[p].pc /\ t.expiry = "past"
        /\ t.body = b /\ t.fresh = puts[p].fresh
    BY <1>1 DEF PutStates, Expiry
  <2>2. /\ puts' = [puts EXCEPT ![p] = t] /\ files' = files /\ temps' = temps
        /\ shards' = shards /\ outage' = outage
        /\ shared' = shared /\ puts[p].pc = "recorded"
    BY <1>9 DEF Expires
  <2> HIDE DEF t
  <2>3. puts'[p] = t
    BY <1>1, <2>2
  <2>4. PutInOrder(p)'
    BY <1>1, <2>1, <2>2, <2>3 DEF PutInOrder, HasExpired
  <2>5. QED
    BY <1>1, <2>1, <2>2, <2>4, PutStep
<1>10. QED
  BY <1>3, <1>5, <1>6, <1>7, <1>8, <1>9

(* An expired row takes the file along: whoever had it is in shared.       *)
LEMMA RemoveKeeps ==
    ASSUME PutIInv, NEW p \in Puts, RemoveIfExpired(p)
    PROVE  PutIInv'
<1>1. /\ puts \in [Puts -> PutStates] /\ \A q \in Puts : puts[q].body \in Bodies
      /\ puts' = puts /\ temps' = temps /\ shards' = shards /\ outage' = outage
      /\ HasExpired(p) /\ puts[p].pc = "recorded"
      /\ files' = [files EXCEPT ![puts[p].body] = "absent"]
      /\ shared' = shared \cup {q \in Puts \ {p} :
             puts[q].body = puts[p].body /\ puts[q].pc \in {"syncing", "stored", "recorded"}}
  BY DEF PutIInv, PutTypes, PutStates, RemoveIfExpired
<1>2. PutTypes'
  BY <1>1 DEF PutIInv, PutTypes, FileMaps, FileStates
<1>3. ASSUME NEW q \in Puts PROVE PutInOrder(q)'
  <2>1. PutInOrder(q)
    BY DEF PutIInv
  <2>2. CASE q = p
    BY <1>1, <2>1, <2>2 DEF PutInOrder, HasExpired
  <2>3. CASE q # p /\ puts[q].body = puts[p].body
    BY <1>1, <2>1, <2>3 DEF PutInOrder, HasExpired
  <2>4. CASE puts[q].body # puts[p].body
    <3>1. files'[puts[q].body] = files[puts[q].body]
      BY <1>1, <2>4 DEF PutIInv, PutTypes, FileMaps
    <3>2. QED
      BY <1>1, <2>1, <3>1 DEF PutInOrder, HasExpired
  <2>5. QED
    BY <2>2, <2>3, <2>4
<1>4. QED
  BY <1>2, <1>3 DEF PutIInv

(* A process that ends takes every put along that has no row yet.          *)
LEMMA PutsEnd ==
    ASSUME PutIInv, ProcessEnds
    PROVE  /\ puts' \in [Puts -> PutStates]
           /\ \A q \in Puts : \/ puts'[q].pc \in {"idle", "over"}
                              \/ puts'[q] = puts[q] /\ puts[q].pc = "recorded"
<1>1. /\ puts \in [Puts -> PutStates]
      /\ puts' = [p \in Puts |-> IF Interrupted(p) THEN [puts[p] EXCEPT !.pc = "over"]
                                                   ELSE puts[p]]
  BY DEF PutIInv, PutTypes, ProcessEnds
<1>2. \A p \in Puts : /\ [puts[p] EXCEPT !.pc = "over"] \in PutStates
                      /\ [puts[p] EXCEPT !.pc = "over"].pc = "over"
                      /\ puts[p].pc \in PutPcs
  BY <1>1 DEF PutStates, PutPcs
<1>3. puts' \in [Puts -> PutStates]
  BY <1>1, <1>2
<1>4. ASSUME NEW q \in Puts
      PROVE  \/ puts'[q].pc \in {"idle", "over"}
             \/ puts'[q] = puts[q] /\ puts[q].pc = "recorded"
  <2>1. CASE Interrupted(q)
    BY <1>1, <1>2, <2>1
  <2>2. CASE ~Interrupted(q)
    BY <1>1, <1>2, <2>2 DEF Interrupted, PutPcs
  <2>3. QED
    BY <2>1, <2>2
<1>5. QED
  BY <1>3, <1>4

LEMMA PutCrashKeeps ==
    ASSUME PutIInv, Crash
    PROVE  PutIInv'
<1>1. /\ puts' \in [Puts -> PutStates]
      /\ \A q \in Puts : \/ puts'[q].pc \in {"idle", "over"}
                         \/ puts'[q] = puts[q] /\ puts[q].pc = "recorded"
  BY PutsEnd DEF Crash
<1>2. /\ files' = files /\ shards' = shards /\ temps' = temps /\ outage' = outage
      /\ shared' = shared
  BY DEF Crash, ProcessEnds
<1>3. PutTypes'
  BY <1>1, <1>2 DEF PutIInv, PutTypes
<1>4. ASSUME NEW q \in Puts PROVE PutInOrder(q)'
  <2>1. PutInOrder(q)
    BY DEF PutIInv
  <2>2. CASE puts'[q].pc \in {"idle", "over"}
    BY <2>2 DEF PutInOrder
  <2>3. CASE puts'[q] = puts[q]
    BY <1>2, <2>1, <2>3 DEF PutInOrder, HasExpired
  <2>4. QED
    BY <1>1, <2>2, <2>3
<1>5. QED
  BY <1>3, <1>4 DEF PutIInv

(* A power loss takes no durable file of a durable shard.                  *)
LEMMA PowerLossKeeps ==
    ASSUME PutIInv, NEW noShards \in SUBSET {s \in Shards : shards[s] = "volatile"},
           NEW noFiles \in SUBSET {b \in Bodies : files[b] = "volatile"},
           NEW noExports, PowerLoss(noShards, noFiles, noExports)
    PROVE  PutIInv'
<1>1. /\ puts' \in [Puts -> PutStates]
      /\ \A q \in Puts : \/ puts'[q].pc \in {"idle", "over"}
                         \/ puts'[q] = puts[q] /\ puts[q].pc = "recorded"
  BY PutsEnd DEF PowerLoss
<1>2. /\ files' = [b \in Bodies |-> IF b \in noFiles \/ Shard(b) \in noShards THEN "absent"
                                    ELSE Synced(files[b])]
      /\ shards' = [s \in Shards |-> IF s \in noShards THEN "absent"
                                     ELSE IF shards[s] = "volatile" THEN "durable" ELSE shards[s]]
      /\ shared' = shared /\ outage' = TRUE
      /\ puts \in [Puts -> PutStates] /\ files \in FileMaps /\ shards \in ShardMaps
      /\ temps' \in [Puts -> {"none", "partial", "whole"}]
  BY DEF PowerLoss, ProcessEnds, PutIInv, PutTypes
<1>3. files' \in FileMaps /\ shards' \in ShardMaps
  BY <1>2 DEF FileMaps, ShardMaps, FileStates, Synced
<1>4. PutTypes'
  BY <1>1, <1>2, <1>3 DEF PutIInv, PutTypes
<1>5. ASSUME NEW q \in Puts PROVE PutInOrder(q)'
  <2>1. CASE puts'[q].pc \in {"idle", "over"}
    BY <2>1 DEF PutInOrder
  <2>2. CASE puts'[q] = puts[q] /\ puts[q].pc = "recorded"
    <3> DEFINE b == puts[q].body
    <3>1. /\ PutInOrder(q) /\ b \in Bodies /\ Shard(b) \in Shards
      BY <1>2, ShardOf DEF PutIInv, PutStates
    <3>2. shards[Shard(b)] = "durable" => shards'[Shard(b)] = "durable"
      BY <1>2, <3>1
    <3>3. shards[Shard(b)] = "durable" /\ files[b] = "durable" => files'[b] = "durable"
      BY <1>2, <3>1 DEF Synced
    <3>4. QED
      BY <1>2, <2>2, <3>1, <3>2, <3>3 DEF PutInOrder, HasExpired
  <2>3. QED
    BY <1>1, <2>1, <2>2
<1>6. QED
  BY <1>4, <1>5 DEF PutIInv

LEMMA PutNext == PutIInv /\ [Next]_artifactVars => PutIInv'
<1> SUFFICES ASSUME PutIInv, [Next]_artifactVars PROVE PutIInv'
  OBVIOUS
<1>1. ASSUME UNCHANGED putVars PROVE PutIInv'
  BY <1>1 DEF putVars, PutIInv, PutTypes, PutInOrder, HasExpired
<1>2. CASE CleanUp
  <2>1. /\ temps' \in [Puts -> {"none", "partial", "whole"}]
        /\ puts' = puts /\ files' = files /\ shards' = shards /\ shared' = shared
        /\ outage' = outage
    BY <1>2 DEF CleanUp, PutIInv, PutTypes
  <2>2. QED
    BY <2>1 DEF PutIInv, PutTypes, PutInOrder, HasExpired
<1>3. CASE \E e \in Exports : \/ ExportBegins(e) \/ ExportTruncates(e) \/ ExportWritten(e)
                              \/ ExportWriteFails(e) \/ ExportFails(e) \/ ExportCommits(e)
  BY <1>1, <1>3 DEF ExportBegins, ExportTruncates, ExportWritten, ExportWriteFails,
                    ExportFails, ExportCommits
<1>4. CASE UNCHANGED artifactVars
  BY <1>1, <1>4 DEF artifactVars, putVars
<1>5. QED
  BY <1>2, <1>3, <1>4, PutArtifactKeeps, RemoveKeeps, PutCrashKeeps, PowerLossKeeps DEF Next

-----------------------------------------------------------------------------
(* The exports.                                                            *)

(* What every step needs of the state it leaves.                           *)
LEMMA ExportState ==
    ASSUME ExportIInv, NEW e \in Exports
    PROVE  /\ exports \in [Exports -> ExportStates] /\ exports[e] \in ExportStates
           /\ exports[e].of \in Puts /\ exports[e].command \in Commands
           /\ exported \in [Puts -> {"absent", "partial", "whole"}]
           /\ receiptOf \in [Commands -> Exports \cup {NoExport}]
           /\ torn \subseteq Puts /\ onDisk \subseteq Puts /\ ExportInOrder(e)
BY DEF ExportIInv, ExportTypes, ExportStates

(* What an export does, but for its commit: no receipt changes, the answers*)
(* of the others stay, and no file that was whole is left in pieces.       *)
LEMMA ExportStep ==
    ASSUME ExportIInv, NEW e \in Exports, NEW t \in ExportStates,
           exports' = [exports EXCEPT ![e] = t], t.of = exports[e].of,
           exported' \in [Puts -> {"absent", "partial", "whole"}],
           torn' \subseteq Puts, onDisk' \subseteq Puts, receiptOf' = receiptOf,
           ExportInOrder(e)',
           \A p \in Puts : Intact(p) => Intact(p)'
    PROVE  ExportIInv'
<1>1. /\ exports \in [Exports -> ExportStates]
      /\ receiptOf \in [Commands -> Exports \cup {NoExport}]
      /\ \A f \in Exports : exports[f].of \in Puts
  BY DEF ExportIInv, ExportTypes, ExportStates
<1>2. /\ exports' \in [Exports -> ExportStates]
      /\ \A f \in Exports \ {e} : exports'[f] = exports[f]
      /\ \A f \in Exports : exports'[f].of = exports[f].of
  BY <1>1
<1>3. ExportTypes'
  BY <1>2 DEF ExportIInv, ExportTypes
<1>4. ASSUME NEW f \in Exports PROVE FileStands(f) => FileStands(f)'
  <2>1. PICK p \in Puts : p = exports[f].of /\ p = exports'[f].of
    BY <1>1, <1>2
  <2>2. Intact(p) => Intact(p)'
    OBVIOUS
  <2>3. QED
    BY <2>1, <2>2 DEF FileStands, Intact, Rewriting, Writes
<1>5. ASSUME NEW f \in Exports PROVE ExportInOrder(f)'
  <2>1. CASE f = e
    BY <2>1
  <2>2. CASE f # e
    BY <1>2, <1>4, <2>2 DEF ExportIInv, ExportInOrder
  <2>3. QED
    BY <2>1, <2>2
<1>6. ASSUME NEW c \in Commands PROVE ReceiptInOrder(c)'
  BY <1>4 DEF ExportIInv, ReceiptInOrder
<1>7. QED
  BY <1>3, <1>5, <1>6 DEF ExportIInv

(* A command is recalled with its receipt.                                 *)
LEMMA RecallFacts ==
    ASSUME ExportIInv, NEW e \in Exports, Recall(e),
           receiptOf[exports[e].command] # NoExport
    PROVE  \E t \in ExportStates :
              /\ exports' = [exports EXCEPT ![e] = t]
              /\ t.of = exports[e].of /\ t.command = exports[e].command
              /\ \/ t.pc = "over"
                 \/ /\ t.pc = "answered"
                    /\ t.answer = receiptOf[exports[e].command]
<1> DEFINE first == receiptOf[exports[e].command]
           answer == IF Recalls(e, first) = "answered" THEN first ELSE NoExport
           t == [exports[e] EXCEPT !.pc = Recalls(e, first), !.answer = answer]
<1>1. first \in Exports /\ exports[e] \in ExportStates /\ exports \in [Exports -> ExportStates]
  BY ExportState
<1>2. Recalls(e, first) \in {"answered", "over"} /\ answer \in Exports \cup {NoExport}
  BY <1>1 DEF Recalls
<1>3. exports' = [exports EXCEPT ![e] = t]
  BY <1>1 DEF Recall
<1>4. /\ t \in ExportStates /\ t.pc = Recalls(e, first) /\ t.answer = answer
      /\ t.of = exports[e].of /\ t.command = exports[e].command
  <2> HIDE DEF answer, first
  <2>1. QED
    BY <1>1, <1>2 DEF ExportStates, ExportPcs
<1> HIDE DEF t
<1>5. QED
  BY <1>2, <1>3, <1>4

LEMMA ExportInit == NoExport \notin Exports /\ Init => ExportIInv
<1> SUFFICES ASSUME NoExport \notin Exports, Init PROVE ExportIInv
  OBVIOUS
<1>1. exports \in [Exports -> ExportStates] /\ \A e \in Exports : exports[e].pc = "idle"
  BY DEF Init, ExportStates, ExportPcs
<1>2. ExportTypes
  BY <1>1 DEF Init, ExportTypes
<1>3. QED
  BY <1>1, <1>2 DEF Init, ExportIInv, ExportInOrder, ReceiptInOrder

(* Who is not writing may go on: the files stay as they are.               *)
LEMMA FilesStay ==
    ASSUME ExportIInv, NEW e \in Exports, NEW t \in ExportStates,
           exports' = [exports EXCEPT ![e] = t], exports[e].pc # "writing",
           exported' = exported, torn' = torn, outage' = outage
    PROVE  \A p \in Puts : Intact(p) => Intact(p)'
<1>1. exports \in [Exports -> ExportStates]
  BY ExportState
<1>2. \A f \in Exports : exports[f].pc = "writing" => exports'[f] = exports[f]
  BY <1>1
<1>3. \A p \in Puts : Rewriting(p) => Rewriting(p)'
  BY <1>2 DEF Rewriting, Writes
<1>4. QED
  BY <1>3 DEF Intact

LEMMA BeginsKeeps ==
    ASSUME ExportIInv, NEW e \in Exports, ExportBegins(e)
    PROVE  ExportIInv'
<1>1. /\ exports \in [Exports -> ExportStates] /\ exports[e] \in ExportStates
      /\ exported \in [Puts -> {"absent", "partial", "whole"}]
      /\ receiptOf \in [Commands -> Exports \cup {NoExport}]
      /\ torn \subseteq Puts /\ ExportInOrder(e)
  BY ExportState
<1>2. /\ exports[e].pc = "idle" /\ exported' = exported /\ outage' = outage
      /\ torn' = torn /\ onDisk' \subseteq Puts /\ receiptOf' = receiptOf
  BY ExportState DEF ExportBegins, putVars
<1>3. \E t \in ExportStates :
         /\ exports' = [exports EXCEPT ![e] = t]
         /\ t.of = exports[e].of /\ t.command = exports[e].command
         /\ \/ t.pc \in {"reading", "over"}
            \/ /\ t.pc = "answered" /\ t.answer # NoExport
               /\ t.answer = receiptOf[exports[e].command]
  <2>1. CASE receiptOf[exports[e].command] # NoExport
    BY <2>1, RecallFacts DEF ExportBegins
  <2>2. CASE receiptOf[exports[e].command] = NoExport
    <3>1. \A pc \in {"reading", "over"} :
             LET t == [exports[e] EXCEPT !.pc = pc]
             IN  /\ t \in ExportStates /\ t.pc = pc
                 /\ t.of = exports[e].of /\ t.command = exports[e].command
      BY <1>1 DEF ExportStates, ExportPcs
    <3>2. \E pc \in {"reading", "over"} :
             exports' = [exports EXCEPT ![e] = [exports[e] EXCEPT !.pc = pc]]
      BY <1>1, <2>2 DEF ExportBegins
    <3>3. QED
      BY <3>1, <3>2
  <2>3. QED
    BY <2>1, <2>2
<1>4. PICK t \in ExportStates :
         /\ exports' = [exports EXCEPT ![e] = t]
         /\ t.of = exports[e].of /\ t.command = exports[e].command
         /\ \/ t.pc \in {"reading", "over"}
            \/ /\ t.pc = "answered" /\ t.answer # NoExport
               /\ t.answer = receiptOf[exports[e].command]
  BY <1>3
<1>5. exports'[e] = t
  BY <1>1, <1>4
<1>6. ExportInOrder(e)'
  BY <1>2, <1>4, <1>5 DEF ExportInOrder
<1>7. \A p \in Puts : Intact(p) => Intact(p)'
  BY <1>2, <1>4, FilesStay
<1>8. QED
  BY <1>1, <1>2, <1>4, <1>6, <1>7, ExportStep

(* Whoever truncates the file writes it, and nobody has cut it yet.        *)
LEMMA TruncatesKeeps ==
    ASSUME ExportIInv, NEW e \in Exports, ExportTruncates(e)
    PROVE  ExportIInv'
<1> DEFINE p == exports[e].of
           Step(f) == IF f = e THEN [exports[f] EXCEPT !.pc = "writing", !.cut = FALSE]
                      ELSE IF Writes(f, p) THEN [exports[f] EXCEPT !.cut = TRUE] ELSE exports[f]
<1>1. /\ exports \in [Exports -> ExportStates] /\ exports[e] \in ExportStates
      /\ p \in Puts /\ torn \subseteq Puts
      /\ exported \in [Puts -> {"absent", "partial", "whole"}]
      /\ receiptOf \in [Commands -> Exports \cup {NoExport}]
  BY ExportState
<1>2. /\ exports[e].pc = "reading" /\ exports' = [f \in Exports |-> Step(f)]
      /\ exported' = [exported EXCEPT ![p] = "partial"]
      /\ torn' = torn /\ receiptOf' = receiptOf /\ outage' = outage /\ onDisk' = onDisk
  BY DEF ExportTruncates, putVars
<1>3. ASSUME NEW f \in Exports
      PROVE  /\ exports'[f] \in ExportStates /\ exports'[f].of = exports[f].of
             /\ exports'[f].command = exports[f].command
             /\ f # e => /\ exports'[f].pc = exports[f].pc
                         /\ exports'[f].answer = exports[f].answer
             /\ f = e => exports'[f].pc = "writing" /\ exports'[f].cut = FALSE
             /\ f # e /\ exports[f].of # p => exports'[f].cut = exports[f].cut
  <2>1. exports'[f] = Step(f) /\ exports[f] \in ExportStates
    BY <1>1, <1>2
  <2>2. CASE f = e
    BY <2>1, <2>2 DEF ExportStates, ExportPcs
  <2>3. CASE f # e /\ Writes(f, p)
    BY <2>1, <2>3 DEF ExportStates, Writes
  <2>4. CASE f # e /\ ~Writes(f, p)
    BY <2>1, <2>4
  <2>5. QED
    BY <2>2, <2>3, <2>4
<1> HIDE DEF Step
<1>4. exports' \in [Exports -> ExportStates]
  BY <1>2, <1>3
<1>5. \A q \in Puts : q = p => Intact(q)'
  BY <1>3 DEF Intact, Rewriting, Writes
<1>6. ASSUME NEW q \in Puts, Intact(q) PROVE Intact(q)'
  <2>1. CASE q = p
    BY <1>5, <2>1
  <2>2. CASE q # p
    <3>1. exported'[q] = exported[q]
      BY <1>1, <1>2, <2>2
    <3>2. Rewriting(q) => Rewriting(q)'
      BY <1>2, <1>3, <2>2 DEF Rewriting, Writes
    <3>3. QED
      BY <1>2, <1>6, <3>1, <3>2 DEF Intact
  <2>3. QED
    BY <2>1, <2>2
<1>7. ASSUME NEW f \in Exports PROVE FileStands(f) => FileStands(f)'
  <2>1. PICK q \in Puts : q = exports[f].of /\ q = exports'[f].of
    BY <1>1, <1>3 DEF ExportStates
  <2>2. Intact(q) => Intact(q)'
    BY <1>6
  <2>3. QED
    BY <2>1, <2>2 DEF FileStands, Intact, Rewriting, Writes
<1>8. ASSUME NEW f \in Exports PROVE ExportInOrder(f)'
  <2>1. FileStands(e)'
    <3>1. PICK q \in Puts : q = p /\ q = exports'[e].of
      BY <1>1, <1>3
    <3>2. Intact(q)'
      BY <1>5, <3>1
    <3>3. QED
      BY <3>1, <3>2 DEF FileStands, Intact, Rewriting, Writes
  <2>2. CASE f = e
    BY <1>3, <2>1, <2>2 DEF ExportInOrder
  <2>3. CASE f # e
    BY <1>2, <1>3, <1>7, <2>3 DEF ExportIInv, ExportInOrder
  <2>4. QED
    BY <2>2, <2>3
<1>9. ASSUME NEW c \in Commands PROVE ReceiptInOrder(c)'
  BY <1>2, <1>7 DEF ExportIInv, ReceiptInOrder
<1>10. ExportTypes'
  BY <1>1, <1>2, <1>4 DEF ExportIInv, ExportTypes
<1>11. QED
  BY <1>8, <1>9, <1>10 DEF ExportIInv

(* Of the writers of a file the one that was not cut makes it whole; the   *)
(* others leave it to that one.                                            *)
LEMMA WrittenKeeps ==
    ASSUME ExportIInv, NEW e \in Exports, ExportWritten(e)
    PROVE  ExportIInv'
<1> DEFINE t == [exports[e] EXCEPT !.pc = "written"]
           q == exports[e].of
           cut == exports[e].cut
<1>1. /\ exports \in [Exports -> ExportStates] /\ exports[e] \in ExportStates /\ q \in Puts
      /\ exported \in [Puts -> {"absent", "partial", "whole"}]
      /\ torn \subseteq Puts /\ onDisk \subseteq Puts /\ ExportInOrder(e)
  BY ExportState
<1>2. t \in ExportStates /\ t.pc = "written" /\ t.of = q
  BY <1>1 DEF ExportStates, ExportPcs
<1>3. /\ exports' = [exports EXCEPT ![e] = t] /\ Writes(e, q)
      /\ receiptOf' = receiptOf /\ onDisk' = onDisk /\ outage' = outage
      /\ exported' = IF cut THEN exported ELSE [exported EXCEPT ![q] = "whole"]
      /\ torn' = IF cut THEN torn ELSE torn \ {q}
  BY DEF ExportWritten, putVars, Writes
<1> HIDE DEF t, q
<1>4. exports'[e] = t /\ \A f \in Exports \ {e} : exports'[f] = exports[f]
  BY <1>1, <1>3
<1>5. exported' \in [Puts -> {"absent", "partial", "whole"}] /\ torn' \subseteq Puts
  BY <1>1, <1>3
<1>6. ASSUME NEW p \in Puts, Intact(p) PROVE Intact(p)'
  <2>1. CASE cut
    <3>1. Rewriting(p) => Rewriting(p)'
      BY <1>4, <2>1 DEF Rewriting, Writes
    <3>2. exported' = exported /\ torn' = torn
      BY <1>3, <2>1
    <3>3. QED
      BY <1>3, <1>6, <3>1, <3>2 DEF Intact
  <2>2. CASE ~cut /\ p = q
    BY <1>1, <1>3, <2>2 DEF Intact
  <2>3. CASE ~cut /\ p # q
    <3>1. exported'[p] = exported[p] /\ (p \in torn => p \in torn')
      BY <1>1, <1>3, <2>3
    <3>2. Rewriting(p) => Rewriting(p)'
      BY <1>3, <1>4, <2>3 DEF Rewriting, Writes
    <3>3. QED
      BY <1>3, <1>6, <3>1, <3>2 DEF Intact
  <2>4. QED
    BY <2>1, <2>2, <2>3
<1>7. FileStands(e)'
  <2>1. PICK p \in Puts : p = q /\ p = exports'[e].of
    BY <1>1, <1>2, <1>4
  <2>2. Intact(p)'
    <3>1. CASE cut
      <4>1. Intact(p)
        BY <1>1, <1>3, <2>1 DEF Writes, ExportInOrder, FileStands, q
      <4>2. QED
        BY <1>6, <4>1
    <3>2. CASE ~cut
      BY <1>1, <1>3, <2>1, <3>2 DEF Intact
    <3>3. QED
      BY <3>1, <3>2
  <2>3. QED
    BY <2>1, <2>2 DEF FileStands, Intact, Rewriting, Writes
<1>8. ExportInOrder(e)'
  BY <1>2, <1>4, <1>7 DEF ExportInOrder
<1>9. QED
  BY <1>1, <1>2, <1>3, <1>5, <1>6, <1>8, ExportStep DEF q

(* A writer that fails leaves its file in pieces, and says so.             *)
LEMMA FailsKeeps ==
    ASSUME ExportIInv, NEW e \in Exports, ExportWriteFails(e) \/ ExportFails(e)
    PROVE  ExportIInv'
<1> DEFINE t == [exports[e] EXCEPT !.pc = "over"]
<1>1. /\ exports \in [Exports -> ExportStates] /\ exports[e] \in ExportStates
      /\ exports[e].of \in Puts
      /\ exported \in [Puts -> {"absent", "partial", "whole"}]
      /\ torn \subseteq Puts /\ onDisk \subseteq Puts
  BY ExportState
<1>2. t \in ExportStates /\ t.pc = "over" /\ t.of = exports[e].of
  BY <1>1 DEF ExportStates, ExportPcs
<1>3. /\ exports' = [exports EXCEPT ![e] = t] /\ exported' = exported
      /\ receiptOf' = receiptOf /\ onDisk' = onDisk /\ outage' = outage
  BY DEF ExportWriteFails, ExportFails, putVars
<1>4. \/ exports[e].pc = "writing" /\ torn' = torn \cup {exports[e].of}
      \/ exports[e].pc # "writing" /\ torn' = torn
  BY DEF ExportWriteFails, ExportFails
<1> HIDE DEF t
<1>5. exports'[e] = t /\ \A f \in Exports \ {e} : exports'[f] = exports[f]
  BY <1>1, <1>3
<1>6. ExportInOrder(e)'
  BY <1>2, <1>5 DEF ExportInOrder
<1>7. ASSUME NEW p \in Puts, Intact(p) PROVE Intact(p)'
  <2>1. p \in torn' \/ (Rewriting(p) => Rewriting(p)')
    BY <1>4, <1>5 DEF Rewriting, Writes
  <2>2. p \in torn => p \in torn'
    BY <1>4
  <2>3. QED
    BY <1>3, <1>7, <2>1, <2>2 DEF Intact
<1>8. torn' \subseteq Puts
  BY <1>1, <1>4
<1>9. QED
  BY <1>1, <1>2, <1>3, <1>6, <1>7, <1>8, ExportStep

(* The first export of a command leaves its receipt, with its file whole;  *)
(* the next ones are answered with it.                                     *)
LEMMA CommitsKeeps ==
    ASSUME ExportIInv, NoExport \notin Exports, NEW e \in Exports, ExportCommits(e)
    PROVE  ExportIInv'
<1>1. /\ exports \in [Exports -> ExportStates] /\ exports[e] \in ExportStates
      /\ exports[e].of \in Puts /\ exports[e].command \in Commands
      /\ exported \in [Puts -> {"absent", "partial", "whole"}]
      /\ receiptOf \in [Commands -> Exports \cup {NoExport}]
      /\ torn \subseteq Puts /\ onDisk \subseteq Puts /\ ExportInOrder(e)
  BY ExportState
<1>2. /\ exports[e].pc = "written" /\ exported' = exported /\ torn' = torn
      /\ onDisk' = onDisk /\ outage' = outage
      /\ receiptOf' = [receiptOf EXCEPT ![exports[e].command] = Receipt(e)]
  BY DEF ExportCommits, MayCommit, putVars
<1>3. CASE receiptOf[exports[e].command] # NoExport
  <2>1. receiptOf' = receiptOf
    BY <1>1, <1>2, <1>3 DEF Receipt
  <2>2. PICK t \in ExportStates :
           /\ exports' = [exports EXCEPT ![e] = t]
           /\ t.of = exports[e].of /\ t.command = exports[e].command
           /\ \/ t.pc = "over"
              \/ /\ t.pc = "answered"
                 /\ t.answer = receiptOf[exports[e].command]
    BY <1>3, RecallFacts DEF ExportCommits
  <2>3. exports'[e] = t
    BY <1>1, <2>2
  <2>4. ExportInOrder(e)'
    BY <1>3, <2>1, <2>2, <2>3 DEF ExportInOrder
  <2>5. \A p \in Puts : Intact(p) => Intact(p)'
    BY <1>2, <2>2, FilesStay
  <2>6. QED
    BY <1>1, <1>2, <2>1, <2>2, <2>4, <2>5, ExportStep
<1>4. CASE receiptOf[exports[e].command] = NoExport
  <2> DEFINE t == [exports[e] EXCEPT !.pc = "answered", !.answer = e]
             c == exports[e].command
  <2>1. /\ t \in ExportStates /\ t.pc = "answered" /\ t.answer = e
        /\ t.of = exports[e].of /\ t.command = c
    BY <1>1 DEF ExportStates, ExportPcs
  <2>2. exports' = [exports EXCEPT ![e] = t]
    BY <1>1, <1>4 DEF ExportCommits
  <2>3. receiptOf' = [receiptOf EXCEPT ![c] = e]
    BY <1>2, <1>4 DEF Receipt
  <2> HIDE DEF t
  <2>4. /\ exports' \in [Exports -> ExportStates] /\ exports'[e] = t
        /\ \A f \in Exports \ {e} : exports'[f] = exports[f]
        /\ \A f \in Exports : exports'[f].of = exports[f].of
    BY <1>1, <2>1, <2>2
  <2>5. /\ receiptOf' \in [Commands -> Exports \cup {NoExport}] /\ receiptOf'[c] = e
        /\ \A d \in Commands \ {c} : receiptOf'[d] = receiptOf[d]
    BY <1>1, <2>3
  <2>6. ExportTypes'
    BY <1>2, <2>4, <2>5 DEF ExportIInv, ExportTypes
  <2>7. \A p \in Puts : Intact(p) => Intact(p)'
    BY <1>2, <2>1, <2>2, FilesStay
  <2>8. ASSUME NEW f \in Exports PROVE FileStands(f) => FileStands(f)'
    <3>1. PICK p \in Puts : p = exports[f].of /\ p = exports'[f].of
      BY <2>4 DEF ExportIInv, ExportTypes, ExportStates
    <3>2. Intact(p) => Intact(p)'
      BY <2>7
    <3>3. QED
      BY <3>1, <3>2 DEF FileStands, Intact, Rewriting, Writes
  <2>9. ASSUME NEW f \in Exports PROVE ExportInOrder(f)'
    <3>1. CASE f = e
      BY <2>1, <2>4, <2>5, <3>1 DEF ExportInOrder
    <3>2. CASE f # e
      <4>1. /\ exports'[f] = exports[f] /\ exports[f].command \in Commands
            /\ ExportInOrder(f)
        BY <2>4, <3>2 DEF ExportIInv, ExportTypes, ExportStates
      <4>2. exports[f].pc = "answered" => exports[f].command # c
        BY <1>4, <4>1 DEF ExportInOrder
      <4>3. QED
        BY <2>5, <2>8, <4>1, <4>2 DEF ExportInOrder
    <3>3. QED
      BY <3>1, <3>2
  <2>10. ASSUME NEW d \in Commands PROVE ReceiptInOrder(d)'
    <3>1. FileStands(e)'
      BY <1>1, <1>2, <2>8 DEF ExportInOrder
    <3>2. QED
      BY <2>5, <2>8, <3>1 DEF ExportIInv, ReceiptInOrder
  <2>11. QED
    BY <2>6, <2>9, <2>10 DEF ExportIInv
<1>5. QED
  BY <1>3, <1>4

(* A process that ends leaves in pieces what it was writing, and says so.  *)
LEMMA ExportsEnd ==
    ASSUME ExportIInv, ProcessEnds, exported' \in [Puts -> {"absent", "partial", "whole"}],
           onDisk' \subseteq Puts, outage' = outage \/ outage' = TRUE,
           \A p \in Puts : \/ exported'[p] = exported[p]
                           \/ outage' = TRUE /\ exported'[p] = "absent"
    PROVE  ExportIInv'
<1>1. /\ exports \in [Exports -> ExportStates]
      /\ exports' = [e \in Exports |->
             IF exports[e].pc \in {"reading", "writing", "written"}
               THEN [exports[e] EXCEPT !.pc = "over"] ELSE exports[e]]
      /\ torn' = torn \cup {p \in Puts : \E e \in Exports : Writes(e, p)}
      /\ receiptOf' = receiptOf
  BY DEF ExportIInv, ExportTypes, ProcessEnds
<1>2. ASSUME NEW e \in Exports
      PROVE  /\ exports'[e] \in ExportStates /\ exports'[e].of = exports[e].of
             /\ exports'[e].of \in Puts
             /\ exports'[e] = exports[e] \/ exports'[e].pc = "over"
             /\ exports'[e].pc \notin {"writing", "written"}
  BY <1>1 DEF ExportStates, ExportPcs
<1>3. ExportTypes'
  BY <1>1, <1>2 DEF ExportIInv, ExportTypes
<1>4. ASSUME NEW p \in Puts, Intact(p) PROVE Intact(p)'
  <2>1. Rewriting(p) => p \in torn'
    BY <1>1 DEF Rewriting
  <2>2. p \in torn => p \in torn'
    BY <1>1
  <2>3. QED
    BY <1>4, <2>1, <2>2 DEF Intact
<1>5. ASSUME NEW f \in Exports PROVE FileStands(f) => FileStands(f)'
  <2>1. PICK p \in Puts : p = exports[f].of /\ p = exports'[f].of
    BY <1>2
  <2>2. Intact(p) => Intact(p)'
    BY <1>4
  <2>3. QED
    BY <2>1, <2>2 DEF FileStands, Intact, Rewriting, Writes
<1>6. ASSUME NEW f \in Exports PROVE ExportInOrder(f)'
  BY <1>1, <1>2 DEF ExportIInv, ExportInOrder
<1>7. ASSUME NEW c \in Commands PROVE ReceiptInOrder(c)'
  BY <1>1, <1>5 DEF ExportIInv, ReceiptInOrder
<1>8. QED
  BY <1>3, <1>6, <1>7 DEF ExportIInv

LEMMA ExportCrashKeeps ==
    ASSUME ExportIInv, Crash
    PROVE  ExportIInv'
BY ExportsEnd DEF Crash, ExportIInv, ExportTypes

(* A power loss may take an export file, and is an outage.                 *)
LEMMA ExportPowerLossKeeps ==
    ASSUME ExportIInv, NEW noShards, NEW noFiles, NEW noExports,
           PowerLoss(noShards, noFiles, noExports)
    PROVE  ExportIInv'
<1>1. /\ exported \in [Puts -> {"absent", "partial", "whole"}]
      /\ exported' = [p \in Puts |-> IF p \in noExports THEN "absent" ELSE exported[p]]
      /\ outage' = TRUE /\ onDisk' \subseteq Puts /\ ProcessEnds
  BY DEF PowerLoss, ExportIInv, ExportTypes
<1>2. /\ exported' \in [Puts -> {"absent", "partial", "whole"}]
      /\ \A p \in Puts : \/ exported'[p] = exported[p]
                         \/ outage' = TRUE /\ exported'[p] = "absent"
  BY <1>1
<1>3. QED
  BY <1>1, <1>2, ExportsEnd

LEMMA ExportNext ==
    NoExport \notin Exports /\ ExportIInv /\ [Next]_artifactVars => ExportIInv'
<1> SUFFICES ASSUME NoExport \notin Exports, ExportIInv, [Next]_artifactVars
             PROVE  ExportIInv'
  OBVIOUS
<1>1. ASSUME UNCHANGED exportVars, outage' = outage PROVE ExportIInv'
  <2>1. ASSUME NEW f \in Exports PROVE FileStands(f)' <=> FileStands(f)
    BY <1>1 DEF exportVars, FileStands, Intact, Rewriting, Writes
  <2>2. QED
    BY <1>1, <2>1 DEF exportVars, ExportIInv, ExportTypes, ExportInOrder, ReceiptInOrder
<1>2. CASE CleanUp
  BY <1>1, <1>2 DEF CleanUp
<1>3. CASE \E p \in Puts : \/ PutBegins(p) \/ TempWritten(p) \/ Placed(p)
                           \/ DirectorySynced(p) \/ Recorded(p)
                           \/ Expires(p) \/ RemoveIfExpired(p)
  BY <1>1, <1>3 DEF PutBegins, TempWritten, Placed, DirectorySynced, Recorded, Expires,
                    RemoveIfExpired
<1>4. CASE UNCHANGED artifactVars
  BY <1>1, <1>4 DEF artifactVars, exportVars
<1>5. QED
  BY <1>2, <1>3, <1>4, BeginsKeeps, TruncatesKeeps, WrittenKeeps, CommitsKeeps,
     FailsKeeps, ExportCrashKeeps, ExportPowerLossKeeps DEF Next

-----------------------------------------------------------------------------
(* What is stored and exported, for any puts, contents, exports and        *)
(* commands.                                                               *)
LEMMA ArtifactInvariant == NoExport \notin Exports => (Spec => [](PutIInv /\ ExportIInv))
<1> SUFFICES ASSUME NoExport \notin Exports PROVE Spec => [](PutIInv /\ ExportIInv)
  OBVIOUS
<1>1. Init => PutIInv /\ ExportIInv
  BY PutInit, ExportInit
<1>2. PutIInv /\ ExportIInv /\ [Next]_artifactVars => (PutIInv /\ ExportIInv)'
  BY PutNext, ExportNext
<1>3. QED
  BY <1>1, <1>2, PTL DEF Spec

LEMMA PutGives == PutIInv => RowHasBytes
BY DEF PutIInv, PutTypes, FileMaps, PutInOrder, RowHasBytes

LEMMA ExportGives == ExportIInv => ExportStands
<1> SUFFICES ASSUME ExportIInv PROVE OneExportPerCommand /\ ExportIsWhole
  BY DEF ExportStands
<1>1. OneExportPerCommand
  BY DEF ExportIInv, ExportInOrder, OneExportPerCommand
<1>2. ExportIsWhole
  <2> SUFFICES ASSUME NEW c \in Commands, receiptOf[c] # NoExport
               PROVE  FileStands(receiptOf[c])
    BY DEF ExportIsWhole, FileStands, Intact
  <2>1. receiptOf[c] \in Exports
    BY DEF ExportIInv, ExportTypes
  <2>2. QED
    BY <2>1 DEF ExportIInv, ReceiptInOrder
<1>3. QED
  BY <1>1, <1>2

(* A row in force has its bytes, through any crashes of the process, unless*)
(* they went with the expired row of the same bytes (remove_if_expired).  A*)
(* crash of the machine takes them only if the put had found them in a     *)
(* shard another had yet to sync, or the name of the shard was not on disk *)
(* when it began: put_artifact never syncs the directory above the shard.  *)
THEOREM RowsHaveBytes == NoExport \notin Exports => (Spec => []RowHasBytes)
<1> SUFFICES ASSUME NoExport \notin Exports PROVE Spec => []RowHasBytes
  OBVIOUS
<1>1. QED
  BY PutGives, ArtifactInvariant, PTL

(* An export command given again is answered with its first export; what a*)
(* receipt names is there, whole, but for a writer of the same artifact    *)
(* that is at it, or failed, or was at it when a crash came; a crash of the*)
(* machine may take it as a whole (export, commit_command,                 *)
(* write_private_file).                                                    *)
THEOREM ExportsStand == NoExport \notin Exports => (Spec => []ExportStands)
<1> SUFFICES ASSUME NoExport \notin Exports PROVE Spec => []ExportStands
  OBVIOUS
<1>1. QED
  BY ExportGives, ArtifactInvariant, PTL

(* The variables keep to the values the code can give them.                *)
THEOREM ArtifactTypesHold == NoExport \notin Exports => (Spec => []TypeOK)
<1> SUFFICES ASSUME NoExport \notin Exports PROVE Spec => []TypeOK
  OBVIOUS
<1>1. PutIInv /\ ExportIInv => TypeOK
  BY DEF PutIInv, PutTypes, FileMaps, ShardMaps, FileStates, ExportIInv, ExportTypes, TypeOK
<1>2. Spec => [](PutIInv /\ ExportIInv)
  BY ArtifactInvariant
<1>3. QED
  BY <1>1, <1>2, PTL
=============================================================================
