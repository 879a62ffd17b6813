---------------------------- MODULE ArtifactFiles ----------------------------
(***************************************************************************)
(* Artifacts on disk.  The bytes come first, in a file named by their      *)
(* hash, in the shard of its first digits; the row that names them after.  *)
(* An export writes a file of its own, then a row and the receipt of its   *)
(* command in one transaction.  A crash of the process loses no file; one  *)
(* of the machine may lose names in directories that were not synced.      *)
(***************************************************************************)
EXTENDS Naturals

CONSTANTS
    Puts,      \* artifacts that are stored
    Bodies,    \* contents they may have, named by their hash, a number
    PerShard,  \* hashes that begin alike share a directory
    Exports,   \* calls of export
    Commands,  \* command ids of exports
    NoExport   \* not one of Exports

VARIABLES
    puts,      \* each put, then its row
    files,     \* the content file of each body
    shards,    \* the directories of the content files
    temps,     \* the temporary file of each put
    exports,   \* calls of export
    exported,  \* the export file of each artifact; one format
    receiptOf,  \* the export that each command has recorded
    onDisk,    \* export files whose name is known to be on disk
    shared,    \* history: rows whose file went with the expired row of another
    torn,      \* history: the last writer of these export files did not finish
    outage     \* history: the machine has crashed

artifactVars == <<puts, files, shards, temps, exports, exported, receiptOf, onDisk,
                  shared, torn, outage>>

Expiry   == {"never", "later", "past"}
PutPcs   == {"idle", "writing", "placing", "syncing", "stored", "recorded", "over"}
ExportPcs == {"idle", "reading", "writing", "written", "answered", "over"}
\* saw: the put has found the file of its bytes there and stopped; fresh: the
\* name of its shard was not known to be on disk.
PutStates == [pc : PutPcs, body : Bodies, expiry : Expiry, restricted : BOOLEAN,
              saw : BOOLEAN, fresh : BOOLEAN]
\* cut: another export has truncated the file while this one wrote it.
ExportStates == [pc : ExportPcs, command : Commands, of : Puts,
                 answer : Exports \cup {NoExport}, cut : BOOLEAN]

\* The first two digits of the hash.
Shard(b) == b \div PerShard
Shards   == {Shard(b) : b \in Bodies}

Init ==
    /\ puts \in [Puts -> [pc : {"idle"}, body : Bodies, expiry : {"never", "later"},
                          restricted : BOOLEAN, saw : {FALSE}, fresh : {FALSE}]]
    \* A restricted artifact has an owner, a retention policy and an expiry.
    /\ \A p \in Puts : puts[p].restricted => puts[p].expiry = "later"
    /\ files = [b \in Bodies |-> "absent"]
    /\ shards \in [Shards -> {"absent", "durable"}]
    /\ temps = [p \in Puts |-> "none"]
    /\ exports \in [Exports -> [pc : {"idle"}, command : Commands, of : Puts,
                                answer : {NoExport}, cut : {FALSE}]]
    /\ exported = [p \in Puts |-> "absent"]
    /\ receiptOf = [c \in Commands |-> NoExport]
    /\ onDisk = {} /\ shared = {} /\ torn = {} /\ outage = FALSE

putVars    == <<puts, files, shards, temps, shared, outage>>
exportVars == <<exports, exported, receiptOf, onDisk, torn>>

-----------------------------------------------------------------------------
(* put_artifact                                                            *)

\* create_owner_only_directory leaves the directory above it unsynced.
PutBegins(p) ==
    LET b == puts[p].body IN
    /\ puts[p].pc = "idle"
    /\ shards' = [shards EXCEPT ![Shard(b)] = IF @ = "absent" THEN "volatile" ELSE @]
    /\ puts' = [puts EXCEPT ![p].pc = IF files[b] = "absent" THEN "writing" ELSE "stored",
                            ![p].saw = files[b] # "absent",
                            ![p].fresh = shards[Shard(b)] # "durable"]
    /\ temps' = [temps EXCEPT ![p] = IF files[b] = "absent" THEN "partial" ELSE @]
    /\ UNCHANGED <<files, exportVars, shared, outage>>

(* write_and_sync; what a failed write leaves is for the cleanup.          *)
TempWritten(p) ==
    /\ puts[p].pc = "writing"
    /\ \/ /\ puts' = [puts EXCEPT ![p].pc = "placing"]
          /\ temps' = [temps EXCEPT ![p] = "whole"]
       \/ /\ puts' = [puts EXCEPT ![p].pc = "over"]
          /\ UNCHANGED temps
    /\ UNCHANGED <<files, shards, exportVars, shared, outage>>

(* The file has come up meanwhile, or the temporary is renamed to it.  A   *)
(* rename that fails removes the temporary.                                *)
Placed(p) ==
    /\ puts[p].pc = "placing"
    /\ temps' = [temps EXCEPT ![p] = "none"]
    /\ \/ /\ temps[p] = "whole"
          /\ puts' = [puts EXCEPT ![p].pc = "syncing"]
          /\ files' = [files EXCEPT ![puts[p].body] = IF @ = "absent" THEN "volatile" ELSE @]
       \/ /\ puts' = [puts EXCEPT ![p].pc = "over"]
          /\ UNCHANGED files
    /\ UNCHANGED <<shards, exportVars, shared, outage>>

(* Mutant of Synced: the directory is not synced.                          *)
SyncedNot(file) == file

\* sync_directory: the shard has the name of the file on disk.  Its own name is in
\* the directory above, which nothing syncs.
Synced(file) == IF file = "volatile" THEN "durable" ELSE file

DirectorySynced(p) ==
    /\ puts[p].pc = "syncing"
    /\ \/ /\ puts' = [puts EXCEPT ![p].pc = "stored"]
          /\ files' = [files EXCEPT ![puts[p].body] = Synced(@)]
       \/ /\ puts' = [puts EXCEPT ![p].pc = "over"]
          /\ UNCHANGED files
    /\ UNCHANGED <<shards, temps, exportVars, shared, outage>>

(* The transaction that has the row, of the caller of put.                 *)
Recorded(p) ==
    /\ puts[p].pc = "stored"
    /\ puts' = [puts EXCEPT ![p].pc = "recorded"]
    /\ UNCHANGED <<files, shards, temps, exportVars, shared, outage>>

-----------------------------------------------------------------------------
Expires(p) ==
    /\ puts[p].pc = "recorded" /\ puts[p].expiry = "later"
    /\ puts' = [puts EXCEPT ![p].expiry = "past"]
    /\ UNCHANGED <<files, shards, temps, exportVars, shared, outage>>

HasExpired(p) == puts[p].expiry = "past"

(* remove_if_expired: the file goes, whoever else has the same bytes.      *)
RemoveIfExpired(p) ==
    /\ puts[p].pc = "recorded" /\ HasExpired(p) /\ files[puts[p].body] # "absent"
    /\ files' = [files EXCEPT ![puts[p].body] = "absent"]
    /\ shared' = shared \cup {q \in Puts \ {p} :
           puts[q].body = puts[p].body /\ puts[q].pc \in {"syncing", "stored", "recorded"}}
    /\ UNCHANGED <<puts, shards, temps, exportVars, outage>>

(* read_artifact finds the row of p in force and the bytes it names.       *)
Readable(p) == ~HasExpired(p) /\ files[puts[p].body] # "absent"

-----------------------------------------------------------------------------
(* ArtifactExporter::export                                                *)

\* The fingerprint of a command is of the artifact it exports.
Recalls(e, other) == IF exports[other].of = exports[e].of THEN "answered" ELSE "over"
Recall(e) ==
    LET first == receiptOf[exports[e].command]
    IN  exports' = [exports EXCEPT ![e].pc = Recalls(e, first),
                                   ![e].answer = IF Recalls(e, first) = "answered"
                                                   THEN first ELSE NoExport]

ExportBegins(e) ==
    LET p == exports[e].of IN
    /\ exports[e].pc = "idle" /\ puts[p].pc = "recorded"
    /\ IF receiptOf[exports[e].command] # NoExport THEN Recall(e)
       ELSE exports' = [exports EXCEPT ![e].pc =
                            IF ~puts[p].restricted /\ Readable(p) THEN "reading" ELSE "over"]
    /\ UNCHANGED <<putVars, exported, receiptOf, onDisk, torn>>

Writes(e, p) == exports[e].pc = "writing" /\ exports[e].of = p

(* The writer opens its file and truncates it ...                          *)
ExportTruncates(e) ==
    LET p == exports[e].of IN
    /\ exports[e].pc = "reading"
    /\ exports' = [f \in Exports |->
           IF f = e THEN [exports[f] EXCEPT !.pc = "writing", !.cut = FALSE]
           ELSE IF Writes(f, p) THEN [exports[f] EXCEPT !.cut = TRUE] ELSE exports[f]]
    /\ exported' = [exported EXCEPT ![p] = "partial"]
    /\ UNCHANGED <<putVars, receiptOf, onDisk, torn>>

(* ... and writes it; the same artifact gives the same bytes, so a writer  *)
(* that was cut leaves what the one that cut it has come to.               *)
ExportWritten(e) ==
    LET p == exports[e].of IN
    /\ exports[e].pc = "writing"
    /\ exports' = [exports EXCEPT ![e].pc = "written"]
    /\ exported' = IF exports[e].cut THEN exported ELSE [exported EXCEPT ![p] = "whole"]
    /\ torn' = IF exports[e].cut THEN torn ELSE torn \ {p}
    /\ UNCHANGED <<putVars, receiptOf, onDisk>>

(* The disk is full, or fails: what was truncated stays so.                *)
ExportWriteFails(e) ==
    /\ exports[e].pc = "writing"
    /\ exports' = [exports EXCEPT ![e].pc = "over"]
    /\ torn' = torn \cup {exports[e].of}
    /\ UNCHANGED <<putVars, exported, receiptOf, onDisk>>

(* The file cannot be opened, or the transaction fails.                    *)
ExportFails(e) ==
    /\ exports[e].pc \in {"reading", "written"}
    /\ exports' = [exports EXCEPT ![e].pc = "over"]
    /\ UNCHANGED <<putVars, exported, receiptOf, onDisk, torn>>

(* Mutant of MayCommit: the row is committed before the file is written.   *)
MayCommitAtOnce(e) == exports[e].pc \in {"writing", "written"}

MayCommit(e) == exports[e].pc = "written"

(* Mutant of Receipt: the last export of a command replaces the receipt.   *)
ReceiptOfLast(e) == e

\* commit_command keeps the receipt it has.
Receipt(e) ==
    IF receiptOf[exports[e].command] = NoExport THEN e ELSE receiptOf[exports[e].command]

ExportCommits(e) ==
    /\ MayCommit(e)
    /\ receiptOf' = [receiptOf EXCEPT ![exports[e].command] = Receipt(e)]
    /\ IF receiptOf[exports[e].command] # NoExport THEN Recall(e)
       ELSE exports' = [exports EXCEPT ![e].pc = "answered", ![e].answer = e]
    /\ UNCHANGED <<putVars, exported, onDisk, torn>>

-----------------------------------------------------------------------------
(* The process dies, alone or with the machine.                            *)

Interrupted(p) == puts[p].pc \in {"writing", "placing", "syncing", "stored"}

\* A writer of p that no later writer has cut.
Rewriting(p)   == \E e \in Exports : Writes(e, p) /\ ~exports[e].cut

ProcessEnds ==
    /\ puts' = [p \in Puts |-> IF Interrupted(p) THEN [puts[p] EXCEPT !.pc = "over"] ELSE puts[p]]
    /\ exports' = [e \in Exports |->
           IF exports[e].pc \in {"reading", "writing", "written"}
             THEN [exports[e] EXCEPT !.pc = "over"] ELSE exports[e]]
    /\ torn' = torn \cup {p \in Puts : \E e \in Exports : Writes(e, p)}
    /\ UNCHANGED <<receiptOf, shared>>

Crash == ProcessEnds /\ UNCHANGED <<files, shards, temps, exported, onDisk, outage>>

(* The machine goes too.  Of the names in directories that were not synced *)
(* any may be lost, a shard with all it holds; no directory of exports is  *)
(* ever synced.  What is found again afterwards is on disk.                *)
PowerLoss(noShards, noFiles, noExports) ==
    /\ ProcessEnds
    /\ files' = [b \in Bodies |-> IF b \in noFiles \/ Shard(b) \in noShards THEN "absent"
                                  ELSE Synced(files[b])]
    /\ shards' = [s \in Shards |-> IF s \in noShards THEN "absent"
                                   ELSE IF shards[s] = "volatile" THEN "durable" ELSE shards[s]]
    /\ temps' = [p \in Puts |-> IF Shard(puts[p].body) \in noShards THEN "none" ELSE temps[p]]
    /\ exported' = [p \in Puts |-> IF p \in noExports THEN "absent" ELSE exported[p]]
    /\ onDisk' = {p \in Puts : exported[p] # "absent"} \ noExports
    /\ outage' = TRUE

\* 24 hours old: no put takes that long.
Stale(p) == puts[p].pc \notin {"writing", "placing"}

(* LocalArtifactStore::new, in a process that starts.                      *)
CleanUp ==
    /\ temps' = [p \in Puts |-> IF Stale(p) THEN "none" ELSE temps[p]]
    /\ temps' # temps
    /\ UNCHANGED <<puts, files, shards, exportVars, shared, outage>>

Next ==
    \/ \E p \in Puts : \/ PutBegins(p) \/ TempWritten(p) \/ Placed(p)
                       \/ DirectorySynced(p) \/ Recorded(p)
                       \/ Expires(p) \/ RemoveIfExpired(p)
    \/ \E e \in Exports : \/ ExportBegins(e) \/ ExportTruncates(e) \/ ExportWritten(e)
                          \/ ExportWriteFails(e) \/ ExportFails(e) \/ ExportCommits(e)
    \/ Crash
    \/ \E noShards  \in SUBSET {s \in Shards : shards[s] = "volatile"},
          noFiles   \in SUBSET {b \in Bodies : files[b] = "volatile"},
          noExports \in SUBSET ({p \in Puts : exported[p] # "absent"} \ onDisk) :
          PowerLoss(noShards, noFiles, noExports)
    \/ CleanUp

Spec == Init /\ [][Next]_artifactVars

-----------------------------------------------------------------------------
(* Every variable has the values the code can give it.                     *)
TypeOK ==
    /\ puts \in [Puts -> PutStates]
    /\ files \in [Bodies -> {"absent", "volatile", "durable"}]
    /\ shards \in [Shards -> {"absent", "volatile", "durable"}]
    /\ temps \in [Puts -> {"none", "partial", "whole"}]
    /\ exports \in [Exports -> ExportStates]
    /\ exported \in [Puts -> {"absent", "partial", "whole"}]
    /\ receiptOf \in [Commands -> Exports \cup {NoExport}]
    /\ onDisk \subseteq Puts /\ shared \subseteq Puts /\ torn \subseteq Puts
    /\ outage \in BOOLEAN

(* A row in force has its bytes, through every crash of the process, unless*)
(* they went with the expired row of the same bytes.  A crash of the       *)
(* machine may take them only where the put had relied on a file whose     *)
(* shard another had yet to sync, or on a shard whose own name was not on  *)
(* disk: put_artifact syncs the shard and never the directory above it.    *)
RowHasBytes ==
    \A p \in Puts : puts[p].pc = "recorded" /\ ~HasExpired(p) =>
        \/ files[puts[p].body] # "absent" \/ p \in shared
        \/ outage /\ (puts[p].saw \/ puts[p].fresh)

(* A command that is given again, at once or after a crash, is answered    *)
(* with the artifact of the first export of it that was recorded.          *)
OneExportPerCommand ==
    \A e \in Exports : exports[e].pc = "answered" =>
        exports[e].answer = receiptOf[exports[e].command]

(* A recorded export has its whole file while the machine is up, unless the*)
(* same artifact is being exported again, or the last export of it was cut *)
(* short by an error or by a crash.  A crash of the machine may take the   *)
(* file, as its directory is never synced, but leaves none in pieces.      *)
ExportIsWhole ==
    \A c \in Commands : receiptOf[c] # NoExport =>
        LET p == exports[receiptOf[c]].of
        IN  \/ exported[p] = "whole" \/ Rewriting(p) \/ p \in torn
            \/ outage /\ exported[p] = "absent"

(* An export command given again is answered with its first export, and    *)
(* what it is answered with is a whole file, or none after a power loss.   *)
ExportStands == OneExportPerCommand /\ ExportIsWhole

=============================================================================
