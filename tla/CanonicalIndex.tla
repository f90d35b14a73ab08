--------------------------- MODULE CanonicalIndex ---------------------------
(***************************************************************************)
(* The canonical store (Postgres: memory_records, memory_chunks,           *)
(* ingest_jobs) and the vector index derived from it, under the three      *)
(* service operations that write both (add_memory, update_memory or        *)
(* tag_memory, delete_memory) and the ingest sweepers that repair the      *)
(* index.  Every await of the code is a step of its own: between two of    *)
(* them any other request, sweeper or timer may act, the process may crash *)
(* and the call may throw.                                                 *)
(*                                                                         *)
(* A chunk set stands for all memory_chunks rows one insertChunks stores,  *)
(* and for the vector points of those rows: each store call reads, writes  *)
(* or deletes them together.  The content of a record is its version.      *)
(***************************************************************************)
EXTENDS Naturals, FiniteSets

CONSTANTS
    Records,      \* memory_records ids addMemory may hand out
    NoRecord,     \* the owner of an id no insert has used yet
    Clients,      \* requests in flight, on any replica
    Sweepers,     \* replicas that run the ingest sweeper
    Ops,          \* the service operations the clients call
    Faults,       \* what may go wrong: see FaultKinds
    MaxAttempts,  \* runIngestSweep gives up after so many (5)
    SweepBatch,   \* jobs one claim takes (100)
    MaxVersion,   \* bound: content versions of one record
    MaxIds,       \* bound: ids of the chunk set and job sequences
    MaxCrashes    \* bound: process crashes in one behaviour

(***************************************************************************)
(* "embed": the embedding client throws.  "vector": a vector call throws   *)
(* and did nothing.  "lostAck": it throws and took effect.  "db": a        *)
(* Postgres statement throws and did nothing.  "crash": a process stops.   *)
(***************************************************************************)
FaultKinds == {"embed", "vector", "lostAck", "db", "crash"}
OpKinds == {"write", "update", "delete"}

ASSUME ConstantsAssumption ==
    /\ NoRecord \notin Records
    /\ Ops \subseteq OpKinds
    /\ Faults \subseteq FaultKinds
    /\ MaxAttempts \in Nat \ {0}
    /\ SweepBatch \in Nat \ {0}
    /\ MaxVersion \in Nat
    /\ MaxIds \in Nat
    /\ MaxCrashes \in Nat

VARIABLES
    record,    \* memory_records: existence, archived or not, content version
    chunkSet,  \* what each chunk set id was inserted for
    stored,    \* the chunk sets whose rows are in memory_chunks
    pointIds,  \* those of them whose qdrant_point_id is set
    points,    \* the chunk sets whose points are in the vector index
    job,       \* ingest_jobs
    client,    \* the requests
    sweeper,   \* the sweepers
    crashes    \* crashes so far

vars == <<record, chunkSet, stored, pointIds, points, job, client, sweeper,
          crashes>>
stores == <<record, chunkSet, stored, pointIds, points, job>>
rows == <<record, chunkSet, stored, pointIds, job>>

Ids == 1 .. MaxIds
NoId == 0

ClientPcs == {"idle", "create", "insert", "writeAhead", "commit", "embed",
              "replace", "deleteVectors", "upsert", "pointIds",
              "markQdrant", "markDone", "undo", "mark", "rollback", "erase",
              "deletePoints"}
SweeperPcs == {"idle", "next", "embed", "deleteVectors", "upsert",
               "pointIds", "markQdrant", "retry"}

RecordState == [state : {"none", "live", "archived", "gone"}, ver : Nat]

(***************************************************************************)
(* rec and ver: the record and content version the rows were cut from;     *)
(* job: the ingest job of the operation that stored them (no column, kept  *)
(* to state what the write-ahead promises).                                *)
(***************************************************************************)
ChunkSetState == [rec : Records \cup {NoRecord}, ver : Nat, job : Ids \cup {NoId}]

(***************************************************************************)
(* q is qdrant_status and "absent" when the row does not exist; retry is   *)
(* qdrant_next_retry_at: NULL, in the future, or reached.                  *)
(***************************************************************************)
JobState == [rec : Records \cup {NoRecord},
             status : {"pending", "completed"},
             q : {"absent", "pending", "completed", "failed"},
             attempts : Nat,
             retry : {"null", "later", "due"}]

ClientState == [pc : ClientPcs, op : OpKinds \cup {"none"},
                rec : Records \cup {NoRecord}, ver : Nat,
                set : Ids \cup {NoId}, job : Ids \cup {NoId},
                read : {"none", "live", "archived"}]

SweeperState == [pc : SweeperPcs, queue : SUBSET Ids, tries : [Ids -> Nat],
                 job : Ids \cup {NoId}, set : Ids \cup {NoId}]

IdleClient == [pc |-> "idle", op |-> "none", rec |-> NoRecord, ver |-> 0,
               set |-> NoId, job |-> NoId, read |-> "none"]

IdleSweeper == [pc |-> "idle", queue |-> {}, tries |-> [j \in Ids |-> 0],
                job |-> NoId, set |-> NoId]

(***************************************************************************)
(* Which locals a request, or a sweeper, has by the time it is at a step:  *)
(* what TypeScript's definite assignment gives the code.                   *)
(***************************************************************************)
StoredPcs == {"upsert", "pointIds", "markQdrant", "markDone"}
WritePcs == StoredPcs \cup {"create", "insert", "writeAhead", "embed", "rollback", "erase"}
UpdatePcs == StoredPcs \cup {"commit", "embed", "replace", "deleteVectors", "undo", "mark"}

ClientLocals(k) ==
    /\ k.pc = "idle" <=> k.op = "none"
    /\ k.pc = "idle" <=> k.rec = NoRecord
    /\ k.op = "write" =>
        /\ k.pc \in WritePcs
        /\ k.pc # "create" => k.job \in Ids
        /\ k.pc \notin {"create", "insert", "erase"} => k.set \in Ids
    /\ k.op = "update" =>
        /\ k.pc \in UpdatePcs
        /\ k.read # "none"
        /\ k.pc \notin {"commit", "embed", "replace"} => k.job \in Ids /\ k.set \in Ids
    /\ k.op = "delete" => k.pc = "deletePoints" /\ k.set \in Ids

SweeperLocals(k) ==
    /\ k.pc = "idle" => k = IdleSweeper
    /\ k.pc = "next" => k.job = NoId
    /\ k.pc \notin {"idle", "next"} => k.job \in Ids
    /\ k.pc \in {"embed", "deleteVectors", "upsert", "pointIds"} => k.set \in Ids

(***************************************************************************)
(* Types of every variable; the rows of pointIds are rows of memory_chunks *)
(* and the locals are there when they are used.                            *)
(***************************************************************************)
TypeOK ==
    /\ record \in [Records -> RecordState]
    /\ chunkSet \in [Ids -> ChunkSetState]
    /\ stored \in SUBSET Ids
    /\ pointIds \in SUBSET stored
    /\ points \in SUBSET Ids
    /\ job \in [Ids -> JobState]
    /\ client \in [Clients -> ClientState]
    /\ sweeper \in [Sweepers -> SweeperState]
    /\ crashes \in 0 .. MaxCrashes
    /\ \A c \in Clients : ClientLocals(client[c])
    /\ \A s \in Sweepers : SweeperLocals(sweeper[s])

Init ==
    /\ record = [r \in Records |-> [state |-> "none", ver |-> 0]]
    /\ chunkSet = [g \in Ids |-> [rec |-> NoRecord, ver |-> 0, job |-> NoId]]
    /\ stored = {}
    /\ pointIds = {}
    /\ points = {}
    /\ job = [j \in Ids |-> [rec |-> NoRecord, status |-> "pending",
                             q |-> "absent", attempts |-> 0, retry |-> "null"]]
    /\ client = [c \in Clients |-> IdleClient]
    /\ sweeper = [s \in Sweepers |-> IdleSweeper]
    /\ crashes = 0

-----------------------------------------------------------------------------
(***************************************************************************)
(* Reading the stores.                                                     *)
(***************************************************************************)
Exists(r) == record[r].state \in {"live", "archived"}
SetsOf(r) == {g \in Ids : chunkSet[g].rec = r}
StoredOf(r) == SetsOf(r) \cap stored
PointsOf(r) == SetsOf(r) \cap points
Present(j) == job[j].q # "absent"
JobsOf(r) == {j \in Ids : job[j].rec = r /\ Present(j)}

\* BIGSERIAL: the next id of the sequence is the least one never used.
NextSet(g) == {h \in Ids : chunkSet[h].rec # NoRecord} = 1 .. (g - 1)
NextJob(j) == {k \in Ids : job[k].rec # NoRecord} = 1 .. (j - 1)

\* A row ingest_jobs gets: retry is "null" from create, "later" from a replace.
NewJob(r, retry) == [rec |-> r, status |-> "pending", q |-> "pending",
                     attempts |-> 0, retry |-> retry]

(***************************************************************************)
(* The job repository's updates.  None of them looks at the row's present  *)
(* state; requireSingleRow throws when the row is gone, which is the       *)
(* caller's ~Present(j) alternative.                                       *)
(***************************************************************************)
SetQdrantCompleted(j) ==
    job' = [job EXCEPT ![j].q = "completed", ![j].retry = "null"]

\* Mutant: the pending mark does not write qdrant_next_retry_at.
SetQdrantPendingUnscheduled(j, attempts) ==
    job' = [job EXCEPT ![j].q = "pending", ![j].attempts = attempts]

SetQdrantPending(j, attempts) ==
    job' = [job EXCEPT ![j].q = "pending", ![j].retry = "later",
                       ![j].attempts = attempts]

SetQdrantFailed(j, attempts) ==
    job' = [job EXCEPT ![j].q = "failed", ![j].retry = "null",
                       ![j].attempts = attempts]

(***************************************************************************)
(* A vector call that would leave the index as result: it either does, or  *)
(* throws (ok is FALSE) without effect or, with a lost reply, after it.    *)
(***************************************************************************)
VectorCall(result, ok) ==
    \/ ok /\ points' = result
    \/ ~ok /\ "vector" \in Faults /\ points' = points
    \/ ~ok /\ "lostAck" \in Faults /\ points' = result

-----------------------------------------------------------------------------
(***************************************************************************)
(* Requests.  Where an exception thrown at k.pc takes a request: the catch *)
(* block of writeCanonicalMemory or refreshCanonicalMemoryIndex, or out of *)
(* the handler when the call is outside the try.                           *)
(***************************************************************************)
Catch(k) ==
    CASE k.op = "write" /\ k.pc \in {"pointIds", "markQdrant", "markDone"} -> "rollback"
      [] k.op = "write" /\ k.pc \in {"insert", "writeAhead", "embed", "upsert"} -> "erase"
      [] k.op = "update" /\ k.pc = "pointIds" -> "undo"
      [] k.op = "update" /\ k.pc \in {"deleteVectors", "upsert", "markQdrant", "markDone"} -> "mark"
      [] OTHER -> "idle"

At(k, pc) == IF pc = "idle" THEN IdleClient ELSE [k EXCEPT !.pc = pc]

Proceed(c, pc) == client' = [client EXCEPT ![c] = At(@, pc)]
Throw(c) == Proceed(c, Catch(client[c]))

\* Another request on the same record: its transaction may make ours fail.
Contended(c) == \E d \in Clients \ {c} : client[d].rec = client[c].rec

(***************************************************************************)
(* addMemory: one transaction, the record is visible once it commits.      *)
(***************************************************************************)
AddMemory(c, r) ==
    /\ "write" \in Ops
    /\ client[c].pc = "idle"
    /\ record[r].state = "none"
    /\ record' = [record EXCEPT ![r] = [state |-> "live", ver |-> 1]]
    /\ client' = [client EXCEPT ![c] = [IdleClient EXCEPT
                    !.pc = "create", !.op = "write", !.rec = r, !.ver = 1]]
    /\ UNCHANGED <<chunkSet, stored, pointIds, points, job, sweeper, crashes>>

\* ingestJobs.create, outside the try: a throw leaves the record behind.
CreateJob(c) ==
    /\ client[c].pc = "create"
    /\ \/ \E j \in Ids :
            /\ Exists(client[c].rec)
            /\ NextJob(j)
            /\ job' = [job EXCEPT ![j] = NewJob(client[c].rec, "null")]
            /\ client' = [client EXCEPT ![c].pc = "insert", ![c].job = j]
       \/ /\ "db" \in Faults \/ ~Exists(client[c].rec)
          /\ Throw(c)
          /\ UNCHANGED job
    /\ UNCHANGED <<record, chunkSet, stored, pointIds, points, sweeper, crashes>>

(***************************************************************************)
(* insertChunks: the foreign key needs the record, UNIQUE                  *)
(* (memory_record_id, chunk_index) that no chunks of it are stored.        *)
(***************************************************************************)
InsertChunks(c) ==
    LET r == client[c].rec IN
    /\ client[c].pc = "insert"
    /\ \/ \E g \in Ids :
            /\ Exists(r) /\ StoredOf(r) = {}
            /\ NextSet(g)
            /\ chunkSet' = [chunkSet EXCEPT ![g] =
                    [rec |-> r, ver |-> client[c].ver, job |-> client[c].job]]
            /\ stored' = stored \cup {g}
            /\ client' = [client EXCEPT ![c].pc = "writeAhead", ![c].set = g]
       \/ /\ "db" \in Faults \/ ~Exists(r) \/ StoredOf(r) # {}
          /\ Throw(c)
          /\ UNCHANGED <<chunkSet, stored>>
    /\ UNCHANGED <<record, pointIds, points, job, sweeper, crashes>>

\* The write-ahead: markQdrantPending(attempts 0, in nextRetryDelayMs(0)).
WriteAhead(c) ==
    /\ client[c].pc = "writeAhead"
    /\ \/ /\ Present(client[c].job)
          /\ SetQdrantPending(client[c].job, 0)
          /\ Proceed(c, "embed")
       \/ /\ "db" \in Faults \/ ~Present(client[c].job)
          /\ Throw(c)
          /\ UNCHANGED job
    /\ UNCHANGED <<record, chunkSet, stored, pointIds, points, sweeper, crashes>>

(***************************************************************************)
(* updateMemoryRecord reads the row without a lock ...                     *)
(* The bound counts the updates that have read and not yet committed.      *)
(***************************************************************************)
ReadForUpdate(c, r) ==
    /\ "update" \in Ops
    /\ client[c].pc = "idle"
    /\ Exists(r)
    /\ record[r].ver + Cardinality({d \in Clients : client[d].pc = "commit"
                                       /\ client[d].rec = r}) < MaxVersion
    /\ client' = [client EXCEPT ![c] = [IdleClient EXCEPT
                    !.pc = "commit", !.op = "update", !.rec = r,
                    !.read = record[r].state]]
    /\ UNCHANGED <<stores, sweeper, crashes>>

\* ... and writes every column back, durability as it was read.
CommitUpdate(c) ==
    LET r == client[c].rec IN
    /\ client[c].pc = "commit"
    /\ \/ /\ Exists(r)
          /\ record' = [record EXCEPT ![r].state = client[c].read,
                                      ![r].ver = record[r].ver + 1]
          /\ client' = [client EXCEPT ![c].pc = "embed",
                                      ![c].ver = record[r].ver + 1]
       \/ /\ "db" \in Faults \/ ~Exists(r)
          /\ Throw(c)
          /\ UNCHANGED record
    /\ UNCHANGED <<chunkSet, stored, pointIds, points, job, sweeper, crashes>>

\* embedBatch: a refresh embeds before its try, a write inside it.
Embed(c) ==
    /\ client[c].pc = "embed"
    /\ \/ Proceed(c, IF client[c].op = "write" THEN "upsert" ELSE "replace")
       \/ "embed" \in Faults /\ Throw(c)
    /\ UNCHANGED <<stores, sweeper, crashes>>

(***************************************************************************)
(* replaceChunksForRecordWithPendingIngest: one transaction deletes the    *)
(* record's chunks, inserts the new ones and a job that is already due to  *)
(* be retried.  Of two overlapping ones the later breaks on UNIQUE.        *)
(***************************************************************************)
ReplaceChunks(c) ==
    LET r == client[c].rec IN
    /\ client[c].pc = "replace"
    /\ \/ \E g, j \in Ids :
            /\ Exists(r)
            /\ NextSet(g) /\ NextJob(j)
            /\ chunkSet' = [chunkSet EXCEPT ![g] =
                                [rec |-> r, ver |-> client[c].ver, job |-> j]]
            /\ stored' = (stored \ StoredOf(r)) \cup {g}
            /\ pointIds' = pointIds \ StoredOf(r)
            /\ job' = [job EXCEPT ![j] = NewJob(r, "later")]
            /\ client' = [client EXCEPT ![c].pc = "deleteVectors",
                                        ![c].set = g, ![c].job = j]
       \/ /\ "db" \in Faults \/ ~Exists(r) \/ Contended(c)
          /\ Throw(c)
          /\ UNCHANGED <<chunkSet, stored, pointIds, job>>
    /\ UNCHANGED <<record, points, sweeper, crashes>>

\* Mutant: a refresh does not delete the points of the chunks it replaced.
DeleteVectorsSkipped(c) ==
    /\ client[c].pc = "deleteVectors"
    /\ Proceed(c, "upsert")
    /\ UNCHANGED <<stores, sweeper, crashes>>

\* vectorIndex.deleteByRecordIds: by payload, whatever chunk it came from.
DeleteVectors(c) ==
    /\ client[c].pc = "deleteVectors"
    /\ \E ok \in BOOLEAN :
        /\ VectorCall(points \ SetsOf(client[c].rec), ok)
        /\ IF ok THEN Proceed(c, "upsert") ELSE Throw(c)
    /\ UNCHANGED <<rows, sweeper, crashes>>

Upsert(c) ==
    /\ client[c].pc = "upsert"
    /\ \E ok \in BOOLEAN :
        /\ VectorCall(points \cup {client[c].set}, ok)
        /\ IF ok THEN Proceed(c, "pointIds") ELSE Throw(c)
    /\ UNCHANGED <<rows, sweeper, crashes>>

\* updatePointIds: UPDATE ... WHERE id: rows that are gone are not an error.
UpdatePointIds(c) ==
    /\ client[c].pc = "pointIds"
    /\ \/ /\ pointIds' = pointIds \cup ({client[c].set} \cap stored)
          /\ Proceed(c, "markQdrant")
       \/ /\ "db" \in Faults
          /\ Throw(c)
          /\ UNCHANGED pointIds
    /\ UNCHANGED <<record, chunkSet, stored, points, job, sweeper, crashes>>

MarkQdrantCompleted(c) ==
    /\ client[c].pc = "markQdrant"
    /\ \/ /\ Present(client[c].job)
          /\ SetQdrantCompleted(client[c].job)
          /\ Proceed(c, "markDone")
       \/ /\ "db" \in Faults \/ ~Present(client[c].job)
          /\ Throw(c)
          /\ UNCHANGED job
    /\ UNCHANGED <<record, chunkSet, stored, pointIds, points, sweeper, crashes>>

\* markCompleted, after which the handler reports success.
MarkCompleted(c) ==
    /\ client[c].pc = "markDone"
    /\ \/ /\ Present(client[c].job)
          /\ job' = [job EXCEPT ![client[c].job].status = "completed"]
          /\ Proceed(c, "idle")
       \/ /\ "db" \in Faults \/ ~Present(client[c].job)
          /\ Throw(c)
          /\ UNCHANGED job
    /\ UNCHANGED <<record, chunkSet, stored, pointIds, points, sweeper, crashes>>

(***************************************************************************)
(* The catch blocks.  Both delete the points they upserted, if they can;   *)
(* a write then erases its record, a refresh arms its job again.           *)
(***************************************************************************)
DeleteOwnPoints(c) ==
    /\ client[c].pc \in {"undo", "rollback"}
    /\ \E ok \in BOOLEAN : VectorCall(points \ {client[c].set}, ok)
    /\ Proceed(c, IF client[c].pc = "undo" THEN "mark" ELSE "erase")
    /\ UNCHANGED <<rows, sweeper, crashes>>

MarkRetry(c) ==
    /\ client[c].pc = "mark"
    /\ \/ Present(client[c].job) /\ SetQdrantPending(client[c].job, 0)
       \/ ("db" \in Faults \/ ~Present(client[c].job)) /\ UNCHANGED job
    /\ Proceed(c, "idle")
    /\ UNCHANGED <<record, chunkSet, stored, pointIds, points, sweeper, crashes>>

\* Mutant: memory_chunks has no ON DELETE CASCADE.
EraseRecordOnly(c) ==
    LET r == client[c].rec IN
    /\ client[c].pc = "erase"
    /\ record' = [record EXCEPT ![r].state = "gone"]
    /\ Proceed(c, "idle")
    /\ UNCHANGED <<chunkSet, stored, pointIds, points, job, sweeper, crashes>>

\* deleteMemoryRecord: ON DELETE CASCADE takes the chunks and the jobs along.
EraseRecord(c) ==
    LET r == client[c].rec IN
    /\ client[c].pc = "erase"
    /\ \/ /\ record' = [record EXCEPT ![r].state = "gone"]
          /\ stored' = stored \ StoredOf(r)
          /\ pointIds' = pointIds \ StoredOf(r)
          /\ job' = [j \in Ids |-> IF job[j].rec = r
                                   THEN [job[j] EXCEPT !.q = "absent"] ELSE job[j]]
       \/ "db" \in Faults /\ UNCHANGED <<record, stored, pointIds, job>>
    /\ Proceed(c, "idle")
    /\ UNCHANGED <<chunkSet, points, sweeper, crashes>>

(***************************************************************************)
(* delete_memory: archiveMemoryRecord sets durability to 'archived' and    *)
(* returns the point ids the chunk rows hold at that instant; the handler  *)
(* then deletes those points and reports success either way.               *)
(***************************************************************************)
ArchiveRecord(c, r) ==
    LET held == StoredOf(r) \cap pointIds IN
    /\ "delete" \in Ops
    /\ client[c].pc = "idle"
    /\ Exists(r)
    /\ record' = [record EXCEPT ![r].state = "archived"]
    /\ \/ held = {} /\ UNCHANGED client
       \/ \E g \in held :
            client' = [client EXCEPT ![c] = [IdleClient EXCEPT
                         !.pc = "deletePoints", !.op = "delete", !.rec = r, !.set = g]]
    /\ UNCHANGED <<chunkSet, stored, pointIds, points, job, sweeper, crashes>>

DeletePoints(c) ==
    /\ client[c].pc = "deletePoints"
    /\ \E ok \in BOOLEAN : VectorCall(points \ {client[c].set}, ok)
    /\ Proceed(c, "idle")
    /\ UNCHANGED <<rows, sweeper, crashes>>

ClientStep(c) ==
    \/ CreateJob(c) \/ InsertChunks(c) \/ WriteAhead(c)
    \/ CommitUpdate(c) \/ Embed(c) \/ ReplaceChunks(c)
    \/ DeleteVectors(c) \/ Upsert(c) \/ UpdatePointIds(c)
    \/ MarkQdrantCompleted(c) \/ MarkCompleted(c)
    \/ DeleteOwnPoints(c) \/ MarkRetry(c) \/ EraseRecord(c)
    \/ DeletePoints(c)

ClientStart(c, r) == AddMemory(c, r) \/ ReadForUpdate(c, r) \/ ArchiveRecord(c, r)

-----------------------------------------------------------------------------
(***************************************************************************)
(* Ingest sweepers.                                                        *)
(***************************************************************************)
Due == {j \in Ids : job[j].q = "pending" /\ job[j].retry = "due"}

(***************************************************************************)
(* claimPendingForRetry: one UPDATE pushes the retry time of up to         *)
(* SweepBatch due jobs (SKIP LOCKED: any of them) past the visibility      *)
(* timeout and returns them with the attempts they have now.               *)
(***************************************************************************)
Claim(s) ==
    /\ sweeper[s].pc = "idle"
    /\ \E batch \in SUBSET Due :
        /\ batch # {} /\ Cardinality(batch) <= SweepBatch
        /\ job' = [j \in Ids |-> IF j \in batch
                                 THEN [job[j] EXCEPT !.retry = "later"] ELSE job[j]]
        /\ sweeper' = [sweeper EXCEPT ![s] =
                [IdleSweeper EXCEPT !.pc = "next", !.queue = batch,
                    !.tries = [j \in Ids |-> IF j \in batch THEN job[j].attempts ELSE 0]]]
    /\ UNCHANGED <<record, chunkSet, stored, pointIds, points, client, crashes>>

SweepTo(s, pc) == sweeper' = [sweeper EXCEPT ![s].pc = pc]

\* sweepOne is done with its job: on to the next one claimed, if any.
SweepNext(s) ==
    sweeper' = [sweeper EXCEPT ![s] =
        IF @.queue = {} THEN IdleSweeper
        ELSE [@ EXCEPT !.pc = "next", !.job = NoId, !.set = NoId]]

(***************************************************************************)
(* sweepOne starts with getChunksByRecordId; no chunks: nothing to index.  *)
(***************************************************************************)
LoadChunks(s, j) ==
    LET found == StoredOf(job[j].rec)
        load(pc, g) == sweeper' = [sweeper EXCEPT ![s].pc = pc, ![s].job = j,
                                       ![s].set = g, ![s].queue = @ \ {j}] IN
    /\ sweeper[s].pc = "next"
    /\ j \in sweeper[s].queue
    /\ \/ \E g \in found : load("embed", g)
       \/ found = {} /\ load("markQdrant", NoId)
       \/ "db" \in Faults /\ load("retry", NoId)
    /\ UNCHANGED <<stores, client, crashes>>

SweepEmbed(s) ==
    /\ sweeper[s].pc = "embed"
    /\ \/ SweepTo(s, "deleteVectors")
       \/ "embed" \in Faults /\ SweepTo(s, "retry")
    /\ UNCHANGED <<stores, client, crashes>>

\* Mutant: the sweeper does not delete the old points of the record.
SweepDeleteVectorsSkipped(s) ==
    /\ sweeper[s].pc = "deleteVectors"
    /\ SweepTo(s, "upsert")
    /\ UNCHANGED <<stores, client, crashes>>

SweepDeleteVectors(s) ==
    /\ sweeper[s].pc = "deleteVectors"
    /\ \E ok \in BOOLEAN :
        /\ VectorCall(points \ SetsOf(job[sweeper[s].job].rec), ok)
        /\ SweepTo(s, IF ok THEN "upsert" ELSE "retry")
    /\ UNCHANGED <<rows, client, crashes>>

SweepUpsert(s) ==
    /\ sweeper[s].pc = "upsert"
    /\ \E ok \in BOOLEAN :
        /\ VectorCall(points \cup {sweeper[s].set}, ok)
        /\ SweepTo(s, IF ok THEN "pointIds" ELSE "retry")
    /\ UNCHANGED <<rows, client, crashes>>

SweepPointIds(s) ==
    /\ sweeper[s].pc = "pointIds"
    /\ \/ /\ pointIds' = pointIds \cup ({sweeper[s].set} \cap stored)
          /\ SweepTo(s, "markQdrant")
       \/ /\ "db" \in Faults
          /\ SweepTo(s, "retry")
          /\ UNCHANGED pointIds
    /\ UNCHANGED <<record, chunkSet, stored, points, job, client, crashes>>

SweepMarkCompleted(s) ==
    /\ sweeper[s].pc = "markQdrant"
    /\ \/ /\ Present(sweeper[s].job)
          /\ SetQdrantCompleted(sweeper[s].job)
          /\ SweepNext(s)
       \/ /\ "db" \in Faults \/ ~Present(sweeper[s].job)
          /\ SweepTo(s, "retry")
          /\ UNCHANGED job
    /\ UNCHANGED <<record, chunkSet, stored, pointIds, points, client, crashes>>

(***************************************************************************)
(* sweepOne's catch: one attempt more than the claim returned; at the cap  *)
(* the job has failed for good, below it it is scheduled again.  When the  *)
(* mark throws it is only logged and the claim runs out by itself.         *)
(***************************************************************************)
\* Mutants: a failed pass is not counted; one pass too many.
AttemptNotCounted(s) == sweeper[s].tries[sweeper[s].job]
GivesUpLate(attempt) == attempt > MaxAttempts

Attempt(s) == sweeper[s].tries[sweeper[s].job] + 1
GivesUp(attempt) == attempt >= MaxAttempts

SweepRetry(s) ==
    LET j == sweeper[s].job IN
    /\ sweeper[s].pc = "retry"
    /\ \/ /\ Present(j)
          /\ IF GivesUp(Attempt(s)) THEN SetQdrantFailed(j, Attempt(s))
                                    ELSE SetQdrantPending(j, Attempt(s))
       \/ ("db" \in Faults \/ ~Present(j)) /\ UNCHANGED job
    /\ SweepNext(s)
    /\ UNCHANGED <<record, chunkSet, stored, pointIds, points, client, crashes>>

SweeperStep(s) ==
    \/ \E j \in Ids : LoadChunks(s, j)
    \/ SweepEmbed(s) \/ SweepDeleteVectors(s) \/ SweepUpsert(s)
    \/ SweepPointIds(s) \/ SweepMarkCompleted(s) \/ SweepRetry(s)

-----------------------------------------------------------------------------
(***************************************************************************)
(* The environment: a retry time is reached, a process stops with every    *)
(* local variable it had.                                                  *)
(***************************************************************************)
Elapse(j) ==
    /\ Present(j)
    /\ job[j].retry = "later"
    /\ job' = [job EXCEPT ![j].retry = "due"]
    /\ UNCHANGED <<record, chunkSet, stored, pointIds, points, client, sweeper, crashes>>

Crash ==
    /\ "crash" \in Faults
    /\ crashes < MaxCrashes
    /\ crashes' = crashes + 1
    /\ \/ \E c \in Clients :
            /\ client[c].pc # "idle"
            /\ Proceed(c, "idle")
            /\ UNCHANGED sweeper
       \/ \E s \in Sweepers :
            /\ sweeper[s].pc # "idle"
            /\ sweeper' = [sweeper EXCEPT ![s] = IdleSweeper]
            /\ UNCHANGED client
    /\ UNCHANGED stores

Next ==
    \/ \E c \in Clients, r \in Records : ClientStart(c, r)
    \/ \E c \in Clients : ClientStep(c)
    \/ \E s \in Sweepers : Claim(s) \/ SweeperStep(s)
    \/ \E j \in Ids : Elapse(j)
    \/ Crash

Spec == Init /\ [][Next]_vars

-----------------------------------------------------------------------------
(***************************************************************************)
(* Properties.                                                             *)
(***************************************************************************)
ClientsOn(r) == {c \in Clients : client[c].rec = r}
SweepersOn(r) == {s \in Sweepers :
    \E j \in sweeper[s].queue \cup ({sweeper[s].job} \cap Ids) : job[j].rec = r}
Idle(r) == ClientsOn(r) = {} /\ SweepersOn(r) = {}

Settled(r) == \A j \in JobsOf(r) : job[j].q = "completed"
Scheduled(j) == job[j].q = "pending" /\ job[j].retry # "null"
Acknowledged(r) == \E j \in JobsOf(r) : job[j].status = "completed"
InSync(r) == PointsOf(r) = StoredOf(r)

(***************************************************************************)
(* However requests, sweepers and crashes interleave, memory_chunks holds  *)
(* at most one chunk set of a record, and none of a record that is gone:   *)
(* what insertChunks, the replacing transaction and CASCADE add up to.     *)
(***************************************************************************)
OneChunkSetPerRecord ==
    /\ \A g, h \in stored : chunkSet[g].rec = chunkSet[h].rec => g = h
    /\ \A g \in stored : chunkSet[g].rec \in Records /\ Exists(chunkSet[g].rec)

(***************************************************************************)
(* The write-ahead: once a chunk set has points in the vector index, the   *)
(* job of the operation that stored it, if the row is still there, cannot  *)
(* be one that is pending with no retry scheduled, so a crash at any later *)
(* moment leaves the sweeper something to find.                            *)
(***************************************************************************)
WriteAheadOrder ==
    \A g \in points :
        LET j == chunkSet[g].job IN
        j \in Ids /\ job[j].q = "pending" => job[j].retry # "null"

(***************************************************************************)
(* runIngestSweep gives a job up after exactly MaxAttempts failed passes,  *)
(* however many sweepers hold copies of it: a job still pending is below   *)
(* the cap and one that failed is at it.                                   *)
(***************************************************************************)
GiveUpBound ==
    \A j \in Ids :
        /\ job[j].q = "pending" => job[j].attempts < MaxAttempts
        /\ job[j].q = "failed" => job[j].attempts = MaxAttempts

(***************************************************************************)
(* When no two operations overlap on one record, crashes and exceptions    *)
(* anywhere do not make an acknowledged record drift: if some operation on *)
(* it reported success and every ingest job says completed, the vector     *)
(* index holds the points of exactly the chunks in memory_chunks, and each *)
(* of those chunks knows its point id, which is how delete_memory finds it.*)
(***************************************************************************)
AcknowledgedIndexed ==
    \A r \in Records :
        record[r].state = "live" /\ Acknowledged(r) /\ Settled(r) =>
            InSync(r) /\ StoredOf(r) \subseteq pointIds

(***************************************************************************)
(* The sweepers keep their promise to every job with a retry scheduled: it *)
(* is eventually completed, given up, or its record erased.                *)
(***************************************************************************)
ScheduledJobSettles ==
    \A j \in Ids : Scheduled(j) ~> job[j].q \in {"completed", "failed", "absent"}

(***************************************************************************)
(* With the same proviso, a delete_memory whose vector call succeeds on a  *)
(* record that was fully indexed leaves no point of it behind, not only    *)
(* none of the chunk set it read the ids of.                               *)
(***************************************************************************)
DeleteLeavesNoPoints ==
    [][\A c \in Clients :
        LET r == client[c].rec IN
        client[c].pc = "deletePoints" /\ client'[c].pc = "idle" /\ points' # points
            /\ Acknowledged(r) /\ Settled(r)
        => SetsOf(r) \cap points' = {}]_vars

(***************************************************************************)
(* README.md, "No silent index drift": with nobody working on a live       *)
(* record and all its ingest jobs completed, its points are its chunks'.   *)
(***************************************************************************)
NoSilentDrift ==
    \A r \in Records :
        record[r].state = "live" /\ Idle(r) /\ JobsOf(r) # {} /\ Settled(r) => InSync(r)

-----------------------------------------------------------------------------
(***************************************************************************)
(* No two operations, requests or sweepers, overlap on one record.         *)
(***************************************************************************)
NoOverlap ==
    \A r \in Records :
        /\ \A c, d \in ClientsOn(r) : c = d
        /\ \A s, t \in SweepersOn(r) : s = t
        /\ ClientsOn(r) = {} \/ SweepersOn(r) = {}

SerialSpec == Init /\ [][Next /\ NoOverlap']_vars

(***************************************************************************)
(* A process that is not crashed goes on: an await returns or throws, the  *)
(* sweeper's timer fires again, time passes.  Strong fairness: Postgres    *)
(* does not refuse every mark of a failed attempt for ever.                *)
(***************************************************************************)
Fairness ==
    /\ \A c \in Clients : WF_vars(ClientStep(c))
    /\ \A s \in Sweepers : WF_vars(Claim(s) \/ SweeperStep(s))
    /\ \A s \in Sweepers : SF_vars(SweepRetry(s) /\ job' # job)
    /\ \A j \in Ids : WF_vars(Elapse(j))

FairSpec == Spec /\ Fairness

=============================================================================
