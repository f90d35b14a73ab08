----------------------------- MODULE Compaction -----------------------------
(***************************************************************************)
(* compact_memory with dryRun=false, the vector cleanup outbox it leaves   *)
(* in memory_archive, the outbox sweepers that drain it and                *)
(* unarchive_memory, which takes records back out of the archive.  Every   *)
(* await is a step of its own.  One organization, one scope.               *)
(*                                                                         *)
(* A record id is used once, so a record is archived at most once and its  *)
(* archive row is named by the record's id; the row's copy of the content  *)
(* is what the record last held.  All the points of a record stand or fall *)
(* together: points holds the records that have theirs in the index.       *)
(***************************************************************************)
EXTENDS Naturals, FiniteSets, Sequences

CONSTANTS
    Seeds,        \* records there are to begin with
    MaxRecords,   \* bound: memory_records ids
    MaxRuns,      \* bound: compaction_runs ids
    MaxClock,     \* bound: updates begun and runs started
    MaxCrashes,   \* bound: process crashes in one behaviour
    Contents,     \* contents that normalizeContent tells apart
    Similar,      \* pairs of contents whose vectors reach the threshold
    Weights,      \* importances
    ListLimit,    \* records one listMemory returns
    MaxAttempts,  \* runOutboxSweep gives up after so many (5)
    SweepBatch,   \* archive rows one claim takes (100)
    Compactors, Sweepers, Unarchivers, Editors,
    Requests,     \* the archiveIds unarchive_memory is called with
    Faults        \* what may go wrong: see FaultKinds

(***************************************************************************)
(* "embed", "vector", "lostAck", "db" and "crash" as in CanonicalIndex,    *)
(* but a statement of a restore throws with "restore", and a step of       *)
(* compensateFailedRestore with "undo": both then did nothing.             *)
(***************************************************************************)
FaultKinds == {"embed", "vector", "lostAck", "db", "restore", "undo", "crash"}

Records == 1 .. MaxRecords
NoRecord == 0
Runs == 1 .. MaxRuns
NoRun == 0
MaxRecentRuns == 1    \* DEFAULT_APPLY_RATE_LIMIT: one an hour

ASSUME CompactionAssumption ==
    /\ MaxRecords \in Nat /\ MaxRuns \in Nat /\ MaxClock \in Nat /\ MaxCrashes \in Nat
    /\ Seeds \in 1 .. MaxRecords
    /\ Contents # {} /\ Similar \subseteq Contents \X Contents
    /\ Weights # {} /\ Weights \subseteq Nat
    /\ ListLimit \in Nat \ {0}
    /\ MaxAttempts \in Nat \ {0}
    /\ SweepBatch \in Nat \ {0}
    /\ Requests \subseteq Seq(Records) \ {<<>>}    \* an empty call returns at once
    /\ Faults \subseteq FaultKinds

VARIABLES
    record,      \* memory_records
    index,       \* the record's memory_chunks: none, rows, rows with point ids
    points,      \* the records with points in the vector index
    archive,     \* memory_archive
    run,         \* compaction_runs
    clock,       \* the instant the next timestamp is taken from
    compactor, sweeper, unarchiver, editor,
    crashes      \* crashes so far

vars == <<record, index, points, archive, run, clock,
          compactor, sweeper, unarchiver, editor, crashes>>
rows == <<record, index, archive, run>>
actors == <<compactor, sweeper, unarchiver, editor>>

\* from: the archive row a restored record was made from.
RecordState == [state : {"none", "live", "gone"}, content : Contents,
                weight : Weights, updatedAt : 0 .. MaxClock,
                from : Records \cup {NoRecord}]

(***************************************************************************)
(* q is qdrant_status and "absent" when there is no row; retry is what     *)
(* qdrant_next_retry_at and archived_at, which a claim wants to be more    *)
(* than 60 s ago, say together: never, not yet or now; kept is the         *)
(* kept_record_id of a duplicate and NoRecord for a decayed record.        *)
(***************************************************************************)
ArchiveState == [q : {"absent", "pending", "deleted", "failed"},
                 run : Runs \cup {NoRun}, kept : Records \cup {NoRecord},
                 hasPoints : BOOLEAN, attempts : Nat,
                 retry : {"null", "later", "due"}, unarchived : BOOLEAN]

RunState == [status : {"absent", "pending", "completed", "failed"},
             recent : BOOLEAN, archivedCount : Nat]

\* plan: the candidates still to archive.
Candidate == [rec : Records, kept : Records \cup {NoRecord}]

CompactorState == [pc : {"idle", "start", "limit", "create", "archive", "vacuous",
                         "delete", "markDeleted", "markPending", "fail"},
                   plan : SUBSET Candidate, planGeneratedAt : 0 .. MaxClock,
                   run : Runs \cup {NoRun}, rec : Records \cup {NoRecord},
                   count : Nat]

SweeperState == [pc : {"idle", "delete", "mark"}, todo : SUBSET Records,
                 failing : SUBSET Records, tries : [Records -> Nat]]

UnarchiverState == [pc : {"idle", "next", "insert", "embed", "upsert", "pointIds",
                          "mark", "undoPoints", "undoRecord"},
                    queue : Seq(Records), restorable : SUBSET Records,
                    arch : Records \cup {NoRecord}, rec : Records \cup {NoRecord},
                    upserted : BOOLEAN]

EditorState == [pc : {"idle", "commit"}, rec : Records \cup {NoRecord},
                stamp : 0 .. MaxClock]

NoArchive == [q |-> "absent", run |-> NoRun, kept |-> NoRecord, hasPoints |-> FALSE,
              attempts |-> 0, retry |-> "null", unarchived |-> FALSE]
IdleCompactor == [pc |-> "idle", plan |-> {}, planGeneratedAt |-> 0, run |-> NoRun,
                  rec |-> NoRecord, count |-> 0]
IdleSweeper == [pc |-> "idle", todo |-> {}, failing |-> {},
                tries |-> [r \in Records |-> 0]]
IdleUnarchiver == [pc |-> "idle", queue |-> <<>>, restorable |-> {},
                   arch |-> NoRecord, rec |-> NoRecord, upserted |-> FALSE]
IdleEditor == [pc |-> "idle", rec |-> NoRecord, stamp |-> 0]

(***************************************************************************)
(* Types of every variable, and the locals that are set when they are      *)
(* used.                                                                   *)
(***************************************************************************)
TypeOK ==
    /\ record \in [Records -> RecordState]
    /\ index \in [Records -> {"none", "rows", "ids"}]
    /\ points \in SUBSET Records
    /\ archive \in [Records -> ArchiveState]
    /\ run \in [Runs -> RunState]
    /\ clock \in 0 .. MaxClock
    /\ compactor \in [Compactors -> CompactorState]
    /\ sweeper \in [Sweepers -> SweeperState]
    /\ unarchiver \in [Unarchivers -> UnarchiverState]
    /\ editor \in [Editors -> EditorState]
    /\ crashes \in 0 .. MaxCrashes
    /\ \A r \in Records : index[r] # "none" => record[r].state = "live"
    /\ \A c \in Compactors :
        /\ compactor[c].pc \in {"vacuous", "delete", "markDeleted", "markPending"}
              => compactor[c].rec \in Records
        /\ compactor[c].pc \notin {"idle", "start", "limit", "create"}
              => compactor[c].run \in Runs
    /\ \A u \in Unarchivers :
        /\ unarchiver[u].pc # "idle" => unarchiver[u].queue # <<>>
        /\ unarchiver[u].pc \notin {"idle", "next"} =>
              unarchiver[u].arch \in Records /\ unarchiver[u].rec \in Records
    /\ \A e \in Editors : editor[e].pc # "idle" => editor[e].rec \in Records

\* Records as add_memory and the ingest sweepers leave them: indexed or not.
Init ==
    /\ \E content \in [1 .. Seeds -> Contents], weight \in [1 .. Seeds -> Weights],
          indexed \in SUBSET (1 .. Seeds) :
        /\ record = [r \in Records |->
            [state |-> IF r <= Seeds THEN "live" ELSE "none",
             content |-> content[IF r <= Seeds THEN r ELSE 1],
             weight |-> weight[IF r <= Seeds THEN r ELSE 1],
             updatedAt |-> 0, from |-> NoRecord]]
        /\ index = [r \in Records |-> IF r \in indexed THEN "ids" ELSE "none"]
        /\ points = indexed
    /\ archive = [r \in Records |-> NoArchive]
    /\ run = [u \in Runs |-> [status |-> "absent", recent |-> FALSE, archivedCount |-> 0]]
    /\ clock = 0
    /\ compactor = [c \in Compactors |-> IdleCompactor]
    /\ sweeper = [s \in Sweepers |-> IdleSweeper]
    /\ unarchiver = [u \in Unarchivers |-> IdleUnarchiver]
    /\ editor = [e \in Editors |-> IdleEditor]
    /\ crashes = 0

-----------------------------------------------------------------------------
Live == {r \in Records : record[r].state = "live"}
Archived == {r \in Records : archive[r].q # "absent"}

\* BIGSERIAL: the next id is the least one never used.
NextRecord(r) == {q \in Records : record[q].state # "none"} = 1 .. (r - 1)
NextRun(u) == {v \in Runs : run[v].status # "absent"} = 1 .. (u - 1)

\* Mutant: the pending mark does not write qdrant_next_retry_at.
MarkedUnscheduled(row, q) == [row EXCEPT !.q = q, !.attempts = @ + 1, !.retry = "null"]

(***************************************************************************)
(* markQdrantStatus: an attempt more, whatever the row says by now.        *)
(***************************************************************************)
Marked(row, q) ==
    [row EXCEPT !.q = q, !.attempts = @ + 1,
                !.retry = IF q = "pending" THEN "later" ELSE "null"]
MarkQdrantStatus(r, q) == archive' = [archive EXCEPT ![r] = Marked(@, q)]

\* ON DELETE CASCADE: the chunks of a deleted record.
Cascade(r) == [index EXCEPT ![r] = "none"]

VectorCall(result, ok) ==
    \/ ok /\ points' = result
    \/ ~ok /\ "vector" \in Faults /\ points' = points
    \/ ~ok /\ "lostAck" \in Faults /\ points' = result

-----------------------------------------------------------------------------
(***************************************************************************)
(* The plan.  listMemory returns the newest ListLimit records; of a group  *)
(* of duplicates the heaviest, then the oldest, is kept.                   *)
(***************************************************************************)
Listed == {r \in Live : Cardinality({q \in Live : q > r}) < ListLimit}

Outranks(r, q) ==
    record[r].weight > record[q].weight \/ (record[r].weight = record[q].weight /\ r <= q)

Keeper(group) == CHOOSE k \in group : \A r \in group : Outranks(k, r)

\* Mutant: the whole group is archived, the record to keep included.
ArchivedWithKeeper(groups) ==
    UNION {{[rec |-> r, kept |-> Keeper(g)] : r \in IF g = {Keeper(g)} THEN {} ELSE g} : g \in groups}

ArchivedOf(groups) ==
    UNION {{[rec |-> r, kept |-> Keeper(g)] : r \in g \ {Keeper(g)}} : g \in groups}

ExactGroups(listed) == {{q \in listed : record[q].content = record[r].content} : r \in listed}

(***************************************************************************)
(* findSemanticDuplicates: down the list, a record joins the first cluster *)
(* whose first record it is similar to, or starts one of its own.          *)
(***************************************************************************)
Joins(r, q) == r < q /\ <<record[r].content, record[q].content>> \in Similar

Representatives(listed) ==
    LET starts[r \in listed] == ~\E q \in listed : Joins(r, q) /\ starts[q] IN
    {r \in listed : starts[r]}

SemanticGroups(listed) ==
    LET first == Representatives(listed)
        joined(r, q) == Joins(r, q) /\ ~\E p \in first : p > q /\ Joins(r, p) IN
    {{q} \cup {r \in listed \ first : joined(r, q)} : q \in first}

\* Semantic groups replace the exact ones; without vectors there are none.
DuplicateGroups(listed) ==
    {ExactGroups(listed), SemanticGroups(listed)}
        \cup (IF "embed" \in Faults THEN {{}} ELSE {})

\* collectArchiveCandidates: a record that is both is archived as a duplicate.
CollectCandidates(groups, decayed) ==
    LET duplicates == ArchivedOf(groups) IN
    duplicates \cup
        {[rec |-> r, kept |-> NoRecord] : r \in decayed \ {e.rec : e \in duplicates}}

CompactTo(c, pc) == compactor' = [compactor EXCEPT ![c].pc = pc]
CompactEnd(c) == compactor' = [compactor EXCEPT ![c] = IdleCompactor]

(***************************************************************************)
(* compact_memory reads the scope's records.  The threshold, the half-life *)
(* and each record's age decide which have decayed: any of them may have.  *)
(***************************************************************************)
ListMemory(c) ==
    /\ compactor[c].pc = "idle"
    /\ \E groups \in DuplicateGroups(Listed), decayed \in SUBSET Listed :
        compactor' = [compactor EXCEPT ![c] =
            [IdleCompactor EXCEPT !.pc = "start", !.plan = CollectCandidates(groups, decayed)]]
    /\ UNCHANGED <<rows, points, clock, sweeper, unarchiver, editor, crashes>>

\* applyCompaction takes startedAt, only then plans; a dry run ends here.
StartCompaction(c) ==
    /\ compactor[c].pc = "start"
    /\ \/ /\ clock < MaxClock
          /\ clock' = clock + 1
          /\ compactor' = [compactor EXCEPT ![c] =
                [@ EXCEPT !.pc = "limit", !.planGeneratedAt = clock + 1]]
       \/ CompactEnd(c) /\ UNCHANGED clock
    /\ UNCHANGED <<rows, points, sweeper, unarchiver, editor, crashes>>

CountRecentApplyRuns(c) ==
    LET recent == Cardinality({u \in Runs : run[u].recent}) IN
    /\ compactor[c].pc = "limit"
    /\ \/ recent < MaxRecentRuns /\ CompactTo(c, "create")
       \/ (recent >= MaxRecentRuns \/ "db" \in Faults) /\ CompactEnd(c)
    /\ UNCHANGED <<rows, points, clock, sweeper, unarchiver, editor, crashes>>

\* The idempotency key is a fresh UUID: ON CONFLICT finds no row to replay.
CreateCompactionRun(c) ==
    /\ compactor[c].pc = "create"
    /\ \/ \E u \in Runs :
            /\ NextRun(u)
            /\ run' = [run EXCEPT ![u] =
                    [status |-> "pending", recent |-> TRUE, archivedCount |-> 0]]
            /\ compactor' = [compactor EXCEPT ![c] = [@ EXCEPT !.pc = "archive", !.run = u]]
       \/ "db" \in Faults /\ CompactEnd(c) /\ UNCHANGED run
    /\ UNCHANGED <<record, index, archive, points, clock, sweeper, unarchiver, editor, crashes>>

\* Mutant: archived records are not counted.
Uncounted(c) == compactor[c].count

Counted(c) == compactor[c].count + 1

Deletable(c, r) == r \in Live /\ record[r].updatedAt <= compactor[c].planGeneratedAt

(***************************************************************************)
(* applyCompactionRecord, one statement: the record, unless it is gone or  *)
(* was updated after startedAt, is deleted (its chunks with it) and an     *)
(* archive row takes its content and the point ids its chunks have.        *)
(***************************************************************************)
ApplyCompactionRecord(c) ==
    /\ compactor[c].pc = "archive"
    /\ \E e \in compactor[c].plan :
        LET r == e.rec
            held == index[r] = "ids" IN
        \/ /\ Deletable(c, r)
           /\ record' = [record EXCEPT ![r].state = "gone"]
           /\ index' = Cascade(r)
           /\ archive' = [archive EXCEPT ![r] =
                [NoArchive EXCEPT !.q = "pending", !.run = compactor[c].run, !.kept = e.kept,
                     !.hasPoints = held, !.retry = IF held THEN "later" ELSE "null"]]
           /\ compactor' = [compactor EXCEPT ![c] = [compactor[c] EXCEPT
                !.pc = IF held THEN "delete" ELSE "vacuous",
                !.rec = r, !.plan = @ \ {e}, !.count = Counted(c)]]
        \/ /\ ~Deletable(c, r)
           /\ compactor' = [compactor EXCEPT ![c].plan = @ \ {e}]
           /\ UNCHANGED <<record, index, archive>>
        \/ /\ "db" \in Faults
           /\ CompactTo(c, "fail")
           /\ UNCHANGED <<record, index, archive>>
    /\ UNCHANGED <<run, points, clock, sweeper, unarchiver, editor, crashes>>

\* No point ids: marked 'deleted' outside any try.
MarkVacuouslyDeleted(c) ==
    /\ compactor[c].pc = "vacuous"
    /\ \/ MarkQdrantStatus(compactor[c].rec, "deleted") /\ CompactTo(c, "archive")
       \/ "db" \in Faults /\ CompactEnd(c) /\ UNCHANGED archive
    /\ UNCHANGED <<record, index, run, points, clock, sweeper, unarchiver, editor, crashes>>

\* Mutant: the outcome of the vector call is not looked at.
CompactDeletePointsUnchecked(c) ==
    /\ compactor[c].pc = "delete"
    /\ \E ok \in BOOLEAN : VectorCall(points \ {compactor[c].rec}, ok)
    /\ CompactTo(c, "markDeleted")
    /\ UNCHANGED <<rows, clock, sweeper, unarchiver, editor, crashes>>

CompactDeletePoints(c) ==
    /\ compactor[c].pc = "delete"
    /\ \E ok \in BOOLEAN :
        /\ VectorCall(points \ {compactor[c].rec}, ok)
        /\ CompactTo(c, IF ok THEN "markDeleted" ELSE "markPending")
    /\ UNCHANGED <<rows, clock, sweeper, unarchiver, editor, crashes>>

MarkDeleted(c) ==
    /\ compactor[c].pc = "markDeleted"
    /\ \/ MarkQdrantStatus(compactor[c].rec, "deleted") /\ CompactTo(c, "archive")
       \/ "db" \in Faults /\ CompactTo(c, "markPending") /\ UNCHANGED archive
    /\ UNCHANGED <<record, index, run, points, clock, sweeper, unarchiver, editor, crashes>>

MarkPending(c) ==
    /\ compactor[c].pc = "markPending"
    /\ \/ MarkQdrantStatus(compactor[c].rec, "pending")
       \/ "db" \in Faults /\ UNCHANGED archive
    /\ CompactTo(c, "archive")
    /\ UNCHANGED <<record, index, run, points, clock, sweeper, unarchiver, editor, crashes>>

(***************************************************************************)
(* completeCompactionRun: with the count when every candidate was handled, *)
(* as failed with zero counts, best effort, when applyCompactionRecord     *)
(* threw.                                                                  *)
(***************************************************************************)
CompleteRun(c) ==
    LET outcome(status, count) ==
            run' = [run EXCEPT ![compactor[c].run] =
                        [@ EXCEPT !.status = status, !.archivedCount = count]] IN
    /\ \/ /\ compactor[c].pc = "archive" /\ compactor[c].plan = {}
          /\ outcome("completed", compactor[c].count)
       \/ compactor[c].pc = "fail" /\ outcome("failed", 0)
       \/ /\ compactor[c].pc = "fail" \/ (compactor[c].pc = "archive" /\ compactor[c].plan = {})
          /\ "db" \in Faults
          /\ UNCHANGED run
    /\ CompactEnd(c)
    /\ UNCHANGED <<record, index, archive, points, clock, sweeper, unarchiver, editor, crashes>>

CompactorStep(c) ==
    \/ StartCompaction(c) \/ CountRecentApplyRuns(c) \/ CreateCompactionRun(c)
    \/ ApplyCompactionRecord(c) \/ MarkVacuouslyDeleted(c) \/ CompactDeletePoints(c)
    \/ MarkDeleted(c) \/ MarkPending(c) \/ CompleteRun(c)

-----------------------------------------------------------------------------
(***************************************************************************)
(* Outbox sweepers.                                                        *)
(***************************************************************************)
Due == {r \in Records : /\ archive[r].q = "pending" /\ archive[r].hasPoints
                        /\ archive[r].retry = "due"}

\* claimPendingQdrantCleanup: the retry time moves past the visibility timeout.
ClaimCleanup(s) ==
    /\ sweeper[s].pc = "idle"
    /\ \E batch \in SUBSET Due :
        /\ batch # {} /\ Cardinality(batch) <= SweepBatch
        /\ archive' = [r \in Records |-> IF r \in batch
                         THEN [archive[r] EXCEPT !.retry = "later"] ELSE archive[r]]
        /\ sweeper' = [sweeper EXCEPT ![s] =
                [pc |-> "delete", todo |-> batch, failing |-> {},
                 tries |-> [r \in Records |-> IF r \in batch THEN archive[r].attempts ELSE 0]]]
    /\ UNCHANGED <<record, index, run, points, clock, compactor, unarchiver, editor, crashes>>

\* What sweepBatch has left to do; with nothing left the tick is over.
SweepWith(s, todo, failing) ==
    sweeper' = [sweeper EXCEPT ![s] =
        IF todo = {} /\ failing = {} THEN IdleSweeper
        ELSE [@ EXCEPT !.pc = "mark", !.todo = todo, !.failing = failing]]

\* One vector call for the whole batch: when it throws every row has failed.
SweepDeletePoints(s) ==
    LET batch == sweeper[s].todo IN
    /\ sweeper[s].pc = "delete"
    /\ \E ok \in BOOLEAN :
        /\ VectorCall(points \ batch, ok)
        /\ IF ok THEN SweepWith(s, batch, {}) ELSE SweepWith(s, {}, batch)
    /\ UNCHANGED <<rows, clock, compactor, unarchiver, editor, crashes>>

SweepMarkDeleted(s) ==
    /\ sweeper[s].pc = "mark" /\ sweeper[s].failing = {}
    /\ \E r \in sweeper[s].todo :
        \/ MarkQdrantStatus(r, "deleted") /\ SweepWith(s, sweeper[s].todo \ {r}, {})
        \/ /\ "db" \in Faults
           /\ SweepWith(s, sweeper[s].todo \ {r}, {r})
           /\ UNCHANGED archive
    /\ UNCHANGED <<record, index, run, points, clock, compactor, unarchiver, editor, crashes>>

\* Mutant: one attempt too few.
GivesUpEarly(s, r) == sweeper[s].tries[r] + 2 >= MaxAttempts

GivesUp(s, r) == sweeper[s].tries[r] + 1 >= MaxAttempts

\* markRowFailure, best effort; what the claim returned decides.
MarkRowFailure(s) ==
    /\ sweeper[s].pc = "mark"
    /\ \E r \in sweeper[s].failing :
        /\ \/ MarkQdrantStatus(r, IF GivesUp(s, r) THEN "failed" ELSE "pending")
           \/ "db" \in Faults /\ UNCHANGED archive
        /\ SweepWith(s, sweeper[s].todo, sweeper[s].failing \ {r})
    /\ UNCHANGED <<record, index, run, points, clock, compactor, unarchiver, editor, crashes>>

SweeperStep(s) == SweepDeletePoints(s) \/ SweepMarkDeleted(s) \/ MarkRowFailure(s)

-----------------------------------------------------------------------------
(***************************************************************************)
(* unarchive_memory.  The archive rows are looked up once, up front; the   *)
(* ids are then handled in the order, and as often as, they were given.    *)
(***************************************************************************)
FindArchiveByIds(u) ==
    /\ unarchiver[u].pc = "idle"
    /\ \E archiveIds \in Requests :
        unarchiver' = [unarchiver EXCEPT ![u] =
            [IdleUnarchiver EXCEPT !.pc = "next", !.queue = archiveIds,
                !.restorable = {a \in Archived : ~archive[a].unarchived}]]
    /\ UNCHANGED <<rows, points, clock, compactor, sweeper, editor, crashes>>

RestoreTo(u, pc) == unarchiver' = [unarchiver EXCEPT ![u].pc = pc]

\* On to the next id, if there is one.
RestoreNext(u) ==
    LET k == unarchiver[u]
        rest == Tail(k.queue) IN
    unarchiver' = [unarchiver EXCEPT ![u] =
        IF rest = <<>> THEN IdleUnarchiver
        ELSE [IdleUnarchiver EXCEPT !.pc = "next", !.queue = rest,
                                    !.restorable = k.restorable]]

\* The catch block: compensateFailedRestore, its first step only with points.
RestoreThrow(u) ==
    RestoreTo(u, IF unarchiver[u].upserted THEN "undoPoints" ELSE "undoRecord")

\* archive_not_found_or_org_mismatch or already_unarchived, at the lookup.
Skipped(u, a) == a \notin unarchiver[u].restorable

(***************************************************************************)
(* restoreToCanonical: a new id, the content and the timestamps of old.    *)
(***************************************************************************)
RestoreToCanonical(u) ==
    LET a == Head(unarchiver[u].queue) IN
    /\ unarchiver[u].pc = "next"
    /\ \/ Skipped(u, a) /\ RestoreNext(u) /\ UNCHANGED record
       \/ \E r \in Records :
            /\ ~Skipped(u, a)
            /\ NextRecord(r)
            /\ record' = [record EXCEPT ![r] = [record[a] EXCEPT !.state = "live", !.from = a]]
            /\ unarchiver' = [unarchiver EXCEPT ![u] =
                                [@ EXCEPT !.pc = "insert", !.arch = a, !.rec = r]]
       \/ ~Skipped(u, a) /\ "restore" \in Faults /\ RestoreNext(u) /\ UNCHANGED record
    /\ UNCHANGED <<index, archive, run, points, clock, compactor, sweeper, editor, crashes>>

\* Mutant: the chunk rows name their points before the points are there.
RestoreInsertChunksWithIds(u) ==
    LET r == unarchiver[u].rec IN
    /\ unarchiver[u].pc = "insert"
    /\ r \in Live
    /\ index' = [index EXCEPT ![r] = "ids"]
    /\ RestoreTo(u, "embed")
    /\ UNCHANGED <<record, archive, run, points, clock, compactor, sweeper, editor, crashes>>

RestoreInsertChunks(u) ==
    LET r == unarchiver[u].rec IN
    /\ unarchiver[u].pc = "insert"
    /\ \/ r \in Live /\ index' = [index EXCEPT ![r] = "rows"] /\ RestoreTo(u, "embed")
       \/ (r \notin Live \/ "restore" \in Faults) /\ RestoreThrow(u) /\ UNCHANGED index
    /\ UNCHANGED <<record, archive, run, points, clock, compactor, sweeper, editor, crashes>>

RestoreEmbed(u) ==
    /\ unarchiver[u].pc = "embed"
    /\ \/ RestoreTo(u, "upsert")
       \/ "embed" \in Faults /\ RestoreThrow(u)
    /\ UNCHANGED <<rows, points, clock, compactor, sweeper, editor, crashes>>

RestoreUpsert(u) ==
    /\ unarchiver[u].pc = "upsert"
    /\ \E ok \in BOOLEAN :
        /\ VectorCall(points \cup {unarchiver[u].rec}, ok)
        /\ IF ok THEN unarchiver' = [unarchiver EXCEPT ![u] =
                                        [@ EXCEPT !.pc = "pointIds", !.upserted = TRUE]]
                 ELSE RestoreThrow(u)
    /\ UNCHANGED <<rows, clock, compactor, sweeper, editor, crashes>>

\* Mutant: the point ids are not written to the chunk rows.
RestorePointIdsSkipped(u) ==
    /\ unarchiver[u].pc = "pointIds"
    /\ RestoreTo(u, "mark")
    /\ UNCHANGED <<rows, points, clock, compactor, sweeper, editor, crashes>>

RestorePointIds(u) ==
    LET r == unarchiver[u].rec IN
    /\ unarchiver[u].pc = "pointIds"
    /\ \/ /\ index' = [index EXCEPT ![r] = IF @ = "rows" THEN "ids" ELSE @]
          /\ RestoreTo(u, "mark")
       \/ "restore" \in Faults /\ RestoreThrow(u) /\ UNCHANGED index
    /\ UNCHANGED <<record, archive, run, points, clock, compactor, sweeper, editor, crashes>>

MarkUnarchived(u) ==
    /\ unarchiver[u].pc = "mark"
    /\ \/ /\ archive' = [archive EXCEPT ![unarchiver[u].arch].unarchived = TRUE]
          /\ RestoreNext(u)
       \/ "restore" \in Faults /\ RestoreThrow(u) /\ UNCHANGED archive
    /\ UNCHANGED <<record, index, run, points, clock, compactor, sweeper, editor, crashes>>

UndoPoints(u) ==
    /\ unarchiver[u].pc = "undoPoints"
    /\ points' = points \ {unarchiver[u].rec} \/ ("undo" \in Faults /\ points' = points)
    /\ RestoreTo(u, "undoRecord")
    /\ UNCHANGED <<rows, clock, compactor, sweeper, editor, crashes>>

\* Mutant: a failed restore keeps the record it made.
UndoRecordSkipped(u) ==
    /\ unarchiver[u].pc = "undoRecord"
    /\ RestoreNext(u)
    /\ UNCHANGED <<rows, points, clock, compactor, sweeper, editor, crashes>>

\* deleteRestoredCanonicalRecord: the chunks go with it.
UndoRecord(u) ==
    LET r == unarchiver[u].rec IN
    /\ unarchiver[u].pc = "undoRecord"
    /\ \/ /\ record' = [record EXCEPT ![r].state = "gone"]
          /\ index' = Cascade(r)
       \/ "undo" \in Faults /\ UNCHANGED <<record, index>>
    /\ RestoreNext(u)
    /\ UNCHANGED <<archive, run, points, clock, compactor, sweeper, editor, crashes>>

UnarchiverStep(u) ==
    \/ RestoreToCanonical(u) \/ RestoreInsertChunks(u) \/ RestoreEmbed(u)
    \/ RestoreUpsert(u) \/ RestorePointIds(u) \/ MarkUnarchived(u)
    \/ UndoPoints(u) \/ UndoRecord(u)

-----------------------------------------------------------------------------
(***************************************************************************)
(* update_memory, as far as memory_records goes (the refresh of the index  *)
(* that follows is CanonicalIndex's): updated_at is NOW(), the instant its *)
(* transaction began, and others see it when the transaction commits.      *)
(***************************************************************************)
BeginUpdate(e, r) ==
    /\ editor[e].pc = "idle"
    /\ r \in Live
    /\ clock < MaxClock
    /\ clock' = clock + 1
    /\ editor' = [editor EXCEPT ![e] = [pc |-> "commit", rec |-> r, stamp |-> clock + 1]]
    /\ UNCHANGED <<rows, points, compactor, sweeper, unarchiver, crashes>>

CommitUpdate(e) ==
    LET r == editor[e].rec IN
    /\ editor[e].pc = "commit"
    /\ \/ /\ r \in Live
          /\ \E content \in Contents, weight \in Weights :
                record' = [record EXCEPT ![r] =
                    [@ EXCEPT !.content = content, !.weight = weight,
                              !.updatedAt = editor[e].stamp]]
       \/ (r \notin Live \/ "db" \in Faults) /\ UNCHANGED record
    /\ editor' = [editor EXCEPT ![e] = IdleEditor]
    /\ UNCHANGED <<index, archive, run, points, clock, compactor, sweeper,
                   unarchiver, crashes>>

-----------------------------------------------------------------------------
(***************************************************************************)
(* Time passes; a process stops with every local variable it had.          *)
(***************************************************************************)
RetryTimeReached(r) ==
    /\ archive[r].retry = "later"
    /\ archive' = [archive EXCEPT ![r].retry = "due"]
    /\ UNCHANGED <<record, index, run, points, clock, actors, crashes>>

HourPasses(u) ==
    /\ run[u].recent
    /\ run' = [run EXCEPT ![u].recent = FALSE]
    /\ UNCHANGED <<record, index, archive, points, clock, actors, crashes>>

Crash ==
    /\ "crash" \in Faults
    /\ crashes < MaxCrashes
    /\ crashes' = crashes + 1
    /\ \/ \E c \in Compactors :
            /\ compactor[c].pc # "idle" /\ CompactEnd(c)
            /\ UNCHANGED <<sweeper, unarchiver>>
       \/ \E s \in Sweepers :
            /\ sweeper[s].pc # "idle"
            /\ sweeper' = [sweeper EXCEPT ![s] = IdleSweeper]
            /\ UNCHANGED <<compactor, unarchiver>>
       \/ \E u \in Unarchivers :
            /\ unarchiver[u].pc # "idle"
            /\ unarchiver' = [unarchiver EXCEPT ![u] = IdleUnarchiver]
            /\ UNCHANGED <<compactor, sweeper>>
    /\ UNCHANGED <<rows, points, clock, editor>>

Next ==
    \/ \E c \in Compactors : ListMemory(c) \/ CompactorStep(c)
    \/ \E s \in Sweepers : ClaimCleanup(s) \/ SweeperStep(s)
    \/ \E u \in Unarchivers : FindArchiveByIds(u) \/ UnarchiverStep(u)
    \/ \E e \in Editors : (\E r \in Records : BeginUpdate(e, r)) \/ CommitUpdate(e)
    \/ \E r \in Records : RetryTimeReached(r)
    \/ \E u \in Runs : HourPasses(u)
    \/ Crash

Spec == Init /\ [][Next]_vars

(***************************************************************************)
(* The sweepers' timers fire again and again and time passes.  Strong      *)
(* fairness: Postgres does not refuse every mark of a failed pass for ever.*)
(***************************************************************************)
Fairness ==
    /\ \A s \in Sweepers : WF_vars(ClaimCleanup(s) \/ SweeperStep(s))
    /\ \A s \in Sweepers : SF_vars(MarkRowFailure(s) /\ archive' # archive)
    /\ \A r \in Records : WF_vars(RetryTimeReached(r))

FairSpec == Spec /\ Fairness

-----------------------------------------------------------------------------
Restores(a) == {r \in Records : record[r].from = a}
RestoringIn(r) == \E u \in Unarchivers : unarchiver[u].rec = r

(***************************************************************************)
(* Whoever marked it, in whatever order runs, sweepers, their late marks   *)
(* and restores came: an archive row that listed point ids, or that of a   *)
(* record that is not itself a restored copy, is right when it says its    *)
(* points are deleted, now and ever after.  Left out are the rows that     *)
(* took a copy before its restore had written the point ids: they are      *)
(* marked deleted at once, and the restore upserts the points after that.  *)
(***************************************************************************)
DeletedHasNoPoints ==
    \A r \in Records :
        archive[r].q = "deleted" /\ (archive[r].hasPoints \/ record[r].from = NoRecord)
            => r \notin points

(***************************************************************************)
(* A sweeper gives a row up only after MaxAttempts attempts on it, its own *)
(* and those of other sweepers and of the run that archived it together.   *)
(***************************************************************************)
GivesUpAfterMaxAttempts ==
    \A r \in Records : archive[r].q = "failed" => archive[r].attempts >= MaxAttempts

(***************************************************************************)
(* The outbox drains: points an archive row lists are eventually deleted,  *)
(* or the row is eventually given up for an operator to look at.           *)
(***************************************************************************)
OutboxDrains ==
    \A r \in Records :
        archive[r].q = "pending" /\ archive[r].hasPoints ~> archive[r].q \in {"deleted", "failed"}

(***************************************************************************)
(* A run that says completed archived exactly as many records as it says,  *)
(* whatever was skipped, went wrong with their points or was restored.     *)
(***************************************************************************)
CompletedRunCountsItsRows ==
    \A u \in Runs :
        run[u].status = "completed" =>
            run[u].archivedCount = Cardinality({r \in Archived : archive[r].run = u})

(***************************************************************************)
(* With one run at a time, duplicates never consume each other: whichever  *)
(* records are archived as duplicates, over however many runs, one of them *)
(* was a duplicate of a record that is not among them.                     *)
(***************************************************************************)
KeptChainEnds ==
    \A S \in SUBSET {r \in Archived : archive[r].kept # NoRecord} :
        S # {} => \E r \in S : archive[r].kept \notin S

(***************************************************************************)
(* An archive row marked unarchived has a copy of its record that can be   *)
(* found: with chunks, their point ids and their points; or a later run    *)
(* has archived that copy in turn.                                         *)
(***************************************************************************)
UnarchivedHasSearchableCopy ==
    \A a \in Records :
        archive[a].unarchived =>
            \E r \in Restores(a) : r \in Archived \/ (index[r] = "ids" /\ r \in points)

(***************************************************************************)
(* A restore that failed leaves neither a record nor points, as long as    *)
(* the process and the compensation survive and no upsert that threw had   *)
(* taken effect: of such points the compensation does not know, since      *)
(* upsertedPointIds is set only after the call.                            *)
(***************************************************************************)
FailedRestoreLeavesNothing ==
    \A r \in Records :
        record[r].from # NoRecord /\ ~RestoringIn(r) /\ ~archive[record[r].from].unarchived
            => r \notin Live \cup points

=============================================================================
