------------------------------ MODULE Reindex ------------------------------
(***************************************************************************)
(* Records with their chunks and vectors, and reindex_memory over them     *)
(* (store/canonical-indexing.ts, mcp/tool-handlers.ts,                     *)
(* store/tool-handlers.ts). A reindex reads memory_chunks by pages, twice: *)
(* it first deletes the vectors of every record it meets, then embeds and  *)
(* upserts what it lists the second time. Writes, updates and deletes run  *)
(* meanwhile. The retries of the ingest sweeper are in CanonicalIndex;     *)
(* here a job left pending is what a retry would start from. And           *)
(* inspect_memory_graph, which reads the graph in two statements.          *)
(***************************************************************************)
EXTENDS Records, Chunking

CONSTANTS
    TokensOf,   \* text -> its number of tokens
    BatchSize   \* chunks on a page of a reindex

\* inspect_memory_graph's limits are numbers.
ASSUME InspectAssumption ==
    \A calls \in Workloads : \A c \in Clients :
        calls[c].op = "inspect" => calls[c].limit \in Nat /\ calls[c].relationshipLimit \in Nat

\* Content is not blank (nonBlankTextInputSchema), so that it has a token;
\* finitely many calls are made together, a call that adds has a place for the
\* id it is given, and a page has a chunk.
ASSUME IndexAssumption ==
    /\ IsFiniteSet(Clients) /\ BatchSize \in Nat \ {0}
    /\ \A text \in DOMAIN TokensOf : TokensOf[text] \in Nat \ {0}
    /\ \A i \in DOMAIN Stored : Stored[i].text \in DOMAIN TokensOf
    /\ \A calls \in Workloads : \A c \in Clients :
        /\ calls[c].op = "add" => calls[c].text \in DOMAIN TokensOf /\ "id" \in DOMAIN calls[c]
        /\ calls[c].op = "update" => calls[c].text \in DOMAIN TokensOf \cup {Keep}

VARIABLES
    chunks,     \* memory_chunks: [id, record, span, pointed], pointed once qdrant_point_id is set
    points,     \* the vector index: [chunk, record]
    jobs,       \* ingest jobs not completed: <<client, record>>
    work,       \* client -> [page, cursor]: the chunks it has in hand, a reindex's place
    view        \* client -> what inspect_memory_graph has found

index == <<chunks, points, jobs, work>>
vars == <<records, sources, entities, call, pc, tx, held, chunks, points, jobs, work, view>>

Ended == {"done", "missing", "failed"}
NoWork == [page |-> {}, cursor |-> 0]
NoView == [entities |-> {}, relationships |-> {}, rows |-> <<>>]

Goto(c, step) == pc' = [pc EXCEPT ![c] = step]
Holds(c, page, cursor) == work' = [work EXCEPT ![c] = [page |-> page, cursor |-> cursor]]

ChunksOfRecord(r) == {k \in chunks : k.record = r}
PointsOf(page) == {[chunk |-> k.id, record |-> k.record] : k \in page}
Greatest(S) == CHOOSE i \in S : \A j \in S : j <= i
LastChunkId == Greatest({0} \cup {k.id : k \in chunks} \cup {p.chunk : p \in points}
                            \cup UNION {{k.id : k \in work[c].page} : c \in Clients})

ChunksOf == [text \in DOMAIN TokensOf |-> chunkText(TokensOf[text])]

\* insertChunks: one row per chunk of the text, with new ids.
Rows(r, text, lastId, pointed) ==
    {[id |-> lastId + n, record |-> r, span |-> ChunksOf[text][n], pointed |-> pointed] :
        n \in DOMAIN ChunksOf[text]}
NewChunks(r, text) == Rows(r, text, LastChunkId, FALSE)

DeletedByRecordIds(page) == {p \in points : \A k \in page : p.record # k.record}

-----------------------------------------------------------------------------
(* add_memory and update_memory, once their transaction has committed *)

\* UNIQUE (memory_record_id, chunk_index), and the foreign key to the record.
Insertable(c) == call[c].id \in Ids /\ ChunksOfRecord(call[c].id) = {}

\* writeCanonicalMemory: create the job, insert the chunks, then embed.
InsertChunks(c) ==
    /\ pc[c] = "committed" /\ call[c].op = "add" /\ Insertable(c)
    /\ LET new == NewChunks(call[c].id, tx[c].next.text)
       IN chunks' = chunks \cup new /\ Holds(c, new, 0)
    /\ jobs' = jobs \cup {<<c, call[c].id>>}
    /\ Goto(c, "upsert")
    /\ UNCHANGED <<records, sources, entities, call, tx, held, points>>

\* shouldRefreshMemoryIndex; the hydrated record is embedded before anything else.
Refreshes(c) ==
    call[c].op = "update" /\ \/ call[c].text # Keep
                             \/ call[c].durability # Keep
                             \/ call[c].tags # Keep

ReplaceChunks(c) ==
    /\ pc[c] = "committed" /\ Refreshes(c)
    /\ IF call[c].id \in Ids
       THEN LET new == NewChunks(call[c].id, tx[c].next.text)
            IN  /\ chunks' = (chunks \ ChunksOfRecord(call[c].id)) \cup new
                /\ Holds(c, new, 0)
                /\ jobs' = jobs \cup {<<c, call[c].id>>}
                /\ Goto(c, "clearOwn")
       ELSE Goto(c, "failed") /\ UNCHANGED <<chunks, work, jobs>>
    /\ UNCHANGED <<records, sources, entities, call, tx, held, points>>

ClearOwn(c) ==
    /\ pc[c] = "clearOwn"
    /\ points' = {p \in points : p.record # call[c].id}
    /\ Goto(c, "upsert")
    /\ UNCHANGED <<records, sources, entities, call, tx, held, chunks, jobs, work>>

\* update_memory of the title or importance only returns without a refresh.
SkipRefresh(c) ==
    /\ pc[c] = "committed" /\ call[c].op = "update" /\ ~Refreshes(c)
    /\ Goto(c, "done")
    /\ UNCHANGED <<records, sources, entities, call, tx, held, chunks, points, jobs, work>>

Upsert(c) ==
    /\ pc[c] = "upsert"
    /\ points' = points \cup PointsOf(work[c].page)
    /\ Goto(c, "pointIds")
    /\ UNCHANGED <<records, sources, entities, call, tx, held, chunks, jobs, work>>

\* UPDATE memory_chunks .. FROM (VALUES ..): rows that are gone are not missed.
Pointed(page) ==
    {[k EXCEPT !.pointed = @ \/ k.id \in {q.id : q \in page}] : k \in chunks}

UpdatePointIds(c) ==
    /\ pc[c] = "pointIds"
    /\ chunks' = Pointed(work[c].page)
    /\ jobs' = jobs \ {<<c, call[c].id>>}
    /\ Goto(c, "done")
    /\ UNCHANGED <<records, sources, entities, call, tx, held, points, work>>

\* A failure once the job exists: a refresh leaves it pending, without the
\* points it has just upserted; a write erases its record with everything.
IndexGivesUp(c) ==
    /\ points' = IF pc[c] = "pointIds" THEN points \ PointsOf(work[c].page) ELSE points
    /\ IF call[c].op = "add"
       THEN /\ EraseRow(c)
            /\ chunks' = chunks \ ChunksOfRecord(call[c].id)
            /\ jobs' = {j \in jobs : j[2] # call[c].id}
       ELSE UNCHANGED <<records, sources, entities, call, tx, held, chunks, jobs>>
    /\ Goto(c, "failed")
    /\ UNCHANGED work

IndexFails(c) ==
    /\ \/ pc[c] \in {"clearOwn", "upsert", "pointIds"}
       \/ pc[c] = "committed" /\ (call[c].op = "add" \/ Refreshes(c))
    /\ "vector" \in Faults
    /\ IndexGivesUp(c)

\* The insert of chunks fails of itself: the new record has gone meanwhile, or
\* has the chunks of another's refresh.
InsertRefused(c) ==
    /\ pc[c] = "committed" /\ call[c].op = "add" /\ ~Insertable(c)
    /\ IndexGivesUp(c)

-----------------------------------------------------------------------------
(* delete_memory *)

\* The statement that archives the row also returns its chunks' point ids.
ArchiveRecord(c) ==
    /\ ArchiveRow(c)
    /\ Holds(c, {k \in ChunksOfRecord(call[c].id) : k.pointed}, 0)
    /\ UNCHANGED <<chunks, points, jobs>>

DeletePoints(c) ==
    /\ pc[c] = "committed" /\ call[c].op = "delete"
    /\ points' = points \ PointsOf(work[c].page)
    /\ Goto(c, "done")
    /\ UNCHANGED <<records, sources, entities, call, tx, held, chunks, jobs, work>>

\* A vector store that fails leaves the points and answers "pending".
DeleteFails(c) ==
    /\ pc[c] = "committed" /\ call[c].op = "delete" /\ "vector" \in Faults
    /\ Goto(c, "done")
    /\ UNCHANGED <<records, sources, entities, call, tx, held, chunks, points, jobs, work>>

-----------------------------------------------------------------------------
(* reindex_memory *)

\* listChunks: the next page of the scopes' chunks, by id; archived records' too.
ListChunks(scopes, cursor) ==
    LET due == {k \in chunks : records[k.record].scope \in scopes /\ k.id > cursor}
        before(k) == {j \in due : j.id < k.id}
    IN  {k \in due : Cardinality(before(k)) < BatchSize}

NextCursor(page) == Greatest({k.id : k \in page})

\* A page that is not full is the last; the passes follow one another.
AfterPage(page, same, after) == IF Cardinality(page) < BatchSize THEN after ELSE same

ListToClear(c) ==
    /\ pc[c] = "ready" /\ call[c].op = "reindex"
    /\ LET page == ListChunks(call[c].scopes, work[c].cursor)
       IN IF page # {}
          THEN Holds(c, page, work[c].cursor) /\ Goto(c, "clear")
          ELSE /\ Goto(c, IF work[c].cursor = 0 THEN "done" ELSE "list")
               /\ Holds(c, {}, 0)
    /\ UNCHANGED <<records, sources, entities, call, tx, held, chunks, points, jobs>>

ClearPage(c) ==
    /\ pc[c] = "clear"
    /\ points' = DeletedByRecordIds(work[c].page)
    /\ LET step == AfterPage(work[c].page, "ready", "list")
       IN  /\ Goto(c, step)
           /\ Holds(c, {}, IF step = "list" THEN 0 ELSE NextCursor(work[c].page))
    /\ UNCHANGED <<records, sources, entities, call, tx, held, chunks, jobs>>

ListPage(c) ==
    /\ pc[c] = "list"
    /\ LET page == ListChunks(call[c].scopes, work[c].cursor)
       IN  /\ Goto(c, IF page = {} THEN "done" ELSE "upsertPage")
           /\ Holds(c, page, work[c].cursor)
    /\ UNCHANGED <<records, sources, entities, call, tx, held, chunks, points, jobs>>

\* Mutant: a page's records are cleared as it is reinserted.
ClearedAndReinserted(page) == DeletedByRecordIds(page) \cup PointsOf(page)

\* The page is embedded and upserted.
Reinserted(page) == points \cup PointsOf(page)

UpsertPage(c) ==
    /\ pc[c] = "upsertPage"
    /\ points' = Reinserted(work[c].page)
    /\ Goto(c, "pageIds")
    /\ UNCHANGED <<records, sources, entities, call, tx, held, chunks, jobs, work>>

UpdatePageIds(c) ==
    /\ pc[c] = "pageIds"
    /\ chunks' = Pointed(work[c].page)
    /\ Holds(c, {}, NextCursor(work[c].page))
    /\ Goto(c, AfterPage(work[c].page, "list", "done"))
    /\ UNCHANGED <<records, sources, entities, call, tx, held, points, jobs>>

\* Nothing catches a failure of a reindex: what it has cleared stays cleared.
ReindexFails(c) ==
    /\ pc[c] \in {"clear", "upsertPage", "pageIds"}
    /\ "vector" \in Faults
    /\ Goto(c, "failed")
    /\ UNCHANGED <<records, sources, entities, call, tx, held, chunks, points, jobs, work>>

-----------------------------------------------------------------------------
(* inspect_memory_graph *)

InScope(c) == {i \in Ids : records[i].scope = call[c].scope}
Wanted(c, row) == call[c].includeArchived \/ row.durability # "archived"
Shown(c) == {i \in InScope(c) : Wanted(c, records[i])}

\* ORDER BY mention_count, then by last_seen_at, which is any order here.
MostMentioned(found, limit) ==
    {top \in SUBSET found :
        /\ Cardinality(top) = IF Cardinality(found) < limit THEN Cardinality(found) ELSE limit
        /\ \A e \in top, f \in found \ top : Cardinality(e.memories) >= Cardinality(f.memories)}

\* The entities mentioned in the scope, of one kind if the call names one (a
\* query narrows them alike).
\* The rows are kept beside the answer, to say what it should have been.
InspectEntities(c) ==
    /\ pc[c] = "ready" /\ call[c].op = "inspect"
    /\ LET names == {e \in UNION {records[i].mentions : i \in Shown(c)} :
                        call[c].kind \in {Keep, KindOf(e)}}
           found == {[name |-> e, memories |-> {i \in Shown(c) : e \in records[i].mentions}] :
                        e \in names}
       IN \E top \in MostMentioned(found, call[c].limit) :
            /\ view' = [view EXCEPT ![c] = [entities |-> top, relationships |-> {},
                                           rows |-> [i \in InScope(c) |-> records[i]]]]
            /\ Goto(c, IF top = {} THEN "done" ELSE "inspect")

\* Mutant: the second statement has no archivedClause.
EvidenceOfAny(c) == InScope(c)

Evidence(c) == Shown(c)

\* The relationships that touch them, the newest first: any of them, when cut.
InspectRelationships(c) ==
    /\ pc[c] = "inspect"
    /\ LET names == {e.name : e \in view[c].entities}
           found == UNION {{[memory |-> i, ends |-> r.ends, type |-> r.type] :
                              r \in {q \in records[i].relationships : q.ends \cap names # {}}} :
                          i \in Evidence(c)}
           limit == call[c].relationshipLimit
           same == {i \in DOMAIN view[c].rows : view[c].rows[i] = records[i]}
       IN \E newest \in SUBSET found :
            /\ Cardinality(newest) = IF Cardinality(found) < limit THEN Cardinality(found) ELSE limit
            /\ view' = [view EXCEPT ![c] = [@ EXCEPT !.relationships = newest,
                                                   !.rows = [i \in same |-> view[c].rows[i]]]]
    /\ Goto(c, "done")

\* Either statement may fail.
InspectFails(c) ==
    /\ call[c].op = "inspect" /\ pc[c] \in {"ready", "inspect"}
    /\ "db" \in Faults
    /\ Goto(c, "failed")
    /\ UNCHANGED view

-----------------------------------------------------------------------------
Init ==
    /\ RepositoryInit
    /\ LET rows == UNION {Rows(i, Stored[i].text, 10 * i, TRUE) : i \in DOMAIN Stored}
       IN  chunks = rows /\ points = PointsOf(rows)
    /\ jobs = {}
    /\ work = [c \in Clients |-> NoWork]
    /\ view = [c \in Clients |-> NoView]

Transaction(c) == TransactionStep(c) /\ UNCHANGED index

\* What a call does when nothing it awaits is at fault.
IndexStep(c) ==
    \/ InsertChunks(c) \/ InsertRefused(c)
    \/ ReplaceChunks(c) \/ ClearOwn(c) \/ SkipRefresh(c)
    \/ Upsert(c) \/ UpdatePointIds(c)
    \/ ArchiveRecord(c) \/ DeletePoints(c)

ReindexStep(c) ==
    \/ ListToClear(c) \/ ClearPage(c)
    \/ ListPage(c) \/ UpsertPage(c) \/ UpdatePageIds(c)

InspectStep(c) == InspectEntities(c) \/ InspectRelationships(c)

\* What fails, of what a call awaits.
Fails(c) ==
    \/ StatementFails(c) /\ UNCHANGED index
    \/ IndexFails(c) \/ DeleteFails(c) \/ ReindexFails(c)

Step(c) ==
    \/ (Transaction(c) \/ IndexStep(c) \/ ReindexStep(c)) /\ UNCHANGED view
    \/ InspectStep(c) /\ UNCHANGED <<records, sources, entities, call, tx, held, index>>

Fault(c) ==
    \/ Fails(c) /\ UNCHANGED view
    \/ InspectFails(c) /\ UNCHANGED <<records, sources, entities, call, tx, held, index>>

Next == \E c \in Clients : Step(c) \/ Fault(c)

\* Fairness: a statement that no lock holds up is run, a vector call is answered,
\* and Postgres breaks a ring of transactions that wait for each other
\* (deadlock_timeout). The faults are left outside of it: a transaction that
\* waits need not fail, and goes on once the lock it waits for is free.
Spec == Init /\ [][Next]_vars /\ \A c \in Clients : WF_vars(Step(c))

-----------------------------------------------------------------------------
(* What holds *)

\* A client whose call reaches record r.
Concerns(c, r) ==
    IF call[c].op = "reindex" THEN records[r].scope \in call[c].scopes ELSE call[c].id = r

Indexed(k) == PointsOf({k}) \subseteq points
Covers(k, token) == token \in k.span.first..k.span.last

\* Whatever a reindex overlapped, and over however many pages a record's
\* chunks were, once all calls that concern a live record have ended, none
\* of its vectors is lost: each of its chunks is in the index, and each token
\* of its text in a chunk that is, unless a reindex of its scope failed, a
\* job is left to retry, or delete_memory was asked for. Two refreshes of one
\* record are left out, as they can lose vectors; and of two updates one can
\* bring back a text that the other one's chunks are not made of.
ReindexLosesNothing ==
    \A r \in Ids :
        LET concerned == {c \in Clients : Concerns(c, r)}
            updates == {c \in concerned : call[c].op = "update"}
        IN  (/\ \A c \in concerned : pc[c] \in Ended
             /\ \A c \in concerned : call[c].op = "reindex" => pc[c] # "failed"
             /\ \A c \in concerned : call[c].op # "delete" /\ <<c, r>> \notin jobs
             /\ \A c \in updates : Refreshes(c) => pc[c] # "failed")
            => /\ Cardinality({c \in updates : Refreshes(c)}) <= 1 =>
                    \A k \in ChunksOfRecord(r) : Indexed(k)
               /\ Cardinality(updates) <= 1 =>
                    \A token \in 1..TokensOf[records[r].text] :
                        \E k \in ChunksOfRecord(r) : Covers(k, token) /\ Indexed(k)

\* The answer of inspect_memory_graph hangs together, although its two
\* statements see the database at two moments: a relationship of a record that
\* did not change in between touches an entity listed with that record; and
\* unless a limit or a kind cut the answer, all of such a record's
\* relationships are there, and both of their ends, listed with it.
GraphViewHangsTogether ==
    \A c \in {d \in Clients : call[d].op = "inspect" /\ pc[d] = "done"} :
        LET seen == view[c]
            listed(e, i) == \E f \in seen.entities : f.name = e /\ i \in f.memories
            uncut == /\ call[c].kind = Keep
                     /\ Cardinality(seen.entities) < call[c].limit
                     /\ Cardinality(seen.relationships) < call[c].relationshipLimit
        IN  /\ \A r \in seen.relationships :
                r.memory \in DOMAIN seen.rows => \E e \in r.ends : listed(e, r.memory)
            /\ uncut => \A i \in {j \in DOMAIN seen.rows : Wanted(c, seen.rows[j])} :
                \A r \in seen.rows[i].relationships :
                    /\ [memory |-> i, ends |-> r.ends, type |-> r.type] \in seen.relationships
                    /\ \A e \in r.ends : listed(e, i)

\* Every call comes to its end, whichever rows its transaction has to wait for.
EveryCallSettles == \A c \in Clients : <>(pc[c] \in Ended)

=============================================================================
