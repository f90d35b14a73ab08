------------------------------ MODULE Records ------------------------------
(***************************************************************************)
(* The canonical record repository (store/memory-repository.ts): sources,  *)
(* records, tags, and the entity graph kept beside each record, written by *)
(* transactions of several statements at Postgres' READ COMMITTED level.   *)
(*                                                                         *)
(* A transaction holds what it has written in "tx" and its row locks in    *)
(* "held"; others see its rows at Commit. Its first SELECT takes no lock,  *)
(* so what it read may be stale when it writes. An INSERT .. ON CONFLICT   *)
(* of several entities locks their keys one after the other, in the order  *)
(* of the text's mentions: two transactions can wait on each other, and    *)
(* Postgres then aborts one. A client makes one call, fixed at the start.  *)
(***************************************************************************)
EXTENDS Integers, FiniteSets, SequencesExt, Sorting

CONSTANTS
    Clients,
    Workloads,          \* which calls are made together: sets of functions from clients to calls
    Stored,             \* the rows of memory_records at the start
    StoredSources,      \* the rows of sources at the start
    EntitiesOf,         \* text -> the entities in it, in order
    FoundBy,            \* entity -> the pattern that finds it
    ValidDates,         \* the date entities that parse as a day
    MaxMentions, MaxRelationships,
    Keep,               \* a field the call does not name
    NoRow,
    Faults              \* "db": a statement may fail

\* A row of memory_records with its tags and its entity graph.
RowFields == {"text", "durability", "tags", "scope", "source", "version",
              "mentions", "relationships"}
IsRow(row) == DOMAIN row = RowFields /\ row.version \in Nat

ASSUME RecordsAssumption ==
    /\ \A calls \in Workloads : DOMAIN calls = Clients
    /\ Stored \in Seq(ToSet(Stored))
    /\ \A i \in DOMAIN Stored : IsRow(Stored[i])

\* The patterns in their order; the ones of a day and of a month find dates.
PatternOrder ==
    [url |-> 1, path |-> 2, code_symbol |-> 3, day |-> 4, month |-> 5, proper_noun |-> 6]
KindOf(e) == IF FoundBy[e] \in {"day", "month"} THEN "date" ELSE FoundBy[e]

VARIABLES
    records,    \* id -> row, or NoRow once deleted
    sources,    \* id -> [key, title, uri]
    entities,   \* the keys of the entities table
    call,       \* client -> its call
    pc,         \* client -> ready, source, update, entities, committed, missing, failed, ...
    tx,         \* client -> what its transaction has read and is about to commit
    held        \* client -> the rows its transaction has locked

repository == <<records, sources, entities, call, pc, tx, held>>

Ids == {i \in DOMAIN records : records[i] # NoRow}
NoTx == [read |-> NoRow, source |-> 0, uri |-> Keep, row |-> NoRow, next |-> NoRow, want |-> <<>>]

RecordOf(c) == <<"memory", call[c].id>>
SourceOf(c) == <<"source", tx[c].source>>
EntityOf(e) == <<"entity", e>>

Given(new, old) == IF new = Keep THEN old ELSE new

-----------------------------------------------------------------------------
(* The entity graph of a record *)

\* A text's first place with an entity in it.
Lowest(S) == CHOOSE i \in S : \A j \in S : i <= j
Place(text, e) == Lowest({i \in DOMAIN text : text[i] = e})

\* One pass over the text per pattern; a later match of a known key is dropped.
FoundSooner(text, e, f) ==
    \/ PatternOrder[FoundBy[e]] < PatternOrder[FoundBy[f]]
    \/ FoundBy[e] = FoundBy[f] /\ Place(text, e) < Place(text, f)

ExtractEntityMentions(text) == SortedBy(ToSet(text), LAMBDA e, f : FoundSooner(text, e, f))

Texts == DOMAIN EntitiesOf

\* The text entities are looked for in: the record's own, then its source's.
ExtractionText(text, title, uri) == EntitiesOf[text] \o EntitiesOf[title] \o EntitiesOf[uri]

Capped(s, max) == SubSeq(s, 1, IF Len(s) < max THEN Len(s) ELSE max)

Mentions ==
    [text \in Texts |-> [title \in Texts |-> [uri \in Texts |->
        Capped(ExtractEntityMentions(ExtractionText(text, title, uri)), MaxMentions)]]]
MentionsOf(text, source) == Mentions[text][source.title][source.uri]

IsDate(e) == KindOf(e) = "date"

\* co_mentions between any two, then every date with every other; an end's
\* place is by entity id in the code, and is left out.
RelationshipsOf(mentions) ==
    LET named == {i \in DOMAIN mentions : ~IsDate(mentions[i])}
        dates == {i \in DOMAIN mentions : IsDate(mentions[i]) /\ mentions[i] \in ValidDates}
        pairs == {p \in named \X named : p[1] < p[2]} \cup (dates \X named)
        type(p) == IF p[1] \in dates THEN "temporal_context" ELSE "co_mentions"
        before(p) == {q \in pairs :
                         \/ q[1] \in named /\ p[1] \in dates
                         \/ type(q) = type(p) /\ (q[1] < p[1] \/ (q[1] = p[1] /\ q[2] < p[2]))}
    IN  {[ends |-> {mentions[p[1]], mentions[p[2]]}, type |-> type(p)] :
            p \in {q \in pairs : Cardinality(before(q)) < MaxRelationships}}

Relationships ==
    [mentions \in {Mentions[text][title][uri] : text, title, uri \in Texts} |->
        RelationshipsOf(mentions)]

\* Mutant: the graph of the row before is not deleted.
WithGraphAdded(row, mentions) ==
    [row EXCEPT !.mentions = @ \cup ToSet(mentions), !.relationships = @ \cup Relationships[mentions]]

\* deletePostgresEntityGraphForMemory, then persistPostgresEntityGraph.
WithGraph(row, mentions) ==
    [row EXCEPT !.mentions = ToSet(mentions), !.relationships = Relationships[mentions]]

-----------------------------------------------------------------------------
(* What there is to find, what is asked and what is stored *)

IsSource(s) == DOMAIN s = {"key", "title", "uri"} /\ s.title \in Texts /\ s.uri \in Texts

\* A pattern finds every entity; the caps are numbers.
ASSUME GraphAssumption ==
    /\ \A text \in Texts : EntitiesOf[text] \in Seq(DOMAIN FoundBy)
    /\ \A e \in DOMAIN FoundBy : FoundBy[e] \in DOMAIN PatternOrder
    /\ MaxMentions \in Nat /\ MaxRelationships \in Nat

\* The texts of a call are of those that are searched.
ASSUME CallsAssumption ==
    \A calls \in Workloads : \A c \in Clients :
        /\ calls[c].op = "add" =>
            /\ {"op", "text", "title", "uri"} \subseteq DOMAIN calls[c]
            /\ {calls[c].text, calls[c].title, calls[c].uri} \subseteq Texts
        /\ calls[c].op = "update" => calls[c].text \in Texts \cup {Keep}

\* restoreToCanonical inserts a row and nothing of its graph.
HasNoGraph(row) == row.mentions = {} /\ row.relationships = {}

\* The rows at the start were written by this repository, or restored from the
\* archive.
ASSUME StoredAssumption ==
    /\ StoredSources \in Seq(ToSet(StoredSources))
    /\ \A s \in ToSet(StoredSources) : IsSource(s)
    /\ \A i \in DOMAIN Stored :
        /\ Stored[i].text \in Texts /\ Stored[i].source \in DOMAIN StoredSources
        /\ \/ HasNoGraph(Stored[i])
           \/ \E s \in ToSet(StoredSources) :
                Stored[i] = WithGraph(Stored[i], MentionsOf(Stored[i].text, s))

-----------------------------------------------------------------------------
(* Rows and locks *)

NewRow(c, source) ==
    [text |-> call[c].text, durability |-> Given(call[c].durability, "ephemeral"),
     tags |-> {}, scope |-> call[c].scope, source |-> source, version |-> 1,
     mentions |-> {}, relationships |-> {}]

\* Mutant: durability falls back to the default of an add.
UpdatedRowByDefault(c, current) ==
    [current EXCEPT !.text = Given(call[c].text, tx[c].read.text),
                    !.durability = Given(call[c].durability, "ephemeral"),
                    !.tags = Given(call[c].tags, current.tags),
                    !.version = @ + 1]

\* UPDATE memory_records writes every column: the call's value, or the one
\* read at the start. Tags are replaced when the call names them.
UpdatedRow(c, current) ==
    [current EXCEPT !.text = Given(call[c].text, tx[c].read.text),
                    !.durability = Given(call[c].durability, tx[c].read.durability),
                    !.tags = Given(call[c].tags, current.tags),
                    !.version = @ + 1]

Lockable(c, x) == \A d \in Clients \ {c} : x \notin held[d]

\* What a client's next statement must lock.
Needs(c) ==
    CASE pc[c] = "source" /\ tx[c].source # 0 -> {SourceOf(c)}
      [] pc[c] = "update" -> {RecordOf(c)}
      [] pc[c] = "ready" /\ call[c].op = "delete" -> {RecordOf(c)}
      [] pc[c] = "entities" /\ tx[c].want # <<>> -> {EntityOf(Head(tx[c].want))}
      [] OTHER -> {}

WaitsFor(c, d) == c # d /\ Needs(c) \cap held[d] # {}

Deadlocked(c) ==
    \E ring \in SUBSET Clients :
        /\ c \in ring
        /\ \A d \in ring : \E e \in ring : WaitsFor(d, e)

\* Mutant: the client goes back to the pool inside its transaction.
AbortKeepsLocks(c) ==
    /\ pc' = [pc EXCEPT ![c] = "failed"]
    /\ UNCHANGED <<records, sources, entities, call, tx, held>>

\* catch: ROLLBACK, which gives the locks back; finally: release the client.
Abort(c) ==
    /\ tx' = [tx EXCEPT ![c] = NoTx]
    /\ held' = [held EXCEPT ![c] = {}]
    /\ pc' = [pc EXCEPT ![c] = "failed"]
    /\ UNCHANGED <<records, sources, entities, call>>

-----------------------------------------------------------------------------
(* addMemory *)

SourcesWithKey(key) == {i \in DOMAIN sources : sources[i].key = key}

\* BEGIN; SELECT .. FROM sources .. ORDER BY id LIMIT 1.
AddMemory(c) ==
    /\ pc[c] = "ready" /\ call[c].op = "add"
    /\ LET found == SourcesWithKey(call[c].key)
           id == IF found = {} THEN 0 ELSE Lowest(found)
       IN tx' = [tx EXCEPT ![c] = [NoTx EXCEPT
                    !.source = id,
                    !.uri = IF id = 0 THEN call[c].uri ELSE Given(call[c].uri, sources[id].uri)]]
    /\ pc' = [pc EXCEPT ![c] = "source"]
    /\ UNCHANGED <<records, sources, entities, call, held>>

\* UPDATE the source found, its title by COALESCE and its uri as read, or
\* INSERT one; INSERT the record and extract its entities.
WriteSource(c) ==
    /\ pc[c] = "source"
    /\ \A x \in Needs(c) : Lockable(c, x)
    /\ held' = [held EXCEPT ![c] = @ \cup Needs(c)]
    /\ LET id == tx[c].source
           row == IF id = 0
                  THEN [key |-> call[c].key, title |-> call[c].title, uri |-> tx[c].uri]
                  ELSE [sources[id] EXCEPT !.title = Given(call[c].title, @), !.uri = tx[c].uri]
           mentions == MentionsOf(call[c].text, row)
       IN tx' = [tx EXCEPT ![c] = [@ EXCEPT
                    !.row = row, !.next = WithGraph(NewRow(c, id), mentions), !.want = mentions]]
    /\ pc' = [pc EXCEPT ![c] = "entities"]
    /\ UNCHANGED <<records, sources, entities, call>>

-----------------------------------------------------------------------------
(* updateMemoryRecord *)

\* BEGIN; SELECT the row, its tags and its source, without a lock.
ReadForUpdate(c) ==
    /\ pc[c] = "ready" /\ call[c].op = "update"
    /\ IF call[c].id \in Ids
       THEN /\ tx' = [tx EXCEPT ![c] = [NoTx EXCEPT
                        !.read = records[call[c].id],
                        !.row = sources[records[call[c].id].source]]]
            /\ pc' = [pc EXCEPT ![c] = "update"]
       ELSE pc' = [pc EXCEPT ![c] = "missing"] /\ UNCHANGED tx
    /\ UNCHANGED <<records, sources, entities, call, held>>

\* UPDATE .. RETURNING waits for the row lock, then sees the newest row; the
\* tags, and the graph of what is returned and of the source as read.
UpdateRow(c) ==
    /\ pc[c] = "update"
    /\ Lockable(c, RecordOf(c))
    /\ IF call[c].id \in Ids
       THEN LET row == UpdatedRow(c, records[call[c].id])
                mentions == MentionsOf(row.text, tx[c].row)
            IN  /\ tx' = [tx EXCEPT ![c] = [@ EXCEPT
                            !.next = WithGraph(row, mentions), !.want = mentions]]
                /\ held' = [held EXCEPT ![c] = @ \cup {RecordOf(c)}]
                /\ pc' = [pc EXCEPT ![c] = "entities"]
                /\ UNCHANGED <<records, sources, entities, call>>
       ELSE Abort(c)

-----------------------------------------------------------------------------
(* The end of both transactions *)

\* INSERT INTO entities .. ON CONFLICT DO UPDATE takes the next key.
LockEntity(c) ==
    /\ pc[c] = "entities" /\ tx[c].want # <<>>
    /\ Lockable(c, EntityOf(Head(tx[c].want)))
    /\ held' = [held EXCEPT ![c] = @ \cup {EntityOf(Head(tx[c].want))}]
    /\ tx' = [tx EXCEPT ![c] = [tx[c] EXCEPT !.want = Tail(@)]]
    /\ UNCHANGED <<records, sources, entities, call, pc>>

Commit(c) ==
    /\ pc[c] = "entities" /\ tx[c].want = <<>>
    /\ entities' = entities \cup tx[c].next.mentions
    /\ IF call[c].op = "add"
       THEN LET new == tx[c].source = 0
                id == IF new THEN Len(sources) + 1 ELSE tx[c].source
            IN  /\ sources' = IF new THEN Append(sources, tx[c].row)
                                     ELSE [sources EXCEPT ![id] = tx[c].row]
                /\ records' = Append(records, [tx[c].next EXCEPT !.source = id])
                /\ call' = [call EXCEPT ![c] = [@ EXCEPT !.id = Len(records) + 1]]
       ELSE /\ records' = [records EXCEPT ![call[c].id] = tx[c].next]
            /\ UNCHANGED <<sources, call>>
    /\ tx' = [tx EXCEPT ![c] = [NoTx EXCEPT !.next = records'[call'[c].id]]]
    /\ held' = [held EXCEPT ![c] = {}]
    /\ pc' = [pc EXCEPT ![c] = "committed"]

\* A statement fails, on its own account.
StatementFails(c) ==
    /\ "db" \in Faults
    /\ pc[c] \in {"source", "update", "entities"}
    /\ Abort(c)

\* Postgres breaks a ring of waiting transactions: it aborts one of them.
BreakDeadlock(c) ==
    /\ Deadlocked(c)
    /\ Abort(c)

-----------------------------------------------------------------------------
(* archiveMemoryRecord and deleteMemoryRecord: a statement each *)

ArchiveRow(c) ==
    /\ pc[c] = "ready" /\ call[c].op = "delete"
    /\ Lockable(c, RecordOf(c))
    /\ IF call[c].id \in Ids
       THEN /\ records' = IF records[call[c].id].durability = "archived" THEN records
                          ELSE [records EXCEPT ![call[c].id] =
                            [records[call[c].id] EXCEPT !.durability = "archived", !.version = @ + 1]]
            /\ pc' = [pc EXCEPT ![c] = "committed"]
       ELSE pc' = [pc EXCEPT ![c] = "missing"] /\ UNCHANGED records
    /\ UNCHANGED <<sources, entities, call, tx, held>>

\* Tags, mentions and relationships go with the row (ON DELETE CASCADE).
EraseRow(c) ==
    /\ Lockable(c, RecordOf(c))
    /\ records' = [records EXCEPT ![call[c].id] = NoRow]
    /\ UNCHANGED <<sources, entities, call, tx, held>>

-----------------------------------------------------------------------------
RepositoryInit ==
    /\ records = Stored
    /\ sources = StoredSources
    /\ entities = UNION {Stored[i].mentions : i \in DOMAIN Stored}
    /\ call \in Workloads
    /\ pc = [c \in Clients |-> "ready"]
    /\ tx = [c \in Clients |-> NoTx]
    /\ held = [c \in Clients |-> {}]

\* The steps of a transaction, which touch nothing but the repository.
TransactionStep(c) ==
    \/ AddMemory(c) \/ WriteSource(c)
    \/ ReadForUpdate(c) \/ UpdateRow(c)
    \/ LockEntity(c) \/ Commit(c) \/ BreakDeadlock(c)

-----------------------------------------------------------------------------
(* What the repository promises *)

\* An update that has committed; a transaction keeps "next" from then on.
HasUpdated(c) == call[c].op = "update" /\ tx[c].next # NoRow /\ pc[c] # "entities"

\* A record that was restored without a graph, up to its first update.
RestoredBare(i) ==
    /\ i \in DOMAIN Stored /\ HasNoGraph(Stored[i]) /\ HasNoGraph(records[i])
    /\ \A c \in Clients : HasUpdated(c) => call[c].id # i

\* The graph of a record is that of its text and of a source title or uri it
\* has had: whatever writes overlapped, no mention of a replaced text stays
\* and none of the present one is missing, up to the cap on mentions. A record
\* restored from the archive is the exception: it has no graph at all until an
\* update of it commits, of whatever field, and from then on it is as the rest.
GraphMatchesRecord ==
    \A i \in {j \in Ids : ~RestoredBare(j)} :
        LET row == records[i]
            own == EntitiesOf[row.text]
            adds == {call[c] : c \in {d \in Clients : call[d].op = "add"}}
            lent == UNION {ToSet(EntitiesOf[s.title]) \cup ToSet(EntitiesOf[s.uri]) :
                              s \in adds \cup ToSet(StoredSources)}
        IN  /\ row.mentions \ lent \subseteq ToSet(own)
            /\ ToSet(own) \subseteq row.mentions \/ Cardinality(row.mentions) = MaxMentions
            /\ \A r \in row.relationships : r.ends \subseteq row.mentions
            /\ row.mentions \subseteq entities

\* An update that commits on the row it has read changes only what the call
\* names; tags, which it does not write back, stay in any case. A row that
\* changed in between may get its old text or durability back.
UpdatesOnlyWhatItNames ==
    [][\A c \in Clients :
        (call[c].op = "update" /\ pc[c] = "entities" /\ pc'[c] = "committed") =>
            LET old == records[call[c].id]
                new == records'[call[c].id]
                fresh == tx[c].read.version = old.version
            IN  /\ call[c].tags = Keep => new.tags = old.tags
                /\ fresh /\ call[c].text = Keep => new.text = old.text
                /\ fresh /\ call[c].durability = Keep => new.durability = old.durability
                /\ new.source = old.source /\ new.scope = old.scope]_repository

=============================================================================
