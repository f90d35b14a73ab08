----------------------------- MODULE Retrieval -----------------------------
(***************************************************************************)
(* search_memory and build_context_pack (mcp/tool-handlers.ts) through     *)
(* retrieveMemory (search/retrieve-memory.ts), beside requests that change *)
(* what is searched. A search reads the shared stores four times: two      *)
(* vector queries and a lexical query of Postgres in no order              *)
(* (Promise.all), then the rows of the vector hits. Nothing holds them     *)
(* together: rows are edited and archived, points deleted and upserted,    *)
(* between any two of these reads.                                         *)
(*                                                                         *)
(* Left out: the bodies of the writers, which module CanonicalIndex models *)
(* (here each is one statement on a row or one call on the points), and    *)
(* the hooks by which tests replace the stores.                            *)
(***************************************************************************)
EXTENDS ContextPack

CONSTANTS
    Corpora,        \* the sets of rows a behaviour may start from
    Texts,          \* the texts a row may be edited to
    Requests,       \* [org, legacy, projectKey, userScopeId, limit, pack]
    NoUser,         \* a request with includeUser = false
    NoRow,
    Today,          \* updatedAt of a row edited during the behaviour
    MaxEdits,       \* bound on the writers' statements and calls
    Faults          \* "filter": a vector query is not filtered by organization,
                    \* "db", "vector": an await of the search throws

(* Content is not empty, so that it has a chunk. *)
IsText(text) ==
    /\ {text.version, text.terms, text.occurs, text.fts, text.entities} \subseteq Nat
    /\ text.of \in Nat \ {0}
    /\ text.chunks \in Seq(Int) \ {<<>>}

IsRow(row) ==
    /\ DOMAIN row = {"id", "org", "scopeType", "scopeId", "memoryType", "sourceType",
                     "updatedAt", "archived", "text"}
    /\ row.id \in Nat /\ row.updatedAt \in Nat /\ row.archived \in BOOLEAN
    /\ row.scopeType \in ScopeTypes /\ row.memoryType \in MemoryTypes
    /\ row.sourceType \in {"decision", "document", "conversation"}
    /\ IsText(row.text)

ASSUME RetrievalAssumption ==
    /\ Today \in Nat /\ MaxEdits \in Nat
    /\ \A q \in Requests : q.limit \in Nat
    /\ \A q \in Requests : Scale * 61 >= Unit * (61 + 4 * q.limit)   \* every rank counts
    /\ \A text \in Texts : IsText(text)
    /\ \A corpus \in Corpora :
        /\ IsFiniteSet(corpus)
        /\ \A r \in corpus : IsRow(r) /\ r.scopeId # NoUser
        /\ \A r, s \in corpus : r.id = s.id => r = s

VARIABLES
    rows,       \* memory_records, by id
    points,     \* the vector store
    edits,      \* how many statements and calls the writers made
    pc,         \* the search: idle, querying, hydrating, ranking, storing, done, failed
    request,    \* what it was asked
    waiting,    \* the queries of Promise.all it has no answer of
    projectHits, userHits, lexicalRecords, hydrated,    \* what it read
    result,     \* what it returns
    packRuns,   \* context_pack_runs
    current,    \* observed: every unarchived row there was since the search began
    touched     \* observed: the records written, or whose points were, since then

writes == <<rows, points, edits>>
reads == <<projectHits, userHits, lexicalRecords, hydrated>>
vars == <<writes, pc, request, waiting, reads, result, packRuns, current, touched>>

Ids == {r.id : r \in UNION Corpora}

Searching == pc \notin {"idle", "done", "failed"}
Live(row) == row # NoRow /\ ~ row.archived
LiveRows(table) == {table[i] : i \in {j \in DOMAIN table : Live(table[j])}}

PointsOf(row) == {BuildVectorPoint(row, k) : k \in DOMAIN row.text.chunks}

Init ==
    /\ \E corpus \in Corpora :
        /\ rows = [i \in Ids |-> IF \E r \in corpus : r.id = i
                                 THEN CHOOSE r \in corpus : r.id = i ELSE NoRow]
        /\ points = UNION {PointsOf(r) : r \in corpus}
    /\ edits = 0
    /\ pc = "idle"
    /\ request \in Requests
    /\ waiting = {}
    /\ projectHits = <<>> /\ userHits = <<>> /\ lexicalRecords = <<>> /\ hydrated = <<>>
    /\ result = <<>>
    /\ packRuns = {}
    /\ current = {}
    /\ touched = {}

-----------------------------------------------------------------------------
(* The search *)

(* assertRetrieveMemoryInput, and assertOrganizationId: no organization only
   where the operator allows it. *)
Acceptable(q) ==
    /\ q.projectKey # Blank /\ q.userScopeId # Blank /\ q.org # Blank
    /\ q.limit > 0
    /\ q.org = NoOrg => q.legacy

BeginSearch ==
    /\ pc = "idle"
    /\ IF ~ Acceptable(request)
       THEN pc' = "failed" /\ UNCHANGED <<waiting, current>>
       ELSE /\ pc' = "querying"
            /\ waiting' = {"project", "lexical"}
                            \cup (IF request.userScopeId = NoUser THEN {} ELSE {"user"})
            /\ current' = LiveRows(rows)
    /\ UNCHANGED <<writes, request, reads, result, packRuns, touched>>

(* The hydration does not ask for more than the filter of a query lets through. *)
FilterOrgs == {request.org} \cup (IF "filter" \in Faults THEN {NoOrg} ELSE {})

Answered(query) ==
    /\ pc = "querying" /\ query \in waiting
    /\ waiting' = waiting \ {query}
    /\ pc' = IF waiting' = {} THEN "hydrating" ELSE "querying"

(* queryScope, of the project and of the user. *)
QueryProject ==
    /\ Answered("project")
    /\ \E org \in FilterOrgs :
        projectHits' = Query(points,
            [org |-> org, projectKey |-> request.projectKey,
             scopes |-> {[scopeType |-> "project", scopeId |-> request.projectKey]}],
            request.limit)
    /\ UNCHANGED <<writes, request, userHits, lexicalRecords, hydrated, result,
                   packRuns, current, touched>>

QueryUser ==
    /\ Answered("user")
    /\ \E org \in FilterOrgs :
        userHits' = Query(points,
            [org |-> org, projectKey |-> NoKey,
             scopes |-> {[scopeType |-> "user", scopeId |-> request.userScopeId]}],
            request.limit)
    /\ UNCHANGED <<writes, request, projectHits, lexicalRecords, hydrated, result,
                   packRuns, current, touched>>

InScope(row) ==
    \/ row.scopeType = "project" /\ row.scopeId = request.projectKey
    \/ row.scopeType = "user" /\ row.scopeId = request.userScopeId

InOrg(row) == request.org # NoOrg => row.org = request.org

(* searchMemory's WHERE and ORDER BY: full text, the phrase, a term or an
   entity; each adds to the score, and the larger id goes first among equals. *)
LexicallyMatches(text) ==
    text.fts > 0 \/ text.phrase \/ text.terms > 0 \/ text.entities > 0

RepositoryScore(text) ==
    8 * text.fts + (IF text.phrase THEN 2 ELSE 0) + text.terms
        + (IF text.entities > 0 THEN 3 ELSE 0)

SearchMemory(table, limit) ==
    LET found == {r \in LiveRows(table) : InScope(r) /\ InOrg(r) /\ LexicallyMatches(r.text)}
        before(r, s) == \/ RepositoryScore(r.text) > RepositoryScore(s.text)
                        \/ /\ RepositoryScore(r.text) = RepositoryScore(s.text)
                           /\ r.id > s.id
    IN  First(limit, SortedBy(found, before))

QueryLexical ==
    /\ Answered("lexical")
    /\ lexicalRecords' = SearchMemory(rows, AtMost(100, request.limit * 4))
    /\ UNCHANGED <<writes, request, projectHits, userHits, hydrated, result,
                   packRuns, current, touched>>

Hits == projectHits \o userHits

(* Mutant: rows of any organization. *)
RowsOfAnyOrg(ids) ==
    Selected([k \in DOMAIN ids |-> rows[ids[k]]], LAMBDA r : Live(r))

(* Mutant: archived rows as well. *)
RowsWithArchived(ids) ==
    Selected([k \in DOMAIN ids |-> rows[ids[k]]], LAMBDA r : r # NoRow /\ InOrg(r))

(* getMemoryRecordsByIds: the rows still there, not archived, of the
   organization, in the order of the ids. It does not look at scopes. *)
RowsByIds(ids) ==
    Selected([k \in DOMAIN ids |-> rows[ids[k]]], LAMBDA r : Live(r) /\ InOrg(r))

Hydrate ==
    /\ pc = "hydrating"
    /\ hydrated' = RowsByIds(HitIds(Hits))
    /\ pc' = "ranking"
    /\ UNCHANGED <<writes, request, waiting, projectHits, userHits, lexicalRecords,
                   result, packRuns, current, touched>>

(* scoreSearchResult, rankCandidates and the slice; nothing found, nothing ranked. *)
Rank ==
    /\ pc = "ranking"
    /\ result' = First(request.limit, Ranked(Hits, hydrated, lexicalRecords))
    /\ pc' = IF request.pack THEN "storing" ELSE "done"
    /\ UNCHANGED <<writes, request, waiting, reads, packRuns, current, touched>>

(* build_context_pack: the pack is built and recorded before it is answered. *)
CreateContextPackRun ==
    /\ pc = "storing"
    /\ LET pack == BuildContextPack(result)
       IN  packRuns' = packRuns \cup
            {[org |-> request.org, projectKey |-> request.projectKey,
              selected |-> pack.selected,
              markdown |-> [s \in SectionNames |-> RenderSection(pack.sections[s])]]}
    /\ pc' = "done"
    /\ UNCHANGED <<writes, request, waiting, reads, result, current, touched>>

FailSearch ==
    /\ pc \in {"querying", "hydrating", "storing"}
    /\ \/ "db" \in Faults
       \/ "vector" \in Faults /\ waiting \cap {"project", "user"} # {}
    /\ pc' = "failed"
    /\ UNCHANGED <<writes, request, waiting, reads, result, packRuns, current, touched>>

-----------------------------------------------------------------------------
(* The writers beside it *)

Write(id) ==
    /\ Searching /\ edits < MaxEdits
    /\ edits' = edits + 1
    /\ touched' = touched \cup {id}
    /\ UNCHANGED <<pc, request, waiting, reads, result, packRuns>>

(* updateMemoryRecord and archiveMemoryRecord: one committed statement. *)
EditRow(id, text) ==
    /\ Live(rows[id])
    /\ rows' = [rows EXCEPT ![id] = [@ EXCEPT !.text = text, !.updatedAt = Today]]
    /\ current' = current \cup {rows'[id]}
    /\ UNCHANGED points
    /\ Write(id)

ArchiveRow(id) ==
    /\ Live(rows[id])
    /\ rows' = [rows EXCEPT ![id] = [@ EXCEPT !.archived = TRUE]]
    /\ UNCHANGED <<points, current>>
    /\ Write(id)

(* deleteByRecordIds and upsert, of a refresh, a delete or a sweep. *)
DeletePoints(id) ==
    /\ \E p \in points : p.record = id
    /\ points' = DeleteByRecordIds(points, {id}, rows[id].org)
    /\ UNCHANGED <<rows, current>>
    /\ Write(id)

UpsertPoints(id) ==
    /\ Live(rows[id])
    /\ \A p \in PointsOf(rows[id]) : Accepts(p)
    /\ points' = Upsert(points, PointsOf(rows[id]))
    /\ UNCHANGED <<rows, current>>
    /\ Write(id)

Next ==
    \/ BeginSearch \/ QueryProject \/ QueryUser \/ QueryLexical
    \/ Hydrate \/ Rank \/ CreateContextPackRun \/ FailSearch
    \/ \E id \in Ids :
        \/ ArchiveRow(id) \/ DeletePoints(id) \/ UpsertPoints(id)
        \/ \E text \in Texts : EditRow(id, text)

Spec == Init /\ [][Next]_vars

-----------------------------------------------------------------------------
(* Properties *)

Answer == IF pc = "done" THEN Elements(result) ELSE {}

(* A search returns rows of the organization it was asked for, even when the
   vector store's filter lets points of other organizations through: the
   hydration is the second line of defence the comment in retrieveMemory
   calls it. Scopes have the filter alone. *)
ReturnsOnlyAsked ==
    \A r \in Answer : InOrg(r) /\ InScope(r)

(* What a search returns was committed and not archived at some moment since
   the search began: stale points bring back neither an archived record nor
   an old version of one, whatever is written between its four reads. *)
ReturnsCommittedRows == Answer \subseteq current

(* A record that nobody wrote and whose points nobody moved during the search
   is found by its vectors, unless the answer, or the hits of its scope, are
   full: points of other records can only take its place by number. *)
HitsOf(row) == IF row.scopeType = "project" THEN projectHits ELSE userHits

FindsIndexed ==
    pc = "done" =>
        \A r \in LiveRows(rows) :
            r.id \notin touched /\ InOrg(r) /\ InScope(r) =>
                \/ r \in Answer
                \/ Len(result) = request.limit
                \/ Len(HitsOf(r)) = request.limit

(* Of two rows of the same kind, the one that is at least as new and that each
   source of the search either found with a better score or found alone is
   returned first, if it is newer, or clearly better found by one source, or else
   has the larger id; and a project's row always before a user's. Fusing ranks
   with scores does not turn a clear order around. *)
MatchScore ==
    [id \in Elements(LexicalIds(lexicalRecords)) |->
        LexicalScore((CHOOSE r \in Elements(lexicalRecords) : r.id = id).text)]

BetterIn(score, a, b) ==
    \/ a \notin DOMAIN score /\ b \notin DOMAIN score
    \/ a \in DOMAIN score /\ (b \in DOMAIN score => score[a] > score[b])

(* Within 0 .. Unit, to which a score is clamped before it counts. *)
ClearlyBetterIn(score, a, b) ==
    /\ a \in DOMAIN score /\ score[a] > 0
    /\ b \in DOMAIN score => score[b] < AtMost(Unit, score[a])

SameKind(a, b) ==
    /\ a.scopeType = b.scopeType
    /\ MetadataScore(a) = MetadataScore(b)

Dominates(a, b) ==
    \/ a.scopeType = "project" /\ b.scopeType = "user"
    \/ /\ SameKind(a, b)
       /\ a.updatedAt >= b.updatedAt
       /\ \A score \in {BestScore(Hits), MatchScore} : BetterIn(score, a.id, b.id)
       /\ \/ a.updatedAt > b.updatedAt
          \/ a.id > b.id
          \/ \E score \in {BestScore(Hits), MatchScore} : ClearlyBetterIn(score, a.id, b.id)

RankedByDominance ==
    pc = "done" =>
        \A b \in Answer : \A a \in FoundRows(hydrated, lexicalRecords) :
            Dominates(a, b) /\ a.id # b.id =>
                \E i, j \in DOMAIN result : result[i] = a /\ result[j] = b /\ i < j

(* A recorded context pack lists the rows of the answer, each once and best
   first, and leaves one out only where its section is full of better ones. *)
PackLosesOnlyOverflow ==
    \A run \in packRuns :
        /\ \A i, j \in DOMAIN run.selected : i < j =>
            \E k, l \in DOMAIN result :
                k < l /\ result[k].id = run.selected[i] /\ result[l].id = run.selected[j]
        /\ \A k \in DOMAIN result :
            result[k].id \notin Elements(run.selected) =>
                LET section == SectionOf(result[k])
                IN  /\ Len(run.markdown[section]) = SectionLimit(section)
                    /\ \A r \in Elements(run.markdown[section]) :
                        \E l \in 1 .. k - 1 : result[l] = r
=============================================================================
