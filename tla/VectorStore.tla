---------------------------- MODULE VectorStore ----------------------------
(***************************************************************************)
(* The VectorIndex port (vector/vector-index.ts) as its two adapters       *)
(* implement it, vector/qdrant-index.ts and vector/pgvector-index.ts: what *)
(* one call reads from, or does to, the set of points. A point is          *)
(* [record, chunk, org, scopeType, scopeId, projectKey, kind, title,       *)
(* score], its score being its similarity to the query. The store itself   *)
(* is external; the adapters send it one request (pgvector: one            *)
(* transaction) per call, and none when a check of the arguments fails.    *)
(***************************************************************************)
EXTENDS Integers, Sequences, FiniteSets, Sorting

CONSTANTS
    NoOrg, NoKey, NoText,   \* an empty organization, a null key, a null text
    Blank                   \* a string of white space

ScopeTypes == {"project", "user"}
MemoryTypes == {"decision", "summary", "fact"}

-----------------------------------------------------------------------------
(* Points *)

(* buildVectorPoint: a chunk of a row with what a filter may ask for. Texts
   are trimmed; a title that is blank then becomes null. *)
BuildVectorPoint(row, k) ==
    [record |-> row.id, chunk |-> 10 * row.text.version + k, org |-> row.org,
     scopeType |-> row.scopeType, scopeId |-> row.scopeId,
     projectKey |-> IF row.scopeType = "project" THEN row.scopeId ELSE NoKey,
     kind |-> row.memoryType,
     title |-> IF row.text.title = Blank THEN NoText ELSE row.text.title,
     score |-> row.text.chunks[k]]

(* What upsert requires of every point before it sends any. *)
Accepts(point) ==
    /\ point.org \notin {NoOrg, Blank}
    /\ point.scopeType \in ScopeTypes
    /\ point.scopeType = "user" \/ point.projectKey = NoKey => point.scopeId # Blank
    /\ point.projectKey # Blank
    /\ point.kind \in MemoryTypes
    /\ point.title # Blank

-----------------------------------------------------------------------------
(* Calls *)

(* buildQdrantMust, and the WHERE clause that mirrors it: the organization
   unless it is empty; of a project scope the project key where one is given,
   else the scope id. Every clause must hold. *)
Matches(point, filter) ==
    /\ filter.org # NoOrg => point.org = filter.org
    /\ \A scope \in filter.scopes :
        /\ point.scopeType = scope.scopeType
        /\ IF scope.scopeType = "project" /\ filter.projectKey # NoKey
           THEN point.projectKey = filter.projectKey
           ELSE point.scopeId = scope.scopeId

(* A set of positions in ascending order, and SelectSeq by way of it, in which
   what is selected can be proved. *)
InOrder(S) == SortedBy(S, LAMBDA i, j : i < j)

Selected(seq, Passes(_)) ==
    LET places == InOrder({k \in DOMAIN seq : Passes(seq[k])})
    IN  [k \in DOMAIN places |-> seq[places[k]]]

First(n, seq) == SubSeq(seq, 1, IF n < Len(seq) THEN n ELSE Len(seq))

Elements(seq) == {seq[i] : i \in DOMAIN seq}

(* query: the limit most similar matching points, best first. Equally similar
   points come in no promised order; the model fixes one. *)
Query(points, filter, limit) ==
    LET matching == {p \in points : Matches(p, filter)}
        before(p, q) == \/ p.score > q.score
                        \/ /\ p.score = q.score
                           /\ \/ p.record < q.record
                              \/ p.record = q.record /\ p.chunk < q.chunk
    IN  First(limit, SortedBy(matching, before))

(* upsert: a point replaces the one with its id. *)
Upsert(points, new) ==
    {p \in points : \A q \in new : <<p.record, p.chunk>> # <<q.record, q.chunk>>} \cup new

(* deleteByRecordIds: within the organization, if one is given. *)
DeleteByRecordIds(points, records, org) ==
    {p \in points : \/ p.record \notin records
                    \/ org # NoOrg /\ p.org # org}
=============================================================================
